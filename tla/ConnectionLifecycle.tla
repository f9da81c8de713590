------------------------- MODULE ConnectionLifecycle -------------------------
(***************************************************************************)
(* What the connection sub-machine promises (spec.md sections 3 and 4.4):  *)
(* a handshake's first step stores a new end, in state Init or TryOpen,    *)
(* under the current value of the connection counter and increments the    *)
(* counter by one; a later step moves an end to Open for good.  Ends are    *)
(* never deleted, never regress, and keep the client they were opened on.  *)
(***************************************************************************)
EXTENDS Naturals

CONSTANTS Ids,       \* connection ids, connection-0 .. connection-(n-1)
          Clients,   \* client ids
          NoClient   \* the client of an id with no end

VARIABLES counter,   \* the connection counter
          endState,  \* id -> "none", "init", "tryopen" or "open"
          endClient  \* id -> the client the end was opened on

vars == <<counter, endState, endClient>>

Init ==
    /\ counter = 0
    /\ endState = [i \in Ids |-> "none"]
    /\ endClient = [i \in Ids |-> NoClient]

\* ConnOpenInit or ConnOpenTry on client cl, as one atomic step.
Open(cl, st) ==
    /\ counter \in Ids
    /\ endState[counter] = "none"
    /\ endState' = [endState EXCEPT ![counter] = st]
    /\ endClient' = [endClient EXCEPT ![counter] = cl]
    /\ counter' = counter + 1

\* ConnOpenAck or ConnOpenConfirm.
Advance(i) ==
    /\ endState[i] \in {"init", "tryopen"}
    /\ endState' = [endState EXCEPT ![i] = "open"]
    /\ UNCHANGED <<counter, endClient>>

Next ==
    \/ \E cl \in Clients, st \in {"init", "tryopen"} : Open(cl, st)
    \/ \E i \in Ids : Advance(i)

Spec == Init /\ [][Next]_vars

=============================================================================
