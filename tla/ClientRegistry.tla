--------------------------- MODULE ClientRegistry ---------------------------
(***************************************************************************)
(* What client creation promises (spec.md sections 3, 4.3 and 8): each    *)
(* successful creation registers the client (type, counter) under the     *)
(* current value of one global counter and increments the counter by      *)
(* exactly one, atomically; an identifier is never registered twice.      *)
(***************************************************************************)
EXTENDS Naturals

CONSTANTS ClientTypes

VARIABLES counter,   \* the global client counter
          clients    \* the set of registered client identifiers

vars == <<counter, clients>>

Ids == ClientTypes \X Nat

Init ==
    /\ counter = 0
    /\ clients = {}

\* One CreateClient of type t, seen as a single atomic step.
Create(t) ==
    /\ counter' = counter + 1
    /\ clients' = clients \cup {<<t, counter>>}

Next == \E t \in ClientTypes : Create(t)

Spec == Init /\ [][Next]_vars

=============================================================================
