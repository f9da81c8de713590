--------------------------- MODULE ConnectionStore ---------------------------
(***************************************************************************)
(* The connection sub-machine of the host context (ConnectionKeeper and    *)
(* ConnectionReader for IbcImpl, src/core/ibc/src/lib.rs) and the          *)
(* connection queries (src/core/ibc/src/grpc.rs).                          *)
(*                                                                         *)
(* Handshake messages are delivered one at a time by the ibc crate's       *)
(* handlers, which are not in this repository: ConnOpenInit/ConnOpenTry    *)
(* take the id connection-{connection_counter()} and apply the result as   *)
(* store_connection, increase_connection_counter, store_connection_to_     *)
(* client; ConnOpenAck/ConnOpenConfirm store the end again in state Open.  *)
(* Adapter writes may fail (StoreFaults) and ClientConnections may meet a  *)
(* read error (ReadFaults).                                                 *)
(***************************************************************************)
EXTENDS Naturals, Sequences, Functions

CONSTANTS Clients,      \* client ids connections are built on
          NoClient,     \* a connection id not yet stored
          MaxConns,     \* connection ids connection-0 .. connection-(MaxConns-1)
          StoreFaults,  \* TRUE: an adapter write may return Err
          ReadFaults    \* TRUE: an adapter read may return Err

ASSUME StoreFaults \in BOOLEAN /\ ReadFaults \in BOOLEAN /\ MaxConns \in Nat

VARIABLES
    connCounter,   \* IbcImpl.conn_counter
    connState,     \* connections/{id}: the stored end's state
    connClient,    \* connections/{id}: the end's client id
    clientConns,   \* clients/{client}/connections: the reverse index
    hs,            \* the handshake being applied by the writer
    ccResp,        \* the last ClientConnections response, and the ends stored then
    cq             \* the Connections query task: its phase and the paths left

vars == <<connCounter, connState, connClient, clientConns, hs, ccResp, cq>>

ConnIds == 0..(MaxConns - 1)
States == {"none", "init", "tryopen", "open"}
Idle == [step |-> "idle", id |-> 0, client |-> NoClient]
NoResp == [ok |-> FALSE, settled |-> FALSE, client |-> NoClient, ids |-> {},
           held |-> {}]

\* The connection ends stored for client cl.
EndsOf(cl) == {i \in ConnIds : connState[i] # "none" /\ connClient[i] = cl}

-----------------------------------------------------------------------------
Init ==
    /\ connCounter = 0
    /\ connState = [i \in ConnIds |-> "none"]
    /\ connClient = [i \in ConnIds |-> NoClient]
    /\ clientConns = [c \in Clients |-> {}]
    /\ hs = Idle
    /\ ccResp = NoResp
    /\ cq = [phase |-> "idle", todo |-> {}]

\* store_connection: the end (state, client) is written at connections/{id}.
StoreConnection(id, st, cl) ==
    /\ connState' = [connState EXCEPT ![id] = st]
    /\ connClient' = [connClient EXCEPT ![id] = cl]

\* Variant: the counter is stepped twice per generated id.
IncreaseConnectionCounterTwice == connCounter' = connCounter + 2

\* increase_connection_counter.
IncreaseConnectionCounter == connCounter' = connCounter + 1

\* Variant: the new id is taken as the last one issued (off by one).
ConnOpenGeneratedReusingLast(cl, st) ==
    LET id == IF connCounter > 0 THEN connCounter - 1 ELSE 0 IN
    /\ hs.step = "idle"
    /\ connCounter < MaxConns
    /\ StoreConnection(id, st, cl)
    /\ IncreaseConnectionCounter
    /\ hs' = [step |-> "to_client", id |-> id, client |-> cl]
    /\ UNCHANGED <<clientConns, ccResp, cq>>

\* ConnOpenInit (state Init) or ConnOpenTry (state TryOpen) on client cl:
\* the new id is connection_counter(); store_connection succeeds and
\* increase_connection_counter follows.  (When store_connection returns
\* Err the handler's `?` aborts before the counter is touched: a stutter.)
ConnOpenGenerated(cl, st) ==
    LET id == connCounter IN
    /\ hs.step = "idle"
    /\ connCounter < MaxConns
    /\ StoreConnection(id, st, cl)
    /\ IncreaseConnectionCounter
    /\ hs' = [step |-> "to_client", id |-> id, client |-> cl]
    /\ UNCHANGED <<clientConns, ccResp, cq>>

ConnOpenInit(cl) == ConnOpenGenerated(cl, "init")

ConnOpenTry(cl) == ConnOpenGenerated(cl, "tryopen")

\* Variant: the index entry is built from the counter as it is after
\* increase_connection_counter.
StoreConnectionToClientCounterId ==
    /\ hs.step = "to_client"
    /\ clientConns' = [clientConns EXCEPT ![hs.client] = @ \cup {connCounter}]
    /\ hs' = Idle
    /\ UNCHANGED <<connCounter, connState, connClient, ccResp, cq>>

\* Variant: a failed store_connection_to_client rolls the handshake back by
\* removing the end it stored.
StoreConnectionToClientRollingBack ==
    /\ hs.step = "to_client"
    /\ \/ /\ clientConns' = [clientConns EXCEPT ![hs.client] = @ \cup {hs.id}]
          /\ UNCHANGED <<connState, connClient>>
       \/ /\ StoreFaults
          /\ StoreConnection(hs.id, "none", NoClient)
          /\ UNCHANGED <<clientConns>>
    /\ hs' = Idle
    /\ UNCHANGED <<connCounter, ccResp, cq>>

\* store_connection_to_client: the id joins the client's connection list
\* and the handshake returns Ok; or the write fails after the counter has
\* been increased.
StoreConnectionToClient ==
    /\ hs.step = "to_client"
    /\ \/ /\ clientConns' = [clientConns EXCEPT ![hs.client] = @ \cup {hs.id}]
       \/ /\ StoreFaults
          /\ UNCHANGED <<clientConns>>
    /\ hs' = Idle
    /\ UNCHANGED <<connCounter, connState, connClient, ccResp, cq>>

\* ConnOpenAck (from Init) or ConnOpenConfirm (from TryOpen): store_connection
\* with the end in state Open (a failed write changes nothing).
ConnOpenOpen(id) ==
    /\ hs.step = "idle"
    /\ connState[id] \in {"init", "tryopen"}
    /\ StoreConnection(id, "open", connClient[id])
    /\ UNCHANGED <<connCounter, clientConns, hs, ccResp, cq>>

\* client_connections: get_connection_ids(...).unwrap_or_default() answers
\* an empty list, with Ok, when the read fails.  The query takes no lock,
\* so it may run while a handshake is between its writes.
ClientConnections(cl) ==
    /\ \E ids \in {clientConns[cl], IF ReadFaults THEN {} ELSE clientConns[cl]} :
          ccResp' = [ok |-> TRUE, settled |-> hs.step = "idle", client |-> cl,
                     ids |-> ids, held |-> EndsOf(cl)]
    /\ UNCHANGED <<connCounter, connState, connClient, clientConns, hs, cq>>

connVars == <<connCounter, connState, connClient, clientConns, hs, ccResp>>

\* connections: get_paths_by_prefix("connections") lists the stored ends.
\* (A scan error answers Status::internal and changes nothing.)  The query
\* holds no lock, so the keepers may run between the scan and the fetches.
ConnectionsScan ==
    /\ cq.phase # "fetching"
    /\ cq' = [phase |-> "fetching",
              todo |-> {i \in ConnIds : connState[i] # "none"}]
    /\ UNCHANGED connVars

\* One get_connection_end(Pending, path) of the loop: a read error ends the
\* call with data_loss; Ok(None) reaches connection_end.unwrap() and panics.
ConnectionsFetch(i) ==
    /\ cq.phase = "fetching"
    /\ i \in cq.todo
    /\ \E ok \in IF ReadFaults THEN BOOLEAN ELSE {TRUE} :
          cq' = CASE ~ok -> [phase |-> "idle", todo |-> {}]
                  [] connState[i] = "none" -> [phase |-> "panic", todo |-> {}]
                  [] OTHER -> [cq EXCEPT !.todo = @ \ {i}]
    /\ UNCHANGED connVars

\* Every path fetched: the identified connections are returned.
ConnectionsRespond ==
    /\ cq.phase = "fetching"
    /\ cq.todo = {}
    /\ cq' = [phase |-> "done", todo |-> {}]
    /\ UNCHANGED connVars

-----------------------------------------------------------------------------
Next ==
    \/ \E cl \in Clients : ConnOpenInit(cl) \/ ConnOpenTry(cl)
    \/ StoreConnectionToClient
    \/ \E id \in ConnIds : ConnOpenOpen(id)
    \/ \E cl \in Clients : ClientConnections(cl)
    \/ ConnectionsScan
    \/ \E i \in ConnIds : ConnectionsFetch(i)
    \/ ConnectionsRespond

Spec == Init /\ [][Next]_vars

-----------------------------------------------------------------------------
(* Properties                                                              *)

TypeOK ==
    /\ connCounter \in 0..MaxConns
    /\ connState \in [ConnIds -> States]
    /\ connClient \in [ConnIds -> Clients \cup {NoClient}]
    /\ clientConns \in [Clients -> SUBSET ConnIds]
    /\ hs \in {Idle} \cup [step : {"to_client"}, id : ConnIds, client : Clients]
    /\ ccResp \in [ok : BOOLEAN, settled : BOOLEAN, client : Clients \cup {NoClient},
                  ids : SUBSET ConnIds, held : SUBSET ConnIds]
    /\ cq \in [phase : {"idle", "fetching", "done", "panic"}, todo : SUBSET ConnIds]

\* The handshake keepers implement the connection lifecycle of
\* ConnectionLifecycle: each increase of connection_counter comes with a new
\* end stored under the counter's old value, no end is overwritten, moved
\* to another client or sent back from Open, and no step (a failed
\* store_connection_to_client included) deletes one.
Lifecycle == INSTANCE ConnectionLifecycle
    WITH Ids <- ConnIds, counter <- connCounter, endState <- connState,
         endClient <- connClient

ConnectionRefinement == Lifecycle!Spec

\* Every connection id in a client's connection index names a stored
\* connection end of that client: store_connection runs before
\* store_connection_to_client, and no later write moves an end to another
\* client.
IndexedEndsExist ==
    \A cl \in Clients : \A i \in clientConns[cl] :
        connState[i] # "none" /\ connClient[i] = cl

\* A ClientConnections answer that is Ok, given while no handshake is between
\* its writes, lists exactly the connection ends stored for that client: a
\* store error is reported, not turned into an empty list (spec.md section
\* 7), and a handshake's writes are not left half applied.
ClientConnectionsExact ==
    ccResp.ok /\ ccResp.settled => ccResp.ids = ccResp.held

\* The Connections query never panics: every path its scan returned still
\* has a connection end when the loop fetches it (the unwrap in
\* connections), because no handshake step, failed ones included, removes
\* a stored end.
ConnectionsNeverPanic == cq.phase # "panic"

=============================================================================
