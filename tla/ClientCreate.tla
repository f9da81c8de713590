---------------------------- MODULE ClientCreate ----------------------------
(***************************************************************************)
(* The CreateClient message handler (IbcClientMsgService::create_client,  *)
(* src/core/ibc/src/grpc.rs) running against the client sub-machine of    *)
(* the host context (IbcImpl, src/core/ibc/src/lib.rs).                   *)
(*                                                                         *)
(* Several RPC tasks run create_client concurrently.  Each takes the      *)
(* context's std RwLock for writing, reads client_counter, builds the id  *)
(* (client type, counter), asks the host for its pending consensus state  *)
(* (host_timestamp) and then calls store_client_result, which stores the  *)
(* client type, client state and consensus state through the adapter (one *)
(* adapter write lock per record, each of which may fail), increments the *)
(* counter and records the update time/height.  A panic inside the write  *)
(* section poisons the RwLock; `.write().unwrap()` then panics for every  *)
(* later request.  The node around the IBC core advances the adapter's    *)
(* height and seeds/prunes the host consensus-state cache.                *)
(***************************************************************************)
EXTENDS Naturals, Sequences, Functions

CONSTANTS Procs,        \* concurrent create_client RPC tasks
          ClientTypes,  \* client types carried by incoming messages
          NoProc,       \* the RwLock is free
          NoId,         \* a task holds no client id
          MaxRequests,  \* bound on create_client requests received
          MaxHeight,    \* bound on the adapter's current height
          StoreFaults   \* TRUE: an adapter write may return Err

ASSUME StoreFaults \in BOOLEAN /\ MaxRequests \in Nat /\ MaxHeight \in Nat

VARIABLES
    ctxLock,          \* holder of ctx.write() (GrpcService.ctx: RwLock<Ctx>)
    poisoned,         \* the RwLock was released by a panicking holder
    clientCounter,    \* IbcImpl.client_counter
    clientTypeStore,  \* ids with a stored client type    (adapter)
    clientStateStore, \* ids with a stored client state   (adapter)
    consensusStore,   \* ids with a stored consensus state (adapter)
    updateIndex,      \* keys of client_processed_times / _heights
    hostHeight,       \* adapter.get_current_height()
    hostCache,        \* keys of IbcImpl.consensus_states
    pc,               \* per task: the next step of create_client
    cur,              \* per task: the client id being created
    resp,             \* per task: the outcome of its last request
    requests,         \* requests received so far
    okIds             \* ids returned to callers with Ok, in order

vars == <<ctxLock, poisoned, clientCounter, clientTypeStore, clientStateStore,
          consensusStore, updateIndex, hostHeight, hostCache, pc, cur, resp,
          requests, okIds>>

storeVars == <<clientTypeStore, clientStateStore, consensusStore>>
hostVars  == <<hostHeight, hostCache>>

Ids == ClientTypes \X (0..MaxRequests)
Heights == 0..MaxHeight
Steps == {"idle", "store_type", "store_state", "store_consensus"}
Outcomes == [kind : {"none", "ok", "store_err", "bad_msg", "panic", "poisoned"},
             hostReady : BOOLEAN]

NoResp == [kind |-> "none", hostReady |-> FALSE]

-----------------------------------------------------------------------------
(* Reads of the host context.                                              *)

\* ClientReader::host_height: Height::new(0, h).unwrap() is Err for h = 0.
\* pending_host_consensus_state looks up host_height().increment() in the
\* volatile consensus_states map; host_timestamp expects it to be there.
HostReady ==
    /\ hostHeight # 0
    /\ hostHeight + 1 \in hostCache

-----------------------------------------------------------------------------
Init ==
    /\ ctxLock = NoProc
    /\ poisoned = FALSE
    /\ clientCounter = 0
    /\ clientTypeStore = {}
    /\ clientStateStore = {}
    /\ consensusStore = {}
    /\ updateIndex = {}
    /\ hostHeight = 0
    /\ hostCache = {}
    /\ pc = [p \in Procs |-> "idle"]
    /\ cur = [p \in Procs |-> NoId]
    /\ resp = [p \in Procs |-> NoResp]
    /\ requests = 0
    /\ okIds = <<>>

\* A request arrives at an idle task.
Receive(p) ==
    /\ pc[p] = "idle"
    /\ requests < MaxRequests
    /\ requests' = requests + 1

\* The task ends its request with outcome k, releasing the lock if it holds
\* it (the write guard is dropped on return and on unwind).
Respond(p, k) ==
    /\ pc' = [pc EXCEPT ![p] = "idle"]
    /\ cur' = [cur EXCEPT ![p] = NoId]
    /\ resp' = [resp EXCEPT ![p] = [kind |-> k, hostReady |-> HostReady]]

\* MsgCreateAnyClient::try_from(raw).unwrap() panics on a malformed message,
\* before the lock is taken.
CreateClientMalformed(p) ==
    /\ Receive(p)
    /\ Respond(p, "bad_msg")
    /\ UNCHANGED <<ctxLock, poisoned, clientCounter, storeVars, updateIndex,
                   hostVars, okIds>>

\* self.ctx.write().unwrap() on a poisoned lock panics.
CreateClientPoisoned(p) ==
    /\ Receive(p)
    /\ ctxLock = NoProc
    /\ poisoned
    /\ Respond(p, "poisoned")
    /\ UNCHANGED <<ctxLock, poisoned, clientCounter, storeVars, updateIndex,
                   hostVars, okIds>>

\* Inside the write section, ctx.host_timestamp() finds no pending host
\* consensus state (or host_height() unwraps height 0) and panics: the guard
\* is dropped while panicking, which poisons the lock.
CreateClientPanic(p) ==
    /\ Receive(p)
    /\ ctxLock = NoProc
    /\ ~poisoned
    /\ ~HostReady
    /\ poisoned' = TRUE
    /\ Respond(p, "panic")
    /\ UNCHANGED <<ctxLock, clientCounter, storeVars, updateIndex, hostVars,
                   okIds>>

\* Variant: the counter is read without holding the context lock.
CreateClientBeginUnlocked(p, t) ==
    /\ Receive(p)
    /\ ~poisoned
    /\ HostReady
    /\ cur' = [cur EXCEPT ![p] = <<t, clientCounter>>]
    /\ pc' = [pc EXCEPT ![p] = "store_type"]
    /\ UNCHANGED <<ctxLock, poisoned, clientCounter, storeVars, updateIndex,
                   hostVars, resp, okIds>>

\* Variant: increase_client_counter runs as soon as the id is allocated,
\* before the three fallible stores.
CreateClientBeginCountingEarly(p, t) ==
    /\ Receive(p)
    /\ ctxLock = NoProc
    /\ ~poisoned
    /\ HostReady
    /\ ctxLock' = p
    /\ cur' = [cur EXCEPT ![p] = <<t, clientCounter>>]
    /\ pc' = [pc EXCEPT ![p] = "store_type"]
    /\ clientCounter' = clientCounter + 1
    /\ UNCHANGED <<poisoned, storeVars, updateIndex, hostVars, resp, okIds>>

\* The lock is taken, the id (t, client_counter) is built and the host has a
\* pending consensus state: the task goes on to store_client_result.
CreateClientBegin(p, t) ==
    /\ Receive(p)
    /\ ctxLock = NoProc
    /\ ~poisoned
    /\ HostReady
    /\ ctxLock' = p
    /\ cur' = [cur EXCEPT ![p] = <<t, clientCounter>>]
    /\ pc' = [pc EXCEPT ![p] = "store_type"]
    /\ UNCHANGED <<poisoned, clientCounter, storeVars, updateIndex, hostVars,
                   resp, okIds>>

\* An adapter write of store_client_result returns Err: the `?` aborts the
\* rest of the result and the handler answers invalid_argument.  Records
\* already written stay in the store; the counter is not incremented.
StoreFails(p) ==
    /\ StoreFaults
    /\ pc[p] \in {"store_type", "store_state", "store_consensus"}
    /\ ctxLock' = NoProc
    /\ Respond(p, "store_err")
    /\ UNCHANGED <<poisoned, clientCounter, storeVars, updateIndex, hostVars,
                   requests, okIds>>

StoreClientType(p) ==
    /\ pc[p] = "store_type"
    /\ clientTypeStore' = clientTypeStore \cup {cur[p]}
    /\ pc' = [pc EXCEPT ![p] = "store_state"]
    /\ UNCHANGED <<ctxLock, poisoned, clientCounter, clientStateStore,
                   consensusStore, updateIndex, hostVars, cur, resp, requests,
                   okIds>>

StoreClientState(p) ==
    /\ pc[p] = "store_state"
    /\ clientStateStore' = clientStateStore \cup {cur[p]}
    /\ pc' = [pc EXCEPT ![p] = "store_consensus"]
    /\ UNCHANGED <<ctxLock, poisoned, clientCounter, clientTypeStore,
                   consensusStore, updateIndex, hostVars, cur, resp, requests,
                   okIds>>

\* Variant: the counter is stepped by the keeper and again by the handler.
IncreaseClientCounterTwice == clientCounter' = clientCounter + 2

\* increase_client_counter.
IncreaseClientCounter == clientCounter' = clientCounter + 1

\* store_update_time and store_update_height: inserts into the volatile
\* client_processed_times / client_processed_heights maps, never Err.
StoreUpdateTimeAndHeight(id) == updateIndex' = updateIndex \cup {id}

\* The last adapter write succeeds; then increase_client_counter,
\* store_update_time and store_update_height (volatile maps, never Err),
\* and the handler returns Ok, dropping the write guard.
StoreConsensusState(p) ==
    /\ pc[p] = "store_consensus"
    /\ consensusStore' = consensusStore \cup {cur[p]}
    /\ IncreaseClientCounter
    /\ StoreUpdateTimeAndHeight(cur[p])
    /\ okIds' = Append(okIds, cur[p])
    /\ ctxLock' = NoProc
    /\ Respond(p, "ok")
    /\ UNCHANGED <<poisoned, clientTypeStore, clientStateStore, hostVars,
                   requests>>

-----------------------------------------------------------------------------
(* The node around the IBC core (not under src/): it commits blocks and     *)
(* keeps the host consensus-state cache, bounded and pruned by itself.      *)

AdvanceHeight ==
    /\ hostHeight < MaxHeight
    /\ hostHeight' = hostHeight + 1
    /\ UNCHANGED <<ctxLock, poisoned, clientCounter, storeVars, updateIndex,
                   hostCache, pc, cur, resp, requests, okIds>>

SeedHostConsensusState(h) ==
    /\ h \notin hostCache
    /\ hostCache' = hostCache \cup {h}
    /\ UNCHANGED <<ctxLock, poisoned, clientCounter, storeVars, updateIndex,
                   hostHeight, pc, cur, resp, requests, okIds>>

PruneHostConsensusState(h) ==
    /\ h \in hostCache
    /\ hostCache' = hostCache \ {h}
    /\ UNCHANGED <<ctxLock, poisoned, clientCounter, storeVars, updateIndex,
                   hostHeight, pc, cur, resp, requests, okIds>>

-----------------------------------------------------------------------------
Next ==
    \/ \E p \in Procs :
        \/ CreateClientMalformed(p)
        \/ CreateClientPoisoned(p)
        \/ CreateClientPanic(p)
        \/ \E t \in ClientTypes : CreateClientBegin(p, t)
        \/ StoreFails(p)
        \/ StoreClientType(p)
        \/ StoreClientState(p)
        \/ StoreConsensusState(p)
    \/ AdvanceHeight
    \/ \E h \in 1..(MaxHeight + 1) :
        \/ SeedHostConsensusState(h)
        \/ PruneHostConsensusState(h)

Spec == Init /\ [][Next]_vars

-----------------------------------------------------------------------------
(* Properties                                                              *)

TypeOK ==
    /\ ctxLock \in Procs \cup {NoProc}
    /\ poisoned \in BOOLEAN
    /\ clientCounter \in 0..MaxRequests
    /\ clientTypeStore \subseteq Ids
    /\ clientStateStore \subseteq Ids
    /\ consensusStore \subseteq Ids
    /\ updateIndex \subseteq Ids
    /\ hostHeight \in Heights
    /\ hostCache \subseteq 1..(MaxHeight + 1)
    /\ pc \in [Procs -> Steps]
    /\ cur \in [Procs -> Ids \cup {NoId}]
    /\ resp \in [Procs -> Outcomes]
    /\ requests \in 0..MaxRequests
    /\ okIds \in Seq(Ids)

\* No two CreateClient calls that returned Ok were given the same client id,
\* even when tasks run create_client concurrently (spec.md section 8).
IssuedIdsUnique == IsInjective(okIds)

\* A CreateClient call panics inside the write section only when the host
\* itself has no pending consensus state (or is at height 0) at that call:
\* one bad moment of the host must not make later calls fail.
PanicsOnlyOnUnreadyHost ==
    \A p \in Procs : resp[p].kind \in {"panic", "poisoned"} => ~resp[p].hostReady

\* Client creation refines the atomic registry of ClientRegistry: the
\* clients whose three records are stored and whose counter value has been
\* consumed are exactly those an atomic allocate-and-increment would have
\* registered.
CompleteClients ==
    {id \in clientTypeStore \cap clientStateStore \cap consensusStore :
        id[2] < clientCounter}

Registry == INSTANCE ClientRegistry
    WITH counter <- clientCounter, clients <- CompleteClients

RegistryRefinement == Registry!Spec

=============================================================================
