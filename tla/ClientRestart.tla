---------------------------- MODULE ClientRestart ----------------------------
(***************************************************************************)
(* ClientCreate with restarts of the node.  IbcImpl keeps client_counter,  *)
(* client_processed_times/_heights and the host consensus-state cache in   *)
(* memory (src/core/ibc/src/lib.rs, struct IbcImpl); increase_client_      *)
(* counter never writes the counter through the adapter.  A restart keeps  *)
(* the adapter's records and height, loses every in-flight request, the    *)
(* RwLock (and its poison) and the volatile maps, and builds a new context *)
(* whose counter is whatever its constructor (not in this repository)      *)
(* computes: any value up to the one before the restart.                   *)
(***************************************************************************)
EXTENDS ClientCreate

CONSTANTS MaxRestarts  \* bound on restarts of the node

VARIABLES restarts     \* restarts so far

rvars == <<vars, restarts>>

Restart ==
    /\ restarts < MaxRestarts
    /\ restarts' = restarts + 1
    /\ ctxLock' = NoProc
    /\ poisoned' = FALSE
    /\ clientCounter' \in 0..clientCounter
    /\ updateIndex' = {}
    /\ hostCache' = {}
    /\ pc' = [p \in Procs |-> "idle"]
    /\ cur' = [p \in Procs |-> NoId]
    /\ UNCHANGED <<storeVars, hostHeight, resp, requests, okIds>>

RInit == Init /\ restarts = 0

RNext == (Next /\ UNCHANGED restarts) \/ Restart

RSpec == RInit /\ [][RNext]_rvars

=============================================================================
