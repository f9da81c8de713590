# TLA+ models of the axon IBC core

These modules model the IBC host of `src/core/ibc`.
- `IbcImpl` (`src/core/ibc/src/lib.rs`) implements the ibc crate's client, connection, channel and port reader/keeper traits over a commitment-store adapter.
- `GrpcService` (`src/core/ibc/src/grpc.rs`) serves the gRPC query services and the client message service.

The benchmark `src/core/executor/benches/bench.rs` has no protocol state and is not modelled.

## The system

| Part | State | Operations | Interacts with |
|---|---|---|---|
| Host context `IbcImpl` | Counters `client_counter`, `conn_counter` and `channel_counter`, all in memory. The volatile maps `client_processed_times`/`_heights` and `consensus_states` (the host consensus-state cache). The adapter behind an `RwLock`. | Keeper writes: `store_client_*`, `store_connection*`, `store_packet_*`, `delete_packet_*`, `store_next_sequence_*` and the `increase_*_counter`s. Reader lookups. | Wrapped in `Arc<RwLock<Ctx>>` by the message service. Its adapter is shared with the query services. |
| Message service `create_client` | None of its own. | Decode the message. Take the context write lock. Allocate `ClientId(type, client_counter)`. Read `host_timestamp`/`host_height`. Apply `store_client_result`. | Serialised by the context `RwLock`. A panic under the guard poisons the lock. |
| Query services | None. | Prefix scans followed by per-path fetches at `Height::Pending`: `client_states`, `connections`, `channels`, `packet_commitments`, `packet_acknowledgements`. Point reads: `client_connections`, `unreceived_packets`, `unreceived_acks`. | They read the adapter directly, with no context lock, so their reads interleave with keeper writes. |
| Router / port map | `port_to_module_map`. | `get_route_mut` and `has_route` are `todo!()`. | Not reachable. |

The hard behaviours are these:
- concurrent writers racing for a counter;
- a panic that poisons the writer lock;
- multi-write results with no rollback;
- counters that do not survive a restart;
- queries that scan and then fetch while writes land in between;
- read errors silently turned into defaults;
- unimplemented readers reached by real handlers.

## Modules

| Module | Models | Correspondence |
|---|---|---|
| `ClientRegistry` | The abstract promise of client creation (spec.md sections 3 and 8). | `counter` and the set `clients`. One atomic `Create(t)`. |
| `ConnectionLifecycle` | The abstract connection lifecycle (spec.md section 4.4). | `counter`, `endState` and `endClient`. `Open(cl, st)` stores a fresh end under the counter and increments it. `Advance(i)` moves an end to Open. `ConnectionStore` maps `connCounter`, `connState` and `connClient` onto them. |
| `ClientCreate` | `create_client` together with the client keeper. | See below. |
| `ClientRestart` | `ClientCreate` plus node restarts. | See below. |
| `PacketStore` | The packet keepers and the `PacketCommitments`, `PacketAcknowledgements` and `UnreceivedAcks` queries. | See below. |
| `UnreceivedQuery` | `unreceived_packets` and `unreceived_acks` over `PacketStore`. | See below. |
| `ConnectionStore` | The connection keeper and the `ClientConnections` and `Connections` queries. | See below. |

**ClientCreate.**
- Each `Procs` element is a tonic task. `pc` is its step inside `create_client`.
- `ctxLock` and `poisoned` are the `RwLock`.
- `clientTypeStore`, `clientStateStore` and `consensusStore` are the adapter records.
- `updateIndex` is the volatile update maps.
- `hostHeight` and `hostCache` are the adapter height and `consensus_states`.
- Actions:
  - `CreateClientMalformed`: the `try_from().unwrap()` panic.
  - `CreateClientPoisoned`: `write().unwrap()` on a poisoned lock.
  - `CreateClientPanic`: a `host_timestamp`/`host_height` panic under the guard.
  - `CreateClientBegin`: the lock is taken and the id is read.
  - `StoreClientType`, `StoreClientState`, `StoreConsensusState`: the three fallible writes. The last one also runs `IncreaseClientCounter` and `StoreUpdateTimeAndHeight`, then releases the lock.
  - `StoreFails`: the `?` on an `Err`.
- `AdvanceHeight`, `SeedHostConsensusState` and `PruneHostConsensusState` are the surrounding node, which is not in this repository.

**ClientRestart.**
- `Restart` keeps the adapter and clears everything `IbcImpl` holds in memory.
- The rebuilt counter is any value up to the old one, because its constructor is not in this repository.

**PacketStore.**
- Keys are `<<channel, sequence>>` on one port.
- A value is `"none"` (absent), `"empty"` (zero bytes, the deletion tombstone) or `"data"`.
- `DeleteTombstones` selects what the adapter's `delete_packet_commitment` does. The adapter is outside this repository, so both choices are checked.
- Query tasks (`Queries`) model the two phases of a scanning query:
  - `QueryStart`: the prefix scan and the channel filter.
  - `QueryFetchCommitment` and `QueryFetchAck`: one fetch each, with the `unwrap`, the `if let Some` and the empty-data check.
  - `QueryRespond`: the answer.
- `acked` is a ghost variable: the packets whose acknowledgement the host has processed.

**UnreceivedQuery.**
- `UnreceivedPacketsQuery` and `UnreceivedAcksQuery` each answer one sequence. The acks query is asked only about sent sequences, as a relayer does.
- With `ReadFaults`, a read error counts as None, as `.ok().flatten()` does: "no receipt" for packets and "no commitment" (acknowledged) for acks.
- `seen` records the sequences an answer reported settled (received, or acknowledged).

**ConnectionStore.**
- `ConnOpenInit` and `ConnOpenTry` allocate `connection-{connection_counter}`. They apply `store_connection` and `increase_connection_counter`. `StoreConnectionToClient` then finishes, or fails after the counter has moved.
- `ConnOpenOpen` is Ack or Confirm.
- `ClientConnections` may meet a read error (`ReadFaults`). It takes no lock, so it can run between a handshake's writes. Its record notes whether a handshake was in flight (`settled`) and which ends were stored then (`EndsOf`).
- `cq` is the `Connections` query task. `ConnectionsScan` is the prefix scan. `ConnectionsFetch` is one `get_connection_end` with its `unwrap`; a read error ends the call with `data_loss`. `ConnectionsRespond` is the answer. The task holds no lock, so handshake steps land between its scan and its fetches.

The MC modules (`MC*.tla`) fix the numeric bounds. The `.cfg` files give the model values.

Operators introduced by a "Variant:" comment (`CreateClientBeginUnlocked`, `QueryStartPortOnly`, ...) are plausible faulty versions of the code. They are not used by `Next`. Each one stands in for a mapped definition to show that a property detects that fault.

## Runs

| Run (cfg) | Expect | What it shows |
|---|---|---|
| `ClientCreate.cfg` | pass | Ids stay unique across two concurrent tasks with store faults. The implementation refines `ClientRegistry` under the mapping `clients <- CompleteClients` (complete records below the counter). |
| `ClientCreatePoison.cfg` | violation | A panic at height 0 poisons the lock. Every later create fails although the host is ready. |
| `ClientRestartReuse.cfg` | violation | The in-memory counter is lost on restart, and an issued id is given out again. |
| `PacketTombstone.cfg` | pass | With empty-value deletes, scanning queries never panic. A finished query lists only paths of the requested channel and misses no packet that was live at the scan and still live at the answer. |
| `PacketKeyRemoval.cfg` | pass | With key-removing deletes, `UnreceivedAcks` is exact. |
| `UnreceivedAcksTombstone.cfg` | violation | With tombstones, `is_some()` keeps reporting acknowledged packets. |
| `CommitmentsQueryPanic.cfg` | violation | With key removal, a delete between the scan and the fetch panics `packet_commitments`. |
| `UnreceivedPackets.cfg` | pass | With key-removing deletes and no read errors, a sequence once reported received (or acknowledged) is never reported outstanding again. |
| `UnreceivedPacketsReadError.cfg` | violation | A swallowed read error flips an answer. TLC's trace (states 3 and 4 are both `UnreceivedAcksQuery` on `<<c1, 1>>`): a commitment read fails, so a sent packet is reported acknowledged, and the next read reports it outstanding. |
| `ConnectionStore.cfg` | pass | Handshakes, including partly failed ones, refine the abstract `ConnectionLifecycle` (`ConnectionRefinement`): each counter step stores a fresh end, and no end is overwritten, moved to another client, regressed or deleted. The client index only names stored ends of that client (`IndexedEndsExist`). The `Connections` query never unwraps a missing end (`ConnectionsNeverPanic`), because no step removes a stored end, not even a failed handshake. |
| `ClientConnectionsReadError.cfg` | violation | With `StoreFaults = FALSE`, so that the index is complete, a settled answer still misses a stored connection: the trace shows `unwrap_or_default` answering Ok with an empty list on a read error. |

Under the code as written no channel can be opened: `channel_counter` is `unimplemented!()` and the router's `has_route` is `todo!()`. The packet model therefore shows how the keepers and queries behave once a channel exists, for example after `channel_counter` is implemented.

## Bounds

- **Clients.** Two tasks, two client types, three requests and heights 0..2. Two tasks are the least for a race. Three requests let a failure, a panic and a success happen in one behaviour. The heights include 0, where `Height::new` fails.
- **Packets.** Two channels, so the channel filter matters. Two sequences, so a scan has more than one path to fetch. One query task; a second one multiplies the states without adding a new interleaving with the host.
- **Connections.** Two clients and three connection ids. Three ids let one `Connections` scan cover an open end, a half-finished handshake and a failed one, with handshake steps landing between its fetches.
- **Restarts.** One restart is enough to reuse an id.
- **Unreceived queries.** One channel and two sequences. The questions are per sequence, so a second channel only multiplies the states.

## Fairness

No run assumes fairness, and no liveness property is checked. The write section of `create_client` holds an RAII guard with no `.await`, so it cannot fail to finish. The packet and connection query loops iterate over a finite `Vec` fixed by the scan. Termination in either case follows from the shape of the code, and a liveness property would restate that shape. Request arrival, host writes and the node's height and cache steps are never assumed to happen.

## Not modelled

- The `ConsensusStates` query. Its fetch turns a missing record into an entry without a state and never panics. No keeper deletes a consensus state, so its answer is a projection of `consensusStore` that no property tells apart from the store. The `ClientStates` query is left out for the same reason. A half-created client that a failed create leaves behind is visible to both queries. spec.md section 5 says this core provides no partial-apply rollback and leaves atomicity to the store adapter, so that is not a disagreement with this code.
- The `Channels` and `ConnectionChannels` queries. No channel end can exist while `channel_counter` panics.
- The response height read after the data (`grpc.rs:598`). spec.md section 4.6 accepts this as a consistency relaxation.
- The path model (spec.md section 4.1). The codec and the adapter's prefix scan are outside this repository. With identifiers as atoms, every prefix family is homogeneous by construction. So a property against the decode-mismatch panics (`grpc.rs:220`, `329`, `454`) would hold whatever the code does. A faithful model would have to build keys character by character.
- The channel keeper (`store_channel`, the recv/ack next sequences, `increase_channel_counter`). No handler reaches it while `channel_counter` is `unimplemented!()`, so a model of it would describe code that cannot run.
- The adapter itself. It is outside this repository and are abstracted to keyed stores.
- The router (`todo!()`).
- The `unimplemented!()` readers and RPCs.
- Event emission. The code drops the event.
- The benchmark.

## Status

Every keeper, reader and query that the code can reach is modelled, except the `ClientStates` and `ConsensusStates` queries (see above). The remaining parts cannot be modelled faithfully from this repository:
- the path codec, the adapter and the router are outside it or `todo!()`;
- the channel keeper is unreachable behind `channel_counter`.
