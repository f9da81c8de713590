----------------------------- MODULE PacketStore -----------------------------
(***************************************************************************)
(* Packet commitments, receipts and acknowledgements of unordered channels *)
(* (ChannelKeeper for IbcImpl, src/core/ibc/src/lib.rs) and the channel    *)
(* query service that reads them (IbcChannelService, src/core/ibc/src/     *)
(* grpc.rs).                                                               *)
(*                                                                         *)
(* The host writes through the keeper, one adapter write lock per call.    *)
(* Query tasks read the adapter directly and concurrently: PacketCommit-   *)
(* ments and PacketAcknowledgements first list the paths under a prefix    *)
(* and then fetch each path, so writes land between the scan and the       *)
(* fetches.  A stored value is absent ("none"), zero-length ("empty", how  *)
(* delete_packet_acknowledgement deletes) or a commitment ("data").  How   *)
(* the adapter's delete_packet_commitment deletes is not in this           *)
(* repository: DeleteTombstones selects an empty value (the spec's         *)
(* tombstone convention) or removal of the key.  One port; keys are        *)
(* <<channel, sequence>>.                                                  *)
(***************************************************************************)
EXTENDS Naturals, FiniteSets

CONSTANTS Chans,            \* channels on the one port
          Queries,          \* concurrent query tasks
          NoChan,           \* a query task serves no channel
          MaxSeq,           \* sequences 1..MaxSeq per channel and direction
          DeleteTombstones  \* TRUE: delete_packet_commitment stores empty bytes

ASSUME DeleteTombstones \in BOOLEAN /\ MaxSeq \in Nat

VARIABLES
    commitments,  \* commitments/ports/p/channels/c/sequences/s
    receipts,     \* receipts/ports/p/channels/c/sequences/s (presence)
    acks,         \* acks/ports/p/channels/c/sequences/s
    nextSeqSend,  \* nextSequenceSend/ports/p/channels/c
    acked,        \* sent packets whose acknowledgement the host processed
    qstatus,      \* per query task: "idle", "fetching", "done" or "panic"
    qkind,        \* per query task: "commitments" or "acks"
    qchan,        \* per query task: the requested channel
    qtodo,        \* per query task: scanned paths not yet fetched
    qres,         \* per query task: PacketStates collected so far
    qlive         \* per query task: paths live when the prefix was scanned

vars == <<commitments, receipts, acks, nextSeqSend, acked,
          qstatus, qkind, qchan, qtodo, qres, qlive>>

hostVars  == <<commitments, receipts, acks, nextSeqSend, acked>>
queryVars == <<qstatus, qkind, qchan, qtodo, qres, qlive>>

Seqs == 1..MaxSeq
Keys == Chans \X Seqs
Vals == {"none", "empty", "data"}
Kinds == {"commitments", "acks"}

\* The value a delete_packet_commitment leaves behind.
Deleted == IF DeleteTombstones THEN "empty" ELSE "none"

\* The store read by a query of kind k.
StoreOf(k) == IF k = "commitments" THEN commitments ELSE acks

\* get_paths_by_prefix: every path with a stored value, empty or not.
PathsOf(k) == {key \in Keys : StoreOf(k)[key] # "none"}

\* Paths holding a live (non-empty) value.
LiveOf(k) == {key \in Keys : StoreOf(k)[key] = "data"}

\* The fetch order of the scan: sequences in ascending order.
NextPath(q) == CHOOSE key \in qtodo[q] : \A o \in qtodo[q] : key[2] <= o[2]

-----------------------------------------------------------------------------
Init ==
    /\ commitments = [k \in Keys |-> "none"]
    /\ receipts = {}
    /\ acks = [k \in Keys |-> "none"]
    /\ nextSeqSend = [c \in Chans |-> 1]
    /\ acked = {}
    /\ qstatus = [q \in Queries |-> "idle"]
    /\ qkind = [q \in Queries |-> "commitments"]
    /\ qchan = [q \in Queries |-> NoChan]
    /\ qtodo = [q \in Queries |-> {}]
    /\ qres = [q \in Queries |-> {}]
    /\ qlive = [q \in Queries |-> {}]

(* Host writes: the packet handlers' results applied through the keeper.    *)

\* store_packet_commitment.
StorePacketCommitment(k) ==
    commitments' = [commitments EXCEPT ![k] = "data"]

\* store_next_sequence_send: the counter is set, not incremented.
StoreNextSequenceSend(c, s) ==
    nextSeqSend' = [nextSeqSend EXCEPT ![c] = s]

\* Sending a packet: store_next_sequence_send(seq + 1) and
\* store_packet_commitment(seq, commitment).
SendPacket(c) ==
    LET s == nextSeqSend[c] IN
    /\ s <= MaxSeq
    /\ StoreNextSequenceSend(c, s + 1)
    /\ StorePacketCommitment(<<c, s>>)
    /\ UNCHANGED <<receipts, acks, acked, queryVars>>

\* Variant: delete_packet_commitment is written against the receipts path
\* as well, as the copy-pasted keeper bodies make easy.
DeletePacketCommitmentAlsoReceipt(k) ==
    /\ commitments[k] = "data"
    /\ commitments' = [commitments EXCEPT ![k] = Deleted]
    /\ receipts' = receipts \ {k}
    /\ acked' = acked \cup {k}
    /\ UNCHANGED <<acks, nextSeqSend, queryVars>>

\* Variant: delete_packet_commitment removes the key whatever the adapter.
DeletePacketCommitmentRemovingKey(k) ==
    /\ commitments[k] = "data"
    /\ commitments' = [commitments EXCEPT ![k] = "none"]
    /\ acked' = acked \cup {k}
    /\ UNCHANGED <<receipts, acks, nextSeqSend, queryVars>>

\* The acknowledgement (or timeout) of a sent packet is processed:
\* delete_packet_commitment.
DeletePacketCommitment(k) ==
    /\ commitments[k] = "data"
    /\ commitments' = [commitments EXCEPT ![k] = Deleted]
    /\ acked' = acked \cup {k}
    /\ UNCHANGED <<receipts, acks, nextSeqSend, queryVars>>

\* Variant: the receipt path is built with the sequence off by one.
StorePacketReceiptNextSeq(k) ==
    /\ receipts' = receipts \cup {<<k[1], k[2] + 1>>}
    /\ UNCHANGED <<commitments, acks, nextSeqSend, acked, queryVars>>

\* A packet of the counterparty is received: store_packet_receipt, a
\* presence-only marker (storing it again changes nothing).
StorePacketReceipt(k) ==
    /\ receipts' = receipts \cup {k}
    /\ UNCHANGED <<commitments, acks, nextSeqSend, acked, queryVars>>

\* The acknowledgement of a received packet is written:
\* store_packet_acknowledgement.
StorePacketAcknowledgement(k) ==
    /\ k \in receipts
    /\ acks[k] = "none"
    /\ acks' = [acks EXCEPT ![k] = "data"]
    /\ UNCHANGED <<commitments, receipts, nextSeqSend, acked, queryVars>>

\* delete_packet_acknowledgement stores an empty acknowledgement.
DeletePacketAcknowledgement(k) ==
    /\ acks[k] = "data"
    /\ acks' = [acks EXCEPT ![k] = "empty"]
    /\ UNCHANGED <<commitments, receipts, nextSeqSend, acked, queryVars>>

-----------------------------------------------------------------------------
(* Query tasks.                                                             *)

\* get_paths_by_prefix on "commitments/ports" or "acks/ports", then the
\* matching_*_paths filter: paths that decode to the query's kind and whose
\* (port, channel) is the requested one.
MatchingPaths(k, c) == {key \in PathsOf(k) : key[1] = c}

\* Variant: the scan's filter checks the port only, not the channel.
QueryStartPortOnly(q, k, c) ==
    /\ qstatus[q] # "fetching"
    /\ qstatus' = [qstatus EXCEPT ![q] = "fetching"]
    /\ qkind' = [qkind EXCEPT ![q] = k]
    /\ qchan' = [qchan EXCEPT ![q] = c]
    /\ qtodo' = [qtodo EXCEPT ![q] = PathsOf(k)]
    /\ qres' = [qres EXCEPT ![q] = {}]
    /\ qlive' = [qlive EXCEPT ![q] = {key \in LiveOf(k) : key[1] = c}]
    /\ UNCHANGED hostVars

\* packet_commitments / packet_acknowledgements: the request is parsed and
\* the matching paths are listed; the live ones are remembered.
QueryStart(q, k, c) ==
    /\ qstatus[q] # "fetching"
    /\ qstatus' = [qstatus EXCEPT ![q] = "fetching"]
    /\ qkind' = [qkind EXCEPT ![q] = k]
    /\ qchan' = [qchan EXCEPT ![q] = c]
    /\ qtodo' = [qtodo EXCEPT ![q] = MatchingPaths(k, c)]
    /\ qres' = [qres EXCEPT ![q] = {}]
    /\ qlive' = [qlive EXCEPT ![q] = {key \in LiveOf(k) : key[1] = c}]
    /\ UNCHANGED hostVars

\* packet_commitments, one fetch at Height::Pending: the Option is
\* unwrapped, so a path whose value vanished since the scan panics; an
\* empty value is dropped.
QueryFetchCommitment(q) ==
    LET key == NextPath(q)
        v   == commitments[key]
    IN
    /\ qstatus[q] = "fetching"
    /\ qkind[q] = "commitments"
    /\ qtodo[q] # {}
    /\ qtodo' = [qtodo EXCEPT ![q] = @ \ {key}]
    /\ \/ /\ v = "none"
          /\ qstatus' = [qstatus EXCEPT ![q] = "panic"]
          /\ UNCHANGED qres
       \/ /\ v = "empty"
          /\ UNCHANGED <<qstatus, qres>>
       \/ /\ v = "data"
          /\ qres' = [qres EXCEPT ![q] = @ \cup {key}]
          /\ UNCHANGED qstatus
    /\ UNCHANGED <<hostVars, qkind, qchan, qlive>>

\* packet_acknowledgements, one fetch: `if let Some` then the is_empty
\* check.  (An acknowledgement path never vanishes: its deletion stores an
\* empty value.)
QueryFetchAck(q) ==
    LET key == NextPath(q)
        v   == acks[key]
    IN
    /\ qstatus[q] = "fetching"
    /\ qkind[q] = "acks"
    /\ qtodo[q] # {}
    /\ qtodo' = [qtodo EXCEPT ![q] = @ \ {key}]
    /\ \/ /\ v = "empty"
          /\ UNCHANGED qres
       \/ /\ v = "data"
          /\ qres' = [qres EXCEPT ![q] = @ \cup {key}]
    /\ UNCHANGED <<hostVars, qstatus, qkind, qchan, qlive>>

\* All scanned paths fetched: the response is returned.
QueryRespond(q) ==
    /\ qstatus[q] = "fetching"
    /\ qtodo[q] = {}
    /\ qstatus' = [qstatus EXCEPT ![q] = "done"]
    /\ UNCHANGED <<hostVars, qkind, qchan, qtodo, qres, qlive>>

\* Variant: unreceived_acks looks for the acknowledgement path.
UnreceivedAcksViaAckPath(c, S) == {s \in S : acks[<<c, s>>] = "none"}

\* unreceived_acks: a sequence is reported while get_packet_commitment
\* returns Some, empty bytes included (.is_some()).
UnreceivedAcks(c, S) == {s \in S : commitments[<<c, s>>] # "none"}

-----------------------------------------------------------------------------
Next ==
    \/ \E c \in Chans : SendPacket(c)
    \/ \E k \in Keys :
        \/ DeletePacketCommitment(k)
        \/ StorePacketReceipt(k)
        \/ StorePacketAcknowledgement(k)
        \/ DeletePacketAcknowledgement(k)
    \/ \E q \in Queries :
        \/ \E k \in Kinds, c \in Chans : QueryStart(q, k, c)
        \/ QueryFetchCommitment(q)
        \/ QueryFetchAck(q)
        \/ QueryRespond(q)

Spec == Init /\ [][Next]_vars

-----------------------------------------------------------------------------
(* Properties                                                              *)

TypeOK ==
    /\ commitments \in [Keys -> Vals]
    /\ receipts \subseteq Keys
    /\ acks \in [Keys -> Vals]
    /\ nextSeqSend \in [Chans -> 1..(MaxSeq + 1)]
    /\ acked \subseteq Keys
    /\ qstatus \in [Queries -> {"idle", "fetching", "done", "panic"}]
    /\ qkind \in [Queries -> Kinds]
    /\ qchan \in [Queries -> Chans \cup {NoChan}]
    /\ qtodo \in [Queries -> SUBSET Keys]
    /\ qres \in [Queries -> SUBSET Keys]
    /\ qlive \in [Queries -> SUBSET Keys]

\* Sent packets: sequences below next_sequence_send.
Sent == {k \in Keys : k[2] < nextSeqSend[k[1]]}

\* UnreceivedAcks reports a sent sequence exactly while the acknowledgement
\* of that packet has not been processed by the host (spec.md section 8),
\* through every interleaving of sends, acknowledgements and deletions.
UnreceivedAcksExact ==
    \A k \in Sent :
        (k[2] \in UnreceivedAcks(k[1], {k[2]})) <=> (k \notin acked)

\* A finished packet query reports only paths of the requested channel, and
\* every packet that was live when its prefix was scanned and is still live
\* when it responds.
QueriesComplete ==
    \A q \in Queries : qstatus[q] = "done" =>
        /\ \A key \in qres[q] : key[1] = qchan[q]
        /\ qlive[q] \cap LiveOf(qkind[q]) \subseteq qres[q]

\* The PacketCommitments query never panics, whatever acknowledgements the
\* host processes while it runs.
PacketCommitmentsNeverPanic == \A q \in Queries : qstatus[q] # "panic"

=============================================================================
