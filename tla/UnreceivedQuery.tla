--------------------------- MODULE UnreceivedQuery ---------------------------
(***************************************************************************)
(* The UnreceivedPackets and UnreceivedAcks queries (grpc.rs               *)
(* unreceived_packets, unreceived_acks) against the packet store of        *)
(* PacketStore.  For each requested sequence the first reads the receipt,  *)
(* the second the packet commitment, both with .ok().flatten(): a read     *)
(* that returns Err (ReadFaults) is taken as None.  UnreceivedPackets then *)
(* reports the sequence unreceived; UnreceivedAcks reports it acknowledged.*)
(* Answers are recorded one sequence at a time.  A relayer asks            *)
(* UnreceivedAcks only about sequences it has sent.                        *)
(***************************************************************************)
EXTENDS PacketStore

CONSTANTS ReadFaults  \* TRUE: an adapter read may return Err

ASSUME ReadFaults \in BOOLEAN

VARIABLES
    upResp,  \* the last answer: query, key asked, whether it was reported
    seen     \* <<query, key>> some earlier answer reported as settled

uvars == <<vars, upResp, seen>>

UKinds == {"packets", "acks"}

NoAnswer == [kind |-> "packets", key |-> <<NoChan, 0>>, reported |-> FALSE]

UInit ==
    /\ Init
    /\ upResp = NoAnswer
    /\ seen = {}

\* One answer: a sequence not reported is settled (received, acknowledged).
Answer(kind, k, reported) ==
    /\ upResp' = [kind |-> kind, key |-> k, reported |-> reported]
    /\ seen' = IF reported THEN seen ELSE seen \cup {<<kind, k>>}
    /\ UNCHANGED vars

\* Variant: the receipt path is built with the sequence off by one.
UnreceivedPacketsQueryNextSeq(c, s) ==
    LET k == <<c, s + 1>> IN Answer("packets", k, k \notin receipts)

\* unreceived_packets for sequence s of channel c: reported iff the receipt
\* read yields None, an Err included.
UnreceivedPacketsQuery(c, s) ==
    LET k == <<c, s>> IN
    \E ok \in IF ReadFaults THEN BOOLEAN ELSE {TRUE} :
        Answer("packets", k, ~ok \/ k \notin receipts)

\* unreceived_acks for a sent sequence s of channel c: reported iff the
\* commitment read yields Some (an empty commitment included); an Err is
\* None.
UnreceivedAcksQuery(c, s) ==
    LET k == <<c, s>> IN
    /\ s < nextSeqSend[c]
    /\ \E ok \in IF ReadFaults THEN BOOLEAN ELSE {TRUE} :
          Answer("acks", k, ok /\ commitments[k] # "none")

UNext ==
    \/ Next /\ UNCHANGED <<upResp, seen>>
    \/ \E c \in Chans, s \in Seqs :
          \/ UnreceivedPacketsQuery(c, s)
          \/ UnreceivedAcksQuery(c, s)

USpec == UInit /\ [][UNext]_uvars

-----------------------------------------------------------------------------
UTypeOK ==
    /\ TypeOK
    /\ upResp \in {NoAnswer} \cup [kind : UKinds, key : Keys, reported : BOOLEAN]
    /\ seen \subseteq UKinds \X Keys

\* Once an unreceived query reports a sequence settled (UnreceivedPackets:
\* received; UnreceivedAcks: acknowledged), no later answer of that query
\* reports it outstanding again: receipts are append-only and a deleted
\* commitment never returns (spec.md sections 2 and 8), so a relayer never
\* relays a packet twice nor forgets one it believed acknowledged.
SettledStaysSettled ==
    upResp.reported => <<upResp.kind, upResp.key>> \notin seen

=============================================================================
