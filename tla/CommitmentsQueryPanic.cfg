\* Expected violation: an acknowledgement processed between the scan and the fetch makes PacketCommitments panic.
CONSTANTS
    Chans = {c1, c2}
    Queries = {q1}
    NoChan = NoChan
    MaxSeq <- MCMaxSeq
    DeleteTombstones = FALSE
SPECIFICATION Spec
INVARIANT PacketCommitmentsNeverPanic
