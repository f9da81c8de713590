\* Deletion removes the commitment key: UnreceivedAcks is exact.
CONSTANTS
    Chans = {c1, c2}
    Queries = {q1}
    NoChan = NoChan
    MaxSeq <- MCMaxSeq
    DeleteTombstones = FALSE
SPECIFICATION Spec
INVARIANT UnreceivedAcksExact
