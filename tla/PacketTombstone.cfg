\* Deletion stores empty values: the packet queries never panic and miss no packet that stayed live.
CONSTANTS
    Chans = {c1, c2}
    Queries = {q1}
    NoChan = NoChan
    MaxSeq <- MCMaxSeq
    DeleteTombstones = TRUE
SPECIFICATION Spec
INVARIANT TypeOK
INVARIANT QueriesComplete
INVARIANT PacketCommitmentsNeverPanic
