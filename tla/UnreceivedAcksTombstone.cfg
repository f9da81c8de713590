\* Expected violation: an acknowledged packet whose commitment is an empty value is reported as unacknowledged.
CONSTANTS
    Chans = {c1, c2}
    Queries = {q1}
    NoChan = NoChan
    MaxSeq <- MCMaxSeq
    DeleteTombstones = TRUE
SPECIFICATION Spec
INVARIANT UnreceivedAcksExact
