CONSTANTS
    Chans = {c1}
    Queries = {}
    NoChan = NoChan
    MaxSeq <- MCMaxSeq
    DeleteTombstones = FALSE
    ReadFaults = TRUE
SPECIFICATION USpec
INVARIANT SettledStaysSettled
