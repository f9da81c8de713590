CONSTANTS
    Chans = {c1}
    Queries = {}
    NoChan = NoChan
    MaxSeq <- MCMaxSeq
    DeleteTombstones = FALSE
    ReadFaults = FALSE
SPECIFICATION USpec
INVARIANT UTypeOK
INVARIANT SettledStaysSettled
