\* Concurrent CreateClient with failing adapter writes: ids are unique and
\* the handler refines the atomic client registry.
CONSTANTS
    Procs = {p1, p2}
    ClientTypes = {tendermint, mock}
    NoProc = NoProc
    NoId = NoId
    MaxRequests <- MCMaxRequests
    MaxHeight <- MCMaxHeight
    StoreFaults = TRUE
SPECIFICATION Spec
INVARIANT TypeOK
INVARIANT IssuedIdsUnique
PROPERTY RegistryRefinement
