\* Connection handshakes with failing adapter writes: the keepers refine the connection lifecycle, and the Connections scan never fetches a missing end.
CONSTANTS
    Clients = {cl1, cl2}
    NoClient = NoClient
    MaxConns <- MCMaxConns
    StoreFaults = TRUE
    ReadFaults = FALSE
SPECIFICATION Spec
INVARIANT TypeOK
INVARIANT IndexedEndsExist
INVARIANT ConnectionsNeverPanic
PROPERTY ConnectionRefinement
