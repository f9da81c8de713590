\* Expected violation: a read error in ClientConnections is answered with an empty list and Ok.
CONSTANTS
    Clients = {cl1, cl2}
    NoClient = NoClient
    MaxConns <- MCMaxConns
    StoreFaults = FALSE
    ReadFaults = TRUE
SPECIFICATION Spec
INVARIANT ClientConnectionsExact
