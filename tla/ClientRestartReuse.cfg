\* Expected violation: after a restart the in-memory client counter starts
\* again below its old value and CreateClient hands out an id already issued.
CONSTANTS
    Procs = {p1, p2}
    ClientTypes = {tendermint, mock}
    NoProc = NoProc
    NoId = NoId
    MaxRequests <- MCMaxRequests
    MaxHeight <- MCMaxHeight
    StoreFaults = FALSE
    MaxRestarts = 1
SPECIFICATION RSpec
INVARIANT IssuedIdsUnique
