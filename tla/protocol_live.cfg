\* Fair threads and timeouts: two clients, two connections, one crash.
CONSTANTS
    Peers = {p1, p2}
    Conns = {c1, c2}
    Sids = {c1, c2}
    Algos = {0}
    HOST_MIN = 2
    HOST_MAX = 3
    MaxPeersArgs = {5}
    NoRequest = NoRequest
    IdleSweep = FALSE
    Faults = {"install"}
    ActivePeers = {}
    MaxCrashes = 1
    Keys = {k1, k2}
    NoKey = NoKey
    NoConn = NoConn
SPECIFICATION FairProtocolSpec
PROPERTY EveryoneReturns
CHECK_DEADLOCK FALSE
