\* A client rekeys a session that another connection has replaced; nothing fails.
CONSTANTS
    Peers = {p1}
    Conns = {c1, c2, c3}
    Sids = {c1, c2, c3}
    Algos = {0, 1}
    HOST_MIN = 2
    HOST_MAX = 3
    MaxPeersArgs = {5}
    NoRequest = NoRequest
    IdleSweep = FALSE
    Faults = {}
    ActivePeers = {}
    MaxCrashes = 0
    Keys = {k1, k2}
    NoKey = NoKey
    NoConn = NoConn
SPECIFICATION ProtocolSpec
PROPERTY RekeyCheckedFirst
CHECK_DEADLOCK FALSE
