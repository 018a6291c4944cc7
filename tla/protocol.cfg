\* Two clients, three connections, one crash; wg set may fail.
CONSTANTS
    Peers = {p1, p2}
    Conns = {c1, c2, c3}
    Sids = {c1, c2, c3}
    Algos = {0, 1}
    HOST_MIN = 2
    HOST_MAX = 3
    MaxPeersArgs = {5}
    NoRequest = NoRequest
    IdleSweep = FALSE
    Faults = {"install"}
    ActivePeers = {}
    MaxCrashes = 1
    Keys = {k1, k2}
    NoKey = NoKey
    NoConn = NoConn
SPECIFICATION ProtocolSpec
SYMMETRY Symmetry
INVARIANT TunnelAgreement
INVARIANT NoFalseAlarm
INVARIANT PinsStayValid
CHECK_DEADLOCK FALSE
