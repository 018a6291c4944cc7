\* Two connections of one client interleave; nothing fails.
CONSTANTS
    Peers = {p1, p2}
    Conns = {c1, c2}
    Sids = {c1, c2}
    Algos = {0, 1}
    HOST_MIN = 2
    HOST_MAX = 3
    MaxPeersArgs = {5}
    NoRequest = NoRequest
    IdleSweep = FALSE
    Faults = {}
    ActivePeers = {}
    MaxCrashes = 0
SPECIFICATION Spec
INVARIANT PskIsOfSession
CHECK_DEADLOCK FALSE
