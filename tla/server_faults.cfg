\* Eviction, failing saves and one crash: two clients make three connections.
CONSTANTS
    Peers = {p1, p2}
    Conns = {c1, c2, c3}
    Sids = {c1, c2, c3}
    Algos = {0, 1}
    HOST_MIN = 2
    HOST_MAX = 3
    MaxPeersArgs = {5}
    NoRequest = NoRequest
    IdleSweep = TRUE
    Faults = {"persist"}
    ActivePeers = {}
    MaxCrashes = 1
SPECIFICATION Spec
SYMMETRY Symmetry
INVARIANT TypeOK
INVARIANT SlotsExclusive
PROPERTY SessionOnlyStrengthens
