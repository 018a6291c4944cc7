\* Eviction with fair threads: two clients compete for a pool of one address.
CONSTANTS
    Peers = {p1, p2}
    Conns = {c1, c2}
    Sids = {c1, c2}
    Algos = {0}
    HOST_MIN = 2
    HOST_MAX = 2
    MaxPeersArgs = {0, 5}
    NoRequest = NoRequest
    IdleSweep = TRUE
    Faults = {"remove", "list", "handshakes"}
    ActivePeers = {p1}
    MaxCrashes = 2
SPECIFICATION FairSpec
INVARIANT PoolNeverExhausted
INVARIANT QuiescentIsDurable
PROPERTY DeadPeersAreEvicted
PROPERTY ImplementsLeases
