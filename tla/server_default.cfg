\* The default deployment: no eviction; wg set may fail and leave the registry
\* unsaved; two crashes, restarts with another --max-peers.
CONSTANTS
    Peers = {p1, p2, p3}
    Conns = {c1, c2, c3, c4}
    Sids = {c1, c2, c3, c4}
    Algos = {0, 1}
    HOST_MIN = 2
    HOST_MAX = 3
    MaxPeersArgs = {1, 5}
    NoRequest = NoRequest
    IdleSweep = FALSE
    Faults = {"install"}
    ActivePeers = {}
    MaxCrashes = 2
SPECIFICATION Spec
SYMMETRY Symmetry
INVARIANT WgMirrorsRegistry
INVARIANT AcknowledgedIsServed
PROPERTY ImplementsLeases
CHECK_DEADLOCK FALSE
