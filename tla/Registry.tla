------------------------------ MODULE Registry ------------------------------
(***************************************************************************)
(* The peer registry of the handshake server (registry.rs): the operators  *)
(* on the map from WireGuard public keys to peer records that the server   *)
(* runs, each under one hold of the registry's mutex.                      *)
(*                                                                         *)
(* A registry is a function whose domain is the set of known public keys.  *)
(* An address is its last octet (the subnet is fixed), an algorithm its    *)
(* wire code, a session id an opaque value. "last_activity" is only ever   *)
(* compared with the idle timeout and is the Boolean "idle"; "created" and *)
(* the rekey count are written and never read, and are left out.           *)
(***************************************************************************)
EXTENDS Integers, FiniteSets

CONSTANTS
    Peers,       \* WireGuard public keys, the stable identity of a client
    Sids,        \* session ids
    Algos,       \* wire codes of the algorithms: 0, 1, 2 in the code
    HOST_MIN,    \* first assignable last octet (2; .1 is the server)
    HOST_MAX     \* last assignable last octet (254)

ASSUME PeersAssumption == IsFiniteSet(Peers)      \* 32-byte keys
ASSUME AlgosAssumption == Algos \subseteq Nat
ASSUME HostsAssumption ==
    HOST_MIN \in Nat \ {0} /\ HOST_MAX \in Nat /\ HOST_MIN <= HOST_MAX

Hosts == HOST_MIN..HOST_MAX
POOL_SIZE == HOST_MAX - HOST_MIN + 1

Peer == [ip: Hosts, sid: Sids, algo: Algos, idle: BOOLEAN]

\* What a registry is: a peer record for each known key.
IsRegistry(map) == DOMAIN map \subseteq Peers /\ map \in [DOMAIN map -> Peer]

\* No two peers of a registry, or of its file, share an address or a session.
UniqueIps(map) == \A p, q \in DOMAIN map : map[p].ip = map[q].ip => p = q
UniqueSids(map) == \A p, q \in DOMAIN map : map[p].sid = map[q].sid => p = q

EmptyRegistry == [p \in {} |-> {}]

(***************************************************************************)
(* HashMap::insert (or an update in place through get_mut) and remove.     *)
(***************************************************************************)
Insert(map, pk, rec) ==
    [q \in DOMAIN map \cup {pk} |-> IF q = pk THEN rec ELSE map[q]]

remove(map, pk) == [q \in DOMAIN map \ {pk} |-> map[q]]

\* Bug: the argument is taken as it is.
BugMaxPeers(arg) == arg

\* What Registry::new and Registry::load make of the --max-peers argument.
effective_max_peers(arg) == IF arg <= POOL_SIZE THEN arg ELSE POOL_SIZE

Taken(map) == {map[p].ip : p \in DOMAIN map}
Free(map) == Hosts \ Taken(map)

\* Bug: hand out the first address past the number of peers.
BugAllocByCount(map) == HOST_MIN + Cardinality(DOMAIN map)

\* The scan for the first free host, from HOST_MIN upwards.
alloc_ip(map) == CHOOSE h \in Free(map) : \A g \in Free(map) : h <= g

(***************************************************************************)
(* upsert_handshake: a fresh ClientHello.                                  *)
(***************************************************************************)
upsert_result(map, pk, max) ==
    IF pk \in DOMAIN map THEN "Ok"
    ELSE IF Cardinality(DOMAIN map) >= max THEN "AtCapacity"
    ELSE IF Free(map) = {} THEN "AddressPoolExhausted"
    ELSE "Ok"

upsert_handshake(map, pk, algo, sid) ==
    LET ip == IF pk \in DOMAIN map THEN map[pk].ip ELSE alloc_ip(map)
    IN  Insert(map, pk, [ip |-> ip, sid |-> sid, algo |-> algo,
                         idle |-> FALSE])

(***************************************************************************)
(* rekey: a RekeyRequest.                                                  *)
(***************************************************************************)
\* Bug: the strength of the requested algorithm is not compared.
BugRekeyResult(map, pk, sid, algo) ==
    IF pk \notin DOMAIN map THEN "UnknownPeer"
    ELSE IF map[pk].sid # sid THEN "SessionMismatch"
    ELSE "Ok"

rekey_result(map, pk, sid, algo) ==
    IF pk \notin DOMAIN map THEN "UnknownPeer"
    ELSE IF map[pk].sid # sid THEN "SessionMismatch"
    ELSE IF algo < map[pk].algo THEN "Downgrade"
    ELSE "Ok"

rekey(map, pk, algo) ==
    Insert(map, pk, [map[pk] EXCEPT !.algo = algo, !.idle = FALSE])

touch(map, pk) ==
    IF pk \in DOMAIN map THEN Insert(map, pk, [map[pk] EXCEPT !.idle = FALSE])
    ELSE map

idle_peers(map) == {p \in DOMAIN map : map[p].idle}

(***************************************************************************)
(* What persist writes and load reads back: a PeerRecord for each peer.    *)
(* The saved last_activity is an absolute time. Whether a loaded peer is   *)
(* idle depends on the clock at that moment, which has moved on by any     *)
(* amount, or was set back: any of them may be.                            *)
(***************************************************************************)
PeerRecord == [ip: Hosts, sid: Sids, algo: Algos]

IsFile(f) == DOMAIN f \subseteq Peers /\ f \in [DOMAIN f -> PeerRecord]

from_peer(peer) == [ip |-> peer.ip, sid |-> peer.sid, algo |-> peer.algo]

from_peers(map) == [p \in DOMAIN map |-> from_peer(map[p])]

into_peer(rec, idle) ==
    [ip |-> rec.ip, sid |-> rec.sid, algo |-> rec.algo, idle |-> idle]

\* Bug: the peers that went idle while the server was down are not taken over.
BugLoadExpired(f, idle) == [p \in DOMAIN f \ idle |-> into_peer(f[p], FALSE)]

load(f, idle) == [p \in DOMAIN f |-> into_peer(f[p], p \in idle)]
=============================================================================
