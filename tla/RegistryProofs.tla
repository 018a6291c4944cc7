--------------------------- MODULE RegistryProofs ---------------------------
(***************************************************************************)
(* What the operators of the registry return, for every pool of addresses, *)
(* every set of peers and every registry.                                  *)
(***************************************************************************)
EXTENDS Registry, FiniteSetTheorems, WellFoundedInduction, TLAPS

(***************************************************************************)
(* Address allocation.                                                     *)
(***************************************************************************)
\* A nonempty set of naturals has a least element: the scan of alloc_ip stops.
LEMMA LeastExists ==
    ASSUME NEW S \in SUBSET Nat, S # {}
    PROVE  \E m \in S : \A n \in S : m <= n
<1>. DEFINE Less == {ss \in Nat \X Nat : ss[1] < ss[2]}
<1>1. IsWellFoundedOn(Less, Nat)
  BY NatLessThanWellFounded, Zenon DEF OpToRel
<1>2. PICK m \in S : \A n \in S : <<n, m>> \notin Less
  <2>. HIDE DEF Less
  <2>. QED  BY <1>1, WFMin
<1>3. ASSUME NEW n \in S  PROVE m <= n
  <2>1. ~(n < m)
    BY <1>2
  <2>. QED  BY <2>1
<1>. QED  BY <1>3

\* alloc_ip returns an assignable address no peer of the registry holds.
LEMMA AllocIsFree ==
    ASSUME NEW map, Free(map) # {}
    PROVE  alloc_ip(map) \in Hosts \ Taken(map)
<1>1. Free(map) \in SUBSET Nat
  BY HostsAssumption DEF Free, Hosts
<1>2. \E h \in Free(map) : \A g \in Free(map) : h <= g
  BY <1>1, LeastExists
<1>3. alloc_ip(map) \in Free(map)
  BY <1>2 DEF alloc_ip
<1>. QED  BY <1>3 DEF Free

\* The capacity check of upsert_handshake comes before the scan and is at most
\* the size of the pool, so the scan is never reached with a full pool.
LEMMA CapacityPrecedesPool ==
    ASSUME NEW map, IsRegistry(map), NEW pk, NEW max \in 0..POOL_SIZE
    PROVE  upsert_result(map, pk, max) # "AddressPoolExhausted"
<1>. SUFFICES ASSUME Free(map) = {}, ~(Cardinality(DOMAIN map) >= max)  PROVE FALSE
  BY DEF upsert_result
<1>1. HOST_MIN \in Int /\ HOST_MAX \in Int /\ HOST_MIN <= HOST_MAX
  BY HostsAssumption
<1>2. POOL_SIZE \in Nat
  BY <1>1 DEF POOL_SIZE
<1>3. IsFiniteSet(Hosts) /\ Cardinality(Hosts) = POOL_SIZE
  BY <1>1, FS_Interval DEF Hosts, POOL_SIZE
<1>4. IsFiniteSet(DOMAIN map) /\ Cardinality(DOMAIN map) \in Nat
  BY PeersAssumption, FS_Subset, FS_CardinalityType DEF IsRegistry
<1>. DEFINE ipOf == [p \in DOMAIN map |-> map[p].ip]
<1>5. ipOf \in Surjection(DOMAIN map, Taken(map))
  BY DEF Surjection, Taken
<1>6. IsFiniteSet(Taken(map)) /\ Cardinality(Taken(map)) <= Cardinality(DOMAIN map)
  BY <1>4, <1>5, FS_Surjection
<1>7. Hosts \in SUBSET Taken(map)
  BY DEF Free
<1>8. Cardinality(Hosts) <= Cardinality(Taken(map))
  BY <1>6, <1>7, FS_Subset
<1>9. Cardinality(Taken(map)) \in Nat
  BY <1>6, FS_CardinalityType
<1>. QED  BY <1>2, <1>3, <1>4, <1>6, <1>8, <1>9

-----------------------------------------------------------------------------
(***************************************************************************)
(* Updates of the map.                                                     *)
(***************************************************************************)
\* Insert changes one record and nothing else.
LEMMA InsertFacts ==
    ASSUME NEW map, IsRegistry(map), NEW pk \in Peers, NEW rec \in Peer
    PROVE  /\ IsRegistry(Insert(map, pk, rec))
           /\ DOMAIN Insert(map, pk, rec) = DOMAIN map \cup {pk}
           /\ Insert(map, pk, rec)[pk] = rec
           /\ \A q \in DOMAIN map \ {pk} : Insert(map, pk, rec)[q] = map[q]
BY DEF Insert, IsRegistry

\* remove takes one record away and changes no other.
LEMMA RemoveFacts ==
    ASSUME NEW map, IsRegistry(map), NEW pk
    PROVE  /\ IsRegistry(remove(map, pk))
           /\ DOMAIN remove(map, pk) = DOMAIN map \ {pk}
           /\ \A q \in DOMAIN map \ {pk} : remove(map, pk)[q] = map[q]
BY DEF remove, IsRegistry

\* A handshake that is accepted replaces the session of a known peer and keeps
\* its address, or gives a new peer an address nobody holds.
LEMMA UpsertFacts ==
    ASSUME NEW map, IsRegistry(map), NEW pk \in Peers, NEW algo \in Algos,
           NEW sid \in Sids, pk \in DOMAIN map \/ Free(map) # {}
    PROVE  LET new == upsert_handshake(map, pk, algo, sid)
           IN  /\ IsRegistry(new)
               /\ new[pk].sid = sid /\ new[pk].algo = algo
               /\ pk \in DOMAIN map => new[pk].ip = map[pk].ip
               /\ pk \notin DOMAIN map => new[pk].ip \notin Taken(map)
               /\ \A q \in DOMAIN map \ {pk} : new[q] = map[q]
<1>. DEFINE ip == IF pk \in DOMAIN map THEN map[pk].ip ELSE alloc_ip(map)
            rec == [ip |-> ip, sid |-> sid, algo |-> algo, idle |-> FALSE]
<1>1. upsert_handshake(map, pk, algo, sid) = Insert(map, pk, rec)
  BY DEF upsert_handshake
<1>2. ip \in Hosts /\ (pk \notin DOMAIN map => ip \notin Taken(map))
  <2>1. CASE pk \in DOMAIN map
    BY <2>1 DEF IsRegistry, Peer
  <2>2. CASE pk \notin DOMAIN map
    <3>1. Free(map) # {}
      BY <2>2
    <3>. QED  BY <2>2, <3>1, AllocIsFree
  <2>. QED  BY <2>1, <2>2
<1>3. rec \in Peer
  BY <1>2 DEF Peer
<1>4. rec.ip = ip /\ rec.sid = sid /\ rec.algo = algo
  OBVIOUS
<1>. HIDE DEF rec, ip
<1>5. /\ IsRegistry(Insert(map, pk, rec))
      /\ DOMAIN Insert(map, pk, rec) = DOMAIN map \cup {pk}
      /\ Insert(map, pk, rec)[pk] = rec
      /\ \A q \in DOMAIN map \ {pk} : Insert(map, pk, rec)[q] = map[q]
  BY <1>3, InsertFacts, Zenon
<1>6. pk \in DOMAIN map => ip = map[pk].ip
  BY DEF ip
<1>. QED  BY <1>1, <1>2, <1>4, <1>5, <1>6

\* Apart from the peer that shook hands, the same peers are known.
LEMMA UpsertDomain ==
    ASSUME NEW map, NEW pk, NEW algo, NEW sid
    PROVE  DOMAIN upsert_handshake(map, pk, algo, sid) = DOMAIN map \cup {pk}
BY DEF upsert_handshake, Insert

\* A rekey that is accepted keeps the peer's session and address and does not
\* weaken its algorithm.
LEMMA RekeyFacts ==
    ASSUME NEW map, IsRegistry(map), NEW pk \in Peers, NEW algo \in Algos,
           NEW sid, rekey_result(map, pk, sid, algo) = "Ok"
    PROVE  LET new == rekey(map, pk, algo)
           IN  /\ IsRegistry(new)
               /\ pk \in DOMAIN map /\ DOMAIN new = DOMAIN map
               /\ map[pk].sid = sid /\ new[pk].sid = sid
               /\ new[pk].algo >= map[pk].algo
               /\ new[pk].ip = map[pk].ip
               /\ \A q \in DOMAIN map \ {pk} : new[q] = map[q]
<1>. DEFINE rec == [map[pk] EXCEPT !.algo = algo, !.idle = FALSE]
<1>1. rekey(map, pk, algo) = Insert(map, pk, rec)
  BY DEF rekey
<1>2. pk \in DOMAIN map /\ map[pk].sid = sid /\ ~(algo < map[pk].algo)
  BY DEF rekey_result
<1>3. map[pk] \in Peer
  BY <1>2 DEF IsRegistry
<1>4. rec \in Peer /\ rec.ip = map[pk].ip /\ rec.sid = map[pk].sid /\ rec.algo = algo
  BY <1>3 DEF Peer
<1>5. algo >= map[pk].algo
  BY <1>2, <1>3, AlgosAssumption DEF Peer
<1>. HIDE DEF rec
<1>6. /\ IsRegistry(Insert(map, pk, rec))
      /\ DOMAIN Insert(map, pk, rec) = DOMAIN map \cup {pk}
      /\ Insert(map, pk, rec)[pk] = rec
      /\ \A q \in DOMAIN map \ {pk} : Insert(map, pk, rec)[q] = map[q]
  BY <1>4, InsertFacts, Zenon
<1>7. DOMAIN map \cup {pk} = DOMAIN map
  BY <1>2
<1>. QED  BY <1>1, <1>2, <1>4, <1>5, <1>6, <1>7

\* touch only renews a peer's activity.
LEMMA TouchFacts ==
    ASSUME NEW map, IsRegistry(map), NEW pk
    PROVE  /\ IsRegistry(touch(map, pk))
           /\ from_peers(touch(map, pk)) = from_peers(map)
<1>1. CASE pk \notin DOMAIN map
  BY <1>1 DEF touch
<1>2. CASE pk \in DOMAIN map
  <2>. DEFINE rec == [map[pk] EXCEPT !.idle = FALSE]
              new == Insert(map, pk, rec)
  <2>1. touch(map, pk) = new
    BY <1>2 DEF touch
  <2>2. map[pk] \in Peer /\ pk \in Peers
    BY <1>2 DEF IsRegistry
  <2>3. rec \in Peer
    BY <2>2 DEF Peer
  <2>4. rec.ip = map[pk].ip /\ rec.sid = map[pk].sid /\ rec.algo = map[pk].algo
    BY <2>2 DEF Peer
  <2>. HIDE DEF rec
  <2>5. /\ IsRegistry(new)
        /\ DOMAIN new = DOMAIN map \cup {pk}
        /\ new[pk] = rec
        /\ \A q \in DOMAIN map \ {pk} : new[q] = map[q]
    BY <2>2, <2>3, InsertFacts, Zenon
  <2>. HIDE DEF new
  <2>6. \A q \in DOMAIN map :
           new[q].ip = map[q].ip /\ new[q].sid = map[q].sid /\ new[q].algo = map[q].algo
    BY <2>4, <2>5
  <2>7. DOMAIN new = DOMAIN map
    BY <1>2, <2>5
  <2>. QED  BY <2>1, <2>5, <2>6, <2>7 DEF from_peers, from_peer
<1>. QED  BY <1>1, <1>2

-----------------------------------------------------------------------------
(***************************************************************************)
(* The file.                                                               *)
(***************************************************************************)
\* persist writes a well-formed file with every peer's address and session.
LEMMA SaveFacts ==
    ASSUME NEW map, IsRegistry(map)
    PROVE  /\ IsFile(from_peers(map))
           /\ DOMAIN from_peers(map) = DOMAIN map
           /\ \A p \in DOMAIN map : /\ from_peers(map)[p].ip = map[p].ip
                                    /\ from_peers(map)[p].sid = map[p].sid
                                    /\ from_peers(map)[p].algo = map[p].algo
<1>1. \A p \in DOMAIN map :
         [ip |-> map[p].ip, sid |-> map[p].sid, algo |-> map[p].algo] \in PeerRecord
  BY DEF IsRegistry, Peer, PeerRecord
<1>. QED  BY <1>1 DEF from_peers, from_peer, IsFile, IsRegistry

\* load gives back what was saved: saving it again gives the same file.
LEMMA LoadFacts ==
    ASSUME NEW f, IsFile(f), NEW idle
    PROVE  /\ IsRegistry(load(f, idle))
           /\ DOMAIN load(f, idle) = DOMAIN f
           /\ from_peers(load(f, idle)) = f
           /\ \A p \in DOMAIN f : /\ load(f, idle)[p].ip = f[p].ip
                                  /\ load(f, idle)[p].sid = f[p].sid
<1>1. \A p \in DOMAIN f :
         [ip |-> f[p].ip, sid |-> f[p].sid, algo |-> f[p].algo, idle |-> p \in idle] \in Peer
  BY DEF IsFile, Peer, PeerRecord
<1>2. \A p \in DOMAIN f :
         [ip |-> f[p].ip, sid |-> f[p].sid, algo |-> f[p].algo] = f[p]
  BY DEF IsFile, PeerRecord
<1>3. f = [p \in DOMAIN f |-> f[p]]
  BY DEF IsFile
<1>4. IsRegistry(load(f, idle))
  BY <1>1 DEF load, into_peer, IsFile, IsRegistry
<1>5. /\ DOMAIN load(f, idle) = DOMAIN f
      /\ \A p \in DOMAIN f : /\ load(f, idle)[p].ip = f[p].ip
                             /\ load(f, idle)[p].sid = f[p].sid
                             /\ load(f, idle)[p].algo = f[p].algo
  BY DEF load, into_peer
<1>6. from_peers(load(f, idle)) = f
  BY <1>2, <1>3, <1>5 DEF from_peers, from_peer
<1>. QED  BY <1>4, <1>5, <1>6

-----------------------------------------------------------------------------
(***************************************************************************)
(* Addresses and sessions.                                                 *)
(***************************************************************************)
\* The peers of one map or file are peers of another, with the same address
\* and the same session.
KeepsSlots(new, old) ==
    /\ DOMAIN new \subseteq DOMAIN old
    /\ \A p \in DOMAIN new : new[p].ip = old[p].ip /\ new[p].sid = old[p].sid

\* What a map holds exclusively, every map that keeps its slots does.
LEMMA KeepsUnique ==
    ASSUME NEW old, NEW new, KeepsSlots(new, old), UniqueIps(old), UniqueSids(old)
    PROVE  UniqueIps(new) /\ UniqueSids(new)
BY DEF KeepsSlots, UniqueIps, UniqueSids

\* Maps that would be saved to the same file have the same slots.
LEMMA SameFileSameSlots ==
    ASSUME NEW old, NEW new, IsRegistry(old), IsRegistry(new),
           from_peers(new) = from_peers(old)
    PROVE  KeepsSlots(new, old)
<1>1. /\ DOMAIN new = DOMAIN from_peers(new)
      /\ \A p \in DOMAIN new : /\ from_peers(new)[p].ip = new[p].ip
                               /\ from_peers(new)[p].sid = new[p].sid
  BY SaveFacts
<1>2. /\ DOMAIN old = DOMAIN from_peers(old)
      /\ \A p \in DOMAIN old : /\ from_peers(old)[p].ip = old[p].ip
                               /\ from_peers(old)[p].sid = old[p].sid
  BY SaveFacts
<1>. QED  BY <1>1, <1>2 DEF KeepsSlots
=============================================================================
