---------------------------- MODULE LeasesProofs ----------------------------
(***************************************************************************)
(* The server implements AddressLeases: each of its steps is, seen through *)
(* the addresses in its registry and its file, a step of the abstract      *)
(* service or none.                                                        *)
(***************************************************************************)
EXTENDS HandshakeServerProofs

-----------------------------------------------------------------------------
\* What persist writes, and what load reads back, has the same addresses.
LEMMA SavedIps ==
    ASSUME NEW map, IsRegistry(map)
    PROVE  ip_of(from_peers(map)) = ip_of(map)
BY SaveFacts DEF ip_of

LEMMA LoadedIps ==
    ASSUME NEW f, IsFile(f), NEW idle
    PROVE  ip_of(load(f, idle)) = ip_of(f)
BY LoadFacts DEF ip_of

\* Registries that would be saved to the same file have the same addresses.
LEMMA SameFileSameIps ==
    ASSUME NEW old, NEW new, IsRegistry(old), IsRegistry(new),
           from_peers(new) = from_peers(old)
    PROVE  ip_of(new) = ip_of(old)
BY SavedIps

\* The capacity is at most the number of addresses.
LEMMA PoolIsHosts == POOL_SIZE = Cardinality(Hosts)
BY HostsAssumption, FS_Interval DEF POOL_SIZE, Hosts

\* The instance counts as FiniteSets does.
LEMMA LeasesCardinality == \A S : Leases!Cardinality(S) = Cardinality(S)
BY DEF Leases!Cardinality, Cardinality

-----------------------------------------------------------------------------
\* The registry update grants an unknown client a free address, within the
\* capacity, and leaves the address of a known one alone.
LEMMA UpdateGrants ==
    ASSUME TypeInv, NEW c \in Conns, UpdateRegistry(c)
    PROVE  ip_of(registry') = ip_of(registry) \/ \E p \in Peers : Leases!Grant(p)
<1>0. IsRegistry(registry) /\ max_peers \in Nat
  BY HostsAssumption DEF TypeInv, TypeOK, POOL_SIZE
<1>1. PICK r \in Request : UpdateResult(r) = "Ok" /\ registry' = Updated(r)
  BY DEF UpdateRegistry
<1>. DEFINE pk == r.peer
<1>2. /\ IsRegistry(registry') /\ pk \in Peers
      /\ DOMAIN registry' = DOMAIN registry \cup {pk}
      /\ r.kind = "rekey" => pk \in DOMAIN registry
      /\ pk \in DOMAIN registry => registry'[pk].ip = registry[pk].ip
      /\ pk \notin DOMAIN registry => registry'[pk].ip \notin Taken(registry)
      /\ \A q \in DOMAIN registry \ {pk} : registry'[q] = registry[q]
  BY <1>0, <1>1, UpdatedFacts
<1>. HIDE DEF pk
<1>3. CASE pk \in DOMAIN registry
  <2>1. DOMAIN registry' = DOMAIN registry
    BY <1>2, <1>3
  <2>2. \A q \in DOMAIN registry : registry'[q].ip = registry[q].ip
    BY <1>2, <1>3
  <2>. QED  BY <2>1, <2>2 DEF ip_of
<1>4. CASE pk \notin DOMAIN registry
  <2>1. Cardinality(DOMAIN registry) < max_peers
    <3>1. Cardinality(DOMAIN registry) \in Nat
      BY <1>0, PeersAssumption, FS_Subset, FS_CardinalityType DEF IsRegistry
    <3>2. r.kind = "hello"
      BY <1>2, <1>4 DEF Request
    <3>3. ~(Cardinality(DOMAIN registry) >= max_peers)
      BY <1>1, <1>4, <3>2 DEF UpdateResult, upsert_result, pk
    <3>. QED  BY <1>0, <3>1, <3>3
  <2>2. registry'[pk].ip \in Hosts
    BY <1>2 DEF IsRegistry, Peer
  <2>3. registry'[pk].ip \notin {ip_of(registry)[q] : q \in DOMAIN ip_of(registry)}
    BY <1>2, <1>4 DEF ip_of, Taken
  <2>4. ip_of(registry') = [q \in DOMAIN ip_of(registry) \cup {pk} |->
                              IF q = pk THEN registry'[pk].ip ELSE ip_of(registry)[q]]
    BY <1>2, <1>4 DEF ip_of
  <2>5. DOMAIN ip_of(registry) = DOMAIN registry
    BY DEF ip_of
  <2>6. up /\ up' = up /\ max_peers' = max_peers /\ file' = file
    BY DEF UpdateRegistry, bootVars
  <2>7. Leases!Grant(pk)
    BY <1>4, <2>1, <2>2, <2>3, <2>4, <2>5, <2>6, LeasesCardinality
       DEF Leases!Grant, Leases!Leased
  <2>. QED  BY <1>2, <2>7
<1>. QED  BY <1>3, <1>4

\* A start boots the service, with a limit within the pool.
LEMMA StartBoots == ASSUME TypeInv, TypeInv', Start  PROVE Leases!Boot
<1>1. PICK idle : registry' = load(file, idle)
  BY DEF Start
<1>2. ip_of(registry') = ip_of(file)
  BY <1>1, LoadedIps DEF TypeInv, TypeOK
<1>3. max_peers' \in 0..Cardinality(Hosts)
  BY PoolIsHosts DEF TypeInv, TypeOK
<1>. QED  BY <1>2, <1>3, LeasesCardinality DEF Start, Leases!Boot

\* A crash forgets the leases and not the save.
LEMMA CrashDies == Crash => Leases!Die
<1>1. ip_of(EmptyRegistry) = Leases!NoLeases
  BY DEF ip_of, EmptyRegistry, Leases!NoLeases
<1>. QED  BY <1>1 DEF Crash, Leases!Die

\* An eviction releases the address of a peer that was still registered.
LEMMA DropReleases ==
    ASSUME NEW p \in Peers, SweepDrop(p)
    PROVE  ip_of(registry') = ip_of(registry) \/ Leases!Release(p)
<1>1. registry' = remove(registry, p) /\ up /\ up' = up /\ max_peers' = max_peers /\ file' = file
  BY DEF SweepDrop, bootVars
<1>2. ip_of(registry') = [d \in DOMAIN ip_of(registry) \ {p} |-> ip_of(registry)[d]]
  BY <1>1 DEF ip_of, remove
<1>3. CASE p \in DOMAIN registry
  BY <1>1, <1>2, <1>3 DEF Leases!Release, ip_of
<1>4. CASE p \notin DOMAIN registry
  BY <1>2, <1>4 DEF ip_of
<1>. QED  BY <1>3, <1>4

\* A save saves the leases, or fails and changes nothing.
LEMMA PersistSaves ==
    ASSUME TypeInv, persist, up, UNCHANGED <<registry, bootVars>>
    PROVE  Leases!Save \/ UNCHANGED Leases!leaseVars
<1>1. CASE file' = from_peers(registry)
  <2>1. ip_of(file') = ip_of(registry)
    BY <1>1, SavedIps DEF TypeInv, TypeOK
  <2>. QED  BY <2>1 DEF Leases!Save, bootVars
<1>2. CASE file' = file
  BY <1>2 DEF Leases!leaseVars, bootVars
<1>. QED  BY <1>1, <1>2 DEF persist

-----------------------------------------------------------------------------
\* Every step of the server is a step of the abstract service, or none.
LEMMA LeasesNext ==
    ASSUME TypeInv, TypeInv', [Next]_vars
    PROVE  [Leases!Next]_Leases!leaseVars
<1>0. IsRegistry(registry) /\ IsRegistry(registry')
  BY DEF TypeInv, TypeOK
<1>. DEFINE Rest == up' = up /\ max_peers' = max_peers /\ file' = file
<1>1. Rest /\ ip_of(registry') = ip_of(registry) => UNCHANGED Leases!leaseVars
  BY DEF Leases!leaseVars
<1>2. CASE UNCHANGED vars
  BY <1>1, <1>2 DEF vars, bootVars
<1>3. CASE Start \/ Crash
  BY <1>3, StartBoots, CrashDies DEF Leases!Next
<1>4. ASSUME NEW c \in Conns, Accept(c) \/ RejectFirst(c) \/ Handle(c)
      PROVE  [Leases!Next]_Leases!leaseVars
  <2>1. CASE UpdateRegistry(c)
    BY <1>1, <2>1, UpdateGrants DEF UpdateRegistry, bootVars, Leases!Next
  <2>2. CASE Finish(c) \/ FinishFails(c)
    BY <2>2, PersistSaves DEF Finish, FinishFails, Leases!Next
  <2>3. CASE Accept(c) \/ Install(c)
    BY <1>1, <2>3 DEF Accept, Install, bootVars
  <2>4. CASE RejectFirst(c) \/ RejectFinish(c) \/ RegistryRefuses(c) \/ InstallFails(c)
    BY <1>1, <2>4 DEF RejectFirst, RejectFinish, RegistryRefuses, InstallFails, Fail, bootVars
  <2>. QED  BY <1>4, <2>1, <2>2, <2>3, <2>4 DEF Handle
<1>5. CASE Sweep
  <2>1. ASSUME NEW p \in Peers, SweepDrop(p)  PROVE [Leases!Next]_Leases!leaseVars
    BY <1>1, <2>1, DropReleases DEF SweepDrop, bootVars, Leases!Next
  <2>2. ASSUME NEW p \in Peers, SweepKeep(p)  PROVE [Leases!Next]_Leases!leaseVars
    <3>1. from_peers(registry') = from_peers(registry)
      BY <1>0, <2>2, TouchFacts DEF SweepKeep
    <3>2. ip_of(registry') = ip_of(registry)
      BY <1>0, <3>1, SameFileSameIps
    <3>. QED  BY <1>1, <2>2, <3>2 DEF SweepKeep, bootVars
  <2>3. CASE SweepHandshakes \/ SweepList \/ SweepRemovePeer
    BY <1>1, <2>3 DEF SweepHandshakes, SweepList, SweepRemovePeer, bootVars
  <2>4. CASE SweepEnd
    <3>1. CASE evicted
      BY <2>4, <3>1, PersistSaves DEF SweepEnd, Leases!Next
    <3>2. CASE ~evicted
      BY <1>1, <2>4, <3>2 DEF SweepEnd, bootVars
    <3>. QED  BY <3>1, <3>2
  <2>. QED  BY <1>5, <2>1, <2>2, <2>3, <2>4 DEF Sweep
<1>6. ASSUME NEW p \in Peers, WgHandshake(p) \/ WgQuiet(p) \/ GoIdle(p)
      PROVE  [Leases!Next]_Leases!leaseVars
  <2>1. CASE WgHandshake(p) \/ WgQuiet(p)
    BY <1>1, <2>1 DEF WgHandshake, WgQuiet, bootVars
  <2>2. CASE GoIdle(p)
    <3>1. ip_of(registry') = ip_of(registry)
      BY <1>0, <2>2, IdleSameFile, SameFileSameIps
    <3>. QED  BY <1>1, <2>2, <3>1 DEF GoIdle, bootVars
  <2>. QED  BY <1>6, <2>1, <2>2
<1>. QED  BY <1>2, <1>3, <1>4, <1>5, <1>6 DEF Next

\* The server implements the address leases for every number of clients and
\* connections, every pool, and with every outside call allowed to fail: what
\* follows from AddressLeases (a lease never moves, nobody else has it, a
\* restart brings back a save) follows from the server's code.
THEOREM ServerImplementsLeases == Spec => ImplementsLeases
<1>1. Init => Leases!Init
  BY DEF Init, Leases!Init, ip_of, EmptyRegistry, Leases!NoLeases
<1>2. TypeInv /\ TypeInv' /\ [Next]_vars => [Leases!Next]_Leases!leaseVars
  BY LeasesNext
<1>. QED  BY <1>1, <1>2, TypeInvariant, PTL DEF Spec, ImplementsLeases, Leases!Spec
=============================================================================
