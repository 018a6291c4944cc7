----------------------- MODULE HandshakeServerProofs -----------------------
(***************************************************************************)
(* Proofs about the handshake server, for any number of clients and        *)
(* connections, any pool of addresses, any number of crashes and, unless a *)
(* theorem says otherwise, with every outside call allowed to fail.        *)
(***************************************************************************)
EXTENDS HandshakeServer, RegistryProofs

-----------------------------------------------------------------------------
(***************************************************************************)
(* Type correctness.                                                       *)
(***************************************************************************)
\* What the type invariant says of the connection threads.
ConnsOK ==
    /\ pc \in [Conns -> {"idle", "ended"} \cup Running]
    /\ req \in [Conns -> Request \cup {NoRequest}]
    /\ slot \in [Conns -> Hosts \cup {NoIp}]
    /\ told \in [Peers -> Hosts \cup {NoIp}]

\* What it says of wg0.
WgOK == DOMAIN wg \subseteq Peers /\ wg \in [DOMAIN wg -> WgPeer]

\* What it says of the sweep.
SweepOK ==
    /\ sweep \in {"sleep", "list", "visit"}
    /\ live \in SUBSET Peers
    /\ todo \in SUBSET Peers
    /\ victim \in SUBSET Peers
    /\ evicted \in BOOLEAN

\* What it says of the process.
BootOK == up \in BOOLEAN /\ max_peers \in 0..POOL_SIZE /\ crashes \in 0..MaxCrashes

\* The type invariant, part by part.
LEMMA TypeParts ==
    TypeOK <=> /\ IsRegistry(registry) /\ IsFile(file)
               /\ WgOK /\ BootOK /\ ConnsOK /\ SweepOK
BY DEF TypeOK, WgOK, BootOK, ConnsOK, SweepOK

\* The server starts well formed.
LEMMA TypeInit == Init => TypeOK
<1>. SUFFICES ASSUME Init  PROVE TypeOK
  OBVIOUS
<1>1. DOMAIN EmptyRegistry = {}
  BY DEF EmptyRegistry
<1>2. IsRegistry(registry) /\ IsFile(file) /\ WgOK
  BY <1>1 DEF Init, IsRegistry, IsFile, WgOK, EmptyRegistry
<1>3. BootOK
  <2>1. max_peers \in 0..POOL_SIZE
    BY HostsAssumption DEF Init, POOL_SIZE
  <2>2. crashes \in 0..MaxCrashes
    BY SwitchesAssumption DEF Init
  <2>. QED  BY <2>1, <2>2 DEF Init, BootOK
<1>4. ConnsOK
  BY DEF Init, ConnsOK
<1>5. SweepOK
  BY DEF Init, SweepOK
<1>. QED  BY <1>2, <1>3, <1>4, <1>5, TypeParts

\* A thread that ends keeps the types of the threads' state.
LEMMA EndType ==
    ASSUME ConnsOK, NEW c \in Conns, End(c),
           told' \in [Peers -> Hosts \cup {NoIp}]
    PROVE  ConnsOK'
BY DEF ConnsOK, End

\* A request that the registry accepts leaves a registry with the requesting
\* peer in it, and touches no other record.
LEMMA UpdatedFacts ==
    ASSUME IsRegistry(registry), NEW r \in Request, UpdateResult(r) = "Ok"
    PROVE  /\ IsRegistry(Updated(r))
           /\ r.peer \in Peers
           /\ DOMAIN Updated(r) = DOMAIN registry \cup {r.peer}
           /\ Updated(r)[r.peer].sid = r.sid
           /\ r.kind = "rekey" => r.peer \in DOMAIN registry /\ registry[r.peer].sid = r.sid
           /\ r.kind = "rekey" => Updated(r)[r.peer].algo >= registry[r.peer].algo
           /\ r.peer \in DOMAIN registry => Updated(r)[r.peer].ip = registry[r.peer].ip
           /\ r.peer \notin DOMAIN registry => Updated(r)[r.peer].ip \notin Taken(registry)
           /\ \A q \in DOMAIN registry \ {r.peer} : Updated(r)[q] = registry[q]
<1>1. /\ r.kind \in {"hello", "rekey"}
      /\ r.peer \in Peers /\ r.algo \in Algos /\ r.sid \in Sids
  BY DEF Request
<1>2. CASE r.kind = "rekey"
  <2>1. /\ Updated(r) = rekey(registry, r.peer, r.algo)
        /\ rekey_result(registry, r.peer, r.sid, r.algo) = "Ok"
    BY <1>2 DEF Updated, UpdateResult
  <2>2. LET new == rekey(registry, r.peer, r.algo)
        IN  /\ IsRegistry(new)
            /\ r.peer \in DOMAIN registry /\ DOMAIN new = DOMAIN registry
            /\ registry[r.peer].sid = r.sid /\ new[r.peer].sid = r.sid
            /\ new[r.peer].algo >= registry[r.peer].algo
            /\ new[r.peer].ip = registry[r.peer].ip
            /\ \A q \in DOMAIN registry \ {r.peer} : new[q] = registry[q]
    BY <1>1, <2>1, RekeyFacts
  <2>. QED  BY <1>1, <2>1, <2>2
<1>3. CASE r.kind = "hello"
  <2>1. /\ Updated(r) = upsert_handshake(registry, r.peer, r.algo, r.sid)
        /\ r.peer \in DOMAIN registry \/ Free(registry) # {}
    BY <1>3 DEF Updated, UpdateResult, upsert_result
  <2>2. LET new == upsert_handshake(registry, r.peer, r.algo, r.sid)
        IN  /\ IsRegistry(new)
            /\ new[r.peer].sid = r.sid /\ new[r.peer].algo = r.algo
            /\ r.peer \in DOMAIN registry => new[r.peer].ip = registry[r.peer].ip
            /\ r.peer \notin DOMAIN registry => new[r.peer].ip \notin Taken(registry)
            /\ \A q \in DOMAIN registry \ {r.peer} : new[q] = registry[q]
    BY <1>1, <2>1, UpsertFacts
  <2>3. DOMAIN upsert_handshake(registry, r.peer, r.algo, r.sid) = DOMAIN registry \cup {r.peer}
    BY UpsertDomain
  <2>. QED  BY <1>1, <1>3, <2>1, <2>2, <2>3
<1>. QED  BY <1>1, <1>2, <1>3

\* A removal from wg0 leaves the other peers as they are.
LEMMA WgRemoveType ==
    ASSUME WgOK, NEW pks
    PROVE  /\ DOMAIN wg_remove(wg, pks) \subseteq Peers
           /\ wg_remove(wg, pks) \in [DOMAIN wg_remove(wg, pks) -> WgPeer]
BY DEF WgOK, wg_remove

\* wg set installs one peer; the others keep all but a disputed address.
LEMMA WgSetType ==
    ASSUME WgOK, NEW pk \in Peers, NEW psk \in Psk, NEW ip \in Hosts \cup {NoIp}
    PROVE  LET dev == wg_set(wg, pk, psk, ip)
           IN  DOMAIN dev \subseteq Peers /\ dev \in [DOMAIN dev -> WgPeer]
<1>. DEFINE rec(q) ==
        IF q = pk
        THEN [psk |-> psk, ip |-> ip, recent |-> pk \in DOMAIN wg /\ wg[pk].recent]
        ELSE [wg[q] EXCEPT !.ip = IF @ = ip THEN NoIp ELSE @]
<1>1. ASSUME NEW q \in DOMAIN wg \cup {pk}  PROVE rec(q) \in WgPeer
  <2>1. CASE q = pk
    <3>1. (pk \in DOMAIN wg /\ wg[pk].recent) \in BOOLEAN
      OBVIOUS
    <3>. QED  BY <2>1, <3>1 DEF WgPeer
  <2>2. CASE q # pk
    <3>1. wg[q] \in WgPeer
      BY <2>2 DEF WgOK
    <3>. QED  BY <2>2, <3>1 DEF WgPeer
  <2>. QED  BY <2>1, <2>2
<1>2. wg_set(wg, pk, psk, ip) = [q \in DOMAIN wg \cup {pk} |-> rec(q)]
  BY DEF wg_set
<1>. HIDE DEF rec
<1>3. DOMAIN wg_set(wg, pk, psk, ip) = DOMAIN wg \cup {pk}
  BY <1>2
<1>4. DOMAIN wg \cup {pk} \subseteq Peers
  BY DEF WgOK
<1>. QED  BY <1>1, <1>2, <1>3, <1>4

\* A thread that is past its registry update holds its request and its slot.
HoldsRequest ==
    \A c \in Conns : pc[c] \in {"install", "persist"} =>
        req[c] \in Request /\ slot[c] \in Hosts

\* The type invariant is not inductive by itself: the step that configures
\* wg0 needs the request that the registry update stored.
TypeInv == TypeOK /\ HoldsRequest

\* A thread that ends disturbs no other thread.
LEMMA EndHolds ==
    ASSUME ConnsOK, HoldsRequest, NEW c \in Conns, End(c)
    PROVE  HoldsRequest'
BY DEF ConnsOK, HoldsRequest, End

\* A start loads a well-formed registry and clamps the capacity to the pool.
LEMMA StartType == ASSUME TypeInv, Start  PROVE TypeInv'
<1>1. IsRegistry(registry) /\ IsFile(file) /\ WgOK /\ BootOK /\ ConnsOK /\ SweepOK
  BY TypeParts DEF TypeInv
<1>2. IsRegistry(registry')
  BY <1>1, LoadFacts DEF Start
<1>3. IsFile(file')
  BY <1>1 DEF Start
<1>4. WgOK'
  <2>1. PICK kept : wg' = reconcile_wg_peers(wg, DOMAIN file, kept)
    BY DEF Start
  <2>. QED  BY <1>1, <2>1, WgRemoveType DEF reconcile_wg_peers, WgOK
<1>5. BootOK'
  <2>1. PICK arg \in MaxPeersArgs : max_peers' = effective_max_peers(arg)
    BY DEF Start
  <2>2. POOL_SIZE \in Nat /\ arg \in Nat
    BY HostsAssumption, ArgsAssumption DEF POOL_SIZE
  <2>3. max_peers' \in 0..POOL_SIZE
    BY <2>1, <2>2 DEF effective_max_peers
  <2>4. up' \in BOOLEAN /\ crashes' = crashes
    BY DEF Start
  <2>. QED  BY <1>1, <2>3, <2>4 DEF BootOK
<1>6. ConnsOK' /\ HoldsRequest'
  BY <1>1 DEF TypeInv, Start, connVars, ConnsOK, HoldsRequest
<1>7. SweepOK'
  BY <1>1 DEF Start, sweepVars, SweepOK
<1>8. TypeOK'
  BY <1>2, <1>3, <1>4, <1>5, <1>6, <1>7 DEF TypeOK, WgOK, BootOK, ConnsOK, SweepOK
<1>. QED  BY <1>6, <1>8 DEF TypeInv

\* A crash leaves well-formed state: memory is emptied, threads end.
LEMMA CrashType == ASSUME TypeInv, Crash  PROVE TypeInv'
<1>1. IsRegistry(registry) /\ IsFile(file) /\ WgOK /\ BootOK /\ ConnsOK /\ SweepOK
  BY TypeParts DEF TypeInv
<1>2. IsRegistry(registry')
  BY DEF Crash, EmptyRegistry, IsRegistry
<1>3. IsFile(file') /\ WgOK'
  BY <1>1 DEF Crash, WgOK
<1>4. BootOK'
  <2>1. max_peers' \in 0..POOL_SIZE
    BY <1>1 DEF Crash, BootOK
  <2>2. crashes' \in 0..MaxCrashes
    BY <1>1, SwitchesAssumption DEF Crash, BootOK
  <2>3. up' \in BOOLEAN
    BY DEF Crash
  <2>. QED  BY <2>1, <2>2, <2>3 DEF BootOK
<1>5. ConnsOK'
  BY <1>1 DEF Crash, ConnsOK
<1>6. HoldsRequest'
  BY <1>1 DEF TypeInv, Crash, ConnsOK, HoldsRequest, Running
<1>7. SweepOK'
  BY DEF Crash, SweepOK
<1>8. TypeOK'
  BY <1>2, <1>3, <1>4, <1>5, <1>7 DEF TypeOK, WgOK, BootOK, ConnsOK, SweepOK
<1>. QED  BY <1>6, <1>8 DEF TypeInv

\* The steps that only end a thread.
LEMMA FailType == ASSUME TypeInv, NEW c \in Conns, Fail(c)  PROVE TypeInv'
<1>1. IsRegistry(registry) /\ IsFile(file) /\ WgOK /\ BootOK /\ ConnsOK /\ SweepOK
  BY TypeParts DEF TypeInv
<1>2. ConnsOK' /\ HoldsRequest'
  <2>1. End(c) /\ told' \in [Peers -> Hosts \cup {NoIp}]
    BY <1>1 DEF Fail, ConnsOK
  <2>. QED  BY <1>1, <2>1, EndType, EndHolds DEF TypeInv
<1>3. IsRegistry(registry') /\ IsFile(file') /\ WgOK' /\ BootOK' /\ SweepOK'
  BY <1>1 DEF Fail, bootVars, sweepVars, WgOK, BootOK, SweepOK
<1>4. TypeOK'
  BY <1>2, <1>3 DEF TypeOK, WgOK, BootOK, ConnsOK, SweepOK
<1>. QED  BY <1>2, <1>4 DEF TypeInv

\* The registry update stores a registered peer and its address.
LEMMA UpdateType == ASSUME TypeInv, NEW c \in Conns, UpdateRegistry(c)  PROVE TypeInv'
<1>1. IsRegistry(registry) /\ IsFile(file) /\ WgOK /\ BootOK /\ ConnsOK /\ SweepOK
  BY TypeParts DEF TypeInv
<1>2. PICK r \in Request :
         /\ UpdateResult(r) = "Ok"
         /\ registry' = Updated(r)
         /\ req' = [req EXCEPT ![c] = r]
         /\ slot' = [slot EXCEPT ![c] = Updated(r)[r.peer].ip]
  BY DEF UpdateRegistry
<1>3. IsRegistry(registry') /\ r.peer \in DOMAIN registry'
  BY <1>1, <1>2, UpdatedFacts
<1>4. registry'[r.peer].ip \in Hosts
  BY <1>3 DEF IsRegistry, Peer
<1>5. ConnsOK' /\ HoldsRequest'
  BY <1>1, <1>2, <1>4 DEF UpdateRegistry, ConnsOK, HoldsRequest, TypeInv, Running
<1>6. IsFile(file') /\ WgOK' /\ BootOK' /\ SweepOK'
  BY <1>1 DEF UpdateRegistry, bootVars, sweepVars, WgOK, BootOK, SweepOK
<1>7. TypeOK'
  BY <1>3, <1>5, <1>6 DEF TypeOK, WgOK, BootOK, ConnsOK, SweepOK
<1>. QED  BY <1>5, <1>7 DEF TypeInv

\* wg set gets a complete peer entry from the request the thread holds.
LEMMA InstallType == ASSUME TypeInv, NEW c \in Conns, Install(c)  PROVE TypeInv'
<1>1. IsRegistry(registry) /\ IsFile(file) /\ WgOK /\ BootOK /\ ConnsOK /\ SweepOK
  BY TypeParts DEF TypeInv
<1>2. /\ req[c].peer \in Peers /\ slot[c] \in Hosts \cup {NoIp}
      /\ [sid |-> req[c].sid, algo |-> req[c].algo] \in Psk
  BY DEF Install, TypeInv, HoldsRequest, Request, Psk
<1>3. WgOK'
  BY <1>1, <1>2, WgSetType DEF Install, WgOK
<1>4. ConnsOK' /\ HoldsRequest'
  BY <1>1 DEF Install, ConnsOK, HoldsRequest, TypeInv, Running
<1>5. IsRegistry(registry') /\ IsFile(file') /\ BootOK' /\ SweepOK'
  BY <1>1 DEF Install, bootVars, sweepVars, BootOK, SweepOK
<1>6. TypeOK'
  BY <1>3, <1>4, <1>5 DEF TypeOK, WgOK, BootOK, ConnsOK, SweepOK
<1>. QED  BY <1>4, <1>6 DEF TypeInv

\* The save writes a well-formed file; the answer carries a real address.
LEMMA FinishType ==
    ASSUME TypeInv, NEW c \in Conns, Finish(c) \/ FinishFails(c)
    PROVE  TypeInv'
<1>1. IsRegistry(registry) /\ IsFile(file) /\ WgOK /\ BootOK /\ ConnsOK /\ SweepOK
  BY TypeParts DEF TypeInv
<1>2. IsFile(file')
  BY <1>1, SaveFacts DEF Finish, FinishFails, persist
<1>3. ConnsOK' /\ HoldsRequest'
  <2>1. End(c)
    BY DEF Finish, FinishFails
  <2>2. slot[c] \in Hosts
    BY DEF Finish, FinishFails, TypeInv, HoldsRequest
  <2>3. told' \in [Peers -> Hosts \cup {NoIp}]
    BY <1>1, <2>2 DEF Finish, FinishFails, ConnsOK
  <2>. QED  BY <1>1, <2>1, <2>3, EndType, EndHolds DEF TypeInv
<1>4. IsRegistry(registry') /\ WgOK' /\ BootOK' /\ SweepOK'
  BY <1>1 DEF Finish, FinishFails, bootVars, sweepVars, WgOK, BootOK, SweepOK
<1>5. TypeOK'
  BY <1>2, <1>3, <1>4 DEF TypeOK, WgOK, BootOK, ConnsOK, SweepOK
<1>. QED  BY <1>3, <1>5 DEF TypeInv

\* Every step of the idle sweep keeps the state well formed.
LEMMA SweepType == ASSUME TypeInv, Sweep  PROVE TypeInv'
<1>1. IsRegistry(registry) /\ IsFile(file) /\ WgOK /\ BootOK /\ ConnsOK /\ SweepOK
  BY TypeParts DEF TypeInv
<1>2. bootVars' = bootVars /\ connVars' = connVars
  BY DEF Sweep, SweepHandshakes, SweepList, SweepKeep, SweepDrop, SweepRemovePeer, SweepEnd
<1>3. BootOK' /\ ConnsOK' /\ HoldsRequest'
  BY <1>1, <1>2 DEF bootVars, connVars, BootOK, ConnsOK, HoldsRequest, TypeInv
<1>4. SUFFICES IsRegistry(registry') /\ IsFile(file') /\ WgOK' /\ SweepOK'
  <2>1. ASSUME IsRegistry(registry') /\ IsFile(file') /\ WgOK' /\ SweepOK'
        PROVE  TypeOK'
    BY <1>3, <2>1 DEF TypeOK, WgOK, BootOK, ConnsOK, SweepOK
  <2>. QED  BY <1>3, <2>1 DEF TypeInv
<1>5. CASE SweepHandshakes
  BY <1>1, <1>5 DEF SweepHandshakes, last_handshakes, WgOK, SweepOK
<1>6. CASE SweepList
  BY <1>1, <1>6 DEF SweepList, WgOK, SweepOK, idle_peers, IsRegistry
<1>7. ASSUME NEW p \in Peers, SweepKeep(p)  PROVE IsRegistry(registry') /\ IsFile(file') /\ WgOK' /\ SweepOK'
  <2>1. IsRegistry(registry')
    BY <1>1, <1>7, TouchFacts DEF SweepKeep
  <2>. QED  BY <1>1, <1>7, <2>1 DEF SweepKeep, WgOK, SweepOK
<1>8. ASSUME NEW p \in Peers, SweepDrop(p)  PROVE IsRegistry(registry') /\ IsFile(file') /\ WgOK' /\ SweepOK'
  <2>1. IsRegistry(registry')
    BY <1>1, <1>8, RemoveFacts DEF SweepDrop
  <2>. QED  BY <1>1, <1>8, <2>1 DEF SweepDrop, WgOK, SweepOK
<1>9. CASE SweepRemovePeer
  <2>1. WgOK'
    BY <1>1, <1>9, WgRemoveType DEF SweepRemovePeer, WgOK
  <2>. QED  BY <1>1, <1>9, <2>1 DEF SweepRemovePeer, SweepOK
<1>10. CASE SweepEnd
  <2>1. IsFile(file')
    BY <1>1, <1>10, SaveFacts DEF SweepEnd, persist
  <2>. QED  BY <1>1, <1>10, <2>1 DEF SweepEnd, WgOK, SweepOK
<1>. QED  BY <1>5, <1>6, <1>7, <1>8, <1>9, <1>10 DEF Sweep

\* Time passing and WireGuard's own handshakes.
LEMMA ClockType ==
    ASSUME TypeInv, NEW p \in Peers, WgHandshake(p) \/ WgQuiet(p) \/ GoIdle(p)
    PROVE  TypeInv'
<1>1. IsRegistry(registry) /\ IsFile(file) /\ WgOK /\ BootOK /\ ConnsOK /\ SweepOK
  BY TypeParts DEF TypeInv
<1>2. IsFile(file') /\ BootOK' /\ ConnsOK' /\ HoldsRequest' /\ SweepOK'
  BY <1>1 DEF WgHandshake, WgQuiet, GoIdle, bootVars, connVars, sweepVars, BootOK,
              ConnsOK, HoldsRequest, SweepOK, TypeInv
<1>3. IsRegistry(registry')
  BY <1>1 DEF WgHandshake, WgQuiet, GoIdle, IsRegistry, Peer
<1>4. WgOK'
  <2>1. ASSUME NEW b \in BOOLEAN, p \in DOMAIN wg, wg' = [wg EXCEPT ![p].recent = b]
        PROVE  WgOK'
    <3>1. wg[p] \in WgPeer
      BY <1>1, <2>1 DEF WgOK
    <3>2. [wg[p] EXCEPT !.recent = b] \in WgPeer
      BY <3>1 DEF WgPeer
    <3>. QED  BY <1>1, <2>1, <3>2 DEF WgOK
  <2>2. CASE WgHandshake(p)
    BY <2>1, <2>2 DEF WgHandshake
  <2>3. CASE WgQuiet(p)
    BY <2>1, <2>3 DEF WgQuiet
  <2>4. CASE GoIdle(p)
    BY <1>1, <2>4 DEF GoIdle, WgOK
  <2>. QED  BY <2>2, <2>3, <2>4
<1>5. TypeOK'
  BY <1>2, <1>3, <1>4 DEF TypeOK, WgOK, BootOK, ConnsOK, SweepOK
<1>. QED  BY <1>2, <1>5 DEF TypeInv

\* A thread that has answered message 1 holds no request yet.
LEMMA AcceptType == ASSUME TypeInv, NEW c \in Conns, Accept(c)  PROVE TypeInv'
<1>1. IsRegistry(registry) /\ IsFile(file) /\ WgOK /\ BootOK /\ ConnsOK /\ SweepOK
  BY TypeParts DEF TypeInv
<1>2. ConnsOK' /\ HoldsRequest'
  BY <1>1 DEF Accept, ConnsOK, HoldsRequest, TypeInv, Running
<1>3. IsRegistry(registry') /\ IsFile(file') /\ WgOK' /\ BootOK' /\ SweepOK'
  BY <1>1 DEF Accept, bootVars, sweepVars, WgOK, BootOK, SweepOK
<1>4. TypeOK'
  BY <1>2, <1>3 DEF TypeOK, WgOK, BootOK, ConnsOK, SweepOK
<1>. QED  BY <1>2, <1>4 DEF TypeInv

\* Every step keeps the inductive type invariant.
LEMMA TypeNext == TypeInv /\ [Next]_vars => TypeInv'
<1>. SUFFICES ASSUME TypeInv, [Next]_vars  PROVE TypeInv'
  OBVIOUS
<1>1. CASE UNCHANGED vars
  BY <1>1 DEF vars, bootVars, connVars, sweepVars, TypeInv, TypeOK, HoldsRequest
<1>2. ASSUME NEW c \in Conns, Accept(c) \/ RejectFirst(c) \/ Handle(c)  PROVE TypeInv'
  <2>1. CASE Accept(c)
    BY <2>1, AcceptType
  <2>2. CASE RejectFirst(c) \/ RejectFinish(c) \/ RegistryRefuses(c) \/ InstallFails(c)
    BY <2>2, FailType DEF RejectFirst, RejectFinish, RegistryRefuses, InstallFails
  <2>3. CASE UpdateRegistry(c)
    BY <2>3, UpdateType
  <2>4. CASE Install(c)
    BY <2>4, InstallType
  <2>5. CASE Finish(c) \/ FinishFails(c)
    BY <2>5, FinishType
  <2>. QED  BY <1>2, <2>1, <2>2, <2>3, <2>4, <2>5 DEF Handle
<1>. QED  BY <1>1, <1>2, StartType, CrashType, SweepType, ClockType DEF Next

\* The inductive invariant holds always.
LEMMA TypeInvariant == Spec => []TypeInv
<1>1. Init => TypeInv
  <2>1. Init => HoldsRequest
    BY DEF Init, HoldsRequest
  <2>. QED  BY <2>1, TypeInit DEF TypeInv
<1>. QED  BY <1>1, TypeNext, PTL DEF Spec

\* The state of the server is always well formed: in particular every
\* registered address is an assignable one, the capacity in force is at most
\* the size of the pool, and wg0 only ever gets complete peer entries.
THEOREM TypeCorrect == Spec => []TypeOK
<1>1. TypeInv => TypeOK
  BY DEF TypeInv
<1>. QED  BY <1>1, TypeInvariant, PTL

\* No client is ever turned away with AddressPoolExhausted: the capacity check
\* always comes first, for every pool, every --max-peers and across restarts.
THEOREM PoolIsEnough == Spec => []PoolNeverExhausted
<1>1. TypeOK => PoolNeverExhausted
  BY CapacityPrecedesPool DEF TypeOK, PoolNeverExhausted
<1>. QED  BY <1>1, TypeCorrect, PTL

-----------------------------------------------------------------------------
(***************************************************************************)
(* Exclusive addresses and sessions.                                       *)
(***************************************************************************)
\* The session id of a ClientHello is in use nowhere until its connection has
\* updated the registry. Without this, two sessions of the registry could be
\* the same one, and the exclusiveness of sessions would not be inductive.
FreshSids ==
    \A c \in Conns : pc[c] \in {"idle", "awaitFinish"} =>
        /\ \A p \in DOMAIN registry : registry[p].sid # c
        /\ \A p \in DOMAIN file : file[p].sid # c

SlotInv == SlotsExclusive /\ FreshSids

\* All steps but the registry update leave, in memory and in the file, slots
\* that were there before.
LEMMA KeptSlots ==
    ASSUME SlotInv,
           KeepsSlots(registry', registry) \/ KeepsSlots(registry', file),
           KeepsSlots(file', file) \/ KeepsSlots(file', registry),
           \A c \in Conns : pc'[c] \in {"idle", "awaitFinish"}
                                => pc[c] \in {"idle", "awaitFinish"}
    PROVE  SlotInv'
<1>1. SlotsExclusive'
  BY KeepsUnique DEF SlotInv, SlotsExclusive
<1>2. FreshSids'
  BY DEF SlotInv, FreshSids, KeepsSlots
<1>. QED  BY <1>1, <1>2 DEF SlotInv

\* The registry update gives a new peer an address nobody holds and a session
\* nobody has; a known peer keeps its address.
LEMMA UpdateSlots ==
    ASSUME TypeInv, SlotInv, NEW c \in Conns, UpdateRegistry(c)
    PROVE  SlotInv'
<1>1. IsRegistry(registry) /\ pc \in [Conns -> {"idle", "ended"} \cup Running]
  BY DEF TypeInv, TypeOK
<1>2. PICK r \in Request :
         /\ MayRequest(c, r)
         /\ UpdateResult(r) = "Ok"
         /\ registry' = Updated(r)
  BY DEF UpdateRegistry
<1>. DEFINE pk == r.peer
<1>3. /\ DOMAIN registry' = DOMAIN registry \cup {pk}
      /\ \A q \in DOMAIN registry \ {pk} : registry'[q] = registry[q]
  BY <1>1, <1>2, UpdatedFacts
<1>4. pc[c] = "awaitFinish" /\ pc' = [pc EXCEPT ![c] = "install"] /\ file' = file
  BY DEF UpdateRegistry
<1>5. /\ pk \in DOMAIN registry => registry'[pk].ip = registry[pk].ip
      /\ pk \notin DOMAIN registry => registry'[pk].ip \notin Taken(registry)
  BY <1>1, <1>2, UpdatedFacts
<1>6. /\ r.kind = "rekey" => pk \in DOMAIN registry /\ registry'[pk].sid = registry[pk].sid
      /\ r.kind = "hello" => registry'[pk].sid = c
      /\ r.kind \in {"hello", "rekey"}
  <2>1. /\ registry'[pk].sid = r.sid
        /\ r.kind = "rekey" => pk \in DOMAIN registry /\ registry[pk].sid = r.sid
    BY <1>1, <1>2, UpdatedFacts
  <2>. QED  BY <1>2, <2>1 DEF MayRequest, Request
<1>. HIDE DEF pk
<1>7. \A p \in DOMAIN registry : registry[p].sid # c
  BY <1>4 DEF SlotInv, FreshSids
<1>8. UniqueIps(registry')
  <2>1. \A q \in DOMAIN registry \ {pk} : registry'[q].ip # registry'[pk].ip
    BY <1>3, <1>5 DEF SlotInv, SlotsExclusive, UniqueIps, Taken
  <2>. QED  BY <1>3, <2>1 DEF SlotInv, SlotsExclusive, UniqueIps
<1>9. UniqueSids(registry')
  <2>1. \A q \in DOMAIN registry \ {pk} : registry'[q].sid # registry'[pk].sid
    BY <1>3, <1>6, <1>7 DEF SlotInv, SlotsExclusive, UniqueSids
  <2>. QED  BY <1>3, <2>1 DEF SlotInv, SlotsExclusive, UniqueSids
<1>10. FreshSids'
  <2>. SUFFICES ASSUME NEW d \in Conns, pc'[d] \in {"idle", "awaitFinish"}
                PROVE  /\ \A p \in DOMAIN registry' : registry'[p].sid # d
                       /\ \A p \in DOMAIN file' : file'[p].sid # d
    BY DEF FreshSids
  <2>1. d # c /\ pc[d] \in {"idle", "awaitFinish"}
    BY <1>1, <1>4
  <2>2. \A p \in DOMAIN registry : registry[p].sid # d
    BY <2>1 DEF SlotInv, FreshSids
  <2>3. registry'[pk].sid # d
    BY <1>6, <2>1, <2>2
  <2>4. \A p \in DOMAIN file' : file'[p].sid # d
    BY <1>4, <2>1 DEF SlotInv, FreshSids
  <2>. QED  BY <1>3, <2>2, <2>3, <2>4
<1>. QED  BY <1>4, <1>8, <1>9, <1>10 DEF SlotInv, SlotsExclusive

\* Every step keeps addresses and sessions exclusive.
LEMMA SlotNext == TypeInv /\ SlotInv /\ [Next]_vars => SlotInv'
<1>. SUFFICES ASSUME TypeInv, SlotInv, [Next]_vars  PROVE SlotInv'
  OBVIOUS
<1>. DEFINE RegistryKept == KeepsSlots(registry', registry) \/ KeepsSlots(registry', file)
            FileKept == KeepsSlots(file', file) \/ KeepsSlots(file', registry)
            PcKept == \A c \in Conns : pc'[c] \in {"idle", "awaitFinish"}
                                          => pc[c] \in {"idle", "awaitFinish"}
<1>0. IsRegistry(registry) /\ IsFile(file) /\ pc \in [Conns -> {"idle", "ended"} \cup Running]
  BY DEF TypeInv, TypeOK
<1>1. (file' = file => FileKept) /\ (registry' = registry => RegistryKept)
  BY DEF KeepsSlots
<1>2. persist => FileKept
  <2>1. KeepsSlots(from_peers(registry), registry)
    BY <1>0, SaveFacts DEF KeepsSlots
  <2>. QED  BY <1>1, <2>1 DEF persist
<1>3. pc' = pc => PcKept
  OBVIOUS
<1>4. SUFFICES (\A c \in Conns : ~UpdateRegistry(c)) => RegistryKept /\ FileKept /\ PcKept
  BY KeptSlots, UpdateSlots
<1>5. CASE UNCHANGED vars
  BY <1>1, <1>3, <1>5 DEF vars, connVars
<1>6. CASE Start
  <2>1. PICK idle : registry' = load(file, idle)
    BY <1>6 DEF Start
  <2>2. KeepsSlots(registry', file)
    BY <1>0, <2>1, LoadFacts DEF KeepsSlots
  <2>. QED  BY <1>1, <1>3, <1>6, <2>2 DEF Start, connVars
<1>7. CASE Crash
  <2>1. KeepsSlots(registry', registry)
    BY <1>7 DEF Crash, EmptyRegistry, KeepsSlots
  <2>2. PcKept
    BY <1>0, <1>7 DEF Crash, Running
  <2>. QED  BY <1>1, <1>7, <2>1, <2>2 DEF Crash
<1>8. ASSUME NEW c \in Conns, Accept(c) \/ RejectFirst(c) \/ Handle(c), ~UpdateRegistry(c)
      PROVE  RegistryKept /\ FileKept /\ PcKept
  <2>1. CASE Accept(c)
    <3>1. PcKept
      BY <1>0, <2>1 DEF Accept
    <3>. QED  BY <1>1, <2>1, <3>1 DEF Accept
  <2>2. End(c) => PcKept
    BY <1>0 DEF End
  <2>3. CASE RejectFirst(c) \/ RejectFinish(c) \/ RegistryRefuses(c) \/ InstallFails(c)
    <3>1. Fail(c)
      BY <2>3 DEF RejectFirst, RejectFinish, RegistryRefuses, InstallFails
    <3>. QED  BY <1>1, <2>2, <3>1 DEF Fail
  <2>4. CASE Install(c)
    <3>1. PcKept
      BY <1>0, <2>4 DEF Install
    <3>. QED  BY <1>1, <2>4, <3>1 DEF Install
  <2>5. CASE Finish(c) \/ FinishFails(c)
    BY <1>1, <1>2, <2>2, <2>5 DEF Finish, FinishFails
  <2>. QED  BY <1>8, <2>1, <2>3, <2>4, <2>5 DEF Handle
<1>9. CASE Sweep
  <2>1. PcKept
    BY <1>3, <1>9 DEF Sweep, SweepHandshakes, SweepList, SweepKeep, SweepDrop,
                      SweepRemovePeer, SweepEnd, connVars
  <2>2. FileKept
    BY <1>1, <1>2, <1>9 DEF Sweep, SweepHandshakes, SweepList, SweepKeep, SweepDrop,
                            SweepRemovePeer, SweepEnd
  <2>3. RegistryKept
    <3>1. ASSUME NEW p \in Peers, SweepKeep(p)  PROVE RegistryKept
      <4>1. IsRegistry(touch(registry, p)) /\ from_peers(touch(registry, p)) = from_peers(registry)
        BY <1>0, TouchFacts
      <4>2. KeepsSlots(touch(registry, p), registry)
        BY <1>0, <4>1, SameFileSameSlots
      <4>. QED  BY <3>1, <4>2 DEF SweepKeep
    <3>2. ASSUME NEW p \in Peers, SweepDrop(p)  PROVE RegistryKept
      <4>1. KeepsSlots(remove(registry, p), registry)
        BY DEF remove, KeepsSlots
      <4>. QED  BY <3>2, <4>1 DEF SweepDrop
    <3>3. CASE SweepHandshakes \/ SweepList \/ SweepRemovePeer \/ SweepEnd
      BY <1>1, <3>3 DEF SweepHandshakes, SweepList, SweepRemovePeer, SweepEnd
    <3>. QED  BY <1>9, <3>1, <3>2, <3>3 DEF Sweep
  <2>. QED  BY <2>1, <2>2, <2>3
<1>10. ASSUME NEW p \in Peers, WgHandshake(p) \/ WgQuiet(p) \/ GoIdle(p)
       PROVE  RegistryKept /\ FileKept /\ PcKept
  <2>1. CASE WgHandshake(p) \/ WgQuiet(p)
    BY <1>1, <1>3, <2>1 DEF WgHandshake, WgQuiet, connVars
  <2>2. CASE GoIdle(p)
    <3>1. KeepsSlots(registry', registry)
      BY <1>0, <2>2 DEF GoIdle, KeepsSlots, IsRegistry, Peer
    <3>. QED  BY <1>1, <1>3, <2>2, <3>1 DEF GoIdle, connVars
  <2>. QED  BY <1>10, <2>1, <2>2
<1>. QED  BY <1>5, <1>6, <1>7, <1>8, <1>9, <1>10 DEF Next

\* Addresses and sessions are exclusive from the start.
LEMMA SlotInit == Init => SlotInv
BY DEF Init, SlotInv, SlotsExclusive, FreshSids, UniqueIps, UniqueSids, EmptyRegistry

\* The same as an invariant of the specification.
LEMMA SlotInvariant == Spec => []SlotInv
BY SlotInit, SlotNext, TypeInvariant, PTL DEF Spec

\* No two peers ever share a tunnel address or a session, in memory or in the
\* file, for any pool, any number of clients, any eviction, failure and crash.
THEOREM SlotsAreExclusive == Spec => []SlotsExclusive
<1>1. SlotInv => SlotsExclusive
  BY DEF SlotInv
<1>. QED  BY <1>1, SlotInvariant, PTL

-----------------------------------------------------------------------------
(***************************************************************************)
(* Durability.                                                             *)
(***************************************************************************)
\* The time of the last activity is not part of what is compared here: a peer
\* that goes idle is saved as the same peer.
LEMMA IdleSameFile ==
    ASSUME IsRegistry(registry), NEW p \in Peers, GoIdle(p)
    PROVE  from_peers(registry') = from_peers(registry)
<1>1. DOMAIN registry' = DOMAIN registry
  BY DEF GoIdle
<1>2. \A q \in DOMAIN registry :
         /\ registry'[q].ip = registry[q].ip
         /\ registry'[q].sid = registry[q].sid
         /\ registry'[q].algo = registry[q].algo
  BY DEF GoIdle, IsRegistry, Peer
<1>. QED  BY <1>1, <1>2 DEF from_peers, from_peer

\* Every step keeps a quiescent registry saved, if no install or save fails.
LEMMA DurableNext ==
    ASSUME "install" \notin Faults, "persist" \notin Faults
    PROVE  TypeInv /\ QuiescentIsDurable /\ [Next]_vars => QuiescentIsDurable'
<1>. SUFFICES ASSUME TypeInv, QuiescentIsDurable, [Next]_vars  PROVE QuiescentIsDurable'
  OBVIOUS
<1>. DEFINE Saved == file = from_peers(registry)
            Calm == \A c \in Conns : pc[c] \notin {"install", "persist"}
<1>0. IsRegistry(registry) /\ IsFile(file) /\ pc \in [Conns -> {"idle", "ended"} \cup Running]
  BY DEF TypeInv, TypeOK
<1>1. up /\ ~evicted /\ Calm => Saved
  BY DEF QuiescentIsDurable
<1>2. (up' /\ ~evicted' /\ Calm' => Saved') => QuiescentIsDurable'
  BY DEF QuiescentIsDurable
<1>3. CASE UNCHANGED vars
  BY <1>1, <1>2, <1>3 DEF vars, bootVars, connVars, sweepVars
<1>4. CASE Start
  <2>1. PICK idle : registry' = load(file, idle)
    BY <1>4 DEF Start
  <2>2. from_peers(registry') = file /\ file' = file
    BY <1>0, <1>4, <2>1, LoadFacts DEF Start
  <2>. QED  BY <1>2, <2>2
<1>5. CASE Crash
  BY <1>2, <1>5 DEF Crash
<1>6. ASSUME NEW c \in Conns, Accept(c) \/ RejectFirst(c) \/ Handle(c)
      PROVE  QuiescentIsDurable'
  <2>1. CASE Accept(c)
    <3>1. Calm' => Calm
      BY <1>0, <2>1 DEF Accept
    <3>. QED  BY <1>1, <1>2, <2>1, <3>1 DEF Accept, bootVars, sweepVars
  <2>2. CASE RejectFirst(c) \/ RejectFinish(c) \/ RegistryRefuses(c)
    <3>1. Fail(c) /\ pc[c] \in {"idle", "awaitFinish"}
      BY <2>2 DEF RejectFirst, RejectFinish, RegistryRefuses
    <3>2. Calm' => Calm
      BY <1>0, <3>1 DEF Fail, End
    <3>. QED  BY <1>1, <1>2, <3>1, <3>2 DEF Fail, bootVars, sweepVars
  <2>3. CASE InstallFails(c)
    BY <2>3 DEF InstallFails
  <2>4. CASE UpdateRegistry(c) \/ Install(c)
    <3>1. ~Calm'
      BY <1>0, <2>4 DEF UpdateRegistry, Install
    <3>. QED  BY <1>2, <3>1
  <2>5. CASE Finish(c) \/ FinishFails(c)
    BY <1>2, <2>5 DEF Finish, FinishFails, persist
  <2>. QED  BY <1>6, <2>1, <2>2, <2>3, <2>4, <2>5 DEF Handle
<1>7. CASE Sweep
  <2>1. up' = up /\ pc' = pc
    BY <1>7 DEF Sweep, SweepHandshakes, SweepList, SweepKeep, SweepDrop, SweepRemovePeer,
                SweepEnd, bootVars, connVars
  <2>2. CASE SweepHandshakes \/ SweepList \/ SweepRemovePeer
    BY <1>1, <1>2, <2>1, <2>2 DEF SweepHandshakes, SweepList, SweepRemovePeer
  <2>3. ASSUME NEW p \in Peers, SweepKeep(p)  PROVE QuiescentIsDurable'
    <3>1. from_peers(touch(registry, p)) = from_peers(registry)
      BY <1>0, TouchFacts
    <3>. QED  BY <1>1, <1>2, <2>1, <2>3, <3>1 DEF SweepKeep
  <2>4. ASSUME NEW p \in Peers, SweepDrop(p)  PROVE QuiescentIsDurable'
    BY <1>2, <2>4 DEF SweepDrop
  <2>5. CASE SweepEnd
    BY <1>1, <1>2, <2>1, <2>5 DEF SweepEnd, persist
  <2>. QED  BY <1>7, <2>2, <2>3, <2>4, <2>5 DEF Sweep
<1>8. ASSUME NEW p \in Peers, WgHandshake(p) \/ WgQuiet(p) \/ GoIdle(p)
      PROVE  QuiescentIsDurable'
  <2>1. CASE WgHandshake(p) \/ WgQuiet(p)
    BY <1>1, <1>2, <2>1 DEF WgHandshake, WgQuiet, bootVars, connVars, sweepVars
  <2>2. CASE GoIdle(p)
    BY <1>0, <1>1, <1>2, <2>2, IdleSameFile DEF GoIdle, bootVars, connVars, sweepVars
  <2>. QED  BY <1>8, <2>1, <2>2
<1>. QED  BY <1>3, <1>4, <1>5, <1>6, <1>7, <1>8 DEF Next

\* If wg set and the save do not fail, then whenever no thread is between its
\* update and its save the file has exactly the sessions of the registry, for
\* any number of threads, evictions, crashes and restarts.
THEOREM QuiescentStateIsDurable ==
    ASSUME "install" \notin Faults, "persist" \notin Faults
    PROVE  Spec => []QuiescentIsDurable
<1>1. Init => QuiescentIsDurable
  BY DEF Init, QuiescentIsDurable
<1>. QED  BY <1>1, DurableNext, TypeInvariant, PTL DEF Spec

-----------------------------------------------------------------------------
(***************************************************************************)
(* What a step may do to a session.                                        *)
(***************************************************************************)
\* Peers that would be saved alike have the same address, session and
\* algorithm.
LEMMA SameFileSamePeers ==
    ASSUME IsRegistry(registry), IsRegistry(registry'),
           from_peers(registry') = from_peers(registry),
           NEW p \in DOMAIN registry \cap DOMAIN registry'
    PROVE  /\ registry'[p].ip = registry[p].ip
           /\ registry'[p].algo = registry[p].algo
<1>1. from_peers(registry)[p].ip = registry[p].ip /\ from_peers(registry)[p].algo = registry[p].algo
  BY SaveFacts
<1>2. from_peers(registry')[p].ip = registry'[p].ip /\ from_peers(registry')[p].algo = registry'[p].algo
  BY SaveFacts
<1>. QED  BY <1>1, <1>2

\* What one step of a running server may do to a peer that stays registered.
LEMMA StrengthensNext ==
    ASSUME TypeInv, TypeInv', SlotInv, [Next]_vars, up, up',
           NEW p \in DOMAIN registry \cap DOMAIN registry'
    PROVE  /\ registry'[p].ip = registry[p].ip
           /\ registry'[p].sid = registry[p].sid => registry'[p].algo >= registry[p].algo
<1>0. IsRegistry(registry) /\ IsRegistry(registry')
  BY DEF TypeInv, TypeOK
<1>1. registry[p].algo \in Nat
  BY <1>0, AlgosAssumption DEF IsRegistry, Peer
<1>2. CASE registry'[p] = registry[p]
  BY <1>1, <1>2
<1>3. CASE from_peers(registry') = from_peers(registry)
  BY <1>0, <1>1, <1>3, SameFileSamePeers
<1>4. ASSUME NEW c \in Conns, UpdateRegistry(c)
      PROVE  /\ registry'[p].ip = registry[p].ip
             /\ registry'[p].sid = registry[p].sid => registry'[p].algo >= registry[p].algo
  <2>1. PICK r \in Request :
           /\ MayRequest(c, r)
           /\ UpdateResult(r) = "Ok"
           /\ registry' = Updated(r)
    BY <1>4 DEF UpdateRegistry
  <2>2. CASE p # r.peer
    <3>1. registry'[p] = registry[p]
      BY <1>0, <2>1, <2>2, UpdatedFacts
    <3>. QED  BY <1>1, <3>1
  <2>3. CASE p = r.peer
    <3>1. /\ registry'[p].ip = registry[p].ip
          /\ registry'[p].sid = r.sid
          /\ r.kind = "rekey" => registry'[p].algo >= registry[p].algo
      BY <1>0, <2>1, <2>3, UpdatedFacts
    <3>2. r.kind = "hello" => r.sid = c
      BY <2>1 DEF MayRequest
    <3>3. registry[p].sid # c
      BY <1>4 DEF UpdateRegistry, SlotInv, FreshSids
    <3>. QED  BY <3>1, <3>2, <3>3 DEF Request
  <2>. QED  BY <2>2, <2>3
<1>5. CASE registry' = registry
  BY <1>2, <1>5
<1>6. CASE Sweep
  <2>1. ASSUME NEW q \in Peers, SweepKeep(q)  PROVE from_peers(registry') = from_peers(registry)
    BY <1>0, <2>1, TouchFacts DEF SweepKeep
  <2>2. ASSUME NEW q \in Peers, SweepDrop(q)  PROVE registry'[p] = registry[p]
    BY <2>2 DEF SweepDrop, remove
  <2>3. CASE SweepHandshakes \/ SweepList \/ SweepRemovePeer \/ SweepEnd
    BY <1>5, <2>3 DEF SweepHandshakes, SweepList, SweepRemovePeer, SweepEnd
  <2>. QED  BY <1>2, <1>3, <1>6, <2>1, <2>2, <2>3 DEF Sweep
<1>7. ASSUME NEW q \in Peers, GoIdle(q)  PROVE from_peers(registry') = from_peers(registry)
  BY <1>0, <1>7, IdleSameFile
<1>8. ASSUME NEW c \in Conns, Accept(c) \/ RejectFirst(c) \/ Handle(c), ~UpdateRegistry(c)
      PROVE  registry' = registry
  BY <1>8 DEF Accept, RejectFirst, Handle, RejectFinish, RegistryRefuses, Install,
              InstallFails, Finish, FinishFails, Fail
<1>9. ASSUME NEW q \in Peers, WgHandshake(q) \/ WgQuiet(q)  PROVE registry' = registry
  BY <1>9 DEF WgHandshake, WgQuiet
<1>10. ~Start /\ ~Crash
  BY DEF Start, Crash
<1>11. UNCHANGED vars => registry' = registry
  BY DEF vars
<1>. QED  BY <1>3, <1>4, <1>5, <1>6, <1>7, <1>8, <1>9, <1>10, <1>11 DEF Next

\* A running server never weakens a session and never moves a peer, for any
\* number of clients and threads: only a new ClientHello, whose session id is
\* new, may lower a peer's algorithm.
THEOREM SessionsOnlyStrengthen == Spec => SessionOnlyStrengthens
<1>1. TypeInv /\ TypeInv' /\ SlotInv /\ [Next]_vars =>
        [up /\ up' =>
            \A p \in DOMAIN registry \cap DOMAIN registry' :
                /\ registry'[p].ip = registry[p].ip
                /\ registry'[p].sid = registry[p].sid
                       => registry'[p].algo >= registry[p].algo]_vars
  BY StrengthensNext
<1>. QED  BY <1>1, TypeInvariant, SlotInvariant, PTL DEF Spec, SessionOnlyStrengthens
=============================================================================
