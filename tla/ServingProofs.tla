--------------------------- MODULE ServingProofs ---------------------------
(***************************************************************************)
(* Proofs about the default deployment, in which the idle sweep is off:    *)
(* wg0 follows the registry, and a client that was answered stays served.  *)
(***************************************************************************)
EXTENDS HandshakeServerProofs

\* While the process runs, the registry has every peer of the file, at the
\* same address: the file may be behind, never ahead.
FileInRegistry ==
    up => \A p \in DOMAIN file : p \in DOMAIN registry /\ registry[p].ip = file[p].ip

\* A thread on its way to configure wg0 or to answer holds the address that
\* the registry has for its peer.
ThreadsHoldSlots ==
    \A c \in Conns : pc[c] \in {"install", "persist"} =>
        /\ up
        /\ req[c].peer \in DOMAIN registry
        /\ registry[req[c].peer].ip = slot[c]

\* Also while the process is down, wg0 routes a saved peer at its saved address.
WgAgreesWithFile == \A p \in DOMAIN wg \cap DOMAIN file : wg[p].ip = file[p].ip

\* WgMirrorsRegistry speaks of a running process; a crash keeps wg0 and loses
\* the registry, so its induction goes through the file.
MirrorInv ==
    /\ sweep = "sleep"
    /\ FileInRegistry
    /\ ThreadsHoldSlots
    /\ WgMirrorsRegistry
    /\ WgAgreesWithFile

\* An empty wg0 mirrors an empty registry.
LEMMA MirrorInit == Init => MirrorInv
BY DEF Init, MirrorInv, FileInRegistry, ThreadsHoldSlots, WgMirrorsRegistry,
       WgAgreesWithFile, EmptyRegistry

\* What a start does when no call to wg fails: exactly the peers of the file
\* remain on wg0.
LEMMA CleanStart ==
    ASSUME "remove" \notin Faults, "list" \notin Faults, Start
    PROVE  /\ DOMAIN wg' = DOMAIN wg \cap DOMAIN file
           /\ \A p \in DOMAIN wg' : wg'[p] = wg[p]
<1>1. wg' = reconcile_wg_peers(wg, DOMAIN file, {})
  BY DEF Start
<1>. QED  BY <1>1 DEF reconcile_wg_peers, wg_remove

\* A start removes from wg0 what the file does not know (reconcile_wg_peers).
LEMMA StartMirrors ==
    ASSUME "remove" \notin Faults, "list" \notin Faults, TypeInv, MirrorInv, Start
    PROVE  MirrorInv'
<1>1. PICK idle : registry' = load(file, idle)
  BY DEF Start
<1>2. /\ DOMAIN registry' = DOMAIN file
      /\ \A p \in DOMAIN file : registry'[p].ip = file[p].ip
  BY <1>1, LoadFacts DEF TypeInv, TypeOK
<1>3. ~up /\ file' = file /\ pc' = pc /\ sweep' = sweep
  BY DEF Start, connVars, sweepVars
<1>4. FileInRegistry'
  BY <1>2, <1>3 DEF FileInRegistry
<1>5. ThreadsHoldSlots'
  BY <1>3 DEF MirrorInv, ThreadsHoldSlots
<1>6. WgAgreesWithFile'
  BY <1>3, CleanStart DEF MirrorInv, WgAgreesWithFile
<1>7. WgMirrorsRegistry'
  BY <1>2, CleanStart DEF MirrorInv, WgAgreesWithFile, WgMirrorsRegistry
<1>. QED  BY <1>3, <1>4, <1>5, <1>6, <1>7 DEF MirrorInv

\* A crash leaves wg0 and the file in agreement.
LEMMA CrashMirrors == ASSUME MirrorInv, TypeInv, Crash  PROVE MirrorInv'
<1>1. ~up' /\ file' = file /\ wg' = wg /\ sweep' = "sleep"
  BY DEF Crash
<1>2. \A c \in Conns : pc'[c] \notin {"install", "persist"}
  BY DEF Crash, Running
<1>. QED  BY <1>1, <1>2 DEF MirrorInv, FileInRegistry, ThreadsHoldSlots,
                            WgMirrorsRegistry, WgAgreesWithFile

\* The registry update moves nobody: what wg0 has stays registered.
LEMMA UpdateMirrors ==
    ASSUME TypeInv, MirrorInv, NEW c \in Conns, UpdateRegistry(c)
    PROVE  MirrorInv'
<1>1. /\ IsRegistry(registry)
      /\ pc \in [Conns -> {"idle", "ended"} \cup Running]
      /\ req \in [Conns -> Request \cup {NoRequest}]
      /\ slot \in [Conns -> Hosts \cup {NoIp}]
  BY DEF TypeInv, TypeOK
<1>2. PICK r \in Request :
         /\ UpdateResult(r) = "Ok"
         /\ registry' = Updated(r)
         /\ req' = [req EXCEPT ![c] = r]
         /\ slot' = [slot EXCEPT ![c] = Updated(r)[r.peer].ip]
  BY DEF UpdateRegistry
<1>3. /\ up /\ up' /\ file' = file /\ wg' = wg /\ sweep' = sweep
      /\ pc' = [pc EXCEPT ![c] = "install"]
  BY DEF UpdateRegistry, bootVars, sweepVars
<1>4. DOMAIN registry' = DOMAIN registry \cup {r.peer}
  BY <1>1, <1>2, UpdatedFacts
<1>5. ASSUME NEW p \in DOMAIN registry  PROVE registry'[p].ip = registry[p].ip
  <2>1. CASE p = r.peer
    BY <1>1, <1>2, <2>1, UpdatedFacts
  <2>2. CASE p # r.peer
    <3>1. registry'[p] = registry[p]
      BY <1>1, <1>2, <2>2, UpdatedFacts
    <3>. QED  BY <3>1
  <2>. QED  BY <2>1, <2>2
<1>6. ThreadsHoldSlots'
  <2>. SUFFICES ASSUME NEW d \in Conns, pc'[d] \in {"install", "persist"}
                PROVE  /\ up'
                       /\ req'[d].peer \in DOMAIN registry'
                       /\ registry'[req'[d].peer].ip = slot'[d]
    BY DEF ThreadsHoldSlots
  <2>1. CASE d = c
    BY <1>1, <1>2, <1>3, <1>4, <2>1
  <2>2. CASE d # c
    BY <1>1, <1>2, <1>3, <1>4, <1>5, <2>2 DEF MirrorInv, ThreadsHoldSlots
  <2>. QED  BY <2>1, <2>2
<1>. QED  BY <1>3, <1>4, <1>5, <1>6 DEF MirrorInv, FileInRegistry, WgMirrorsRegistry,
                                        WgAgreesWithFile

\* The kernel would take an address from the peer that has it. It never has
\* to: the registry gives it to nobody else.
LEMMA InstallMirrors ==
    ASSUME TypeInv, SlotInv, MirrorInv, NEW c \in Conns, Install(c)
    PROVE  MirrorInv'
<1>. DEFINE pk == req[c].peer  ip == slot[c]
            psk == [sid |-> req[c].sid, algo |-> req[c].algo]
<1>1. /\ up /\ up' /\ file' = file /\ registry' = registry /\ sweep' = sweep
      /\ req' = req /\ slot' = slot
      /\ pc' = [pc EXCEPT ![c] = "persist"] /\ pc[c] = "install"
      /\ wg' = wg_set(wg, pk, psk, ip)
  BY DEF Install, bootVars, sweepVars
<1>2. pc \in [Conns -> {"idle", "ended"} \cup Running]
  BY DEF TypeInv, TypeOK
<1>3. pk \in DOMAIN registry /\ registry[pk].ip = ip
  BY <1>1 DEF MirrorInv, ThreadsHoldSlots
<1>. HIDE DEF pk, ip, psk
<1>4. DOMAIN wg' = DOMAIN wg \cup {pk} /\ wg'[pk].ip = ip
  BY <1>1 DEF wg_set
<1>5. ASSUME NEW q \in DOMAIN wg \ {pk}  PROVE wg'[q].ip = wg[q].ip
  <2>1. wg[q] \in WgPeer
    BY DEF TypeInv, TypeOK
  <2>2. q \in DOMAIN registry /\ wg[q].ip = registry[q].ip
    BY <1>1 DEF MirrorInv, WgMirrorsRegistry
  <2>3. wg[q].ip # ip
    BY <1>3, <2>2 DEF SlotInv, SlotsExclusive, UniqueIps
  <2>4. wg'[q] = [wg[q] EXCEPT !.ip = IF wg[q].ip = ip THEN NoIp ELSE wg[q].ip]
    BY <1>1 DEF wg_set
  <2>. QED  BY <2>1, <2>3, <2>4 DEF WgPeer
<1>6. WgMirrorsRegistry'
  BY <1>1, <1>3, <1>4, <1>5 DEF MirrorInv, WgMirrorsRegistry
<1>7. FileInRegistry' /\ WgAgreesWithFile'
  BY <1>1, <1>6 DEF MirrorInv, FileInRegistry, WgMirrorsRegistry, WgAgreesWithFile
<1>8. ThreadsHoldSlots'
  BY <1>1, <1>2 DEF MirrorInv, ThreadsHoldSlots
<1>. QED  BY <1>1, <1>6, <1>7, <1>8 DEF MirrorInv

\* A save, or a failed save, leaves the file no further than the registry.
LEMMA FinishMirrors ==
    ASSUME TypeInv, MirrorInv, NEW c \in Conns, Finish(c) \/ FinishFails(c)
    PROVE  MirrorInv'
<1>1. /\ up /\ up' /\ registry' = registry /\ wg' = wg /\ sweep' = sweep
      /\ persist /\ End(c)
  BY DEF Finish, FinishFails, bootVars, sweepVars
<1>2. /\ IsRegistry(registry)
      /\ pc \in [Conns -> {"idle", "ended"} \cup Running]
      /\ req \in [Conns -> Request \cup {NoRequest}]
      /\ slot \in [Conns -> Hosts \cup {NoIp}]
  BY DEF TypeInv, TypeOK
<1>3. FileInRegistry'
  <2>1. CASE file' = file
    BY <1>1, <2>1 DEF MirrorInv, FileInRegistry
  <2>2. CASE file' = from_peers(registry)
    BY <1>1, <1>2, <2>2, SaveFacts DEF FileInRegistry
  <2>. QED  BY <1>1, <2>1, <2>2 DEF persist
<1>4. WgMirrorsRegistry'
  BY <1>1 DEF MirrorInv, WgMirrorsRegistry
<1>5. WgAgreesWithFile'
  BY <1>1, <1>3, <1>4 DEF FileInRegistry, WgMirrorsRegistry, WgAgreesWithFile
<1>6. ThreadsHoldSlots'
  BY <1>1, <1>2 DEF End, MirrorInv, ThreadsHoldSlots
<1>. QED  BY <1>1, <1>3, <1>4, <1>5, <1>6 DEF MirrorInv

\* Every step of the default deployment keeps wg0 in step.
LEMMA MirrorNext ==
    ASSUME ~IdleSweep, "remove" \notin Faults, "list" \notin Faults
    PROVE  TypeInv /\ SlotInv /\ MirrorInv /\ [Next]_vars => MirrorInv'
<1>. SUFFICES ASSUME TypeInv, SlotInv, MirrorInv, [Next]_vars  PROVE MirrorInv'
  OBVIOUS
<1>0. pc \in [Conns -> {"idle", "ended"} \cup Running]
  BY DEF TypeInv, TypeOK
<1>1. CASE UNCHANGED vars
  BY <1>1 DEF vars, bootVars, connVars, sweepVars, MirrorInv, FileInRegistry,
              ThreadsHoldSlots, WgMirrorsRegistry, WgAgreesWithFile
<1>2. ASSUME NEW c \in Conns, Accept(c) \/ RejectFirst(c) \/ Handle(c)  PROVE MirrorInv'
  <2>1. CASE Accept(c) \/ RejectFirst(c) \/ RejectFinish(c) \/ RegistryRefuses(c) \/ InstallFails(c)
    <3>1. /\ up' = up /\ registry' = registry /\ file' = file /\ wg' = wg /\ sweep' = sweep
      BY <2>1 DEF Accept, RejectFirst, RejectFinish, RegistryRefuses, InstallFails, Fail,
                  bootVars, sweepVars
    <3>2. \A d \in Conns : pc'[d] \in {"install", "persist"} =>
             pc[d] = pc'[d] /\ req'[d] = req[d] /\ slot'[d] = slot[d]
      BY <1>0, <2>1 DEF Accept, RejectFirst, RejectFinish, RegistryRefuses, InstallFails,
                        Fail, End, TypeInv, TypeOK
    <3>3. ThreadsHoldSlots'
      BY <3>1, <3>2 DEF MirrorInv, ThreadsHoldSlots
    <3>. QED  BY <3>1, <3>3 DEF MirrorInv, FileInRegistry, WgMirrorsRegistry,
                                WgAgreesWithFile
  <2>2. CASE UpdateRegistry(c)
    BY <2>2, UpdateMirrors
  <2>3. CASE Install(c)
    BY <2>3, InstallMirrors
  <2>4. CASE Finish(c) \/ FinishFails(c)
    BY <2>4, FinishMirrors
  <2>. QED  BY <1>2, <2>1, <2>2, <2>3, <2>4 DEF Handle
<1>3. ~Sweep
  BY DEF MirrorInv, Sweep, SweepHandshakes, SweepList, SweepKeep, SweepDrop,
         SweepRemovePeer, SweepEnd
<1>4. ASSUME NEW p \in Peers, WgHandshake(p) \/ WgQuiet(p) \/ GoIdle(p)  PROVE MirrorInv'
  <2>1. /\ WgQuiet(p)
        /\ up' = up /\ registry' = registry /\ file' = file /\ sweep' = sweep
        /\ pc' = pc /\ req' = req /\ slot' = slot
    BY <1>4 DEF WgHandshake, WgQuiet, GoIdle, bootVars, connVars, sweepVars
  <2>2. wg \in [DOMAIN wg -> WgPeer]
    BY DEF TypeInv, TypeOK
  <2>3. DOMAIN wg' = DOMAIN wg /\ \A q \in DOMAIN wg : wg'[q].ip = wg[q].ip
    BY <2>1, <2>2 DEF WgQuiet, WgPeer
  <2>. QED  BY <2>1, <2>3 DEF MirrorInv, FileInRegistry, ThreadsHoldSlots,
                              WgMirrorsRegistry, WgAgreesWithFile
<1>. QED  BY <1>1, <1>2, <1>3, <1>4, StartMirrors, CrashMirrors DEF Next

\* The inductive invariant holds always.
LEMMA MirrorInvariant ==
    ASSUME ~IdleSweep, "remove" \notin Faults, "list" \notin Faults
    PROVE  Spec => []MirrorInv
BY MirrorInit, MirrorNext, TypeInvariant, SlotInvariant, PTL DEF Spec

\* With the idle sweep off, and unless wg refuses to list or remove peers at a
\* start, every peer on wg0 is registered and has the registered address, also
\* if wg set and saves fail, and across any number of crashes.
THEOREM WgMirrors ==
    ASSUME ~IdleSweep, "remove" \notin Faults, "list" \notin Faults
    PROVE  Spec => []WgMirrorsRegistry
<1>1. MirrorInv => WgMirrorsRegistry
  BY DEF MirrorInv
<1>. QED  BY <1>1, MirrorInvariant, PTL

-----------------------------------------------------------------------------
(***************************************************************************)
(* A client that was answered stays served.                                *)
(***************************************************************************)
\* What was promised is saved and installed, also while the process is down;
\* what is about to be promised is installed.
PromisesKept ==
    /\ \A p \in Peers : told[p] # NoIp =>
           p \in DOMAIN file \cap DOMAIN wg /\ file[p].ip = told[p]
    /\ \A c \in Conns : pc[c] = "persist" => req[c].peer \in DOMAIN wg

\* Nothing is promised at first.
LEMMA PromisesInit == Init => PromisesKept
BY DEF Init, PromisesKept

\* Every step keeps what was promised, if saves do not fail.
LEMMA PromisesNext ==
    ASSUME ~IdleSweep, "remove" \notin Faults, "list" \notin Faults, "persist" \notin Faults
    PROVE  TypeInv /\ MirrorInv /\ PromisesKept /\ [Next]_vars => PromisesKept'
<1>. SUFFICES ASSUME TypeInv, MirrorInv, PromisesKept, [Next]_vars  PROVE PromisesKept'
  OBVIOUS
<1>0. /\ IsRegistry(registry)
      /\ pc \in [Conns -> {"idle", "ended"} \cup Running]
      /\ req \in [Conns -> Request \cup {NoRequest}]
      /\ told \in [Peers -> Hosts \cup {NoIp}]
  BY DEF TypeInv, TypeOK
<1>1. CASE UNCHANGED vars
  BY <1>1 DEF vars, connVars, PromisesKept
<1>2. CASE Start
  <2>1. file' = file /\ told' = told /\ pc' = pc /\ req' = req /\ ~up
    BY <1>2 DEF Start, connVars
  <2>2. \A c \in Conns : pc'[c] # "persist"
    BY <2>1 DEF MirrorInv, ThreadsHoldSlots
  <2>. QED  BY <1>2, <2>1, <2>2, CleanStart DEF PromisesKept
<1>3. CASE Crash
  BY <1>3 DEF Crash, Running, PromisesKept
<1>4. ASSUME NEW c \in Conns, Accept(c) \/ RejectFirst(c) \/ Handle(c)  PROVE PromisesKept'
  <2>1. CASE Accept(c) \/ RejectFirst(c) \/ RejectFinish(c) \/ RegistryRefuses(c)
             \/ InstallFails(c) \/ UpdateRegistry(c)
    <3>1. file' = file /\ wg' = wg /\ told' = told
      BY <2>1 DEF Accept, RejectFirst, RejectFinish, RegistryRefuses, InstallFails,
                  UpdateRegistry, Fail
    <3>2. \A d \in Conns : pc'[d] = "persist" => pc[d] = "persist" /\ req'[d] = req[d]
      BY <1>0, <2>1 DEF Accept, RejectFirst, RejectFinish, RegistryRefuses, InstallFails,
                        UpdateRegistry, Fail, End
    <3>. QED  BY <3>1, <3>2 DEF PromisesKept
  <2>2. CASE Install(c)
    <3>1. file' = file /\ told' = told /\ req' = req /\ pc' = [pc EXCEPT ![c] = "persist"]
      BY <2>2 DEF Install
    <3>2. DOMAIN wg' = DOMAIN wg \cup {req[c].peer}
      BY <2>2 DEF Install, wg_set
    <3>. QED  BY <1>0, <3>1, <3>2 DEF PromisesKept
  <2>3. CASE Finish(c) \/ FinishFails(c)
    <3>1. /\ up /\ wg' = wg /\ file' = from_peers(registry) /\ End(c) /\ pc[c] = "persist"
          /\ told' = told \/ told' = [told EXCEPT ![req[c].peer] = slot[c]]
      BY <2>3 DEF Finish, FinishFails, persist
    <3>2. /\ DOMAIN file' = DOMAIN registry
          /\ \A p \in DOMAIN registry : file'[p].ip = registry[p].ip
      BY <1>0, <3>1, SaveFacts
    <3>3. req[c].peer \in DOMAIN wg /\ req[c].peer \in DOMAIN registry
          /\ registry[req[c].peer].ip = slot[c]
      BY <3>1 DEF PromisesKept, MirrorInv, ThreadsHoldSlots
    <3>4. ASSUME NEW p \in Peers, told'[p] # NoIp
          PROVE  p \in DOMAIN file' \cap DOMAIN wg' /\ file'[p].ip = told'[p]
      <4>1. CASE told'[p] = told[p]
        <5>1. p \in DOMAIN file \cap DOMAIN wg /\ file[p].ip = told[p]
          BY <3>4, <4>1 DEF PromisesKept
        <5>2. p \in DOMAIN registry /\ registry[p].ip = file[p].ip
          BY <3>1, <5>1 DEF MirrorInv, FileInRegistry
        <5>. QED  BY <3>1, <3>2, <4>1, <5>1, <5>2
      <4>2. CASE told'[p] # told[p]
        <5>1. p = req[c].peer /\ told'[p] = slot[c]
          BY <1>0, <3>1, <4>2
        <5>. QED  BY <3>1, <3>2, <3>3, <5>1
      <4>. QED  BY <4>1, <4>2
    <3>5. \A d \in Conns : pc'[d] = "persist" => pc[d] = "persist" /\ req'[d] = req[d]
      BY <1>0, <3>1 DEF End
    <3>. QED  BY <3>1, <3>4, <3>5 DEF PromisesKept
  <2>. QED  BY <1>4, <2>1, <2>2, <2>3 DEF Handle
<1>5. ~Sweep
  BY DEF MirrorInv, Sweep, SweepHandshakes, SweepList, SweepKeep, SweepDrop,
         SweepRemovePeer, SweepEnd
<1>6. ASSUME NEW p \in Peers, WgHandshake(p) \/ WgQuiet(p) \/ GoIdle(p)  PROVE PromisesKept'
  BY <1>6 DEF WgHandshake, WgQuiet, GoIdle, connVars, PromisesKept
<1>. QED  BY <1>1, <1>2, <1>3, <1>4, <1>5, <1>6 DEF Next

\* With the idle sweep off, and unless wg refuses to list or remove peers at a
\* start or a save fails, a client that was sent ServerFinish stays registered
\* and installed at the address it was told, across any number of crashes and
\* restarts and whatever other clients do.
THEOREM AcknowledgedStaysServed ==
    ASSUME ~IdleSweep, "remove" \notin Faults, "list" \notin Faults, "persist" \notin Faults
    PROVE  Spec => []AcknowledgedIsServed
<1>1. Spec => []PromisesKept
  BY PromisesInit, PromisesNext, TypeInvariant, MirrorInvariant, PTL DEF Spec
<1>2. MirrorInv /\ PromisesKept => AcknowledgedIsServed
  BY DEF MirrorInv, PromisesKept, FileInRegistry, WgMirrorsRegistry, AcknowledgedIsServed
<1>. QED  BY <1>1, <1>2, MirrorInvariant, PTL
=============================================================================
