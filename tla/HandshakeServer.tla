-------------------------- MODULE HandshakeServer --------------------------
(***************************************************************************)
(* The handshake server (server.rs, main.rs, tunnel.rs): one thread per    *)
(* TCP connection, the idle-sweep thread, crashes and restarts, over the   *)
(* registry they share, its file, and the WireGuard interface wg0.         *)
(*                                                                         *)
(* A connection thread is split where it touches shared state: the         *)
(* registry's mutex is held for each registry operation but not across     *)
(* them, and the calls to wg and the save are separate again. What a       *)
(* thread does in between (cryptography, writes to its own socket) is part *)
(* of the step next to it. A ClientHello gets a fresh session id, named    *)
(* after its connection; a PSK is known by the session and the algorithm   *)
(* it was negotiated for. A thread that ends forgets its locals; what its   *)
(* client was told is kept in "told".                                      *)
(***************************************************************************)
EXTENDS Registry

CONSTANTS
    Conns,            \* the connections clients make; bounds the run
    NoRequest,        \* no first message, or one forgotten
    MaxPeersArgs,     \* values the operator may give --max-peers at a start
    IdleSweep,        \* whether --idle-timeout-secs > 0
    Faults,           \* which outside calls may fail
    ActivePeers,      \* the clients that use their tunnel; bounds the run
    MaxCrashes        \* bound on the crashes of a behaviour

FaultKinds == {"install", "remove", "list", "handshakes", "persist"}

ASSUME SidsAssumption == Sids = Conns
ASSUME NoRequestAssumption ==
    NoRequest \notin [kind: {"hello", "rekey"}, peer: Peers, algo: Algos, sid: Sids]
ASSUME ArgsAssumption == MaxPeersArgs \subseteq Nat /\ MaxPeersArgs # {}
ASSUME SwitchesAssumption ==
    /\ IdleSweep \in BOOLEAN
    /\ Faults \subseteq FaultKinds
    /\ ActivePeers \subseteq Peers
    /\ MaxCrashes \in Nat

VARIABLES
    registry,   \* the in-memory map behind the mutex
    file,       \* the registry file
    wg,         \* wg0: the installed peers, their PSK, allowed address, liveness
    up,         \* whether the process runs
    max_peers,  \* the effective capacity of this run of the process
    pc,         \* where each connection thread is, or how it ended
    req,        \* the first message of each connection that reached the registry
    slot,       \* the address in the PeerSlot each connection holds
    told,       \* the address in the last ServerFinish sent to each client
    sweep,      \* where the idle sweep is
    live,       \* its wg_hs: peers with a recent WireGuard handshake
    todo,       \* idle peers it has still to visit
    victim,     \* the peer it dropped and has still to remove from wg0
    evicted,    \* whether it dropped a peer in this round
    crashes     \* number of crashes so far

connVars == <<pc, req, slot, told>>
sweepVars == <<sweep, live, todo, victim, evicted>>
bootVars == <<up, max_peers, crashes>>
vars == <<registry, file, wg, bootVars, connVars, sweepVars>>

Request == [kind: {"hello", "rekey"}, peer: Peers, algo: Algos, sid: Sids]
NoIp == 0
Psk == [sid: Sids, algo: Algos]
WgPeer == [psk: Psk, ip: Hosts \cup {NoIp}, recent: BOOLEAN]

Running == {"awaitFinish", "install", "persist"}

TypeOK ==
    /\ IsRegistry(registry)
    /\ IsFile(file)
    /\ DOMAIN wg \subseteq Peers /\ wg \in [DOMAIN wg -> WgPeer]
    /\ up \in BOOLEAN
    /\ max_peers \in 0..POOL_SIZE
    /\ pc \in [Conns -> {"idle", "ended"} \cup Running]
    /\ req \in [Conns -> Request \cup {NoRequest}]
    /\ slot \in [Conns -> Hosts \cup {NoIp}]
    /\ told \in [Peers -> Hosts \cup {NoIp}]
    /\ sweep \in {"sleep", "list", "visit"}
    /\ live \in SUBSET Peers
    /\ todo \in SUBSET Peers
    /\ victim \in SUBSET Peers
    /\ evicted \in BOOLEAN
    /\ crashes \in 0..MaxCrashes

\* The process has not started; there is no registry file and wg0 has no peers.
Init ==
    /\ registry = EmptyRegistry
    /\ file = EmptyRegistry
    /\ wg = EmptyRegistry
    /\ up = FALSE
    /\ max_peers = 0
    /\ pc = [c \in Conns |-> "idle"]
    /\ req = [c \in Conns |-> NoRequest]
    /\ slot = [c \in Conns |-> NoIp]
    /\ told = [p \in Peers |-> NoIp]
    /\ sweep = "sleep"
    /\ live = {} /\ todo = {} /\ victim = {} /\ evicted = FALSE
    /\ crashes = 0

-----------------------------------------------------------------------------
(***************************************************************************)
(* The wg command, as the kernel carries it out. Allowed addresses are     *)
(* exclusive: giving one to a peer takes it from the peer that had it.     *)
(***************************************************************************)
wg_set(dev, pk, psk, ip) ==
    [q \in DOMAIN dev \cup {pk} |->
        IF q = pk
        THEN [psk |-> psk, ip |-> ip, recent |-> pk \in DOMAIN dev /\ dev[pk].recent]
        ELSE [dev[q] EXCEPT !.ip = IF @ = ip THEN NoIp ELSE @]]

wg_remove(dev, pks) == [q \in DOMAIN dev \ pks |-> dev[q]]

\* The peers whose latest handshake is within the idle timeout.
last_handshakes(dev) == {p \in DOMAIN dev : dev[p].recent}

\* WireGuard completes a handshake with an installed peer (its time matters
\* to the sweep only).
WgHandshake(p) ==
    /\ IdleSweep /\ p \in ActivePeers
    /\ p \in DOMAIN wg /\ ~wg[p].recent
    /\ wg' = [wg EXCEPT ![p].recent = TRUE]
    /\ UNCHANGED <<registry, file, bootVars, connVars, sweepVars>>

\* The idle timeout passes since the last WireGuard handshake of a peer.
WgQuiet(p) ==
    /\ p \in DOMAIN wg /\ wg[p].recent
    /\ wg' = [wg EXCEPT ![p].recent = FALSE]
    /\ UNCHANGED <<registry, file, bootVars, connVars, sweepVars>>

\* The idle timeout passes since the last activity of a registered peer.
GoIdle(p) ==
    /\ IdleSweep
    /\ p \in DOMAIN registry /\ ~registry[p].idle
    /\ registry' = [registry EXCEPT ![p].idle = TRUE]
    /\ UNCHANGED <<file, wg, bootVars, connVars, sweepVars>>

-----------------------------------------------------------------------------
(***************************************************************************)
(* Process start: Registry::load, then reconcile_wg_peers, before the      *)
(* first connection is accepted. A failed list leaves wg0 as it is, a      *)
(* failed removal leaves that peer.                                        *)
(***************************************************************************)
\* Bug: the peers of wg0 are not reconciled with the registry.
BugReconcile(dev, known, kept) == dev

reconcile_wg_peers(dev, known, kept) == wg_remove(dev, (DOMAIN dev \ known) \ kept)

Start ==
    /\ ~up
    /\ up' = TRUE
    /\ \E arg \in MaxPeersArgs : max_peers' = effective_max_peers(arg)
    /\ \E idle \in SUBSET (IF IdleSweep THEN DOMAIN file ELSE {}) :
           registry' = load(file, idle)
    /\ LET stale == DOMAIN wg \ DOMAIN file
       IN  \E kept \in SUBSET stale :
               /\ kept # {} => \/ "remove" \in Faults
                               \/ "list" \in Faults /\ kept = stale
               /\ wg' = reconcile_wg_peers(wg, DOMAIN file, kept)
    /\ UNCHANGED <<file, crashes, connVars, sweepVars>>

\* The process dies: its memory and its connections are lost, the file and
\* wg0 stay.
Crash ==
    /\ up /\ crashes < MaxCrashes
    /\ up' = FALSE
    /\ crashes' = crashes + 1
    /\ registry' = EmptyRegistry
    /\ pc' = [c \in Conns |-> IF pc[c] \in Running THEN "ended" ELSE pc[c]]
    /\ req' = [c \in Conns |-> IF pc[c] \in Running THEN NoRequest ELSE req[c]]
    /\ slot' = [c \in Conns |-> IF pc[c] \in Running THEN NoIp ELSE slot[c]]
    /\ sweep' = "sleep"
    /\ live' = {} /\ todo' = {} /\ victim' = {} /\ evicted' = FALSE
    /\ UNCHANGED <<file, wg, max_peers, told>>

-----------------------------------------------------------------------------
(***************************************************************************)
(* handle_connection.                                                      *)
(***************************************************************************)
\* Message 1, a ClientHello or a RekeyRequest, is read and answered with
\* ServerHello. What it says first matters to other threads when the registry
\* is updated, and is chosen there.
Accept(c) ==
    /\ up /\ pc[c] = "idle"
    /\ pc' = [pc EXCEPT ![c] = "awaitFinish"]
    /\ UNCHANGED <<registry, file, wg, bootVars, req, slot, told, sweepVars>>

\* The thread ends, whatever its ConnResult or ConnError.
End(c) ==
    /\ pc' = [pc EXCEPT ![c] = "ended"]
    /\ req' = [req EXCEPT ![c] = NoRequest]
    /\ slot' = [slot EXCEPT ![c] = NoIp]

\* It ends with an Error message or a dropped connection and no other effect.
Fail(c) == End(c) /\ UNCHANGED <<registry, file, wg, bootVars, told, sweepVars>>

\* Message 1 is another message, does not parse, times out, or respond()
\* refuses it: an Error is sent and nothing else happens.
RejectFirst(c) == up /\ pc[c] = "idle" /\ Fail(c)

\* ServerHello cannot be written, or message 3 does not arrive in time, does
\* not parse, is not ClientFinish, or its session id or tag is wrong.
RejectFinish(c) == up /\ pc[c] = "awaitFinish" /\ Fail(c)

\* A ClientHello has a fresh session id; a RekeyRequest claims any id of an
\* earlier connection, or one the server never issued.
MayRequest(c, r) ==
    IF r.kind = "hello" THEN r.sid = c ELSE r.sid # c /\ pc[r.sid] # "idle"

UpdateResult(r) ==
    IF r.kind = "rekey"
    THEN rekey_result(registry, r.peer, r.sid, r.algo)
    ELSE upsert_result(registry, r.peer, max_peers)

Updated(r) ==
    IF r.kind = "rekey"
    THEN rekey(registry, r.peer, r.algo)
    ELSE upsert_handshake(registry, r.peer, r.algo, r.sid)

\* ClientFinish verifies; the registry is updated under its mutex, or refuses.
UpdateRegistry(c) ==
    /\ up /\ pc[c] = "awaitFinish"
    /\ \E r \in Request :
         /\ MayRequest(c, r)
         /\ UpdateResult(r) = "Ok"
         /\ registry' = Updated(r)
         /\ req' = [req EXCEPT ![c] = r]
         /\ slot' = [slot EXCEPT ![c] = Updated(r)[r.peer].ip]
    /\ pc' = [pc EXCEPT ![c] = "install"]
    /\ UNCHANGED <<file, wg, bootVars, told, sweepVars>>

RegistryRefuses(c) ==
    /\ up /\ pc[c] = "awaitFinish"
    /\ \E r \in Request : MayRequest(c, r) /\ UpdateResult(r) # "Ok"
    /\ Fail(c)

\* Bug: the answer is sent, and the thread ends, without waiting for wg.
BugInstall(c) ==
    /\ up /\ pc[c] = "install"
    /\ pc' = [pc EXCEPT ![c] = "persist"]
    /\ UNCHANGED <<registry, file, wg, bootVars, req, slot, told, sweepVars>>

Install(c) ==
    /\ up /\ pc[c] = "install"
    /\ wg' = wg_set(wg, req[c].peer, [sid |-> req[c].sid, algo |-> req[c].algo],
                     slot[c])
    /\ pc' = [pc EXCEPT ![c] = "persist"]
    /\ UNCHANGED <<registry, file, bootVars, req, slot, told, sweepVars>>

\* wg set fails: the client gets Error(INTERNAL); the registry keeps the
\* update and is not saved.
InstallFails(c) == "install" \in Faults /\ up /\ pc[c] = "install" /\ Fail(c)

\* Registry::persist writes a temporary file and renames it, under the mutex;
\* its failure is logged and the handshake goes on.
persist == file' = from_peers(registry) \/ ("persist" \in Faults /\ UNCHANGED file)

\* The registry is saved and ServerFinish is written.
Finish(c) ==
    /\ up /\ pc[c] = "persist"
    /\ persist
    /\ told' = [told EXCEPT ![req[c].peer] = slot[c]]
    /\ End(c)
    /\ UNCHANGED <<registry, wg, bootVars, sweepVars>>

\* The registry is saved, but ServerFinish cannot be written.
FinishFails(c) ==
    /\ up /\ pc[c] = "persist"
    /\ persist
    /\ End(c)
    /\ UNCHANGED <<registry, wg, bootVars, told, sweepVars>>

-----------------------------------------------------------------------------
(***************************************************************************)
(* spawn_idle_sweep: the loop body, split at its calls.                    *)
(***************************************************************************)
\* Bug: any handshake counts, however old.
BugSweepHandshakes ==
    /\ up /\ IdleSweep /\ sweep = "sleep"
    /\ live' = DOMAIN wg
    /\ sweep' = "list"
    /\ UNCHANGED <<registry, file, wg, bootVars, connVars, todo, victim, evicted>>

\* last_handshakes(); its failure is read as "no handshakes".
SweepHandshakes ==
    /\ up /\ IdleSweep /\ sweep = "sleep"
    /\ \/ live' = last_handshakes(wg)
       \/ "handshakes" \in Faults /\ live' = {}
    /\ sweep' = "list"
    /\ UNCHANGED <<registry, file, wg, bootVars, connVars, todo, victim, evicted>>

SweepList ==
    /\ up /\ sweep = "list"
    /\ todo' = idle_peers(registry)
    /\ live' = live \cap idle_peers(registry)     \* only these are looked up
    /\ sweep' = "visit"
    /\ UNCHANGED <<registry, file, wg, bootVars, connVars, victim, evicted>>

SweepKeep(p) ==
    /\ up /\ sweep = "visit" /\ victim = {}
    /\ p \in todo \cap live
    /\ registry' = touch(registry, p)
    /\ todo' = todo \ {p}
    /\ live' = live \ {p}
    /\ UNCHANGED <<file, wg, bootVars, connVars, sweep, victim, evicted>>

SweepDrop(p) ==
    /\ up /\ sweep = "visit" /\ victim = {}
    /\ p \in todo \ live
    /\ registry' = remove(registry, p)
    /\ todo' = todo \ {p}
    /\ victim' = {p}
    /\ evicted' = TRUE
    /\ UNCHANGED <<file, wg, bootVars, connVars, sweep, live>>

\* remove_peer; its failure is ignored.
SweepRemovePeer ==
    /\ up /\ sweep = "visit" /\ victim # {}
    /\ \/ wg' = wg_remove(wg, victim)
       \/ "remove" \in Faults /\ UNCHANGED wg
    /\ victim' = {}
    /\ UNCHANGED <<registry, file, bootVars, connVars, sweep, live, todo, evicted>>

\* Bug: an eviction is left to the next handshake to save.
BugSweepEnd ==
    /\ up /\ sweep = "visit" /\ todo = {} /\ victim = {}
    /\ sweep' = "sleep"
    /\ evicted' = FALSE
    /\ UNCHANGED <<registry, file, wg, bootVars, connVars, live, todo, victim>>

SweepEnd ==
    /\ up /\ sweep = "visit" /\ todo = {} /\ victim = {}
    /\ IF evicted
       THEN persist
       ELSE UNCHANGED file
    /\ sweep' = "sleep"
    /\ evicted' = FALSE
    /\ UNCHANGED <<registry, wg, bootVars, connVars, live, todo, victim>>

-----------------------------------------------------------------------------
\* The steps of a connection thread once it has answered message 1.
Handle(c) ==
    \/ RejectFinish(c) \/ UpdateRegistry(c) \/ RegistryRefuses(c)
    \/ Install(c) \/ InstallFails(c) \/ Finish(c) \/ FinishFails(c)

Sweep ==
    \/ SweepHandshakes \/ SweepList \/ SweepRemovePeer \/ SweepEnd
    \/ \E p \in Peers : SweepKeep(p) \/ SweepDrop(p)

Next ==
    \/ Start \/ Crash
    \/ \E c \in Conns : Accept(c) \/ RejectFirst(c) \/ Handle(c)
    \/ Sweep
    \/ \E p \in Peers : WgHandshake(p) \/ WgQuiet(p) \/ GoIdle(p)

Spec == Init /\ [][Next]_vars

\* The service unit restarts a failed process, the sweep's thread is scheduled,
\* and time passes.
Fairness ==
    /\ WF_vars(Start)
    /\ WF_vars(Sweep)
    /\ \A p \in Peers : WF_vars(GoIdle(p))

FairSpec == Spec /\ Fairness

-----------------------------------------------------------------------------
(***************************************************************************)
(* Properties.                                                             *)
(***************************************************************************)
\* No two peers ever hold the same tunnel address or the same session, in
\* memory or in the file a restart loads, whatever threads, evictions, failed
\* saves and crashes come between an allocation and the next (alloc_ip reads
\* the addresses in use from the map alone).
SlotsExclusive ==
    /\ UniqueIps(registry) /\ UniqueIps(file)
    /\ UniqueSids(registry) /\ UniqueSids(file)

\* The scan of alloc_ip always finds an address: no client is ever turned away
\* with AddressPoolExhausted, since the capacity check comes first and the
\* capacity is at most the size of the pool, also after a restart with another
\* --max-peers over a registry that was filled under the old one.
PoolNeverExhausted ==
    up => \A p \in Peers :
              upsert_result(registry, p, max_peers) # "AddressPoolExhausted"

\* While the process runs, a session never loses strength and a peer never
\* moves to another address: only a new ClientHello, with a new session id, may
\* lower the algorithm of a peer, and only its eviction frees its address.
SessionOnlyStrengthens ==
    [][up /\ up' =>
        \A p \in DOMAIN registry \cap DOMAIN registry' :
            /\ registry'[p].ip = registry[p].ip
            /\ registry'[p].sid = registry[p].sid
                   => registry'[p].algo >= registry[p].algo]_vars

\* Without eviction, wg0 mirrors the registry while the process runs: every
\* installed peer is registered and is routed exactly the address the
\* registry gave it, across crashes between update, install and save.
WgMirrorsRegistry ==
    up => \A p \in DOMAIN wg :
              p \in DOMAIN registry /\ wg[p].ip = registry[p].ip

\* Without eviction and failing saves, a client that was sent ServerFinish
\* stays served at the address it was told: it is registered and installed
\* with that address, also after any number of crashes and restarts.
AcknowledgedIsServed ==
    up => \A p \in Peers : told[p] # NoIp =>
              /\ p \in DOMAIN registry \cap DOMAIN wg
              /\ registry[p].ip = told[p]
              /\ wg[p].ip = told[p]

\* When wg set and the save do not fail, the file holds every session the registry
\* holds, and no other, whenever no thread is between its update and its save:
\* the last thread to save has saved everybody's updates.
QuiescentIsDurable ==
    (up /\ ~evicted /\ \A c \in Conns : pc[c] \notin {"install", "persist"})
        => file = from_peers(registry)

\* A peer that is gone for good does not hold its address for ever: if its
\* WireGuard handshakes are over, the sweep evicts it, whatever it failed to
\* read or remove in earlier rounds, and across a restart.
DeadPeersAreEvicted ==
    \A p \in Peers :
        ~<>[](p \in DOMAIN registry /\ (p \in DOMAIN wg => ~wg[p].recent))

\* The addresses the server has given out, in memory and in the file.
ip_of(map) == [p \in DOMAIN map |-> map[p].ip]

Leases == INSTANCE AddressLeases WITH
    Clients <- Peers, Addresses <- Hosts,
    on <- up, limit <- max_peers, lease <- ip_of(registry), saved <- ip_of(file)

\* The server implements AddressLeases: with all its threads, the sweep, the
\* crashes and the saves that fail, each step either grants one unknown client
\* a free address, drops one, saves, starts from the save, dies, or leaves the
\* addresses alone.
ImplementsLeases == Leases!Spec

-----------------------------------------------------------------------------
(***************************************************************************)
(* Statements of the documentation that the code does not keep.            *)
(***************************************************************************)
\* "A fresh ClientHello from a known pubkey replaces that peer's session (new
\* session_id, new PSK, same assigned_ip)", and a rekey swaps the PSK and
\* raises the algorithm (PROTOCOL.md 4.5, 4.6): once no connection of a peer
\* is about to install, the PSK on wg0 is one of the registered session, at
\* the registered algorithm.
PskIsOfSession ==
    \A p \in DOMAIN registry \cap DOMAIN wg :
        (\A c \in Conns : pc[c] = "install" => req[c].peer # p)
            => /\ wg[p].psk.sid = registry[p].sid
               /\ wg[p].psk.algo = registry[p].algo

\* "evict peers whose last activity *and* last WireGuard handshake are both
\* older than timeout" (spawn_idle_sweep): a peer that a running server drops
\* from its registry is idle, and has no recent WireGuard handshake.
EvictsOnlyIdle ==
    [][up /\ up' =>
        \A p \in DOMAIN registry \ DOMAIN registry' :
            /\ registry[p].idle
            /\ p \in DOMAIN wg => ~wg[p].recent]_vars
=============================================================================
