# A verification project for PQC_VPN

PQC_VPN is a WireGuard VPN whose pre-shared keys come from a post-quantum
hybrid handshake, and whose client lets a learned policy choose the strength of
that handshake. This directory holds TLA+ models of its core, the TLC
configurations that check them on small instances, and TLAPS proofs that carry
the main results to every instance. `PROJECT.json` records which definition
models which lines, what each run expects, and which hazards the properties are
for.

## The system

| component | state | operations | what makes it correct |
|---|---|---|---|
| peer registry (`handshake-server/src/registry.rs`) | map from WireGuard key to address, session, algorithm, times; its JSON file | `upsert_handshake`, `rekey`, `alloc_ip`, `touch`, `idle_peers`, `remove`, `persist`, `load` | addresses and sessions exclusive; an address for everyone under the capacity; no downgrade within a session |
| handshake server (`server.rs`, `main.rs`) | one thread per connection, the idle-sweep thread, process life cycle | `handle_connection`, `reconcile_wg_peers`, `spawn_idle_sweep`, `serve` | registry, file and wg0 agree although no lock spans the three; who was answered is served; the dead are evicted |
| WireGuard control (`tunnel.rs`) | the peers of `wg0`, in the kernel | `install`, `remove_peer`, `list_installed_peers`, `last_handshakes` | each call may fail |
| handshake, transcript, keys, framing (`handshake.rs`, `kdf.rs`, `transcript.rs`, `wire.rs`) | per connection | `respond`, tags, `Message::read/write` | both sides derive the same key from the same transcript; every error has its code |
| server identity (`identity.rs`) | the seed file | `load_or_create`, `save` | the pinned key survives restarts |
| client protocol (`core/src/protocol`, rekey in `test-client.rs`) | one connection attempt | `connect`, timeouts | a completed connect means a server that holds the same PSK; every connect returns |
| decision gate (`core/src/rl/gate.rs`, ported from `client/rl_agent/decision_gate.py`) | algorithm in force, candidate, streak, cooldown | `update` | a change needs a full streak; a rekey never weakens and is rate-limited |
| state pipeline (`core/src/state`) | caps, time since the last rekey | `observe`, `advance`, `mark_rekey` | the vector in range for any reading; the timer neither early nor more than a tick late |
| anomaly detector (`anomaly_detector.py`) | sliding windows | `update` of each layer, combiner | scores in range, warm-up, gating by CPU load |
| desktop application (`desktop/`) | connection status, last network sample; what the window shows | `connect`, `disconnect`, `connection_status`, `device_snapshot`; the window's buttons | the status shown is the status held; the link and the rate shown are ones the machine had |
| training, export, demo, deployment | files | scripts | not reactive; not modelled |

How they interact: a client opens a TCP connection, sends `ClientHello` or
`RekeyRequest`, gets `ServerHello`, sends `ClientFinish`. The server's thread
then updates the registry (mutex), calls `wg set` (a process), saves the
registry (mutex), and writes `ServerFinish`. Other connection threads, and the
sweep thread that reads wg0's handshake times, lists idle peers, drops them and
saves, run between any two of these. At start-up the file is loaded and wg0 is
cleared of peers the file does not know. On the client, each 5-second tick
gives the gate the policy's probabilities, and its decision is to be carried out
as a rekey or a new handshake. The desktop application does not yet drive any of
this: its connect is a stub, and its device readings go to the window only.

The hard behaviours are therefore: the windows between update, install and save;
the sweep's stale list; failures that are logged and passed over; crashes in any
of the windows; the limits of the address pool; messages lost while either side
waits, and a client that retries while the thread of its last attempt still runs;
a crash while the identity is created; frames that arrive in pieces; answers that
overtake each other on their way to the window; and the gate's counters under
arbitrary input. Each is a hazard in `PROJECT.json`, at its line.

## The modules

**Registry** — the registry's operations as operators on a function from public
keys to records, one operator per method, each an atomic step because the code
holds the mutex for the whole method. `upsert_result` and `rekey_result` are the
results (`Ok` or the `RegistryError`) in the order the code tests for them.
`from_peers` and `load` are what a save writes and a start reads back.
Abstractions: an address is its last octet; `last_activity` is the Boolean
`idle` (older than the timeout); `created` and `rekeys` are never read.

**HandshakeServer** — extends Registry with the shared state (`registry`, `file`,
`wg`), the process (`up`, `max_peers`), the connection threads (`pc`, `req`,
`slot`) and the sweep (`sweep`, `live`, `todo`, `victim`, `evicted`). `told` is
what the last `ServerFinish` told each client. One action per stretch of code
between two touches of shared state:

| action | code |
|---|---|
| `Start`, `Crash` | `main` to the accept loop; the process dies at any point |
| `Accept`, `RejectFirst` | message 1 read and answered, or refused |
| `RejectFinish` | message 3 missing or wrong |
| `UpdateRegistry`, `RegistryRefuses` | `registry.rekey` / `registry.upsert_handshake` |
| `Install`, `InstallFails` | `installer.install` |
| `Finish`, `FinishFails` | `registry.persist` and `ServerFinish` |
| `SweepHandshakes`, `SweepList`, `SweepKeep`, `SweepDrop`, `SweepRemovePeer`, `SweepEnd` | the body of the sweep's loop |
| `WgHandshake`, `WgQuiet`, `GoIdle` | traffic, and time passing |

Decisions worth knowing:

- What a connection asks for is chosen when it reaches the registry: before that
  no other thread can see it. A `ClientHello` has a fresh session id, named after
  its connection (random 16 bytes in the code); a `RekeyRequest` names any
  earlier one, right or wrong.
- A PSK is known by the session and algorithm it was negotiated for.
- `wg set ... allowed-ips` moves an address that another peer had, as the kernel
  does. A `wg` command that fails changes nothing. A crash takes a running `wg`
  with it, as the service manager kills the whole control group.
- Time only shows through the idle tests. Peers may be idle or not after a
  restart, whatever was saved; within a run of the process the clock does not go
  back. `last_handshakes` and the `now` read after it are one step.
- A registry file that cannot be parsed is not modelled. The rename in `persist`
  makes the old or the new file visible and nothing in between.
- `Faults` says which outside calls may fail, so that a property can be stated
  for exactly the faults the code withstands.

**DecisionGate** — `update` as its four return paths over `in_force`,
`candidate`, `streak` and `rekey_blocked_for`. `asked`, `wins` and `quiet` are an
observer that reads the inputs and the outputs, never the gate's counters; the
properties compare the two. Probabilities are integers, the margin likewise; the
Rust code's 32-bit rounding at the exact margin is left out.

**AddressLeases** — the abstract specification of the server: who holds which
address, what was saved, and how many may hold one; `Boot`, `Die`, `Grant`,
`Release`, `Save`. HandshakeServer instantiates it with `lease` and `saved` read off
the registry and the file (`Leases == INSTANCE AddressLeases WITH ...`);
`ImplementsLeases` says that every step of the server is one of these or changes
no lease: a rekey, a replaced session, a sweep that keeps its peer, a failed
install and a failed save are all invisible there.

**HybridKem** — the cryptography as terms: a hash, a MAC or a signature is the
tuple of what it is taken over, so equal means equal inputs in equal places.
ML-KEM decapsulation under the wrong key yields another secret and no error, as
the real one does. Operators are named after the functions. Transcript and key derivation are one
piece of code in `vpn_core` that the server enters through adapters of its own:
`derive` and `TranscriptInputs_build` are those adapters, defined by the shared
operators, and what can be wrong in them is which value they pass in which place.
Only the tags are written once per side (`tags.rs` in the core, `kdf.rs` in the server).

**ServerIdentity** — `load_or_create` and `save` up to the publication of the key.
`fs::write` opens and truncates before it writes; between the two the file is
`"short"`, and a process that dies there leaves it so. `load_or_create` refuses
such a file, so there is no action for it: the server does not start until somebody
removes the file. No client can have pinned that key, which is what
`PinsStayValid` rests on.

**HandshakeProtocol** — composes HandshakeServer, ServerIdentity and HybridKem with
the clients. Each action of a server thread is the action of HandshakeServer of
the same step, conjoined with the message it reads, the check the message must
pass and the answer it writes; `first` fixes what HandshakeServer left open, the
request. Its own state is the client's: where `connect` is (`cl`), what it derived
(`held`), its result (`config`), the key it pins and the connection its tunnel comes
from. A message waits on its connection until it is read, or is lost with it
(`ClientBroken`, `ServerBroken`, `ServerRejectsFirst`); a reader of nothing times
out (`ClientTimeout`, `ServerTimeout`). A client makes one attempt at a time, but the
server's thread of an earlier attempt may still be running. The idle sweep is not
part of this module's next-state relation.

**WireFormat, WireStream** — the frames as sequences of small bytes. `BASE` stands for
256 and the sizes of fields are constants; u16 values are two bytes and wrap as in
the code. Encoders and decoders follow the code field by field, with the errors in
their order. `Message` is the set of messages the two code bases can make: keys,
ciphertexts and signatures have the sizes the libraries give them, and the text of an
`Error` is a `String`, so valid UTF-8. WireStream sends frames down one direction of a connection that
delivers them in any pieces, may be cut after any byte, and may have one byte
changed. The core and the server each have a copy of this code; `PROJECT.json` maps
the writer of a message to the side that writes it and the reader to the other.

**SysinfoDevice, DesktopApp** — the readings that keep state between calls (the list
of interfaces with their counters, the time of the last sample) over a machine
whose interfaces come, go and send; and the window with the process behind it.
Commands run one at a time in the order they were sent (they are synchronous
Tauri commands), answers arrive in any order, a page may be loaded again at any
time. `device_snapshot` is two steps, because the machine goes on between the
upload reading and the link reading. Within the upload reading, the refresh of the
counters and the new sample time are one moment, and the lower limit of a
microsecond on the elapsed time is left out: both are below the unit of the clock.

**StatePipeline** — fractions are integers of `SCALE` steps, and `NaN` a value of its
own that `clamp` lets through and `max` does not, as IEEE arithmetic has it.
Its caller, the control loop, is external.

**RegistryProofs, HandshakeServerProofs, ServingProofs, LeasesProofs, ProtocolProofs,
WireProofs, ClientProofs, DecisionGateProofs** hold the theorems; **MCHandshakeServer, MCHandshakeProtocol,
MCWireStream, MCClient, MCDecisionGate** the constants and symmetry for TLC. MCClient
checks the desktop application and the pipeline in one run: they share no state,
and each behaviour is one of the two. Definitions named `Bug...` are plausible mistakes in the code; each
property is known to catch one of them, and no specification uses them.

## The runs

| run | instance | shows |
|---|---|---|
| `server_faults` | 2 peers, 3 connections, 2 algorithms, 2 addresses, eviction, failing saves, 1 crash | `TypeOK`, `SlotsExclusive`, `SessionOnlyStrengthens` |
| `server_default` | 3 peers, 4 connections, 2 addresses, capacity 1 or full at each start, failing `wg set`, 2 crashes, no eviction (the default) | `WgMirrorsRegistry`, `AcknowledgedIsServed`, `ImplementsLeases` |
| `server_fair` | 2 peers, 2 connections, 1 address, capacity 0 or full, failing list, remove and last-handshakes, 2 crashes, fairness | `PoolNeverExhausted`, `QuiescentIsDurable`, `DeadPeersAreEvicted`, and the refinement `ImplementsLeases` |
| `server_psk` | 2 peers, 2 connections, no faults | violates `PskIsOfSession` |
| `server_evict` | 2 peers, 2 connections, eviction, no faults | violates `EvictsOnlyIdle` |
| `protocol` | 2 clients, 3 connections, 2 algorithms, 2 identities, failing `wg set`, 1 crash after the first start and any number before it | `TunnelAgreement`, `NoFalseAlarm`, `PinsStayValid` |
| `protocol_live` | 2 clients, 2 connections, the same faults, fairness | `EveryoneReturns` |
| `protocol_rekey` | 1 client, 3 connections, no faults | violates `RekeyCheckedFirst` |
| `wire` | all message kinds, 2 algorithms, up to 2 messages, 7 byte values, payloads up to 14 bytes; one cut, one changed byte | `ReadIsWritten`, `AcceptedIsCanonical` |
| `client` | 4 interfaces, 3 clicks, a reload, 2 snapshots; pipeline with zero and positive caps, NaN, 6 time steps | `WindowShowsStatus`, `LinkIsCurrent`, `RateIsReal`, `VectorInRange`, `RekeyTimerIsHonest` |
| `gate` | the shipped constants, all vectors of probabilities in twentieths | `GateInv`, `ChangesOnFullStreak`, `WeakensOnlyByChange`, `RekeysSpacedByCooldown` |
| `gate_doc` | the same | violates `MovesOnlyByChange` |

Why the bounds are enough to be interesting. Three connections of two clients
let one client replace and rekey its session while another allocates; with as
many addresses as peers the pool fills, and in `server_default` there are more
peers than addresses, so that clients are turned away and a restart can find
more peers than its capacity allows. Two crashes let a restart's recovery be
interrupted in turn. The gate's state is finite for any input, and twentieths
make the margin of 0.15 exactly three units, so leads just above, at and below
it all occur. In `protocol` three connections let a client establish a tunnel, lose an
attempt to rekey or replace it, and try again while the lost attempt's thread is
still about to install. In `wire` the messages include a text at the payload limit,
one above it, and one whose length wraps to zero in 16 bits; two messages let a
reader lose its place between frames. In `client` three clicks and a reload let an
answer to an old page, one to a click and the one asked for at mount be under way
together. On the server side `MaxCrashes` and the number of connections are the
only bounds on behaviours. Deadlock is not checked where behaviours end because all
connections are used up and nothing else runs (no sweep).

Symmetry permutes peers, connections and identities, which are only compared; it is
not used in `server_fair` and `protocol_live`, which check liveness properties.

### Fairness

`DeadPeersAreEvicted` is checked under weak fairness of `Start`, of the sweep's
steps, and of `GoIdle`. The service unit restarts a failed process
(`Restart=on-failure`, `server/deploy/handshake-server.service`); the sweep is a
loop in a thread of its own, none of whose steps waits for a client; time passes.
No fairness is assumed of clients, of connection threads or of successful `wg`
commands: the property holds without it, a failed `last_handshakes` only makes
the sweep more eager.

`EveryoneReturns` is checked under weak fairness of the server's start, and, for
each connection, of reading a message that has arrived, of the thread's steps after
the registry update, and of the two read timeouts: both sides set one of 10 seconds
(`DEFAULT_TIMEOUT`, `CONN_TIMEOUT`) before their first read. No fairness is assumed
of the network: a connection may break, or not.

### Findings

1. `server_psk`: the registry is updated and the PSK installed in two steps with
   no lock over them. Two connections of one client can update in one order and
   install in the other. wg0 is then left with the PSK of the session that was
   replaced, and the client's newest key does not work.
2. `server_evict`: the sweep drops every peer of the list it made, without
   looking at it again; a client that completed a handshake meanwhile loses its
   registration, and its tunnel.
3. `protocol_rekey`: PROTOCOL.md 4.6 describes the check of a `RekeyRequest`'s session
   before `ServerHello`. The code answers with `ServerHello` first and asks the
   registry after `ClientFinish`. The outcome for the client is the same error, one
   round trip and one key derivation later.
4. `gate_doc`: the Python docstring says the algorithm in force never moves
   without `change_algorithm`; an escalating rekey, added later on purpose, moves
   it with `rekey` alone. A caller must read `in_force` on both.

Smaller observations, not stated as properties: the server answers a frame of another
version with code 0x02, although `WireError::protocol_code` has 0x01 for it; a comment
at `lib.rs:125` says the status is read when the window regains focus, and App.tsx
reads it at mount only; a threat score that is NaN passes the pipeline's clamp, and so
would the quotient by an upload cap of NaN, which its type allows and nobody sets; the
answer to the status request made at mount, if it arrives after the answer to a
click, leaves the window wrong until the next click (`WindowShowsStatus` names this
case as its only exception); an identity file cut short by a crash keeps the server
from starting until somebody deletes it.

## What is proved

For every value of the constants that satisfies the named assumptions of the
modules (finite set of keys, at least one address, session ids named after
connections; positive tick counts and margin for the gate; for the frames a byte of
more than 6 values, a payload limit below the range of a u16, sizes that are numbers,
and only messages of `Message` written; for the pipeline finite caps, of which the
two durations are not negative, and readings that are numbers or NaN):

| theorem | establishes | further assumptions |
|---|---|---|
| `TypeCorrect` | `TypeOK` | none |
| `PoolIsEnough` | `PoolNeverExhausted` | none |
| `SlotsAreExclusive` | `SlotsExclusive` | none: every fault and crash included |
| `SessionsOnlyStrengthen` | `SessionOnlyStrengthens` | none |
| `QuiescentStateIsDurable` | `QuiescentIsDurable` | `wg set` and saves succeed |
| `WgMirrors` | `WgMirrorsRegistry` | no eviction; list and remove succeed |
| `AcknowledgedStaysServed` | `AcknowledgedIsServed` | and saves succeed |
| `ServerImplementsLeases` | `ImplementsLeases`, for the server | none |
| `ProtocolImplementsServer` | the composed protocol is a behaviour of HandshakeServer | none |
| `ProtocolSlotsAreExclusive`, `ProtocolImplementsLeases` | the same two results for the composed protocol | none |
| `PinnedKeysStayValid` | `PinsStayValid` | none |
| `LocalHandshakeSucceeds` | both ends of the exchange derive one secret | none |
| `NoFalseAlarms` | `NoFalseAlarm` | none |
| `TunnelsAgree` | `TunnelAgreement` | no eviction; list, remove and saves succeed |
| `ReadStaysWritten` | `ReadIsWritten` | none |
| `AcceptedStaysCanonical` | `AcceptedIsCanonical` | none |
| `WindowStaysTrue` | `WindowShowsStatus` | none |
| `LinkStaysCurrent` | `LinkIsCurrent` | none |
| `RateStaysReal` | `RateIsReal` | none |
| `VectorStaysInRange` | `VectorInRange` | none |
| `RekeyTimerStaysHonest` | `RekeyTimerIsHonest` | none |
| `GateInvariant` | `GateInv` | none |
| `ChangeNeedsFullStreak`, `OnlyChangeWeakens`, `RekeysAreSpaced` | the gate's action properties | none |

The arguments:

- *Registry lemmas* (RegistryProofs): the scan returns a free address; a registry
  below its capacity, which is at most the size of the pool, has one (cardinality
  of the taken addresses); insert, remove, rekey, touch, save and load preserve
  type and uniqueness. The server's proofs cite them by name.
- *Types* need `HoldsRequest`: a thread about to install or save does hold a
  request and an address, never the placeholders. `TypeInv` is the conjunction.
- *Exclusive slots* need `FreshSids`: no session id in memory or in the file
  is that of a connection that has yet to update the registry, so the id a
  `ClientHello` brings to its update is new. With it `SlotInv` is inductive, for the
  file too, which may be older than the registry by any number of failed saves.
- *Durability* rests on the fact that every thread that changes the registry saves
  it afterwards, and that a save writes the whole registry as it is then, under
  the mutex: the file differs only while such a thread is under way.
- *Mirror* needs `MirrorInv`: the file holds no peer or address that the running
  registry does not, the address a thread holds in its slot is still its
  peer's address in the registry (without eviction a peer keeps it), and while
  the process is down the peers that both wg0 and the file know have the same
  address, which is what `reconcile_wg_peers` relies on.
- *Acknowledged clients* need `PromisesKept`: what was told is in the file, so a
  restart brings it back with the same address, and is on wg0, where only another
  peer with the same address could take it, which `SlotInv` excludes.
- *Leases*: the initial states map to initial states and each action to one step of
  AddressLeases or to none. Accepting and refusing change no lease; an update of a
  known client keeps its address; an update of an unknown one is `Grant`, because
  `alloc_ip` returns a free address and the capacity was checked under the same lock;
  a drop is `Release`, a save that succeeds `Save`, and `Start` reads back what was
  saved. The type invariant is all it needs.
- *Protocol*: every action of a thread implies the action of HandshakeServer it is
  built on, and clients, network and identity leave the server's variables alone.
  The server's theorems then hold of the composition by temporal reasoning alone.
- *Identity* needs `IdentityInv`: a published key is the one on disk, a listening
  server is past its publication, and a pin is a published key. A file is
  truncated only when none was there, so before anything was published.
- *No false alarms* need `TalkInv`, connection by connection: `EndsFit` says which
  places of the client and of the thread go together, and `MessagesFit` that each
  message on its way is one its reader accepts where it is: a `ServerHello` signed
  over the transcript the client will compute with the key it has pinned, a
  `ClientFinish` and a `ServerFinish` with the tags of the keys both ends derive. That
  the keys are the same is a lemma about `respond` and `client_decapsulate`; that the
  pinned key is the one the server signs with comes from `IdentityInv`.
- *Tunnels agree* needs `TunnelInv` on top of the invariants of the server's proofs
  and `TalkInv`. A client waits on one connection at a time (`OneAtATime`); the PSK on
  wg0 is that of a connection of the peer which, if it returned Ok, is the one the
  client took its tunnel from (`PskFits`); the address in a `ServerFinish` or in a
  client's hand is the one the server remembers to have told (`ToldFits`). The case
  that needs thought is a late thread of an attempt the client gave up, before or
  after the one that gave it its tunnel: it may install its PSK last, and the tunnel
  does not work until the client's next handshake. The property allows it, because the code
  does (finding 1 is the same race, seen from the server); such an attempt can
  no longer return Ok, which is what the second alternative says. A start takes off wg0 all that
  the file does not know, and what was told is in the file.
- *The frames*. `U16` shows that a pair of bytes and a number below `BASE` squared
  determine one another. For each operation of the reader there are two lemmas:
  what it takes is what its writer would put there (`...Gives`), and in front of what
  the writer put there it succeeds (`...Fits`, `...Read`). They are chained through the
  fields of each of the six messages, then through `expect_end` and the header.
- *Accepted is canonical*: `CanonInv` adds to it `ByteInv`, that a header which has let
  the reader go on is a good one. A complete frame is then the encoding of what is
  read from it (`FrameGives`).
- *Read is written*: `FlowInv` says that as long as no byte was changed, the bytes in
  the reader's hand followed by those on their way are the frames of the messages
  written and not yet read, cut off somewhere if the connection broke (`OnWay`). What
  is left after each frame is a function of the number of frames (`Laid`), so that no
  induction over the messages is needed: a write extends every remainder, a read
  moves the border, and a complete frame takes off one. Four bytes in the reader's
  hand are then the header of a written frame, which is good, and a frame is complete
  at its own length and no other.
- *Readings*: `SampleInv` says that what the interfaces on sysinfo's list have sent
  since the refresh was sent since the last sample's moment began, and that every
  snapshot under way, on its way or on screen already fits; an interface that was
  away is not on the list, so what it sent then is never counted.
- *Window*: `WindowInv` rests on the order of the commands: those of the page on
  screen are the last, the first of them is the status asked for at mount. Until
  it has run nothing is known of the status; afterwards only this page's clicks
  change it, and the disabled button keeps them to one at a time.
- *Pipeline*: `TimerInv` adds that the timer is zero while a rekey is later than the
  last tick, and covers the tick that falls on the rekey's own moment; the range of
  the vector needs it for the timer's element.
- *Gate*: `GateInv` itself is inductive. It ties the streak to the observer's
  count of leads, the cooldown to the ticks since the last rekey.

Only model-checked: `DeadPeersAreEvicted` and `EveryoneReturns` (liveness under fairness
is out of the prover's reach), and the findings. Every other property of a passing
run is a theorem. The inductive invariants were themselves checked by TLC, on the
instances of the runs, before they were proved.

## Not modelled, and the plan

What comes next, in order:

1. `TunnelAgreement` with failing saves: what a restart then leaves of it is a
   weaker property, still to be stated.
2. The reader's behaviour on a damaged stream as a theorem of its own: which error
   it reports for which field.
3. The gate composed with the server, once the repository has the control loop
   that carries out the gate's decisions.

Not modelled, and why:

- the anomaly detector: a Python prototype around a trained isolation forest; its
  Rust port is an empty module and no program here calls it. The pipeline is
  checked for any threat score;
- `TunnelHandle` (`core/src/state`): a trait whose only implementation is a test's;
- `SecureKeyStore`: a map nothing uses;
- the parsing of `wg`'s output, key encodings and argument vectors in `tunnel.rs`, and
  `DryRun`: a `wg` command is its effect or its failure;
- CPU, memory and ping readings, the tray menu: they keep no state;
- cryptographic strength: primitives are taken as ideal;
- training, evaluation and export of the policy: numerical scripts; the gate is
  checked for any policy;
- the Python prototype of the daemon, demo and deployment scripts (linear I/O),
  `emit-vectors` and the crypto spike (they print what the libraries compute).

## Running it

    tlc -workers 2 -config server_faults.cfg MCHandshakeServer
    tlc -workers 2 -config gate.cfg MCDecisionGate
    tlc -workers 2 -config protocol.cfg MCHandshakeProtocol
    tlc -workers 2 -config wire.cfg MCWireStream
    tlc -workers 2 -config client.cfg MCClient
    tlapm ProtocolProofs.tla

The longest run (`server_faults`) takes two to three minutes and visits 2.9 million
distinct states; `wire` visits 3.7 million in about a minute, `client` 1.7 million and
`protocol` 0.4 million in less.
