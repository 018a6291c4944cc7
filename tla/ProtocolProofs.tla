--------------------------- MODULE ProtocolProofs ---------------------------
(***************************************************************************)
(* Proofs about the whole handshake, for any number of clients,            *)
(* connections, algorithms, identities and crashes.                        *)
(***************************************************************************)
EXTENDS HandshakeProtocol, LeasesProofs, ServingProofs

-----------------------------------------------------------------------------
(***************************************************************************)
(* The protocol's server is the server of HandshakeServer.                 *)
(***************************************************************************)
\* What a client does alone does not touch the server.
LEMMA ClientAlone ==
    ASSUME NEW c \in Conns,
           ClientReads(c) \/ ClientTimeout(c) \/ ClientBroken(c)
    PROVE  UNCHANGED vars
BY DEF ClientReads, ClientTimeout, ClientBroken, ClientRefused, ClientFinish, Finished,
       ClientOk, Connected, Return

\* Every step of the protocol is a step of the server, or none.
LEMMA ServerNext == [ProtocolNext]_protocolVars => [Next]_vars
<1>. SUFFICES ASSUME [ProtocolNext]_protocolVars  PROVE [Next]_vars
  OBVIOUS
<1>1. CASE UNCHANGED protocolVars
  BY <1>1 DEF protocolVars
<1>2. CASE ServerBoot \/ ServerDiesBooting
  BY <1>2 DEF ServerBoot, ServerDiesBooting
<1>3. CASE ServerStart \/ ServerCrash
  BY <1>3 DEF ServerStart, ServerCrash, Next
<1>4. ASSUME NEW c \in Conns, NEW p \in Peers, Connect(c, p) \/ ConnectFails(c, p)
      PROVE  UNCHANGED vars
  BY <1>4 DEF Connect, ConnectFails
<1>5. ASSUME NEW c \in Conns, ServerReads(c)  PROVE Next
  <2>1. Accept(c) \/ Handle(c)
    BY <1>5 DEF ServerReads, ServerHello, ServerUpdates, ServerRefuses, Handle
  <2>. QED  BY <2>1 DEF Next
<1>6. ASSUME NEW c \in Conns, ServerActs(c)  PROVE Next
  <2>1. Handle(c)
    BY <1>6 DEF ServerActs, ServerInstalls, ServerInstallFails, ServerFinishes,
                ServerFinishFails, Handle
  <2>. QED  BY <2>1 DEF Next
<1>7. ASSUME NEW c \in Conns, ServerRejectsFirst(c) \/ ServerTimeout(c) \/ ServerBroken(c)
      PROVE  Next
  <2>1. RejectFirst(c) \/ Handle(c)
    BY <1>7 DEF ServerRejectsFirst, ServerTimeout, ServerBroken, Handle
  <2>. QED  BY <2>1 DEF Next
<1>. QED  BY <1>1, <1>2, <1>3, <1>4, <1>5, <1>6, <1>7, ClientAlone DEF ProtocolNext

\* With its clients and their messages in place of free choices, the server
\* does only what HandshakeServer lets it do: every theorem about that module
\* holds of the protocol.
THEOREM ProtocolImplementsServer == ProtocolSpec => Spec
<1>1. ProtocolInit => Init
  BY DEF ProtocolInit
<1>. QED  BY <1>1, ServerNext, PTL DEF ProtocolSpec, Spec

\* So no two clients of the protocol ever share an address or a session, and
\* the addresses are the leases of AddressLeases.
THEOREM ProtocolSlotsAreExclusive == ProtocolSpec => []SlotsExclusive
BY ProtocolImplementsServer, SlotsAreExclusive, PTL

\* The addresses of the whole handshake are leased as AddressLeases says.
THEOREM ProtocolImplementsLeases == ProtocolSpec => ImplementsLeases
BY ProtocolImplementsServer, ServerImplementsLeases, PTL

-----------------------------------------------------------------------------
(***************************************************************************)
(* The server's identity.                                                  *)
(***************************************************************************)
\* A key that is published is whole on disk and is the only one ever loaded; a
\* listening server has published its key; only published keys are pinned.
IdentityInv ==
    /\ IdTypeOK
    /\ pin \in [Peers -> Keys \cup {NoKey}]
    /\ published # NoKey => seed = published /\ identity \in {published, NoKey}
    /\ seed \in Keys => identity \in {seed, NoKey}
    /\ up => published # NoKey /\ identity = published
    /\ \A p \in Peers : pin[p] # NoKey => pin[p] = published

\* The steps that touch neither the identity nor a pin nor the process.
LEMMA IdentityKept ==
    ASSUME IdentityInv, UNCHANGED <<idVars, pin, up>>
    PROVE  IdentityInv'
BY DEF IdentityInv, IdTypeOK, idVars

\* Every step keeps it.
LEMMA IdentityNext == IdentityInv /\ [ProtocolNext]_protocolVars => IdentityInv'
<1>. SUFFICES ASSUME IdentityInv, [ProtocolNext]_protocolVars  PROVE IdentityInv'
  OBVIOUS
<1>1. CASE UNCHANGED protocolVars
  BY <1>1, IdentityKept DEF protocolVars, vars, bootVars, clientVars
<1>2. CASE ServerBoot
  <2>1. ~up /\ ~up' /\ pin' = pin /\ Boot
    BY <1>2 DEF ServerBoot, vars, bootVars, clientVars
  <2>. QED  BY <2>1, KeysAssumption
            DEF Boot, Load, Create, save, Publish, IdentityInv, IdTypeOK
<1>3. CASE ServerDiesBooting \/ ServerCrash
  <2>1. ~up' /\ pin' = pin /\ Forget
    BY <1>3 DEF ServerDiesBooting, ServerCrash, Crash, vars, bootVars, clientVars
  <2>. QED  BY <2>1, KeysAssumption DEF Forget, IdentityInv, IdTypeOK
<1>4. CASE ServerStart
  <2>1. pin' = pin /\ Ready /\ UNCHANGED idVars
    BY <1>4 DEF ServerStart, clientVars
  <2>. QED  BY <2>1, KeysAssumption DEF Ready, idVars, IdentityInv, IdTypeOK
<1>5. ASSUME NEW c \in Conns, NEW p \in Peers, Connect(c, p)  PROVE IdentityInv'
  <2>1. /\ up /\ up' = up /\ UNCHANGED idVars
        /\ pin' = pin \/ pin' = [pin EXCEPT ![p] = published]
    BY <1>5 DEF Connect, vars, bootVars
  <2>. QED  BY <2>1 DEF idVars, IdentityInv, IdTypeOK
<1>6. ASSUME NEW c \in Conns, NEW p \in Peers, ConnectFails(c, p)  PROVE IdentityInv'
  BY <1>6, IdentityKept DEF ConnectFails, vars, bootVars
<1>7. ASSUME NEW c \in Conns, ClientReads(c) \/ ClientTimeout(c) \/ ClientBroken(c)
      PROVE  IdentityInv'
  BY <1>7, IdentityKept
     DEF ClientReads, ClientTimeout, ClientBroken, ClientRefused, ClientFinish, Finished,
         ClientOk, Connected, Return, vars, bootVars
<1>8. ASSUME NEW c \in Conns,
             \/ ServerReads(c) \/ ServerActs(c)
             \/ ServerRejectsFirst(c) \/ ServerTimeout(c) \/ ServerBroken(c)
      PROVE  IdentityInv'
  <2>1. ServerStep(c)
    BY <1>8 DEF ServerReads, ServerHello, ServerUpdates, ServerRefuses,
                ServerActs, ServerInstalls, ServerInstallFails, ServerFinishes,
                ServerFinishFails, ServerRejectsFirst, ServerTimeout, ServerBroken
  <2>2. up' = up
    BY <1>8 DEF ServerReads, ServerHello, ServerUpdates, ServerRefuses,
                ServerActs, ServerInstalls, ServerInstallFails, ServerFinishes,
                ServerFinishFails, ServerRejectsFirst, ServerTimeout, ServerBroken,
                Accept, RejectFirst, RejectFinish, UpdateRegistry, RegistryRefuses,
                Install, InstallFails, Finish, FinishFails, Fail, bootVars
  <2>. QED  BY <2>1, <2>2, IdentityKept DEF ServerStep, clientVars
<1>. QED  BY <1>1, <1>2, <1>3, <1>4, <1>5, <1>6, <1>7, <1>8 DEF ProtocolNext

\* The invariant of the identity.
LEMMA IdentityInvariant == ProtocolSpec => []IdentityInv
<1>1. ProtocolInit => IdentityInv
  BY KeysAssumption DEF ProtocolInit, Init, IdInit, IdentityInv, IdTypeOK
<1>. QED  BY <1>1, IdentityNext, PTL DEF ProtocolSpec

\* A key a client has pinned stays whole on disk and is what every later start
\* loads, wherever the process dies, for any number of restarts and clients.
THEOREM PinnedKeysStayValid == ProtocolSpec => []PinsStayValid
<1>1. IdentityInv => PinsStayValid
  BY DEF IdentityInv, PinsStayValid
<1>. QED  BY <1>1, IdentityInvariant, PTL

-----------------------------------------------------------------------------
(***************************************************************************)
(* The two ends of the exchange.                                           *)
(***************************************************************************)
\* What the server encapsulates for a client's keys, that client decapsulates.
LEMMA SecretsAgree ==
    ASSUME NEW algo, NEW c, NEW s
    PROVE  LET keys == generate_client_keypairs(algo, c)
               result == server_encapsulate(keys.x25519, keys.mlkem, s)
           IN  client_decapsulate(keys, result.server_x25519, result.ciphertext)
                   = result.hybrid_secret
<1>. DEFINE keys == generate_client_keypairs(algo, c)
            result == server_encapsulate(keys.x25519, keys.mlkem, s)
<1>1. keys.x25519 = x25519(c) /\ keys.mlkem = mlkem(algo, c)
  BY DEF generate_client_keypairs
<1>2. /\ result.server_x25519 = x25519(s)
      /\ result.ciphertext = [to |-> keys.mlkem, rnd |-> s]
      /\ result.hybrid_secret = combine_shared_secrets(
             diffie_hellman(x25519(s), keys.x25519), <<"kem", keys.mlkem, s>>)
  BY DEF server_encapsulate, encapsulate
<1>3. decapsulate(keys.mlkem, result.ciphertext) = <<"kem", keys.mlkem, s>>
  BY <1>2 DEF decapsulate
<1>4. diffie_hellman(x25519(s), keys.x25519) = diffie_hellman(keys.x25519, x25519(s))
  BY DEF diffie_hellman
<1>. QED  BY <1>2, <1>3, <1>4 DEF client_decapsulate

\* The self-test of the exchange never fails, for any algorithm and any random
\* choices: neither of its errors is reachable (run_local_handshake_for).
THEOREM LocalHandshakeSucceeds ==
    ASSUME NEW algo, NEW authenticator, NEW c, NEW s
    PROVE  LET keys == generate_client_keypairs(algo, c)
           IN  run_local_handshake_for(algo, authenticator, c, s)
                   = [ok |-> server_encapsulate(keys.x25519, keys.mlkem, s).hybrid_secret]
BY SecretsAgree DEF run_local_handshake_for, verify, sign

-----------------------------------------------------------------------------
(***************************************************************************)
(* What two sides that run this code say to one another. The terms of      *)
(* connection c, which depend on its first message alone, and the messages *)
(* that carry them.                                                        *)
(***************************************************************************)
Ciphertext(c) == [to |-> client_keys(c).mlkem, rnd |-> <<"server", c>>]

Transcript(c) ==
    build_handshake_transcript(first[c].algo, <<"client", c>>, <<"server", c>>,
        client_keys(c).x25519, client_keys(c).mlkem, x25519(<<"server", c>>), Ciphertext(c))

Secret(c) ==
    client_decapsulate(client_keys(c), x25519(<<"server", c>>), Ciphertext(c))

SessionKeys(c) == derive_session_keys(Secret(c), <<"client", c>>, <<"server", c>>)

GoodHello(c, msg) ==
    /\ msg.type = "ServerHello"
    /\ msg.algo = first[c].algo /\ msg.session_id = first[c].sid
    /\ msg.nonce = <<"server", c>> /\ msg.x25519 = x25519(<<"server", c>>)
    /\ msg.ciphertext = Ciphertext(c)
    /\ msg.signature = sign(pin[first[c].peer], Transcript(c))

GoodClientFinish(c, msg) ==
    /\ msg.session_id = first[c].sid
    /\ msg.tag = client_tag(SessionKeys(c).confirm_key, Transcript(c))

GoodServerFinish(c, msg) ==
    /\ msg.type = "ServerFinish"
    /\ msg.session_id = first[c].sid
    /\ msg.tag = server_tag(SessionKeys(c).confirm_key, Transcript(c))

\* The errors that are the fault of neither side's code.
Honest == {"none", "Io", "MALFORMED", "UNKNOWN_SESSION", "ALGO_MISMATCH", "INTERNAL", "CAPACITY"}

GoodError(msg) == msg.type = "Error" /\ msg.code \in Honest

\* The terms of a connection stay what they are.
LEMMA TermsKept ==
    ASSUME NEW c, first'[c] = first[c]
    PROVE  /\ Transcript(c)' = Transcript(c)
           /\ SessionKeys(c)' = SessionKeys(c)
           /\ Ciphertext(c)' = Ciphertext(c)
BY DEF Transcript, SessionKeys, Secret, Ciphertext, client_keys

\* What the server makes of ClientHello (respond).
LEMMA OutcomeFacts ==
    ASSUME NEW c
    PROVE  /\ outcome(c).transcript = Transcript(c)
           /\ outcome(c).keys = SessionKeys(c)
           /\ identity = pin[first[c].peer] => GoodHello(c, outcome(c).server_hello)
<1>. DEFINE keys == generate_client_keypairs(first[c].algo, <<"client", c>>)
            enc == server_encapsulate(keys.x25519, keys.mlkem, <<"server", c>>)
<1>1. client_keys(c) = keys
  BY DEF client_keys
<1>2. /\ hello(c).algo = first[c].algo /\ hello(c).nonce = <<"client", c>>
      /\ hello(c).x25519 = keys.x25519 /\ hello(c).mlkem = keys.mlkem
  BY <1>1 DEF hello
<1>3. enc.server_x25519 = x25519(<<"server", c>>) /\ enc.ciphertext = Ciphertext(c)
  BY <1>1 DEF server_encapsulate, encapsulate, Ciphertext
<1>4. enc.hybrid_secret = Secret(c)
  BY <1>1, <1>3, SecretsAgree DEF Secret
<1>. HIDE DEF keys, enc
<1>5. outcome(c).transcript = Transcript(c)
  BY <1>1, <1>2, <1>3 DEF outcome, respond, Transcript, TranscriptInputs_build, enc
<1>6. outcome(c).keys = SessionKeys(c)
  BY <1>2, <1>4 DEF outcome, respond, SessionKeys, derive, enc
<1>7. ASSUME identity = pin[first[c].peer]  PROVE GoodHello(c, outcome(c).server_hello)
  <2>1. /\ outcome(c).server_hello.type = "ServerHello"
        /\ outcome(c).server_hello.algo = first[c].algo
        /\ outcome(c).server_hello.session_id = first[c].sid
        /\ outcome(c).server_hello.nonce = <<"server", c>>
        /\ outcome(c).server_hello.x25519 = enc.server_x25519
        /\ outcome(c).server_hello.ciphertext = enc.ciphertext
        /\ outcome(c).server_hello.signature = sign(identity, outcome(c).transcript)
    BY <1>2 DEF outcome, respond, enc
  <2>. QED  BY <1>3, <1>5, <1>7, <2>1 DEF GoodHello
<1>. QED  BY <1>5, <1>6, <1>7

\* What the client makes of such a ServerHello (ClientHandshake::finish): it
\* accepts it and derives the server's keys.
LEMMA FinishFacts ==
    ASSUME NEW c, NEW sh, GoodHello(c, sh)
    PROVE  /\ finish_error(c, sh) = "none"
           /\ finish(c, sh) = [session_id |-> first[c].sid, keys |-> SessionKeys(c),
                               transcript |-> Transcript(c)]
<1>1. hello(c).nonce = <<"client", c>>
  BY DEF hello
<1>2. client_transcript(c, sh) = Transcript(c)
  BY <1>1 DEF GoodHello, client_transcript, Transcript
<1>3. finish_error(c, sh) = "none"
  BY <1>2 DEF GoodHello, finish_error, verify, sign
<1>4. derive_session_keys(client_decapsulate(client_keys(c), sh.x25519, sh.ciphertext),
                          hello(c).nonce, sh.nonce) = SessionKeys(c)
  BY <1>1 DEF GoodHello, SessionKeys, Secret
<1>. QED  BY <1>2, <1>3, <1>4 DEF finish, GoodHello

\* What the client makes of the server's ServerFinish.
LEMMA ServerFinishFacts ==
    ASSUME NEW c, NEW sf, GoodServerFinish(c, sf),
           held[c] = [session_id |-> first[c].sid, keys |-> SessionKeys(c),
                      transcript |-> Transcript(c)]
    PROVE  server_finish_error(c, sf) = "none"
<1>1. /\ held[c].session_id = first[c].sid /\ held[c].transcript = Transcript(c)
      /\ held[c].keys.confirm_key = SessionKeys(c).confirm_key
  OBVIOUS
<1>2. verify_server_tag(held[c].keys.confirm_key, held[c].transcript, sf.tag)
  BY <1>1 DEF GoodServerFinish, verify_server_tag, server_tag
<1>. QED  BY <1>1, <1>2 DEF GoodServerFinish, server_finish_error

\* What the server makes of the client's ClientFinish.
LEMMA ClientFinishFacts ==
    ASSUME NEW c, GoodClientFinish(c, c2s[c])
    PROVE  Verified(c)
BY OutcomeFacts DEF GoodClientFinish, Verified, verify_client_tag, client_tag

\* Whatever the registry answers, the client is told an honest error.
LEMMA RefusalIsHonest ==
    ASSUME NEW r, UpdateResult(r) # "Ok"
    PROVE  registry_reject_code(UpdateResult(r)) \in Honest
BY DEF UpdateResult, rekey_result, upsert_result, registry_reject_code, Honest

-----------------------------------------------------------------------------
(***************************************************************************)
(* One connection at one moment: where its two ends are fits together, and *)
(* each message on its way is one its reader will accept where it is. That *)
(* no check ever fails (NoFalseAlarm) is not inductive without this.       *)
(***************************************************************************)
EndsFit(c) ==
    /\ cl[c] \in {"unused", "hello_sent", "finish_sent", "ok", "failed"}
    /\ first[c] \in Request \cup {NoRequest}
    /\ first[c] = NoRequest =>
           cl[c] \in {"unused", "failed"} /\ pc[c] = "idle" /\ c2s[c] = Empty
    /\ cl[c] = "unused" => first[c] = NoRequest
    /\ first[c] # NoRequest => pin[first[c].peer] # NoKey
    /\ pc[c] = "idle" => cl[c] \in {"unused", "hello_sent", "failed"}
    /\ pc[c] \in {"install", "persist"} =>
           cl[c] \in {"finish_sent", "failed"} /\ req[c] = first[c]
    /\ cl[c] = "ok" => pc[c] = "ended"

MessagesFit(c) ==
    /\ cl[c] = "finish_sent" =>
           held[c] = [session_id |-> first[c].sid, keys |-> SessionKeys(c),
                      transcript |-> Transcript(c)]
    /\ pc[c] = "awaitFinish" /\ c2s[c] # Empty =>
           cl[c] # "hello_sent" /\ GoodClientFinish(c, c2s[c])
    /\ s2c[c] # Empty =>
           /\ pc[c] # "idle"
           /\ \/ cl[c] \in Waiting /\ GoodError(s2c[c])
              \/ cl[c] = "hello_sent" /\ GoodHello(c, s2c[c])
              \/ cl[c] = "finish_sent" /\ pc[c] = "ended" /\ GoodServerFinish(c, s2c[c])

ConnOK(c) == EndsFit(c) /\ MessagesFit(c) /\ why[c] \in Honest

\* The variables that are functions of the connections.
Tables ==
    /\ DOMAIN cl = Conns /\ DOMAIN why = Conns /\ DOMAIN first = Conns
    /\ DOMAIN c2s = Conns /\ DOMAIN s2c = Conns
    /\ DOMAIN held = Conns /\ DOMAIN config = Conns

TalkInv == Tables /\ \A c \in Conns : ConnOK(c)

\* A connection nobody touches.
LEMMA ConnKept ==
    ASSUME NEW c, ConnOK(c),
           cl'[c] = cl[c], why'[c] = why[c], first'[c] = first[c], held'[c] = held[c],
           pc'[c] = pc[c], req'[c] = req[c], c2s'[c] = c2s[c], s2c'[c] = s2c[c],
           first[c] # NoRequest => pin'[first[c].peer] = pin[first[c].peer]
    PROVE  ConnOK(c)'
<1>1. EndsFit(c)'
  BY DEF ConnOK, EndsFit
<1>2. MessagesFit(c)'
  <2>1. GoodClientFinish(c, c2s[c]) => GoodClientFinish(c, c2s[c])'
    BY TermsKept DEF GoodClientFinish
  <2>2. GoodServerFinish(c, s2c[c]) => GoodServerFinish(c, s2c[c])'
    BY TermsKept DEF GoodServerFinish
  <2>3. first[c] # NoRequest /\ GoodHello(c, s2c[c]) => GoodHello(c, s2c[c])'
    BY TermsKept DEF GoodHello
  <2>4. first[c] = NoRequest => cl[c] # "hello_sent"
    BY DEF ConnOK, EndsFit
  <2>. QED  BY <2>1, <2>2, <2>3, <2>4, TermsKept DEF ConnOK, MessagesFit, GoodError
<1>. QED  BY <1>1, <1>2 DEF ConnOK

\* A step of one connection: the others are as they were.
LEMMA OthersKept ==
    ASSUME TalkInv, NEW c \in Conns, Tables', ConnOK(c)',
           \A d \in Conns \ {c} :
               /\ cl'[d] = cl[d] /\ why'[d] = why[d] /\ first'[d] = first[d]
               /\ held'[d] = held[d] /\ pc'[d] = pc[d] /\ req'[d] = req[d]
               /\ c2s'[d] = c2s[d] /\ s2c'[d] = s2c[d]
               /\ first[d] # NoRequest => pin'[first[d].peer] = pin[first[d].peer]
    PROVE  TalkInv'
<1>1. \A d \in Conns \ {c} : ConnOK(d)'
  BY ConnKept DEF TalkInv
<1>. QED  BY <1>1 DEF TalkInv

\* A connect that returns an honest error, from a client that waited.
LEMMA ReturnTalk ==
    ASSUME TalkInv, NEW c \in Conns, cl[c] \in Waiting,
           NEW error \in Honest, Return(c, error)
    PROVE  TalkInv'
<1>1. /\ cl' = [cl EXCEPT ![c] = "failed"] /\ why' = [why EXCEPT ![c] = error]
      /\ held' = [held EXCEPT ![c] = Empty] /\ s2c' = [s2c EXCEPT ![c] = Empty]
      /\ c2s' = c2s /\ first' = first /\ config' = config /\ pin' = pin
      /\ pc' = pc /\ req' = req
  BY DEF Return, Send, vars, connVars
<1>2. Tables /\ Tables'
  BY <1>1 DEF TalkInv, Tables
<1>3. /\ cl'[c] = "failed" /\ why'[c] = error /\ s2c'[c] = Empty
  BY <1>1, <1>2 DEF Tables
<1>4. ConnOK(c)'
  <2>1. EndsFit(c)'
    BY <1>1, <1>3 DEF TalkInv, ConnOK, EndsFit, Waiting
  <2>2. GoodClientFinish(c, c2s[c]) => GoodClientFinish(c, c2s[c])'
    BY <1>1, TermsKept DEF GoodClientFinish
  <2>3. MessagesFit(c)'
    BY <1>1, <1>3, <2>2 DEF TalkInv, ConnOK, MessagesFit
  <2>. QED  BY <1>3, <2>1, <2>3 DEF ConnOK
<1>. QED  BY <1>1, <1>2, <1>4, OthersKept DEF Tables

\* Everything a client does with what it reads, or does not read.
LEMMA ClientTalk ==
    ASSUME TalkInv, NEW c \in Conns, ClientReads(c) \/ ClientTimeout(c) \/ ClientBroken(c)
    PROVE  TalkInv'
<1>0. ConnOK(c) /\ Tables
  BY DEF TalkInv
<1>1. CASE ClientTimeout(c) \/ ClientBroken(c)
  BY <1>1, ReturnTalk DEF ClientTimeout, ClientBroken, Honest
<1>2. CASE ClientRefused(c)
  <2>1. cl[c] \in Waiting /\ GoodError(s2c[c])
    BY <1>0, <1>2 DEF ClientRefused, ConnOK, MessagesFit, GoodHello, GoodServerFinish, Waiting
  <2>2. s2c[c].code \in Honest /\ Return(c, s2c[c].code)
    BY <1>2, <2>1 DEF ClientRefused, GoodError
  <2>. QED  BY <2>1, <2>2, ReturnTalk
<1>3. CASE ClientFinish(c)
  <2>1. cl[c] = "hello_sent" /\ s2c[c] # Empty /\ s2c[c].type = "ServerHello"
    BY <1>3 DEF ClientFinish
  <2>2. GoodHello(c, s2c[c]) /\ pc[c] # "idle"
    BY <1>0, <2>1 DEF ConnOK, MessagesFit, GoodError
  <2>. DEFINE f == [session_id |-> first[c].sid, keys |-> SessionKeys(c),
                    transcript |-> Transcript(c)]
  <2>3. Finished(c, finish(c, s2c[c])) /\ finish(c, s2c[c]) = f
    BY <1>3, <2>2, FinishFacts DEF ClientFinish
  <2>. HIDE DEF f
  <2>4. /\ cl' = [cl EXCEPT ![c] = "finish_sent"] /\ held' = [held EXCEPT ![c] = f]
        /\ s2c' = [s2c EXCEPT ![c] = Empty]
        /\ c2s' = [c2s EXCEPT ![c] =
               [type |-> "ClientFinish", session_id |-> f.session_id,
                tag |-> client_tag(f.keys.confirm_key, f.transcript)]]
        /\ why' = why /\ first' = first /\ config' = config /\ pin' = pin
        /\ pc' = pc /\ req' = req
    BY <2>3 DEF Finished, Send, vars, connVars
  <2>5. Tables'
    BY <1>0, <2>4 DEF Tables
  <2>6. /\ cl'[c] = "finish_sent" /\ s2c'[c] = Empty /\ held'[c] = f
        /\ c2s'[c].session_id = f.session_id
        /\ c2s'[c].tag = client_tag(f.keys.confirm_key, f.transcript)
    BY <1>0, <2>4 DEF Tables
  <2>7. EndsFit(c)'
    BY <1>0, <2>1, <2>2, <2>4, <2>6 DEF ConnOK, EndsFit
  <2>8. f.session_id = first[c].sid /\ f.keys = SessionKeys(c) /\ f.transcript = Transcript(c)
    BY DEF f
  <2>9. GoodClientFinish(c, c2s[c])'
    BY <2>4, <2>6, <2>8, TermsKept DEF GoodClientFinish
  <2>10. held'[c] = [session_id |-> first[c].sid, keys |-> SessionKeys(c),
                     transcript |-> Transcript(c)]'
    BY <2>4, <2>6, TermsKept DEF f
  <2>11. MessagesFit(c)'
    BY <2>6, <2>9, <2>10 DEF MessagesFit
  <2>12. ConnOK(c)'
    BY <1>0, <2>4, <2>7, <2>11 DEF ConnOK
  <2>. QED  BY <1>0, <2>4, <2>5, <2>12, OthersKept DEF Tables
<1>4. CASE ClientOk(c)
  <2>1. cl[c] = "finish_sent" /\ s2c[c] # Empty /\ s2c[c].type = "ServerFinish"
    BY <1>4 DEF ClientOk
  <2>2. GoodServerFinish(c, s2c[c]) /\ pc[c] = "ended"
    BY <1>0, <2>1 DEF ConnOK, MessagesFit, GoodError
  <2>3. held[c] = [session_id |-> first[c].sid, keys |-> SessionKeys(c),
                   transcript |-> Transcript(c)]
    BY <1>0, <2>1 DEF ConnOK, MessagesFit
  <2>4. Connected(c, s2c[c])
    BY <1>4, <2>2, <2>3, ServerFinishFacts DEF ClientOk
  <2>5. /\ cl' = [cl EXCEPT ![c] = "ok"] /\ held' = [held EXCEPT ![c] = Empty]
        /\ s2c' = [s2c EXCEPT ![c] = Empty] /\ c2s' = c2s
        /\ why' = why /\ first' = first /\ pin' = pin /\ DOMAIN config' = DOMAIN config
        /\ pc' = pc /\ req' = req
    BY <2>4 DEF Connected, Send, vars, connVars
  <2>6. Tables'
    BY <1>0, <2>5 DEF Tables
  <2>7. cl'[c] = "ok" /\ s2c'[c] = Empty
    BY <1>0, <2>5 DEF Tables
  <2>8. EndsFit(c)'
    BY <1>0, <2>1, <2>2, <2>5, <2>7 DEF ConnOK, EndsFit
  <2>9. MessagesFit(c)'
    BY <2>2, <2>5, <2>7 DEF MessagesFit
  <2>10. ConnOK(c)'
    BY <1>0, <2>5, <2>8, <2>9 DEF ConnOK
  <2>. QED  BY <1>0, <2>5, <2>6, <2>10, OthersKept DEF Tables
<1>. QED  BY <1>1, <1>2, <1>3, <1>4 DEF ClientReads

\* A step of the server's thread: it moves on to "new", and what it says, if
\* its client still listens, is what the client can take where it is.
CanSay(c, new, msg) ==
    \/ GoodError(msg)
    \/ cl[c] # "finish_sent" /\ GoodHello(c, msg)
    \/ cl[c] # "hello_sent" /\ new = "ended" /\ GoodServerFinish(c, msg)

Said(c, msg) == [s2c EXCEPT ![c] = IF cl[c] \in Waiting THEN msg ELSE Empty]

\* A thread of the server that says only what its client can take keeps all
\* connections in order.
LEMMA ThreadTalk ==
    ASSUME TalkInv, NEW c \in Conns, ServerStep(c), first[c] # NoRequest,
           NEW new \in {"awaitFinish", "install", "persist", "ended"},
           pc \in [Conns -> {"idle", "ended"} \cup Running], pc[c] # "ended",
           pc' = [pc EXCEPT ![c] = new],
           \A d \in Conns \ {c} : req'[d] = req[d],
           new \in {"install", "persist"} =>
               cl[c] \in {"finish_sent", "failed"} /\ req'[c] = first[c],
           \/ s2c' = s2c
           \/ \E msg : CanSay(c, new, msg) /\ s2c' = Said(c, msg)
    PROVE  TalkInv'
<1>0. ConnOK(c) /\ Tables
  BY DEF TalkInv
<1>1. /\ c2s' = [c2s EXCEPT ![c] = Empty]
      /\ cl' = cl /\ why' = why /\ first' = first /\ held' = held /\ config' = config
      /\ pin' = pin
  BY DEF ServerStep, Send, clientVars
<1>2. \/ s2c' = s2c
      \/ \E msg : s2c' = [s2c EXCEPT ![c] = IF cl[c] \in Waiting THEN msg ELSE Empty]
  BY DEF Said
<1>3. Tables'
  BY <1>0, <1>1, <1>2 DEF Tables
<1>4. c2s'[c] = Empty /\ pc'[c] = new
  BY <1>0, <1>1 DEF Tables
<1>5. EndsFit(c)'
  BY <1>0, <1>1, <1>4 DEF ConnOK, EndsFit
<1>6. /\ Transcript(c)' = Transcript(c) /\ SessionKeys(c)' = SessionKeys(c)
      /\ Ciphertext(c)' = Ciphertext(c)
  BY <1>1, TermsKept
<1>7. ASSUME s2c'[c] # Empty
      PROVE  \/ cl[c] \in Waiting /\ GoodError(s2c[c])'
             \/ cl[c] = "hello_sent" /\ GoodHello(c, s2c[c])'
             \/ cl[c] = "finish_sent" /\ new = "ended" /\ GoodServerFinish(c, s2c[c])'
  <2>1. CASE s2c' = s2c
    BY <1>0, <1>1, <1>6, <1>7, <2>1 DEF ConnOK, MessagesFit, GoodError, GoodHello
  <2>2. ASSUME NEW msg, s2c' = Said(c, msg), CanSay(c, new, msg)
        PROVE  \/ cl[c] \in Waiting /\ GoodError(s2c[c])'
               \/ cl[c] = "hello_sent" /\ GoodHello(c, s2c[c])'
               \/ cl[c] = "finish_sent" /\ new = "ended" /\ GoodServerFinish(c, s2c[c])'
    <3>1. cl[c] \in Waiting /\ s2c'[c] = msg
      BY <1>0, <1>7, <2>2 DEF Tables, Said
    <3>. QED  BY <1>1, <1>6, <2>2, <3>1
              DEF CanSay, GoodError, GoodHello, GoodServerFinish, Waiting
  <2>. QED  BY <2>1, <2>2
<1>8. MessagesFit(c)'
  BY <1>0, <1>1, <1>4, <1>6, <1>7 DEF ConnOK, MessagesFit
<1>9. ConnOK(c)'
  BY <1>0, <1>1, <1>5, <1>8 DEF ConnOK
<1>. QED  BY <1>0, <1>1, <1>2, <1>3, <1>9, OthersKept DEF Tables

\* Everything a thread of the server does.
LEMMA ServerTalk ==
    ASSUME TalkInv, IdentityInv, TypeInv, NEW c \in Conns,
           \/ ServerReads(c) \/ ServerActs(c)
           \/ ServerRejectsFirst(c) \/ ServerTimeout(c) \/ ServerBroken(c)
    PROVE  TalkInv'
<1>0. /\ pc \in [Conns -> {"idle", "ended"} \cup Running]
      /\ req \in [Conns -> Request \cup {NoRequest}]
  BY DEF TypeInv, TypeOK
<1>1. ConnOK(c) /\ Tables
  BY DEF TalkInv
<1>2. ServerStep(c)
  BY DEF ServerReads, ServerHello, ServerUpdates, ServerRefuses, ServerActs,
         ServerInstalls, ServerInstallFails, ServerFinishes, ServerFinishFails,
         ServerRejectsFirst, ServerTimeout, ServerBroken
<1>3. c2s[c] # Empty \/ pc[c] # "idle" => first[c] # NoRequest
  BY <1>1 DEF ConnOK, EndsFit
<1>4. CASE ServerHello(c)
  <2>1. /\ up /\ pc[c] = "idle" /\ pc' = [pc EXCEPT ![c] = "awaitFinish"] /\ req' = req
        /\ c2s[c] # Empty /\ s2c' = Said(c, outcome(c).server_hello)
    BY <1>4 DEF ServerHello, Accept, Answer, Send, Said
  <2>2. identity = pin[first[c].peer]
    <3>1. first[c] \in Request /\ pin[first[c].peer] # NoKey
      BY <1>1, <1>3, <2>1 DEF ConnOK, EndsFit
    <3>2. first[c].peer \in Peers
      BY <3>1 DEF Request
    <3>. QED  BY <2>1, <3>1, <3>2 DEF IdentityInv
  <2>3. cl[c] # "finish_sent"
    BY <1>1, <2>1 DEF ConnOK, EndsFit
  <2>4. CanSay(c, "awaitFinish", outcome(c).server_hello)
    BY <2>2, <2>3, OutcomeFacts DEF CanSay
  <2>. QED  BY <1>0, <1>2, <1>3, <2>1, <2>4, ThreadTalk
<1>5. CASE ServerRejectsFirst(c)
  <2>1. /\ pc[c] = "idle" /\ pc' = [pc EXCEPT ![c] = "ended"]
        /\ req' = [req EXCEPT ![c] = NoRequest] /\ c2s[c] # Empty
        /\ s2c' = Said(c, Error("MALFORMED"))
    BY <1>5 DEF ServerRejectsFirst, RejectFirst, Fail, End, Answer, Send, Said
  <2>2. CanSay(c, "ended", Error("MALFORMED"))
    BY DEF CanSay, GoodError, Error, Honest
  <2>. QED  BY <1>0, <1>2, <1>3, <2>1, <2>2, ThreadTalk
<1>6. CASE ServerTimeout(c) \/ ServerBroken(c)
  <2>1. /\ pc[c] = "awaitFinish" /\ pc' = [pc EXCEPT ![c] = "ended"]
        /\ req' = [req EXCEPT ![c] = NoRequest] /\ s2c' = s2c
    BY <1>6 DEF ServerTimeout, ServerBroken, RejectFinish, Fail, End
  <2>. QED  BY <1>0, <1>2, <1>3, <2>1, ThreadTalk
<1>7. CASE ServerUpdates(c)
  <2>1. /\ pc[c] = "awaitFinish" /\ c2s[c] # Empty
        /\ pc' = [pc EXCEPT ![c] = "install"] /\ s2c' = s2c /\ req'[c] = first[c]
        /\ \E r \in Request : req' = [req EXCEPT ![c] = r]
    BY <1>7 DEF ServerUpdates, UpdateRegistry
  <2>2. cl[c] \in {"finish_sent", "failed"}
    BY <1>1, <2>1 DEF ConnOK, EndsFit, MessagesFit
  <2>3. \A d \in Conns \ {c} : req'[d] = req[d]
    BY <1>0, <2>1
  <2>. QED  BY <1>0, <1>2, <1>3, <2>1, <2>2, <2>3, ThreadTalk
<1>8. CASE ServerRefuses(c)
  <2>1. pc[c] = "awaitFinish" /\ c2s[c] # Empty
    BY <1>8 DEF ServerRefuses
  <2>2. Verified(c)
    BY <1>1, <2>1, ClientFinishFacts DEF ConnOK, MessagesFit
  <2>. DEFINE code == registry_reject_code(UpdateResult(first[c]))
  <2>3. /\ UpdateResult(first[c]) # "Ok" /\ s2c' = Said(c, Error(code))
        /\ pc' = [pc EXCEPT ![c] = "ended"] /\ req' = [req EXCEPT ![c] = NoRequest]
    BY <1>8, <2>2 DEF ServerRefuses, RegistryRefuses, Fail, End, Answer, Send, Said
  <2>4. code \in Honest
    BY <2>3, RefusalIsHonest
  <2>. HIDE DEF code
  <2>5. CanSay(c, "ended", Error(code))
    BY <2>4 DEF CanSay, GoodError, Error
  <2>. QED  BY <1>0, <1>2, <1>3, <2>1, <2>3, <2>5, ThreadTalk
<1>9. CASE ServerInstalls(c)
  <2>1. /\ pc[c] = "install" /\ pc' = [pc EXCEPT ![c] = "persist"]
        /\ req' = req /\ s2c' = s2c
    BY <1>9 DEF ServerInstalls, Install
  <2>2. cl[c] \in {"finish_sent", "failed"} /\ req[c] = first[c]
    BY <1>1, <2>1 DEF ConnOK, EndsFit
  <2>. QED  BY <1>0, <1>2, <1>3, <2>1, <2>2, ThreadTalk
<1>10. CASE ServerInstallFails(c)
  <2>1. /\ pc[c] = "install" /\ pc' = [pc EXCEPT ![c] = "ended"]
        /\ req' = [req EXCEPT ![c] = NoRequest] /\ s2c' = Said(c, Error("INTERNAL"))
    BY <1>10 DEF ServerInstallFails, InstallFails, Fail, End, Answer, Send, Said
  <2>2. CanSay(c, "ended", Error("INTERNAL"))
    BY DEF CanSay, GoodError, Error, Honest
  <2>. QED  BY <1>0, <1>2, <1>3, <2>1, <2>2, ThreadTalk
<1>11. CASE ServerFinishes(c)
  <2>. DEFINE msg == [type |-> "ServerFinish", session_id |-> req[c].sid,
                      assigned_ip |-> slot[c],
                      tag |-> server_tag(outcome(c).keys.confirm_key, outcome(c).transcript)]
  <2>1. /\ pc[c] = "persist" /\ pc' = [pc EXCEPT ![c] = "ended"]
        /\ req' = [req EXCEPT ![c] = NoRequest] /\ s2c' = Said(c, msg)
    BY <1>11 DEF ServerFinishes, Finish, End, Answer, Send, Said
  <2>2. cl[c] \in {"finish_sent", "failed"} /\ req[c] = first[c]
    BY <1>1, <2>1 DEF ConnOK, EndsFit
  <2>3. GoodServerFinish(c, msg)
    BY <2>2, OutcomeFacts DEF GoodServerFinish
  <2>. HIDE DEF msg
  <2>4. CanSay(c, "ended", msg)
    BY <2>2, <2>3 DEF CanSay
  <2>. QED  BY <1>0, <1>2, <1>3, <2>1, <2>4, ThreadTalk
<1>12. CASE ServerFinishFails(c)
  <2>1. /\ pc[c] = "persist" /\ pc' = [pc EXCEPT ![c] = "ended"]
        /\ req' = [req EXCEPT ![c] = NoRequest] /\ s2c' = s2c
    BY <1>12 DEF ServerFinishFails, FinishFails, End
  <2>. QED  BY <1>0, <1>2, <1>3, <2>1, ThreadTalk
<1>. QED  BY <1>4, <1>5, <1>6, <1>7, <1>8, <1>9, <1>10, <1>11, <1>12
          DEF ServerReads, ServerActs

\* A client connects, or cannot.
LEMMA ConnectTalk ==
    ASSUME TalkInv, IdentityInv, TypeInv, NEW c \in Conns, NEW p \in Peers,
           Connect(c, p) \/ ConnectFails(c, p)
    PROVE  TalkInv'
<1>1. ConnOK(c) /\ Tables /\ cl[c] = "unused" /\ pin \in [Peers -> Keys \cup {NoKey}]
  BY DEF TalkInv, Connect, ConnectFails, IdentityInv
<1>2. first[c] = NoRequest /\ pc[c] = "idle" /\ c2s[c] = Empty /\ s2c[c] = Empty
  BY <1>1 DEF ConnOK, EndsFit, MessagesFit
<1>3. CASE Connect(c, p)
  <2>1. /\ up /\ pc' = pc /\ req' = req /\ s2c' = s2c /\ why' = why /\ held' = held
        /\ config' = config
        /\ pin' = IF pin[p] = NoKey THEN [pin EXCEPT ![p] = published] ELSE pin
        /\ cl' = [cl EXCEPT ![c] = "hello_sent"]
    BY <1>3 DEF Connect, vars, connVars
  <2>2. PICK r \in Request : /\ r.peer = p /\ first' = [first EXCEPT ![c] = r]
                             /\ \E m : c2s' = [c2s EXCEPT ![c] = m]
    BY <1>3 DEF Connect, Send
  <2>3. Tables'
    BY <1>1, <2>1, <2>2 DEF Tables
  <2>4. first'[c] = r /\ cl'[c] = "hello_sent" /\ r # NoRequest
    BY <1>1, <2>1, <2>2, NoRequestAssumption DEF Tables, Request
  <2>5. pin'[p] # NoKey
    BY <1>1, <2>1 DEF IdentityInv
  <2>6. EndsFit(c)'
    BY <1>2, <2>1, <2>2, <2>4, <2>5 DEF EndsFit
  <2>7. MessagesFit(c)'
    BY <1>2, <2>1, <2>4 DEF MessagesFit
  <2>8. ConnOK(c)'
    BY <1>1, <2>1, <2>6, <2>7 DEF ConnOK
  <2>9. ASSUME NEW d \in Conns \ {c}, first[d] # NoRequest
        PROVE  pin'[first[d].peer] = pin[first[d].peer]
    <3>1. pin[first[d].peer] # NoKey
      BY <2>9 DEF TalkInv, ConnOK, EndsFit
    <3>. QED  BY <1>1, <2>1, <3>1
  <2>10. \A d \in Conns \ {c} : /\ cl'[d] = cl[d] /\ first'[d] = first[d] /\ c2s'[d] = c2s[d]
    BY <1>1, <2>1, <2>2 DEF Tables
  <2>. QED  BY <2>1, <2>3, <2>8, <2>9, <2>10, OthersKept
<1>4. CASE ConnectFails(c, p)
  <2>1. /\ pc' = pc /\ req' = req /\ s2c' = s2c /\ c2s' = c2s /\ first' = first
        /\ held' = held /\ config' = config /\ pin' = pin
        /\ cl' = [cl EXCEPT ![c] = "failed"] /\ why' = [why EXCEPT ![c] = "Io"]
    BY <1>4 DEF ConnectFails, vars, connVars, netVars
  <2>2. Tables' /\ cl'[c] = "failed" /\ why'[c] = "Io"
    BY <1>1, <2>1 DEF Tables
  <2>3. ConnOK(c)'
    BY <1>1, <1>2, <2>1, <2>2 DEF ConnOK, EndsFit, MessagesFit, Honest
  <2>. QED  BY <1>1, <2>1, <2>2, <2>3, OthersKept DEF Tables
<1>. QED  BY <1>3, <1>4

\* The process boots, starts to listen, or dies.
LEMMA ProcessTalk ==
    ASSUME TalkInv, TypeInv,
           \/ ServerBoot \/ ServerDiesBooting \/ ServerStart \/ ServerCrash
           \/ UNCHANGED protocolVars
    PROVE  TalkInv'
<1>1. /\ cl' = cl /\ why' = why /\ first' = first /\ held' = held /\ config' = config
      /\ pin' = pin /\ s2c' = s2c
  BY DEF ServerBoot, ServerDiesBooting, ServerStart, ServerCrash, protocolVars, clientVars,
         netVars
<1>2. CASE ServerCrash
  <2>1. /\ c2s' = [c \in Conns |-> Empty]
        /\ pc' = [c \in Conns |-> IF pc[c] \in Running THEN "ended" ELSE pc[c]]
        /\ req' = [c \in Conns |-> IF pc[c] \in Running THEN NoRequest ELSE req[c]]
    BY <1>2 DEF ServerCrash, Crash
  <2>2. Tables'
    BY <1>1, <2>1 DEF TalkInv, Tables
  <2>3. ASSUME NEW c \in Conns  PROVE ConnOK(c)'
    <3>1. ConnOK(c) /\ c2s'[c] = Empty
      BY <2>1 DEF TalkInv
    <3>2. \/ pc'[c] = pc[c] /\ pc[c] \notin Running
          \/ pc'[c] = "ended" /\ pc[c] \in Running
      BY <2>1
    <3>3. EndsFit(c)'
      BY <1>1, <3>1, <3>2 DEF ConnOK, EndsFit, Running
    <3>4. MessagesFit(c)'
      BY <1>1, <3>1, <3>2, TermsKept
         DEF ConnOK, MessagesFit, GoodError, GoodHello, GoodServerFinish, Running
    <3>. QED  BY <1>1, <3>1, <3>3, <3>4 DEF ConnOK
  <2>. QED  BY <2>2, <2>3 DEF TalkInv
<1>3. CASE ~ServerCrash
  <2>1. c2s' = c2s /\ pc' = pc /\ req' = req
    BY <1>3 DEF ServerBoot, ServerDiesBooting, ServerStart, Start, protocolVars, netVars, vars,
                connVars
  <2>2. Tables'
    BY <1>1, <2>1 DEF TalkInv, Tables
  <2>. QED  BY <1>1, <2>1, <2>2, ConnKept DEF TalkInv
<1>. QED  BY <1>2, <1>3

\* Every step of the protocol keeps all connections in order.
LEMMA TalkNext == TypeInv /\ IdentityInv /\ TalkInv /\ [ProtocolNext]_protocolVars => TalkInv'
BY ProcessTalk, ConnectTalk, ClientTalk, ServerTalk DEF ProtocolNext

\* All connections are always in order.
LEMMA TalkInvariant == ProtocolSpec => []TalkInv
<1>1. ProtocolInit => TalkInv
  BY DEF ProtocolInit, Init, TalkInv, Tables, ConnOK, EndsFit, MessagesFit, Honest
<1>2. ProtocolSpec => []TypeInv
  BY ProtocolImplementsServer, TypeInvariant, PTL
<1>. QED  BY <1>1, <1>2, IdentityInvariant, TalkNext, PTL DEF ProtocolSpec

\* The two code bases never refuse one another, for any number of clients,
\* connections, algorithms, identities, crashes and lost messages: no check of
\* a signature, an algorithm, a tag, a session id or a message type ever fails.
THEOREM NoFalseAlarms == ProtocolSpec => []NoFalseAlarm
<1>1. TalkInv => NoFalseAlarm
  BY DEF TalkInv, ConnOK, NoFalseAlarm, Honest
<1>. QED  BY <1>1, TalkInvariant, PTL

-----------------------------------------------------------------------------
(***************************************************************************)
(* The client's tunnel and wg0. A client makes one connection at a time;   *)
(* the PSK on wg0 is the one of its tunnel or of an attempt that has not   *)
(* returned Ok, and while an attempt is between its install and its return *)
(* it is one of the latter; what a client was told is what the server      *)
(* remembers.                                                              *)
(***************************************************************************)
HasFinish(c) == s2c[c] # Empty /\ s2c[c].type = "ServerFinish"
IsPskOf(d, p) == first[d] # NoRequest /\ first[d].peer = p /\ psk_of[p] = SessionKeys(d).psk

OneAtATime ==
    \A c, d \in Conns :
        cl[c] \in Waiting /\ cl[d] \in Waiting /\ first[c].peer = first[d].peer => c = d

PskFits(c) ==
    /\ cl[c] = "ok" =>
           \E d \in Conns : /\ IsPskOf(d, first[c].peer)
                            /\ cl[d] = "ok" => d = tunnel[first[c].peer]
    /\ cl[c] \in Waiting /\ (pc[c] = "persist" \/ HasFinish(c)) =>
           \E d \in Conns : IsPskOf(d, first[c].peer) /\ cl[d] # "ok"

ToldFits(c) ==
    /\ HasFinish(c) => s2c[c].assigned_ip = told[first[c].peer] /\ told[first[c].peer] # NoIp
    /\ cl[c] = "ok" =>
           /\ config[c].assigned_ip = told[first[c].peer] /\ told[first[c].peer] # NoIp
           /\ config[c].psk = SessionKeys(c).psk

TunnelsReturned ==
    \A p \in Peers : Established(p) =>
        tunnel[p] \in Conns /\ cl[tunnel[p]] = "ok" /\ first[tunnel[p]].peer = p

TunnelInv ==
    /\ DOMAIN tunnel = Peers /\ DOMAIN psk_of = Peers
    /\ OneAtATime
    /\ \A c \in Conns : PskFits(c) /\ ToldFits(c)
    /\ TunnelsReturned

\* A connection whose client is on its way, or was answered, has a client.
LEMMA HasClient ==
    ASSUME TalkInv, NEW c \in Conns, cl[c] \in Waiting \cup {"ok"}
    PROVE  first[c] \in Request /\ first[c] # NoRequest /\ first[c].peer \in Peers
<1>1. first[c] \in Request /\ first[c] # NoRequest
  BY DEF TalkInv, ConnOK, EndsFit, Waiting
<1>. QED  BY <1>1 DEF Request

\* The steps that install nothing, send no ServerFinish and return no Ok.
LEMMA QuietTunnel ==
    ASSUME TunnelInv, TalkInv, UNCHANGED <<first, tunnel, config, psk_of, told>>,
           \A c \in Conns :
               /\ cl'[c] = "ok" <=> cl[c] = "ok"
               /\ cl'[c] \in Waiting => cl[c] \in Waiting
               /\ pc'[c] = "persist" => pc[c] = "persist"
               /\ s2c'[c] = s2c[c] \/ s2c'[c] = Empty \/ s2c'[c].type # "ServerFinish"
    PROVE  TunnelInv'
<1>1. \A c \in Conns : HasFinish(c)' => HasFinish(c) /\ s2c'[c] = s2c[c]
  BY DEF HasFinish
<1>2. \A c \in Conns : SessionKeys(c)' = SessionKeys(c)
  BY TermsKept
<1>3. OneAtATime'
  BY DEF TunnelInv, OneAtATime
<1>4. ASSUME NEW c \in Conns  PROVE PskFits(c)'
  BY <1>1, <1>2 DEF TunnelInv, PskFits, IsPskOf
<1>5. ASSUME NEW c \in Conns  PROVE ToldFits(c)'
  BY <1>1, <1>2 DEF TunnelInv, ToldFits
<1>6. TunnelsReturned'
  BY DEF TunnelInv, TunnelsReturned, Established
<1>. QED  BY <1>3, <1>4, <1>5, <1>6 DEF TunnelInv

\* A client connects: it makes no second connection beside another.
LEMMA ConnectTunnel ==
    ASSUME TunnelInv, TalkInv, NEW c \in Conns, NEW p \in Peers, Connect(c, p)
    PROVE  TunnelInv'
<1>1. /\ Tables /\ cl[c] = "unused" /\ ClientIdle(p)
      /\ UNCHANGED <<tunnel, config, psk_of, told, s2c, pc>>
      /\ cl' = [cl EXCEPT ![c] = "hello_sent"]
  BY DEF TalkInv, Connect, vars, connVars
<1>2. PICK r \in Request : r.peer = p /\ first' = [first EXCEPT ![c] = r]
  BY DEF Connect
<1>3. first[c] = NoRequest /\ pc[c] = "idle" /\ s2c[c] = Empty
  BY <1>1 DEF TalkInv, ConnOK, EndsFit, MessagesFit
<1>4. /\ cl'[c] = "hello_sent" /\ first'[c] = r
      /\ \A d \in Conns \ {c} : cl'[d] = cl[d] /\ first'[d] = first[d]
  BY <1>1, <1>2 DEF Tables
<1>5. \A d \in Conns \ {c} : SessionKeys(d)' = SessionKeys(d)
  BY <1>4, TermsKept
<1>6. OneAtATime'
  <2>1. \A d \in Conns : cl[d] \in Waiting => first[d].peer # p
    BY <1>1, HasClient DEF ClientIdle
  <2>. QED  BY <1>2, <1>4, <2>1 DEF TunnelInv, OneAtATime
<1>7. ASSUME NEW d \in Conns  PROVE PskFits(d)' /\ ToldFits(d)'
  <2>1. CASE d = c
    BY <1>1, <1>3, <1>4, <2>1 DEF PskFits, ToldFits, HasFinish
  <2>2. CASE d # c
    <3>1. PskFits(d) /\ ToldFits(d)
      BY DEF TunnelInv
    <3>2. \A e \in Conns : IsPskOf(e, first[d].peer)
                               => e # c /\ IsPskOf(e, first[d].peer)'
      BY <1>1, <1>3, <1>4, <1>5, <2>2 DEF IsPskOf
    <3>3. PskFits(d)'
      BY <1>1, <1>4, <2>2, <3>1, <3>2 DEF PskFits, HasFinish
    <3>4. ToldFits(d)'
      BY <1>1, <1>4, <1>5, <2>2, <3>1 DEF ToldFits, HasFinish
    <3>. QED  BY <3>3, <3>4
  <2>. QED  BY <2>1, <2>2
<1>8. TunnelsReturned'
  BY <1>1, <1>4 DEF TunnelInv, TunnelsReturned, Established
<1>. QED  BY <1>1, <1>6, <1>7, <1>8 DEF TunnelInv

\* The server gives wg0 the PSK of a connection that has not returned Ok.
LEMMA InstallTunnel ==
    ASSUME TunnelInv, TalkInv, TypeInv, NEW c \in Conns, ServerInstalls(c)
    PROVE  TunnelInv'
<1>1. /\ pc[c] = "install" /\ pc' = [pc EXCEPT ![c] = "persist"]
      /\ psk_of' = [psk_of EXCEPT ![req[c].peer] = outcome(c).keys.psk]
      /\ UNCHANGED <<first, cl, tunnel, config, told, s2c>>
  BY DEF ServerInstalls, Install, ServerStep, clientVars
<1>2. pc \in [Conns -> {"idle", "ended"} \cup Running]
  BY DEF TypeInv, TypeOK
<1>3. /\ cl[c] \in {"finish_sent", "failed"} /\ req[c] = first[c]
      /\ first[c] \in Request /\ first[c] # NoRequest
  BY <1>1 DEF TalkInv, ConnOK, EndsFit
<1>4. PICK p \in Peers : p = first[c].peer
  BY <1>3 DEF Request
<1>5. \A d \in Conns : SessionKeys(d)' = SessionKeys(d)
  BY <1>1, TermsKept
<1>6. psk_of' = [psk_of EXCEPT ![p] = SessionKeys(c).psk]
  BY <1>1, <1>3, <1>4, OutcomeFacts
<1>7. IsPskOf(c, p)' /\ cl'[c] # "ok"
  BY <1>1, <1>3, <1>4, <1>5, <1>6 DEF TunnelInv, IsPskOf
<1>8. \A d \in Conns, q \in Peers \ {p} : IsPskOf(d, q) => IsPskOf(d, q)'
  BY <1>1, <1>5, <1>6 DEF TunnelInv, IsPskOf
<1>9. OneAtATime' /\ TunnelsReturned'
  BY <1>1 DEF TunnelInv, OneAtATime, TunnelsReturned, Established
<1>10. ASSUME NEW d \in Conns  PROVE PskFits(d)'
  <2>1. CASE first[d].peer = p
    BY <1>1, <1>7, <2>1 DEF PskFits
  <2>2. CASE first[d].peer # p
    <3>1. cl[d] \in Waiting \cup {"ok"} => first[d].peer \in Peers
      BY HasClient
    <3>2. d # c /\ pc'[d] = pc[d]
      BY <1>1, <1>2, <1>4, <2>2
    <3>. QED  BY <1>1, <1>8, <2>2, <3>1, <3>2 DEF TunnelInv, PskFits, HasFinish
  <2>. QED  BY <2>1, <2>2
<1>11. ASSUME NEW d \in Conns  PROVE ToldFits(d)'
  BY <1>1, <1>5 DEF TunnelInv, ToldFits, HasFinish
<1>. QED  BY <1>1, <1>6, <1>9, <1>10, <1>11 DEF TunnelInv

\* The server answers: with the address it had told the client before, if any.
LEMMA AnswerTunnel ==
    ASSUME TunnelInv, TalkInv, TypeInv, MirrorInv, PromisesKept,
           NEW c \in Conns, ServerFinishes(c)
    PROVE  TunnelInv'
<1>. DEFINE p == first[c].peer
            msg == [type |-> "ServerFinish", session_id |-> req[c].sid,
                    assigned_ip |-> slot[c],
                    tag |-> server_tag(outcome(c).keys.confirm_key, outcome(c).transcript)]
<1>1. /\ pc[c] = "persist" /\ pc' = [pc EXCEPT ![c] = "ended"]
      /\ told' = [told EXCEPT ![req[c].peer] = slot[c]]
      /\ s2c' = Said(c, msg)
      /\ UNCHANGED <<first, cl, tunnel, config, psk_of>>
  BY DEF ServerFinishes, Finish, End, ServerStep, clientVars, Answer, Send, Said
<1>2. msg.assigned_ip = slot[c]
  OBVIOUS
<1>. HIDE DEF msg
<1>3. /\ pc \in [Conns -> {"idle", "ended"} \cup Running]
      /\ told \in [Peers -> Hosts \cup {NoIp}]
      /\ IsRegistry(registry) /\ Tables
  BY DEF TypeInv, TypeOK, TalkInv
<1>4. /\ cl[c] \in {"finish_sent", "failed"} /\ req[c] = first[c]
      /\ first[c] \in Request /\ first[c] # NoRequest
  BY <1>1 DEF TalkInv, ConnOK, EndsFit
<1>5. p \in Peers
  BY <1>4 DEF Request
<1>6. up /\ p \in DOMAIN registry /\ registry[p].ip = slot[c]
  BY <1>1, <1>4 DEF MirrorInv, ThreadsHoldSlots
<1>7. slot[c] # NoIp
  BY <1>3, <1>6, HostsAssumption DEF IsRegistry, Peer, Hosts, NoIp
<1>8. told[p] # NoIp => told[p] = slot[c]
  BY <1>5, <1>6 DEF PromisesKept, MirrorInv, FileInRegistry
<1>9. told'[p] = slot[c] /\ \A q \in Peers : told[q] # NoIp => told'[q] = told[q]
  BY <1>1, <1>3, <1>4, <1>5, <1>8
<1>10. \A d \in Conns : SessionKeys(d)' = SessionKeys(d)
  BY <1>1, TermsKept
<1>11. \A d \in Conns \ {c} : s2c'[d] = s2c[d] /\ pc'[d] = pc[d]
  BY <1>1, <1>3 DEF Said, Tables
<1>12. HasFinish(c)' => cl[c] \in Waiting /\ s2c'[c] = msg
  BY <1>1, <1>3 DEF Said, Tables, HasFinish
<1>. HIDE DEF p
<1>13. OneAtATime' /\ TunnelsReturned'
  BY <1>1 DEF TunnelInv, OneAtATime, TunnelsReturned, Established
<1>14. ASSUME NEW d \in Conns  PROVE PskFits(d)'
  <2>1. PskFits(d) /\ \A q : \A e \in Conns : IsPskOf(e, q) => IsPskOf(e, q)'
    BY <1>1, <1>10 DEF TunnelInv, IsPskOf
  <2>2. CASE d = c
    BY <1>1, <1>3, <1>4, <2>1, <2>2 DEF PskFits
  <2>3. CASE d # c
    BY <1>1, <1>11, <2>1, <2>3 DEF PskFits, HasFinish
  <2>. QED  BY <2>2, <2>3
<1>15. ASSUME NEW d \in Conns  PROVE ToldFits(d)'
  <2>1. ToldFits(d)
    BY DEF TunnelInv
  <2>2. CASE d = c
    BY <1>1, <1>2, <1>4, <1>7, <1>9, <1>12, <2>2 DEF ToldFits, p
  <2>3. CASE d # c
    <3>1. HasFinish(d) => first[d].peer \in Peers
      <4>1. HasFinish(d) => cl[d] \in Waiting
        BY DEF TalkInv, ConnOK, MessagesFit, HasFinish, Waiting
      <4>. QED  BY <4>1, HasClient
    <3>2. cl[d] = "ok" => first[d].peer \in Peers
      BY HasClient
    <3>. QED  BY <1>1, <1>9, <1>10, <1>11, <2>1, <2>3, <3>1, <3>2 DEF ToldFits, HasFinish
  <2>. QED  BY <2>2, <2>3
<1>. QED  BY <1>1, <1>13, <1>14, <1>15 DEF TunnelInv

\* connect returns Ok and the tunnel comes up with what the client derived.
LEMMA OkTunnel ==
    ASSUME TunnelInv, TalkInv, NEW c \in Conns, cl[c] = "finish_sent",
           s2c[c] # Empty, s2c[c].type = "ServerFinish", Connected(c, s2c[c])
    PROVE  TunnelInv'
<1>0. PICK p \in Peers : p = first[c].peer
  BY HasClient DEF Waiting
<1>1. /\ cl' = [cl EXCEPT ![c] = "ok"] /\ s2c' = [s2c EXCEPT ![c] = Empty]
      /\ tunnel' = [tunnel EXCEPT ![p] = c]
      /\ config' = [config EXCEPT ![c] = [session_id |-> held[c].session_id,
                                          assigned_ip |-> s2c[c].assigned_ip,
                                          psk |-> held[c].keys.psk]]
      /\ UNCHANGED <<first, psk_of, told, pc>>
  BY <1>0 DEF Connected, Send, vars, connVars
<1>2. first[c] # NoRequest /\ Tables
  BY HasClient DEF TalkInv, Waiting
<1>3. held[c] = [session_id |-> first[c].sid, keys |-> SessionKeys(c),
                 transcript |-> Transcript(c)]
  BY DEF TalkInv, ConnOK, MessagesFit
<1>4. /\ cl'[c] = "ok" /\ s2c'[c] = Empty
      /\ config'[c].assigned_ip = s2c[c].assigned_ip
      /\ config'[c].psk = SessionKeys(c).psk
      /\ \A d \in Conns \ {c} :
             cl'[d] = cl[d] /\ s2c'[d] = s2c[d] /\ config'[d] = config[d]
  BY <1>1, <1>2, <1>3 DEF Tables
<1>5. tunnel'[p] = c /\ \A q \in Peers \ {p} : tunnel'[q] = tunnel[q]
  BY <1>1, <1>2 DEF TunnelInv
<1>6. \A d \in Conns : SessionKeys(d)' = SessionKeys(d)
  BY <1>1, TermsKept
<1>7. HasFinish(c) /\ cl[c] \in Waiting
  BY DEF HasFinish, Waiting
<1>8. PICK e \in Conns : IsPskOf(e, p) /\ cl[e] # "ok"
  BY <1>0, <1>7 DEF TunnelInv, PskFits
<1>9. \A q : \A d \in Conns : IsPskOf(d, q) => IsPskOf(d, q)'
  BY <1>1, <1>6 DEF IsPskOf
<1>10. OneAtATime'
  BY <1>1, <1>4 DEF TunnelInv, OneAtATime, Waiting
<1>11. ASSUME NEW d \in Conns  PROVE PskFits(d)'
  <2>1. CASE first[d].peer = p
    <3>1. cl'[d] \notin Waiting
      BY <1>0, <1>4, <1>7, <2>1 DEF TunnelInv, OneAtATime, Waiting
    <3>2. IsPskOf(e, p)' /\ (cl'[e] = "ok" => e = tunnel'[p])
      BY <1>4, <1>5, <1>8, <1>9
    <3>. QED  BY <1>1, <2>1, <3>1, <3>2 DEF PskFits
  <2>2. CASE first[d].peer # p
    <3>1. PskFits(d) /\ d # c
      BY <1>0, <2>2 DEF TunnelInv
    <3>2. cl[d] \in Waiting \cup {"ok"} => first[d].peer \in Peers \ {p}
      BY <2>2, HasClient
    <3>3. \A f \in Conns : IsPskOf(f, first[d].peer) => f # c
      BY <1>0, <2>2 DEF IsPskOf
    <3>. QED  BY <1>1, <1>4, <1>5, <1>9, <3>1, <3>2, <3>3 DEF PskFits, HasFinish
  <2>. QED  BY <2>1, <2>2
<1>12. ASSUME NEW d \in Conns  PROVE ToldFits(d)'
  <2>1. ToldFits(d) /\ ToldFits(c)
    BY DEF TunnelInv
  <2>2. CASE d = c
    BY <1>1, <1>4, <1>6, <1>7, <2>1, <2>2 DEF ToldFits, HasFinish
  <2>3. CASE d # c
    BY <1>1, <1>4, <1>6, <2>1, <2>3 DEF ToldFits, HasFinish
  <2>. QED  BY <2>2, <2>3
<1>13. TunnelsReturned'
  BY <1>0, <1>1, <1>2, <1>4, <1>5 DEF TunnelInv, TunnelsReturned, Established
<1>. QED  BY <1>1, <1>10, <1>11, <1>12, <1>13 DEF TunnelInv

\* The steps of the process and of the clients that leave the tunnels alone.
LEMMA QuietSteps ==
    ASSUME TunnelInv, TalkInv,
           \/ UNCHANGED protocolVars
           \/ ServerBoot \/ ServerDiesBooting \/ ServerStart \/ ServerCrash
           \/ \E c \in Conns : \E p \in Peers : ConnectFails(c, p)
           \/ \E c \in Conns : ClientTimeout(c) \/ ClientBroken(c) \/ ClientRefused(c)
           \/ \E c \in Conns : ClientFinish(c)
    PROVE  TunnelInv'
<1>0. Tables
  BY DEF TalkInv
<1>1. CASE UNCHANGED protocolVars
  BY <1>1, QuietTunnel DEF protocolVars, vars, connVars, netVars, clientVars
<1>2. CASE ServerBoot \/ ServerDiesBooting \/ ServerStart \/ ServerCrash
  <2>1. /\ UNCHANGED <<first, tunnel, config, psk_of, told, cl, s2c>>
        /\ pc' = pc \/ pc' = [c \in Conns |-> IF pc[c] \in Running THEN "ended" ELSE pc[c]]
    BY <1>2 DEF ServerBoot, ServerDiesBooting, ServerStart, ServerCrash, Start, Crash,
                vars, connVars, netVars, clientVars
  <2>. QED  BY <2>1, QuietTunnel
<1>3. ASSUME NEW c \in Conns, NEW p \in Peers, ConnectFails(c, p)  PROVE TunnelInv'
  <2>1. /\ UNCHANGED <<first, tunnel, config, psk_of, told, s2c, pc>>
        /\ cl' = [cl EXCEPT ![c] = "failed"] /\ cl[c] = "unused"
    BY <1>3 DEF ConnectFails, vars, connVars, netVars
  <2>. QED  BY <1>0, <2>1, QuietTunnel DEF Tables, Waiting
<1>4. ASSUME NEW c \in Conns, NEW error, cl[c] \in Waiting, Return(c, error)  PROVE TunnelInv'
  <2>1. /\ UNCHANGED <<first, tunnel, config, psk_of, told, pc>>
        /\ cl' = [cl EXCEPT ![c] = "failed"] /\ s2c' = [s2c EXCEPT ![c] = Empty]
    BY <1>4 DEF Return, Send, vars, connVars
  <2>. QED  BY <1>0, <1>4, <2>1, QuietTunnel DEF Tables, Waiting
<1>5. ASSUME NEW c \in Conns, ClientTimeout(c) \/ ClientBroken(c) \/ ClientRefused(c)
      PROVE  TunnelInv'
  <2>1. cl[c] \in Waiting /\ \E error : Return(c, error)
    BY <1>5 DEF ClientTimeout, ClientBroken, ClientRefused
  <2>. QED  BY <1>4, <2>1
<1>6. ASSUME NEW c \in Conns, ClientFinish(c)  PROVE TunnelInv'
  <2>1. /\ UNCHANGED <<first, tunnel, config, psk_of, told, pc>>
        /\ cl[c] \in Waiting /\ s2c' = [s2c EXCEPT ![c] = Empty]
        /\ cl' = [cl EXCEPT ![c] = "failed"] \/ cl' = [cl EXCEPT ![c] = "finish_sent"]
    BY <1>6 DEF ClientFinish, Finished, Return, Send, vars, connVars, Waiting
  <2>. QED  BY <1>0, <2>1, QuietTunnel DEF Tables, Waiting
<1>. QED  BY <1>1, <1>2, <1>3, <1>5, <1>6

\* The steps of a thread that neither install nor answer.
LEMMA QuietThread ==
    ASSUME TunnelInv, TalkInv, TypeInv, NEW c \in Conns,
           \/ ServerReads(c) \/ ServerInstallFails(c) \/ ServerFinishFails(c)
           \/ ServerRejectsFirst(c) \/ ServerTimeout(c) \/ ServerBroken(c)
    PROVE  TunnelInv'
<1>0. Tables /\ pc \in [Conns -> {"idle", "ended"} \cup Running]
  BY DEF TalkInv, TypeInv, TypeOK
<1>1. UNCHANGED <<first, tunnel, config, cl, psk_of>>
  BY DEF ServerReads, ServerHello, ServerUpdates, ServerRefuses, ServerInstallFails,
         ServerFinishFails, ServerRejectsFirst, ServerTimeout, ServerBroken, ServerStep,
         clientVars
<1>2. /\ told' = told
      /\ \E new \in {"awaitFinish", "install", "ended"} : pc' = [pc EXCEPT ![c] = new]
  BY DEF ServerReads, ServerHello, ServerUpdates, ServerRefuses, ServerInstallFails,
         ServerFinishFails, ServerRejectsFirst, ServerTimeout, ServerBroken, Accept,
         RejectFirst, RejectFinish, UpdateRegistry, RegistryRefuses, InstallFails,
         FinishFails, Fail, End
<1>3. s2c' = s2c \/ \E msg : s2c' = Said(c, msg) /\ msg.type # "ServerFinish"
  <2>1. outcome(c).server_hello.type # "ServerFinish"
    BY DEF outcome, respond
  <2>2. \A code : Error(code).type # "ServerFinish"
    BY DEF Error
  <2>3. CASE ServerHello(c)
    <3>1. s2c' = Said(c, outcome(c).server_hello)
      BY <2>3 DEF ServerHello, Answer, Send, Said
    <3>. QED  BY <2>1, <3>1
  <2>4. CASE ServerRefuses(c)
    <3>1. \E code : s2c' = Said(c, Error(code))
      BY <2>4 DEF ServerRefuses, Answer, Send, Said
    <3>. QED  BY <2>2, <3>1
  <2>5. CASE ServerInstallFails(c) \/ ServerRejectsFirst(c)
    <3>1. \E code : s2c' = Said(c, Error(code))
      BY <2>5 DEF ServerInstallFails, ServerRejectsFirst, Answer, Send, Said
    <3>. QED  BY <2>2, <3>1
  <2>6. CASE ServerUpdates(c) \/ ServerFinishFails(c) \/ ServerTimeout(c) \/ ServerBroken(c)
    BY <2>6 DEF ServerUpdates, ServerFinishFails, ServerTimeout, ServerBroken
  <2>. QED  BY <2>3, <2>4, <2>5, <2>6 DEF ServerReads
<1>4. \A d \in Conns : s2c'[d] = s2c[d] \/ s2c'[d] = Empty \/ s2c'[d].type # "ServerFinish"
  BY <1>0, <1>3 DEF Tables, Said
<1>5. \A d \in Conns : pc'[d] = "persist" => pc[d] = "persist"
  BY <1>0, <1>2
<1>. QED  BY <1>1, <1>2, <1>4, <1>5, QuietTunnel

\* Every step keeps the tunnels in order, in the default deployment.
LEMMA TunnelNext ==
    TypeInv /\ MirrorInv /\ PromisesKept /\ TalkInv /\ TunnelInv
        /\ [ProtocolNext]_protocolVars => TunnelInv'
<1>. SUFFICES ASSUME TypeInv, MirrorInv, PromisesKept, TalkInv, TunnelInv,
                     [ProtocolNext]_protocolVars
              PROVE  TunnelInv'
  OBVIOUS
<1>1. ASSUME NEW c \in Conns, ClientOk(c)  PROVE TunnelInv'
  <2>1. cl[c] = "finish_sent" /\ s2c[c] # Empty /\ s2c[c].type = "ServerFinish"
    BY <1>1 DEF ClientOk
  <2>2. GoodServerFinish(c, s2c[c])
    BY <2>1 DEF TalkInv, ConnOK, MessagesFit, GoodError
  <2>3. held[c] = [session_id |-> first[c].sid, keys |-> SessionKeys(c),
                   transcript |-> Transcript(c)]
    BY <2>1 DEF TalkInv, ConnOK, MessagesFit
  <2>4. Connected(c, s2c[c])
    BY <1>1, <2>2, <2>3, ServerFinishFacts DEF ClientOk
  <2>. QED  BY <2>1, <2>4, OkTunnel
<1>2. ASSUME NEW c \in Conns, ServerActs(c)  PROVE TunnelInv'
  BY <1>2, InstallTunnel, AnswerTunnel, QuietThread DEF ServerActs
<1>3. ASSUME NEW c \in Conns, ClientReads(c) \/ ClientTimeout(c) \/ ClientBroken(c)
      PROVE  TunnelInv'
  BY <1>1, <1>3, QuietSteps DEF ClientReads
<1>. QED  BY <1>2, <1>3, QuietSteps, QuietThread, ConnectTunnel DEF ProtocolNext

\* The invariant of the tunnels.
LEMMA TunnelInvariant ==
    ASSUME ~IdleSweep, "remove" \notin Faults, "list" \notin Faults, "persist" \notin Faults
    PROVE  ProtocolSpec => [](TypeInv /\ SlotInv /\ MirrorInv /\ PromisesKept
                                 /\ TalkInv /\ TunnelInv)
<1>1. ProtocolInit => TunnelInv
  BY DEF ProtocolInit, Init, TunnelInv, OneAtATime, PskFits, ToldFits, HasFinish,
         TunnelsReturned, Established, Waiting
<1>2. ProtocolSpec => []PromisesKept
  BY ProtocolImplementsServer, PromisesInit, PromisesNext, TypeInvariant, MirrorInvariant,
     PTL DEF Spec
<1>3. ProtocolSpec => [](TypeInv /\ SlotInv /\ MirrorInv)
  BY ProtocolImplementsServer, TypeInvariant, SlotInvariant, MirrorInvariant, PTL
<1>. QED  BY <1>1, <1>2, <1>3, TalkInvariant, TunnelNext, PTL DEF ProtocolSpec

\* In the default deployment (no eviction), unless wg refuses to list or remove
\* peers at a start or a save fails, a client whose connect returned Ok is
\* served by every running server at its own address, and wg0 holds its PSK or
\* one of an attempt that has not returned Ok: for any number of clients and
\* connections, lost messages, failing installs, crashes and restarts.
THEOREM TunnelsAgree ==
    ASSUME ~IdleSweep, "remove" \notin Faults, "list" \notin Faults, "persist" \notin Faults
    PROVE  ProtocolSpec => []TunnelAgreement
<1>1. TypeInv /\ SlotInv /\ MirrorInv /\ PromisesKept /\ TalkInv /\ TunnelInv
          => TunnelAgreement
  <2>. SUFFICES ASSUME SlotInv, MirrorInv, PromisesKept, TalkInv, TunnelInv, up,
                       NEW p \in Peers, Established(p)
                PROVE  LET c == tunnel[p] IN
                       /\ p \in DOMAIN wg /\ wg[p].ip = config[c].assigned_ip
                       /\ \A q \in Peers : Established(q) /\ q # p
                              => config[tunnel[q]].assigned_ip # config[c].assigned_ip
                       /\ \/ psk_of[p] = config[c].psk
                          \/ \E d \in Conns : /\ cl[d] # "ok" /\ first[d] # NoRequest
                                              /\ first[d].peer = p
                                              /\ psk_of[p] = outcome(d).keys.psk
    BY DEF TunnelAgreement
  <2>1. ASSUME NEW q \in Peers, Established(q)
        PROVE  /\ q \in DOMAIN registry /\ registry[q].ip = config[tunnel[q]].assigned_ip
               /\ q \in DOMAIN wg /\ wg[q].ip = config[tunnel[q]].assigned_ip
    <3>1. tunnel[q] \in Conns /\ cl[tunnel[q]] = "ok" /\ first[tunnel[q]].peer = q
      BY <2>1 DEF TunnelInv, TunnelsReturned
    <3>2. config[tunnel[q]].assigned_ip = told[q] /\ told[q] # NoIp
      BY <3>1 DEF TunnelInv, ToldFits
    <3>3. q \in DOMAIN file \cap DOMAIN wg /\ file[q].ip = told[q]
      BY <3>2 DEF PromisesKept
    <3>. QED  BY <3>2, <3>3 DEF MirrorInv, FileInRegistry, WgMirrorsRegistry
  <2>2. \A q \in Peers : Established(q) /\ q # p
            => config[tunnel[q]].assigned_ip # config[tunnel[p]].assigned_ip
    BY <2>1 DEF SlotInv, SlotsExclusive, UniqueIps
  <2>3. tunnel[p] \in Conns /\ cl[tunnel[p]] = "ok" /\ first[tunnel[p]].peer = p
    BY DEF TunnelInv, TunnelsReturned
  <2>4. config[tunnel[p]].psk = SessionKeys(tunnel[p]).psk
    BY <2>3 DEF TunnelInv, ToldFits
  <2>5. PICK d \in Conns : IsPskOf(d, p) /\ (cl[d] = "ok" => d = tunnel[p])
    BY <2>3 DEF TunnelInv, PskFits
  <2>6. \/ psk_of[p] = config[tunnel[p]].psk
        \/ /\ cl[d] # "ok" /\ first[d] # NoRequest /\ first[d].peer = p
           /\ psk_of[p] = outcome(d).keys.psk
    BY <2>4, <2>5, OutcomeFacts DEF IsPskOf
  <2>. QED  BY <2>1, <2>2, <2>6
<1>. QED  BY <1>1, TunnelInvariant, PTL
=============================================================================
