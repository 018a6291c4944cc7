------------------------- MODULE HandshakeProtocol -------------------------
(***************************************************************************)
(* The whole handshake: clients (transport.rs and client.rs of the core,   *)
(* the rekey of test-client.rs) and the server's threads (handshake.rs and *)
(* handle_connection), four messages on a TCP connection that may break at *)
(* any point, over the server of HandshakeServer, whose actions are taken  *)
(* here together with the messages that cause them and the answers they    *)
(* give, and over the server's identity.                                   *)
(*                                                                         *)
(* A client makes one connection at a time, and is done with it when       *)
(* connect returns; the server's thread may go on after that. A message    *)
(* waits in "c2s" or "s2c" until it is read; a message lost with its       *)
(* connection is one whose reader gets an error instead. What the client's *)
(* WireGuard interface is given is the result of its last connection that  *)
(* returned Ok. Random values are named after the connection that draws    *)
(* them.                                                                   *)
(***************************************************************************)
EXTENDS HandshakeServer, HybridKem, ServerIdentity

CONSTANT NoConn       \* no connection has returned Ok

ASSUME NoConnAssumption == NoConn \notin Conns

VARIABLES
    cl,       \* where each connection's client is
    why,      \* the error connect returned
    first,    \* the first message each client sent, as the server's Request
    c2s, s2c, \* the message on its way on each connection
    held,     \* what the client derived from ServerHello
    config,   \* the result of connect
    pin,      \* the verifying key each client ships with
    tunnel,   \* the connection each client's tunnel comes from
    psk_of    \* the PSK wg0 holds for each peer, as derived

netVars == <<c2s, s2c>>
clientVars == <<cl, why, first, held, config, pin, tunnel>>
protocolVars == <<vars, idVars, netVars, clientVars, psk_of>>

Empty == <<>>
Waiting == {"hello_sent", "finish_sent"}

ProtocolInit ==
    /\ Init /\ IdInit
    /\ cl = [c \in Conns |-> "unused"]
    /\ why = [c \in Conns |-> "none"]
    /\ first = [c \in Conns |-> NoRequest]
    /\ c2s = [c \in Conns |-> Empty]
    /\ s2c = [c \in Conns |-> Empty]
    /\ held = [c \in Conns |-> Empty]
    /\ config = [c \in Conns |-> Empty]
    /\ pin = [p \in Peers |-> NoKey]
    /\ tunnel = [p \in Peers |-> NoConn]
    /\ psk_of = [p \in Peers |-> Empty]

Send(chan, c, msg) == chan' = [chan EXCEPT ![c] = msg]
Message(type) == [type |-> type]

-----------------------------------------------------------------------------
(***************************************************************************)
(* The two ends of the cryptographic exchange.                             *)
(***************************************************************************)
client_keys(c) == generate_client_keypairs(first[c].algo, <<"client", c>>)

\* ClientHandshake::start.
hello(c) ==
    [algo |-> first[c].algo, nonce |-> <<"client", c>>, wg_pubkey |-> first[c].peer,
     x25519 |-> client_keys(c).x25519, mlkem |-> client_keys(c).mlkem]

\* handshake::respond.
respond(h, session_id, rnd) ==
    LET enc == server_encapsulate(h.x25519, h.mlkem, rnd)
        transcript == TranscriptInputs_build(
            [algo |-> h.algo, client_nonce |-> h.nonce, server_nonce |-> rnd,
             client_x25519_pub |-> h.x25519, client_mlkem_pub |-> h.mlkem,
             server_x25519_pub |-> enc.server_x25519, mlkem_ciphertext |-> enc.ciphertext])
    IN  [server_hello |->
             [type |-> "ServerHello", algo |-> h.algo, session_id |-> session_id,
              nonce |-> rnd, x25519 |-> enc.server_x25519,
              ciphertext |-> enc.ciphertext, signature |-> sign(identity, transcript)],
         keys |-> derive(enc.hybrid_secret, h.nonce, rnd),
         transcript |-> transcript]

\* What the thread of connection c keeps between its messages.
outcome(c) == respond(hello(c), first[c].sid, <<"server", c>>)

\* ClientHandshake::finish: the transcript as the client sees it, its checks in
\* their order, and what it derives.
client_transcript(c, sh) ==
    build_handshake_transcript(first[c].algo, hello(c).nonce, sh.nonce,
        client_keys(c).x25519, client_keys(c).mlkem, sh.x25519, sh.ciphertext)

finish_error(c, sh) ==
    IF sh.algo # first[c].algo THEN "AlgoMismatch"
    ELSE IF ~verify(pin[first[c].peer], client_transcript(c, sh), sh.signature)
         THEN "AuthFailed"
    ELSE "none"

finish(c, sh) ==
    LET secret == client_decapsulate(client_keys(c), sh.x25519, sh.ciphertext)
    IN  [session_id |-> sh.session_id,
         keys |-> derive_session_keys(secret, hello(c).nonce, sh.nonce),
         transcript |-> client_transcript(c, sh)]

\* The checks of connect on ServerFinish.
server_finish_error(c, sf) ==
    IF sf.session_id # held[c].session_id THEN "UnexpectedMessage"
    ELSE IF ~verify_server_tag(held[c].keys.confirm_key, held[c].transcript, sf.tag)
         THEN "AuthFailed"
    ELSE "none"

-----------------------------------------------------------------------------
(***************************************************************************)
(* The client: connect, step by step.                                      *)
(***************************************************************************)
\* The sessions a client was given by the connections that returned Ok.
Sessions(p) ==
    {config[c].session_id : c \in {d \in Conns : cl[d] = "ok" /\ first[d].peer = p}}

ClientIdle(p) == \A c \in Conns : first[c] # NoRequest /\ first[c].peer = p => cl[c] \notin Waiting

\* The client connects and sends ClientHello, or RekeyRequest for a session of
\* its own. It has been given the verifying key the server published.
Connect(c, p) ==
    /\ up /\ cl[c] = "unused" /\ ClientIdle(p)
    /\ pin' = IF pin[p] = NoKey THEN [pin EXCEPT ![p] = published] ELSE pin
    /\ \E r \in Request :
         /\ r.peer = p
         /\ IF r.kind = "hello" THEN r.sid = c ELSE r.sid \in Sessions(p)
         /\ first' = [first EXCEPT ![c] = r]
         /\ Send(c2s, c, Message(IF r.kind = "hello" THEN "ClientHello" ELSE "RekeyRequest"))
    /\ cl' = [cl EXCEPT ![c] = "hello_sent"]
    /\ UNCHANGED <<vars, idVars, s2c, why, held, config, tunnel, psk_of>>

\* Nobody listens: TcpStream::connect fails.
ConnectFails(c, p) ==
    /\ ~up /\ cl[c] = "unused" /\ ClientIdle(p)
    /\ cl' = [cl EXCEPT ![c] = "failed"]
    /\ why' = [why EXCEPT ![c] = "Io"]
    /\ UNCHANGED <<vars, idVars, netVars, first, held, config, pin, tunnel, psk_of>>

\* connect returns an error, and drops the connection.
Return(c, error) ==
    /\ cl' = [cl EXCEPT ![c] = "failed"]
    /\ why' = [why EXCEPT ![c] = error]
    /\ held' = [held EXCEPT ![c] = Empty]
    /\ Send(s2c, c, Empty)
    /\ UNCHANGED <<vars, idVars, c2s, first, config, pin, tunnel, psk_of>>

\* Bug: no read timeout; connect returns when the server closes.
BugClientTimeout(c) ==
    cl[c] \in Waiting /\ s2c[c] = Empty /\ pc[c] = "ended" /\ Return(c, "Io")

\* A read that fails: nothing arrives within the timeout, or the connection
\* breaks with whatever was on its way.
ClientTimeout(c) == cl[c] \in Waiting /\ s2c[c] = Empty /\ Return(c, "Io")
ClientBroken(c) == cl[c] \in Waiting /\ s2c[c] # Empty /\ Return(c, "Io")

\* A message other than the one connect waits for.
ClientRefused(c) ==
    /\ cl[c] \in Waiting /\ s2c[c] # Empty
    /\ s2c[c].type # IF cl[c] = "hello_sent" THEN "ServerHello" ELSE "ServerFinish"
    /\ Return(c, IF s2c[c].type = "Error" THEN s2c[c].code ELSE "UnexpectedMessage")

\* ServerHello: finish refuses it, or ClientFinish is sent.
Finished(c, f) ==
    /\ held' = [held EXCEPT ![c] = f]
    /\ Send(c2s, c, [type |-> "ClientFinish", session_id |-> f.session_id,
                     tag |-> client_tag(f.keys.confirm_key, f.transcript)])
    /\ Send(s2c, c, Empty)
    /\ cl' = [cl EXCEPT ![c] = "finish_sent"]
    /\ UNCHANGED <<vars, idVars, why, first, config, pin, tunnel, psk_of>>

ClientFinish(c) ==
    /\ cl[c] = "hello_sent" /\ s2c[c] # Empty /\ s2c[c].type = "ServerHello"
    /\ IF finish_error(c, s2c[c]) = "none"
       THEN Finished(c, finish(c, s2c[c]))
       ELSE Return(c, finish_error(c, s2c[c]))

\* ServerFinish: it is refused, or connect returns Ok and the client brings its
\* tunnel up, or swaps its PSK.
Connected(c, sf) ==
    /\ config' = [config EXCEPT ![c] = [session_id |-> held[c].session_id,
                                        assigned_ip |-> sf.assigned_ip,
                                        psk |-> held[c].keys.psk]]
    /\ tunnel' = [tunnel EXCEPT ![first[c].peer] = c]
    /\ held' = [held EXCEPT ![c] = Empty]
    /\ Send(s2c, c, Empty)
    /\ cl' = [cl EXCEPT ![c] = "ok"]
    /\ UNCHANGED <<vars, idVars, c2s, why, first, pin, psk_of>>

ClientOk(c) ==
    /\ cl[c] = "finish_sent" /\ s2c[c] # Empty /\ s2c[c].type = "ServerFinish"
    /\ IF server_finish_error(c, s2c[c]) = "none"
       THEN Connected(c, s2c[c])
       ELSE Return(c, server_finish_error(c, s2c[c]))

-----------------------------------------------------------------------------
(***************************************************************************)
(* The server's thread: the actions of HandshakeServer with the messages   *)
(* they read and write. What is written to a client that is gone is lost.  *)
(***************************************************************************)
Answer(c, msg) == Send(s2c, c, IF cl[c] \in Waiting THEN msg ELSE Empty)
Error(code) == [type |-> "Error", code |-> code]

ServerStep(c) ==
    /\ Send(c2s, c, Empty)
    /\ UNCHANGED <<idVars, clientVars>>

protocol_code(error) ==
    CASE error = "AlgoRejected" -> "ALGO_REJECTED" [] error = "UnknownSession" -> "UNKNOWN_SESSION"
      [] error = "AlgoMismatch" -> "ALGO_MISMATCH" [] error = "AuthFailed" -> "AUTH_FAILED"
      [] error = "Crypto" -> "INTERNAL"

registry_reject_code(result) ==
    CASE result = "AtCapacity" -> "CAPACITY"
      [] result \in {"UnknownPeer", "SessionMismatch"} -> "UNKNOWN_SESSION"
      [] result = "Downgrade" -> "ALGO_MISMATCH"
      [] result = "AddressPoolExhausted" -> "INTERNAL"

ServerHello(c) ==
    /\ c2s[c] # Empty
    /\ Accept(c)
    /\ Answer(c, outcome(c).server_hello)
    /\ ServerStep(c)
    /\ UNCHANGED psk_of

\* Message 1 does not arrive whole: Error(MALFORMED), if it can be sent.
ServerRejectsFirst(c) ==
    /\ c2s[c] # Empty
    /\ RejectFirst(c)
    /\ Answer(c, Error("MALFORMED"))
    /\ ServerStep(c)
    /\ UNCHANGED psk_of

\* ServerHello cannot be written, or nothing, or not all of message 3, arrives
\* within the timeout: the thread ends without a word.
ServerTimeout(c) ==
    /\ c2s[c] = Empty
    /\ RejectFinish(c)
    /\ ServerStep(c)
    /\ UNCHANGED <<s2c, psk_of>>

ServerBroken(c) ==
    /\ c2s[c] # Empty
    /\ RejectFinish(c)
    /\ ServerStep(c)
    /\ UNCHANGED <<s2c, psk_of>>

\* ClientFinish has the session and the tag the server expects.
Verified(c) ==
    /\ c2s[c].session_id = first[c].sid
    /\ verify_client_tag(outcome(c).keys.confirm_key, outcome(c).transcript, c2s[c].tag)

ServerUpdates(c) ==
    /\ c2s[c] # Empty /\ pc[c] = "awaitFinish" /\ Verified(c)
    /\ UpdateRegistry(c) /\ req'[c] = first[c]
    /\ ServerStep(c)
    /\ UNCHANGED <<s2c, psk_of>>

\* The tag or the session id is wrong, or the registry refuses.
ServerRefuses(c) ==
    /\ c2s[c] # Empty /\ pc[c] = "awaitFinish"
    /\ IF Verified(c)
       THEN /\ UpdateResult(first[c]) # "Ok"
            /\ RegistryRefuses(c)
            /\ Answer(c, Error(registry_reject_code(UpdateResult(first[c]))))
       ELSE /\ RejectFinish(c)
            /\ Answer(c, Error(protocol_code("AuthFailed")))
    /\ ServerStep(c)
    /\ UNCHANGED psk_of

ServerInstalls(c) ==
    /\ Install(c)
    /\ psk_of' = [psk_of EXCEPT ![req[c].peer] = outcome(c).keys.psk]
    /\ ServerStep(c)
    /\ UNCHANGED s2c

ServerInstallFails(c) ==
    /\ InstallFails(c)
    /\ Answer(c, Error("INTERNAL"))
    /\ ServerStep(c)
    /\ UNCHANGED psk_of

\* The session id in ServerFinish is the one in the PeerSlot: the claimed one
\* of a rekey, which the registry has compared, or the fresh one.
ServerFinishes(c) ==
    /\ Finish(c)
    /\ Answer(c, [type |-> "ServerFinish", session_id |-> req[c].sid,
                  assigned_ip |-> slot[c],
                  tag |-> server_tag(outcome(c).keys.confirm_key, outcome(c).transcript)])
    /\ ServerStep(c)
    /\ UNCHANGED psk_of

ServerFinishFails(c) ==
    /\ FinishFails(c)
    /\ ServerStep(c)
    /\ UNCHANGED <<s2c, psk_of>>

\* The listener is bound once the identity is ready and wg0 reconciled.
ServerStart ==
    /\ Ready /\ Start
    /\ UNCHANGED <<idVars, netVars, clientVars, psk_of>>

ServerBoot ==
    /\ ~up /\ Boot
    /\ UNCHANGED <<vars, netVars, clientVars, psk_of>>

\* The process dies before or after it listens; its connections are reset.
ServerDiesBooting ==
    /\ ~up /\ identity # NoKey /\ Forget
    /\ UNCHANGED <<vars, netVars, clientVars, psk_of>>

ServerCrash ==
    /\ Crash /\ Forget
    /\ c2s' = [c \in Conns |-> Empty]
    /\ UNCHANGED <<s2c, clientVars, psk_of>>

-----------------------------------------------------------------------------
\* What a client does with what it reads, and what it does when it waited in
\* vain; the same for a thread of the server.
ClientReads(c) ==
    ClientRefused(c) \/ ClientFinish(c) \/ ClientOk(c)

ServerReads(c) == ServerHello(c) \/ ServerUpdates(c) \/ ServerRefuses(c)

ServerActs(c) ==
    ServerInstalls(c) \/ ServerInstallFails(c) \/ ServerFinishes(c) \/ ServerFinishFails(c)

ProtocolNext ==
    \/ ServerBoot \/ ServerDiesBooting \/ ServerStart \/ ServerCrash
    \/ \E c \in Conns :
         \/ \E p \in Peers : Connect(c, p) \/ ConnectFails(c, p)
         \/ ClientReads(c) \/ ClientTimeout(c) \/ ClientBroken(c)
         \/ ServerReads(c) \/ ServerActs(c)
         \/ ServerRejectsFirst(c) \/ ServerTimeout(c) \/ ServerBroken(c)

ProtocolSpec == ProtocolInit /\ [][ProtocolNext]_protocolVars

\* Both sides are scheduled and both set read timeouts; the service is restarted.
ProtocolFairness ==
    /\ WF_protocolVars(ServerBoot) /\ WF_protocolVars(ServerStart)
    /\ \A c \in Conns :
         /\ WF_protocolVars(ClientReads(c)) /\ WF_protocolVars(ClientTimeout(c))
         /\ WF_protocolVars(ServerReads(c)) /\ WF_protocolVars(ServerActs(c))
         /\ WF_protocolVars(ServerTimeout(c))

FairProtocolSpec == ProtocolSpec /\ ProtocolFairness

-----------------------------------------------------------------------------
(***************************************************************************)
(* Properties.                                                             *)
(***************************************************************************)
Established(p) == tunnel[p] # NoConn

\* Without eviction and failing saves, a client whose connect returned Ok is
\* served: wg0 has it, at the address the client was given, which no other
\* client was given; and wg0 holds the very PSK the client derived, or that of
\* another attempt of this client that has not returned Ok. Such an attempt may
\* be a later one, or an earlier one that the client gave up and whose thread
\* installed last: the code does not exclude either. But wg0 never holds the
\* PSK of a handshake that the client completed before this one.
TunnelAgreement ==
    up => \A p \in Peers : Established(p) =>
        LET c == tunnel[p] IN
        /\ p \in DOMAIN wg /\ wg[p].ip = config[c].assigned_ip
        /\ \A q \in Peers : Established(q) /\ q # p
               => config[tunnel[q]].assigned_ip # config[c].assigned_ip
        /\ \/ psk_of[p] = config[c].psk
           \/ \E d \in Conns : /\ cl[d] # "ok" /\ first[d] # NoRequest /\ first[d].peer = p
                               /\ psk_of[p] = outcome(d).keys.psk

\* A client and a server of the two code bases, with the key the server
\* published, never refuse one another: every handshake that fails does so for
\* the network, a timeout, a full registry, a rekey of a stale session or to a
\* weaker algorithm, or wg, however often the server was restarted in between. No signature, algorithm, tag or
\* session id is ever found wrong and no message ever comes out of turn.
NoFalseAlarm ==
    \A c \in Conns : why[c] \in {"none", "Io", "MALFORMED", "UNKNOWN_SESSION",
                                 "ALGO_MISMATCH", "INTERNAL", "CAPACITY"}

\* The key a client was given stays the server's key: it is whole on disk, so
\* that every later start loads it.
PinsStayValid == \A p \in Peers : pin[p] # NoKey => seed = pin[p]

\* Nobody waits for ever: every connect returns and every thread ends, also
\* when the message one of them waits for was lost or its sender has died.
EveryoneReturns ==
    \A c \in Conns :
        /\ cl[c] \in Waiting ~> cl[c] \notin Waiting
        /\ pc[c] \in Running ~> pc[c] \notin Running

\* "if the pubkey is unknown or the session_id is stale -> Error(UNKNOWN_SESSION).
\* It then responds with ServerHello" (PROTOCOL.md 4.6): ServerHello answers a
\* RekeyRequest only for the peer's current session.
RekeyCheckedFirst ==
    [][\A c \in Conns :
        (pc[c] = "idle" /\ pc'[c] = "awaitFinish" /\ first[c].kind = "rekey")
            => rekey_result(registry, first[c].peer, first[c].sid, first[c].algo)
                   \notin {"UnknownPeer", "SessionMismatch"}]_protocolVars
=============================================================================
