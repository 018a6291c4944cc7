---------------------------- MODULE MCWireStream ----------------------------
(* The wire format with fields of a few bytes, for TLC.                     *)
EXTENDS WireStream

MCPubLen == (0 :> 1) @@ (1 :> 2)
MCCiphertextLen == (0 :> 2) @@ (1 :> 1)

Fill(n, b) == [i \in 1..n |-> b]

Hello(a) ==
    [type |-> "ClientHello", algo |-> a, nonce |-> <<4>>, wg_pubkey |-> <<1, 2>>,
     x25519 |-> <<3, 5>>, mlkem |-> Fill(MCPubLen[a], 6)]

\* Every kind of message, both algorithms, and errors whose text is empty, at
\* the limit, one above it, and long enough for the payload length to wrap to
\* zero.
MCMessages ==
    {Hello(0), Hello(1), [type |-> "RekeyRequest", session_id |-> <<5>>, hello |-> Hello(1)]}
    \union {[type |-> "ServerHello", algo |-> a, session_id |-> <<2>>, nonce |-> <<3>>,
             x25519 |-> <<4, 5>>, ciphertext |-> Fill(MCCiphertextLen[a], 6),
             signature |-> <<1>>] : a \in {0, 1}}
    \union {[type |-> "ClientFinish", session_id |-> <<2>>, tag |-> <<3>>],
            [type |-> "ServerFinish", session_id |-> <<2>>, tag |-> <<3>>,
             wg_pubkey |-> <<4, 5>>, assigned_ip |-> <<6>>, wg_port |-> 19]}
    \union {[type |-> "Error", code |-> 5, message |-> Fill(n, 2)] :
               n \in {0, MAX_PAYLOAD - 3, MAX_PAYLOAD - 2, BASE * BASE - 3}}
=============================================================================
