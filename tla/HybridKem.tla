----------------------------- MODULE HybridKem -----------------------------
(***************************************************************************)
(* The cryptography of the handshake as ideal terms: the hybrid X25519 +   *)
(* ML-KEM exchange, the transcript, the server's signature, the session    *)
(* keys and the confirmation tags (core/src/crypto, and the kdf, tags and  *)
(* transcript modules of the two sides).                                   *)
(*                                                                         *)
(* A key pair is known by its public half, a fresh random value by a name  *)
(* the caller supplies ("rnd"), a hash or a MAC by the tuple it is taken   *)
(* over: two results are equal exactly when all their inputs are, in the   *)
(* same places (the fields of the transcript have fixed lengths once the   *)
(* algorithm is known, so its concatenation is a tuple). Private halves    *)
(* are used only by the side that holds them.                              *)
(***************************************************************************)

\* An X25519 key pair, an ML-KEM key pair of parameter set "algo".
x25519(rnd) == <<"x25519", rnd>>
mlkem(algo, rnd) == <<"mlkem", algo, rnd>>

\* The shared point of two X25519 keys: the same from either side.
diffie_hellman(a, b) == {a, b}

\* ML-KEM. Decapsulation under a key the ciphertext was not made for does not
\* fail: it yields a secret that nobody else has (implicit rejection).
encapsulate(ek, rnd) ==
    [ciphertext |-> [to |-> ek, rnd |-> rnd], secret |-> <<"kem", ek, rnd>>]

decapsulate(dk, ct) ==
    IF ct.to = dk THEN <<"kem", dk, ct.rnd>> ELSE <<"rejected", dk, ct>>

generate_client_keypairs(algo, rnd) ==
    [x25519 |-> x25519(rnd), mlkem |-> mlkem(algo, rnd)]

combine_shared_secrets(x25519_secret, mlkem_secret) ==
    <<"sha256", x25519_secret, mlkem_secret>>

server_encapsulate(client_x25519, client_mlkem, rnd) ==
    LET enc == encapsulate(client_mlkem, rnd)
    IN  [server_x25519 |-> x25519(rnd),
         ciphertext    |-> enc.ciphertext,
         hybrid_secret |-> combine_shared_secrets(
                               diffie_hellman(x25519(rnd), client_x25519),
                               enc.secret)]

client_decapsulate(keys, server_x25519, ct) ==
    combine_shared_secrets(diffie_hellman(keys.x25519, server_x25519),
                           decapsulate(keys.mlkem, ct))

\* The nonces and then the public keys of the two sides.
build_handshake_transcript(algo, nonce_c, nonce_s, x25519_c, mlkem_c, x25519_s, ct) ==
    <<algo, nonce_c, nonce_s, x25519_c, mlkem_c, x25519_s, ct>>

\* The server's entry to it: the same fields from the bytes of the wire.
TranscriptInputs_build(i) ==
    build_handshake_transcript(i.algo, i.client_nonce, i.server_nonce,
        i.client_x25519_pub, i.client_mlkem_pub, i.server_x25519_pub, i.mlkem_ciphertext)

derive_session_keys(hybrid_secret, client_nonce, server_nonce) ==
    [psk         |-> <<"psk", hybrid_secret, client_nonce, server_nonce>>,
     confirm_key |-> <<"confirm", hybrid_secret, client_nonce, server_nonce>>]

\* Bug: the server salts with the nonces in the other order.
BugDerive(hybrid_secret, client_nonce, server_nonce) ==
    derive_session_keys(hybrid_secret, server_nonce, client_nonce)

\* The server's entry to the same derivation.
derive(hybrid_secret, client_nonce, server_nonce) ==
    derive_session_keys(hybrid_secret, client_nonce, server_nonce)

tag(confirm_key, label, transcript) == <<"hmac", confirm_key, label, transcript>>
client_tag(confirm_key, transcript) == tag(confirm_key, "client finished", transcript)
server_tag(confirm_key, transcript) == tag(confirm_key, "server finished", transcript)

\* The check of a tag, on the server and on the client.
verify_client_tag(confirm_key, transcript, claimed) ==
    claimed = tag(confirm_key, "client finished", transcript)
verify_server_tag(confirm_key, transcript, claimed) ==
    claimed = tag(confirm_key, "server finished", transcript)

\* The identity's signature; its verifying key is known by the identity itself.
sign(identity, message) == [by |-> identity, over |-> message]
verify(verifying_key, message, sig) == sig.by = verifying_key /\ sig.over = message

\* Both sides in one place, without a network: the secret, or why there is none.
run_local_handshake_for(algo, authenticator, c, s) ==
    LET keys == generate_client_keypairs(algo, c)
        result == server_encapsulate(keys.x25519, keys.mlkem, s)
        transcript == build_handshake_transcript(algo, c, s, keys.x25519, keys.mlkem,
                          result.server_x25519, result.ciphertext)
        secret == client_decapsulate(keys, result.server_x25519, result.ciphertext)
    IN  IF ~verify(authenticator, transcript, sign(authenticator, transcript))
        THEN [err |-> "authentication failed"]
        ELSE IF secret # result.hybrid_secret THEN [err |-> "secrets do not match"]
        ELSE [ok |-> secret]
=============================================================================
