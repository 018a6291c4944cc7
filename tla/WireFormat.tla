----------------------------- MODULE WireFormat -----------------------------
(***************************************************************************)
(* The wire format: frames VER | TYPE | LENGTH (u16) | PAYLOAD, fixed-size *)
(* fields raw, variable ones behind a u16 length. The code exists twice,   *)
(* in the core (the client's side) and in the server, written to be the    *)
(* same: a definition here stands for the copy of the side that runs it.   *)
(*                                                                         *)
(* A byte is a number below BASE and a u16 two of them; the sizes of the   *)
(* fields are constants, so that the bytes of a message can be enumerated. *)
(* Byte BASE - 1 stands for the bytes that are not valid UTF-8.            *)
(***************************************************************************)
EXTENDS Integers, Sequences, SequencesExt

CONSTANTS
    BASE,            \* 256
    PROTOCOL_VERSION,
    ERROR_TYPE,      \* 0xEE
    MAX_PAYLOAD,     \* 8192
    SID_LEN, NONCE_LEN, KEY_LEN, TAG_LEN, IP_LEN, SIGNATURE_LEN,
    mlkem_pub_len,   \* for each algorithm code, the length of its public key
    ciphertext_len   \* and of its ciphertext

ASSUME WidthAssumption ==
    /\ BASE \in Nat /\ BASE > 6
    /\ PROTOCOL_VERSION \in 0..(BASE - 1) /\ ERROR_TYPE \in 6..(BASE - 1)
    /\ MAX_PAYLOAD \in Nat /\ MAX_PAYLOAD < BASE * BASE

AlgoCodes == DOMAIN mlkem_pub_len

ASSUME SizesAssumption ==
    /\ {SID_LEN, NONCE_LEN, KEY_LEN, TAG_LEN, IP_LEN, SIGNATURE_LEN} \subseteq Nat
    /\ AlgoCodes \subseteq 0..(BASE - 1)
    /\ mlkem_pub_len \in [AlgoCodes -> Nat] /\ ciphertext_len \in [AlgoCodes -> Nat]

to_u8(type) ==
    CASE type = "ClientHello" -> 1 [] type = "ServerHello" -> 2
      [] type = "ClientFinish" -> 3 [] type = "ServerFinish" -> 4
      [] type = "RekeyRequest" -> 5 [] type = "Error" -> ERROR_TYPE

MsgTypes == {"ClientHello", "ServerHello", "ClientFinish", "ServerFinish",
             "RekeyRequest", "Error"}
KnownTypes == {to_u8(t) : t \in MsgTypes}
from_u8(b) == CHOOSE t \in MsgTypes : to_u8(t) = b

-----------------------------------------------------------------------------
(***************************************************************************)
(* The messages, with keys, ciphertexts and signatures as the libraries    *)
(* make them. The text of an Error is a String.                            *)
(***************************************************************************)
Byte == 0..(BASE - 1)
Bytes(n) == [1..n -> Byte]

ClientHello ==
    {m \in [type: {"ClientHello"}, algo: AlgoCodes, nonce: Bytes(NONCE_LEN),
            wg_pubkey: Bytes(KEY_LEN), x25519: Bytes(KEY_LEN), mlkem: Seq(Byte)] :
        Len(m.mlkem) = mlkem_pub_len[m.algo]}

ServerHello ==
    {m \in [type: {"ServerHello"}, algo: AlgoCodes, session_id: Bytes(SID_LEN),
            nonce: Bytes(NONCE_LEN), x25519: Bytes(KEY_LEN), ciphertext: Seq(Byte),
            signature: Bytes(SIGNATURE_LEN)] :
        Len(m.ciphertext) = ciphertext_len[m.algo]}

ClientFinish == [type: {"ClientFinish"}, session_id: Bytes(SID_LEN), tag: Bytes(TAG_LEN)]

ServerFinish ==
    [type: {"ServerFinish"}, session_id: Bytes(SID_LEN), tag: Bytes(TAG_LEN),
     wg_pubkey: Bytes(KEY_LEN), assigned_ip: Bytes(IP_LEN), wg_port: 0..(BASE * BASE - 1)]

RekeyRequest == [type: {"RekeyRequest"}, session_id: Bytes(SID_LEN), hello: ClientHello]

ErrorMsg == [type: {"Error"}, code: Byte, message: Seq(Byte \ {BASE - 1})]

Message ==
    ClientHello \union ServerHello \union ClientFinish \union ServerFinish
        \union RekeyRequest \union ErrorMsg

-----------------------------------------------------------------------------
(***************************************************************************)
(* Writer: the bytes of a number (its u16 truncates) and of a field with   *)
(* its length in front.                                                    *)
(***************************************************************************)
u16(n) == <<(n \div BASE) % BASE, n % BASE>>
from_u16(b) == b[1] * BASE + b[2]
lv(bytes) == u16(Len(bytes)) \o bytes

\* Bug: the two lengths are not written.
BugHello(m) == <<m.algo>> \o m.nonce \o m.wg_pubkey \o m.x25519 \o m.mlkem

\* ClientHello::encode_into, on the client.
ClientHello_encode_into(m) ==
    <<m.algo>> \o m.nonce \o m.wg_pubkey \o lv(m.x25519) \o lv(m.mlkem)

\* ServerHello::encode_into, on the server.
ServerHello_encode_into(m) ==
    <<m.algo>> \o m.session_id \o m.nonce \o lv(m.x25519) \o lv(m.ciphertext)
        \o lv(m.signature)

encode_payload(m) ==
    CASE m.type = "ClientHello" -> ClientHello_encode_into(m)
      [] m.type = "ServerHello" -> ServerHello_encode_into(m)
      [] m.type = "ClientFinish" -> m.session_id \o m.tag
      [] m.type = "ServerFinish" ->
             m.session_id \o m.tag \o m.wg_pubkey \o m.assigned_ip \o u16(m.wg_port)
      [] m.type = "RekeyRequest" -> m.session_id \o ClientHello_encode_into(m.hello)
      [] m.type = "Error" -> <<m.code>> \o lv(m.message)

\* Bug: an oversized message is sent all the same.
BugWritable(m) == TRUE

\* Message::write refuses a payload that is too long, else writes the frame.
writable(m) == Len(encode_payload(m)) <= MAX_PAYLOAD

frame(m) ==
    <<PROTOCOL_VERSION, to_u8(m.type)>> \o u16(Len(encode_payload(m))) \o encode_payload(m)

-----------------------------------------------------------------------------
(***************************************************************************)
(* Reader: what is left of the payload, the fields taken from it so far,   *)
(* and the first error, after which nothing more is taken.                 *)
(***************************************************************************)
Reader(bytes) == [rest |-> bytes, vals |-> <<>>, err |-> "none"]

Err(r, e) == [r EXCEPT !.err = e]

take(r, n, e) ==
    IF r.err # "none" THEN r
    ELSE IF Len(r.rest) < n THEN Err(r, e)
    ELSE [r EXCEPT !.vals = Append(@, SubSeq(r.rest, 1, n)),
                   !.rest = SubSeq(@, n + 1, Len(@))]

\* The field taken last, replaced by what it stands for.
Last_as(r, val) ==
    IF r.err # "none" THEN r ELSE [r EXCEPT !.vals = Append(Front(@), val)]

take_u8(r) == LET t == take(r, 1, "Truncated") IN Last_as(t, Last(t.vals)[1])
take_u16(r) == LET t == take(r, 2, "Truncated") IN Last_as(t, from_u16(Last(t.vals)))
take_arr(r, n) == take(r, n, "Invalid")

\* Bug: the length in front is believed.
BugTakeLv(r) ==
    LET t == take_u16(r)
        n == Last(t.vals)
        size == IF n <= Len(t.rest) THEN n ELSE Len(t.rest)
    IN  IF t.err # "none" THEN t
        ELSE take([t EXCEPT !.vals = Front(@)], size, "Truncated")

take_lv(r) ==
    LET t == take_u16(r)
        n == Last(t.vals)
    IN  IF t.err # "none" THEN t
        ELSE IF n > MAX_PAYLOAD THEN Err(t, "LengthOutOfRange")
        ELSE take([t EXCEPT !.vals = Front(@)], n, "Truncated")

\* A field of variable size that must have a certain one.
take_sized(r, n) ==
    LET t == take_lv(r)
    IN  IF t.err = "none" /\ Len(Last(t.vals)) # n THEN Err(t, "Invalid") ELSE t

algo_from_u8(r) ==
    IF r.err = "none" /\ Last(r.vals) \notin AlgoCodes THEN Err(r, "Invalid") ELSE r

expect_end(r) == IF r.err = "none" /\ r.rest # <<>> THEN Err(r, "Invalid") ELSE r

\* ClientHello::decode_from, on the server. "i" is the place of its first
\* field among those taken.
ClientHello_decode_from(r, i) ==
    LET a == algo_from_u8(take_u8(r))
        k == take_sized(take_arr(take_arr(a, NONCE_LEN), KEY_LEN), KEY_LEN)
    IN  IF k.err # "none" THEN k ELSE take_sized(k, mlkem_pub_len[k.vals[i]])

ClientHello_of(v, i) ==
    [type |-> "ClientHello", algo |-> v[i], nonce |-> v[i + 1], wg_pubkey |-> v[i + 2],
     x25519 |-> v[i + 3], mlkem |-> v[i + 4]]

\* ServerHello::decode_from, on the client.
ServerHello_decode_from(r) ==
    LET a == algo_from_u8(take_u8(r))
        x == take_sized(take_arr(take_arr(a, SID_LEN), NONCE_LEN), KEY_LEN)
    IN  IF x.err # "none" THEN x
        ELSE take_sized(take_sized(x, ciphertext_len[x.vals[1]]), SIGNATURE_LEN)

\* The fields of a payload.
decode_fields(type, bytes) ==
    LET r == Reader(bytes) IN
    expect_end(
      CASE type = "ClientHello" -> ClientHello_decode_from(r, 1)
        [] type = "ServerHello" -> ServerHello_decode_from(r)
        [] type = "ClientFinish" -> take_arr(take_arr(r, SID_LEN), TAG_LEN)
        [] type = "ServerFinish" ->
               take_u16(take_arr(take_arr(take_arr(take_arr(r, SID_LEN), TAG_LEN),
                                          KEY_LEN), IP_LEN))
        [] type = "RekeyRequest" -> ClientHello_decode_from(take_arr(r, SID_LEN), 2)
        [] type = "Error" -> take_lv(take_u8(r)))

\* String::from_utf8_lossy: text that is UTF-8 stays as it is; else each byte
\* that is not becomes U+FFFD, which is three bytes again.
from_utf8_lossy(bytes) ==
    IF \A i \in DOMAIN bytes : bytes[i] # BASE - 1 THEN bytes
    ELSE FlattenSeq([i \in DOMAIN bytes |->
                       IF bytes[i] = BASE - 1 THEN <<0, 0, 0>> ELSE <<bytes[i]>>])

\* The message made of them.
message_of(type, v) ==
    CASE type = "ClientHello" -> ClientHello_of(v, 1)
      [] type = "ServerHello" ->
             [type |-> type, algo |-> v[1], session_id |-> v[2], nonce |-> v[3],
              x25519 |-> v[4], ciphertext |-> v[5], signature |-> v[6]]
      [] type = "ClientFinish" -> [type |-> type, session_id |-> v[1], tag |-> v[2]]
      [] type = "ServerFinish" ->
             [type |-> type, session_id |-> v[1], tag |-> v[2], wg_pubkey |-> v[3],
              assigned_ip |-> v[4], wg_port |-> v[5]]
      [] type = "RekeyRequest" ->
             [type |-> type, session_id |-> v[1], hello |-> ClientHello_of(v, 2)]
      [] type = "Error" -> [type |-> type, code |-> v[1], message |-> from_utf8_lossy(v[2])]

\* Message::read on the four header bytes: an error, or "none".
header_error(h) ==
    IF h[1] # PROTOCOL_VERSION THEN "UnsupportedVersion"
    ELSE IF h[2] \notin KnownTypes THEN "UnknownMsgType"
    ELSE IF from_u16(<<h[3], h[4]>>) > MAX_PAYLOAD THEN "LengthOutOfRange"
    ELSE "none"
=============================================================================
