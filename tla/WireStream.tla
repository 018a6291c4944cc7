----------------------------- MODULE WireStream -----------------------------
(***************************************************************************)
(* One direction of a handshake connection: one side writes frames into    *)
(* the TCP stream (Message::write), the other reads them one at a time     *)
(* (Message::read, two read_exact calls), in whatever pieces the bytes     *)
(* arrive. The connection can be cut after any byte, a read can time out,  *)
(* and one byte may not be what the writer of this code would have put     *)
(* there (a peer of another version, a faulty one).                        *)
(***************************************************************************)
EXTENDS WireFormat

CONSTANTS
    Messages,   \* the messages a side may write
    MaxSent     \* bound: messages written in one direction of a connection

ASSUME MessagesAssumption == Messages \subseteq Message /\ MaxSent \in Nat

VARIABLES
    sent,       \* messages written so far
    stream,     \* bytes on their way
    open,       \* the connection still takes bytes
    damaged,    \* a byte of the stream was changed
    buf,        \* bytes of the frame being read
    got,        \* messages read, each with the bytes it was read from
    err         \* what ended the reading, or "none"

wireVars == <<sent, stream, open, damaged, buf, got, err>>

WireInit ==
    /\ sent = <<>> /\ stream = <<>> /\ open = TRUE /\ damaged = FALSE
    /\ buf = <<>> /\ got = <<>> /\ err = "none"

\* Message::write: a message that is too long is an error and nothing is sent.
write(m) ==
    /\ open /\ Len(sent) < MaxSent
    /\ IF writable(m)
       THEN sent' = Append(sent, m) /\ stream' = stream \o frame(m)
       ELSE UNCHANGED <<sent, stream>>
    /\ UNCHANGED <<open, damaged, buf, got, err>>

\* The connection breaks, at any byte of what was on its way.
Cut ==
    /\ open
    /\ open' = FALSE
    /\ \E n \in 0..Len(stream) : stream' = SubSeq(stream, 1, n)
    /\ UNCHANGED <<sent, damaged, buf, got, err>>

\* One byte of one frame is another one (only one, and while that frame is
\* the first on its way).
Damage ==
    /\ ~damaged /\ buf = <<>> /\ Len(sent) = Len(got) + 1 /\ stream # <<>>
    /\ \E i \in DOMAIN stream, b \in 0..(BASE - 1) :
          b # stream[i] /\ stream' = [stream EXCEPT ![i] = b]
    /\ damaged' = TRUE
    /\ UNCHANGED <<sent, open, buf, got, err>>

\* The bytes read_exact still asks for: the header first, then the payload.
wanted ==
    IF Len(buf) < 4 THEN 4 - Len(buf)
    ELSE 4 + from_u16(<<buf[3], buf[4]>>) - Len(buf)

\* Message::read: some of the bytes asked for arrive; the header is judged
\* when it is complete.
read_exact ==
    /\ err = "none" /\ wanted > 0
    /\ \E n \in 1..Len(stream) :
          /\ n <= wanted
          /\ buf' = buf \o SubSeq(stream, 1, n)
          /\ stream' = SubSeq(stream, n + 1, Len(stream))
    /\ err' = IF Len(buf) < 4 /\ Len(buf') = 4 THEN header_error(buf') ELSE err
    /\ UNCHANGED <<sent, open, damaged, got>>

\* The payload is complete: decode_payload.
decode_payload ==
    /\ err = "none" /\ wanted = 0
    /\ LET type == from_u8(buf[2])
           r == decode_fields(type, SubSeq(buf, 5, Len(buf)))
       IN  IF r.err = "none"
           THEN /\ got' = Append(got, [msg |-> message_of(type, r.vals), bytes |-> buf])
                /\ UNCHANGED err
           ELSE err' = r.err /\ UNCHANGED got
    /\ buf' = <<>>
    /\ UNCHANGED <<sent, stream, open, damaged>>

\* No byte comes: the end of the stream or the read timeout.
ReadFails ==
    /\ err = "none" /\ wanted > 0 /\ stream = <<>>
    /\ err' = "Io"
    /\ UNCHANGED <<sent, stream, open, damaged, buf, got>>

WireNext ==
    \/ \E m \in Messages : write(m)
    \/ Cut
    \/ Damage
    \/ read_exact
    \/ decode_payload
    \/ ReadFails

WireSpec == WireInit /\ [][WireNext]_wireVars

-----------------------------------------------------------------------------
\* On a connection whose bytes are not changed, what is read is what was
\* written, message by message and in order, whatever pieces the bytes arrive
\* in and wherever the connection breaks: both sides' reader and writer, two
\* copies of the code, agree on every field and on where a frame ends, also
\* for a message at the size limit or one so long that its u16 length wraps;
\* and the reader reports nothing but a transport error (Message::write,
\* Message::read).
ReadIsWritten ==
    ~damaged =>
        /\ IsPrefix([i \in DOMAIN got |-> got[i].msg], sent)
        /\ err \in {"none", "Io"}

\* A message has one encoding: if the reader accepts a frame at all, writing
\* the message again gives the very bytes that were read, also when a byte was
\* changed on the way (decode_from, take_lv, expect_end). The text of an Error
\* is the exception: bytes that are not UTF-8 are replaced.
AcceptedIsCanonical ==
    \A i \in DOMAIN got :
        got[i].msg.type # "Error" => frame(got[i].msg) = got[i].bytes
=============================================================================
