----------------------------- MODULE WireProofs -----------------------------
(***************************************************************************)
(* Proofs about the wire format and the byte stream, for any size of a     *)
(* byte, any sizes of the fields, any limit of the payload and any number  *)
(* of messages.                                                            *)
(***************************************************************************)
EXTENDS WireStream, SequenceTheorems, TLAPS

\* A product of numbers keeps an order.
LEMMA TimesMonotone ==
    ASSUME NEW a \in Nat, NEW b \in Nat, a < b  PROVE a * BASE + BASE <= b * BASE
<1>1. PICK d \in Nat : b = a + 1 + d
  <2>1. b - a - 1 \in Nat /\ b = a + 1 + (b - a - 1)
    OBVIOUS
  <2>. QED  BY <2>1
<1>2. b * BASE = a * BASE + BASE + d * BASE
  BY <1>1, WidthAssumption
<1>3. d * BASE \in Nat /\ a * BASE \in Nat
  BY WidthAssumption
<1>. QED  BY <1>2, <1>3, WidthAssumption

\* Quotient and rest by BASE are what they should be.
LEMMA DivMod ==
    ASSUME NEW n \in Nat
    PROVE  /\ n \div BASE \in Nat /\ n % BASE \in Byte
           /\ n = (n \div BASE) * BASE + (n % BASE)
BY WidthAssumption DEF Byte

\* And no other numbers are.
LEMMA DivModUnique ==
    ASSUME NEW q \in Nat, NEW r \in Byte
    PROVE  (q * BASE + r) \div BASE = q /\ (q * BASE + r) % BASE = r
<1>. DEFINE n == q * BASE + r
<1>1. n \in Nat /\ q * BASE \in Nat /\ r \in Nat /\ r < BASE /\ BASE \in Nat
  BY WidthAssumption DEF Byte
<1>2. PICK p \in Nat, s \in Byte : p = n \div BASE /\ s = n % BASE /\ n = p * BASE + s
  BY <1>1, DivMod
<1>3. s \in Nat /\ s < BASE /\ p * BASE \in Nat
  BY WidthAssumption DEF Byte
<1>4. ~(p < q)
  <2>. SUFFICES ASSUME p < q  PROVE FALSE
    OBVIOUS
  <2>1. p * BASE + BASE <= q * BASE
    BY TimesMonotone
  <2>. QED  BY <1>1, <1>2, <1>3, <2>1
<1>5. ~(q < p)
  <2>. SUFFICES ASSUME q < p  PROVE FALSE
    OBVIOUS
  <2>1. q * BASE + BASE <= p * BASE
    BY TimesMonotone
  <2>. QED  BY <1>1, <1>2, <1>3, <2>1
<1>6. p = q
  BY <1>4, <1>5
<1>7. s = r
  BY <1>1, <1>2, <1>3, <1>6
<1>. QED  BY <1>2, <1>6, <1>7

\* The two bytes of a u16, and what they stand for: every number below
\* BASE * BASE has one pair of bytes, and every pair is that of one number.
LEMMA U16 ==
    /\ \A n \in 0..(BASE * BASE - 1) :
          /\ u16(n) \in Seq(Byte) /\ Len(u16(n)) = 2
          /\ u16(n)[1] \in Byte /\ u16(n)[2] \in Byte /\ from_u16(u16(n)) = n
    /\ \A a, b \in Byte : /\ u16(from_u16(<<a, b>>)) = <<a, b>>
                          /\ from_u16(<<a, b>>) \in 0..(BASE * BASE - 1)
<1>1. ASSUME NEW n \in 0..(BASE * BASE - 1)
      PROVE  /\ u16(n) \in Seq(Byte) /\ Len(u16(n)) = 2
             /\ u16(n)[1] \in Byte /\ u16(n)[2] \in Byte /\ from_u16(u16(n)) = n
  <2>1. n \in Nat /\ BASE * BASE \in Nat
    BY WidthAssumption
  <2>2. PICK q \in Nat, r \in Byte : q = n \div BASE /\ r = n % BASE /\ n = q * BASE + r
    BY <2>1, DivMod
  <2>3. q < BASE
    <3>. SUFFICES ASSUME BASE <= q  PROVE FALSE
      BY WidthAssumption
    <3>1. BASE * BASE <= q * BASE
      <4>1. CASE BASE = q
        BY <2>1, <4>1
      <4>2. CASE BASE < q
        <5>1. BASE * BASE + BASE <= q * BASE
          BY <4>2, TimesMonotone, WidthAssumption
        <5>. QED  BY <2>1, <5>1, WidthAssumption
      <4>. QED  BY <4>1, <4>2, WidthAssumption
    <3>2. q * BASE \in Nat /\ r \in Nat /\ n < BASE * BASE
      BY <2>1, WidthAssumption DEF Byte
    <3>. QED  BY <2>1, <2>2, <3>1, <3>2
  <2>4. q % BASE = q /\ q \in Byte
    <3>1. (0 * BASE + q) % BASE = q /\ q \in Byte
      BY <2>3, DivModUnique, WidthAssumption DEF Byte
    <3>. QED  BY <3>1, WidthAssumption
  <2>5. u16(n) = <<q, r>>
    BY <2>2, <2>4 DEF u16
  <2>6. <<q, r>> \in Seq(Byte) /\ Len(<<q, r>>) = 2
    BY <2>4
  <2>7. from_u16(<<q, r>>) = n
    BY <2>2 DEF from_u16
  <2>. QED  BY <2>4, <2>5, <2>6, <2>7
<1>2. ASSUME NEW a \in Byte, NEW b \in Byte
      PROVE  /\ u16(from_u16(<<a, b>>)) = <<a, b>>
             /\ from_u16(<<a, b>>) \in 0..(BASE * BASE - 1)
  <2>1. a \in Nat /\ a < BASE /\ b \in Nat /\ b < BASE /\ a * BASE \in Nat /\ BASE * BASE \in Nat
    BY WidthAssumption DEF Byte
  <2>2. from_u16(<<a, b>>) = a * BASE + b
    BY DEF from_u16
  <2>3. (a * BASE + b) \div BASE = a /\ (a * BASE + b) % BASE = b
    BY <2>1, DivModUnique
  <2>4. a % BASE = a
    <3>1. (0 * BASE + a) % BASE = a
      BY DivModUnique
    <3>. QED  BY <2>1, <3>1, WidthAssumption
  <2>5. a * BASE + BASE <= BASE * BASE
    BY <2>1, TimesMonotone, WidthAssumption
  <2>6. a * BASE + b \in 0..(BASE * BASE - 1)
    BY <2>1, <2>5, WidthAssumption
  <2>. QED  BY <2>2, <2>3, <2>4, <2>6 DEF u16
<1>. QED  BY <1>1, <1>2

-----------------------------------------------------------------------------
(***************************************************************************)
(* The reader. Each of its operations takes a value off the front of the   *)
(* rest exactly when the rest begins with the bytes that the writer's      *)
(* operation puts there for that value, and then leaves what follows them. *)
(***************************************************************************)

\* A sequence falls into a front and what follows it.
LEMMA SplitSeq ==
    ASSUME NEW s \in Seq(Byte), NEW n \in 0..Len(s)
    PROVE  /\ SubSeq(s, 1, n) \in Seq(Byte) /\ SubSeq(s, n + 1, Len(s)) \in Seq(Byte)
           /\ Len(SubSeq(s, 1, n)) = n /\ Len(SubSeq(s, n + 1, Len(s))) = Len(s) - n
           /\ s = SubSeq(s, 1, n) \o SubSeq(s, n + 1, Len(s))
<1>1. Len(s) \in Nat /\ \A i \in 1..Len(s) : s[i] \in Byte
  BY LenProperties, ElementOfSeq
<1>2. SubSeq(s, 1, n) \in Seq(Byte) /\ Len(SubSeq(s, 1, n)) = n
  BY <1>1, SubSeqProperties
<1>3. SubSeq(s, n + 1, Len(s)) \in Seq(Byte) /\ Len(SubSeq(s, n + 1, Len(s))) = Len(s) - n
  BY <1>1, SubSeqProperties
<1>4. SubSeq(s, 1, n) \o SubSeq(s, n + 1, Len(s)) = SubSeq(s, 1, Len(s))
  <2>1. 1 \in 1..(Len(s) + 1) /\ n \in (1 - 1)..Len(s) /\ Len(s) \in n..Len(s)
    BY <1>1
  <2>. QED  BY <2>1, ConcatAdjacentSubSeq, Zenon
<1>. QED  BY <1>2, <1>3, <1>4, SubSeqFull

\* There is one way to cut off a front of a given length.
LEMMA SplitConcat ==
    ASSUME NEW v \in Seq(Byte), NEW y \in Seq(Byte)
    PROVE  /\ v \o y \in Seq(Byte) /\ Len(v \o y) = Len(v) + Len(y)
           /\ SubSeq(v \o y, 1, Len(v)) = v
           /\ SubSeq(v \o y, Len(v) + 1, Len(v \o y)) = y
<1>1. /\ v \o y \in Seq(Byte) /\ Len(v \o y) = Len(v) + Len(y) /\ Len(v) \in Nat /\ Len(y) \in Nat
      /\ \A i \in 1..(Len(v) + Len(y)) :
            (v \o y)[i] = IF i <= Len(v) THEN v[i] ELSE y[i - Len(v)]
  BY ConcatProperties, LenProperties
<1>2. \A i \in 1..Len(v \o y) : (v \o y)[i] \in Byte
  BY <1>1, ElementOfSeq
<1>. DEFINE a == SubSeq(v \o y, 1, Len(v))
            b == SubSeq(v \o y, Len(v) + 1, Len(v \o y))
<1>3. a \in Seq(Byte) /\ Len(a) = Len(v) /\ \A i \in 1..Len(v) : a[i] = (v \o y)[i]
  BY <1>1, <1>2, SubSeqProperties
<1>4. b \in Seq(Byte) /\ Len(b) = Len(y) /\ \A i \in 1..Len(y) : b[i] = (v \o y)[Len(v) + i]
  BY <1>1, <1>2, SubSeqProperties
<1>. HIDE DEF a, b
<1>5. a = v
  <2>1. \A i \in 1..Len(v) : a[i] = v[i]
    BY <1>1, <1>3
  <2>. QED  BY <1>3, <2>1, SeqEqual
<1>6. b = y
  <2>1. \A i \in 1..Len(y) : b[i] = y[i]
    BY <1>1, <1>4
  <2>. QED  BY <1>4, <2>1, SeqEqual
<1>. QED  BY <1>1, <1>5, <1>6 DEF a, b

Val == Nat \union Seq(Byte)
Errors == {"Truncated", "Invalid", "LengthOutOfRange"}
Readers == [rest: Seq(Byte), vals: Seq(Val), err: {"none"} \union Errors]

\* The reader after it has taken v and left y.
After(r, v, y) == [rest |-> y, vals |-> Append(r.vals, v), err |-> "none"]

\* After is a reader, and the value is its last.
LEMMA AfterFacts ==
    ASSUME NEW r \in Readers, NEW v \in Val, NEW y \in Seq(Byte)
    PROVE  /\ After(r, v, y) \in Readers
           /\ After(r, v, y).err = "none" /\ After(r, v, y).rest = y
           /\ After(r, v, y).vals = Append(r.vals, v)
           /\ Last(After(r, v, y).vals) = v /\ Front(After(r, v, y).vals) = r.vals
<1>1. /\ After(r, v, y).err = "none" /\ After(r, v, y).rest = y
      /\ After(r, v, y).vals = Append(r.vals, v) /\ r.vals \in Seq(Val)
  BY DEF After, Readers
<1>2. Append(r.vals, v) \in Seq(Val) /\ Len(Append(r.vals, v)) = Len(r.vals) + 1
      /\ Append(r.vals, v)[Len(r.vals) + 1] = v /\ Len(r.vals) \in Nat
      /\ \A i \in 1..Len(r.vals) : Append(r.vals, v)[i] = r.vals[i]
  BY <1>1, AppendProperties, LenProperties
<1>3. After(r, v, y) \in Readers
  <2>. HIDE DEF Val, Byte
  <2>. QED  BY <1>2, SMT DEF After, Readers
<1>4. Last(Append(r.vals, v)) = v
  BY <1>2 DEF Last
<1>5. Front(Append(r.vals, v)) = r.vals
  <2>1. Front(Append(r.vals, v)) = SubSeq(Append(r.vals, v), 1, Len(r.vals))
    BY <1>2 DEF Front
  <2>2. \A i \in 1..Len(r.vals) : Append(r.vals, v)[i] \in Val
    BY <1>1, <1>2, ElementOfSeq
  <2>3. PICK f : f = SubSeq(Append(r.vals, v), 1, Len(r.vals))
    OBVIOUS
  <2>4. /\ f \in Seq(Val) /\ Len(f) = Len(r.vals)
        /\ \A i \in 1..Len(r.vals) : f[i] = Append(r.vals, v)[i]
    BY <1>2, <2>2, <2>3, SubSeqProperties
  <2>5. \A i \in 1..Len(r.vals) : f[i] = r.vals[i]
    BY <1>2, <2>4
  <2>6. f = r.vals
    BY <1>1, <2>4, <2>5, SeqEqual
  <2>. QED  BY <2>1, <2>3, <2>6
<1>. QED  BY <1>1, <1>3, <1>4, <1>5

\* A reader with an error is one.
LEMMA ErrFacts ==
    ASSUME NEW r \in Readers, NEW e \in Errors
    PROVE  Err(r, e) \in Readers /\ Err(r, e).err # "none"
<1>1. Err(r, e) = [rest |-> r.rest, vals |-> r.vals, err |-> e]
  BY DEF Err, Readers
<1>2. r.rest \in Seq(Byte) /\ r.vals \in Seq(Val)
  BY DEF Readers
<1>3. [rest |-> r.rest, vals |-> r.vals, err |-> e] \in Readers
  BY <1>2 DEF Readers
<1>4. e # "none"
  BY DEF Errors
<1>. QED  BY <1>1, <1>3, <1>4

\* take.
LEMMA Take ==
    ASSUME NEW r \in Readers, NEW n \in Nat, NEW e \in Errors
    PROVE  /\ take(r, n, e) \in Readers
           /\ take(r, n, e).err = "none" =>
                 /\ r.err = "none"
                 /\ \E v, y \in Seq(Byte) :
                       Len(v) = n /\ r.rest = v \o y /\ take(r, n, e) = After(r, v, y)
           /\ \A v, y \in Seq(Byte) :
                 r.err = "none" /\ Len(v) = n /\ r.rest = v \o y => take(r, n, e) = After(r, v, y)
<1>0. r.rest \in Seq(Byte) /\ Len(r.rest) \in Nat
  BY LenProperties DEF Readers
<1>1. CASE r.err # "none"
  BY <1>1 DEF take
<1>2. CASE r.err = "none" /\ Len(r.rest) < n
  <2>1. take(r, n, e) = Err(r, e)
    BY <1>2 DEF take
  <2>2. ASSUME NEW v \in Seq(Byte), NEW y \in Seq(Byte), Len(v) = n, r.rest = v \o y  PROVE FALSE
    <3>1. Len(v \o y) = n + Len(y) /\ Len(y) \in Nat
      BY <2>2, SplitConcat, LenProperties
    <3>. QED  BY <1>2, <2>2, <3>1
  <2>. QED  BY <2>1, <2>2, ErrFacts
<1>3. CASE r.err = "none" /\ ~(Len(r.rest) < n)
  <2>. DEFINE a == SubSeq(r.rest, 1, n)
              b == SubSeq(r.rest, n + 1, Len(r.rest))
  <2>1. n \in 0..Len(r.rest)
    BY <1>0, <1>3
  <2>2. /\ a \in Seq(Byte) /\ b \in Seq(Byte) /\ Len(a) = n /\ r.rest = a \o b
    BY <1>0, <2>1, SplitSeq
  <2>3. take(r, n, e) = After(r, a, b)
    BY <1>3 DEF take, After, Readers
  <2>4. take(r, n, e) \in Readers
    <3>1. a \in Val
      BY <2>2 DEF Val
    <3>. HIDE DEF a, b, Val
    <3>. QED  BY <2>2, <2>3, <3>1, AfterFacts
  <2>5. ASSUME NEW v \in Seq(Byte), NEW y \in Seq(Byte), Len(v) = n, r.rest = v \o y
        PROVE  a = v /\ b = y
    BY <2>5, SplitConcat
  <2>. HIDE DEF a, b
  <2>. QED  BY <1>3, <2>2, <2>3, <2>4, <2>5
<1>. QED  BY <1>1, <1>2, <1>3

\* The same, read in one direction: what is there is taken.
LEMMA TakeFits ==
    ASSUME NEW r \in Readers, NEW n \in Nat, NEW e \in Errors, NEW v \in Seq(Byte),
           NEW y \in Seq(Byte), r.err = "none", Len(v) = n, r.rest = v \o y
    PROVE  take(r, n, e) = After(r, v, y)
BY Take

\* The value taken last, replaced.
LEMMA LastAs ==
    ASSUME NEW r \in Readers, NEW v \in Val, NEW y \in Seq(Byte), NEW w \in Val
    PROVE  Last_as(After(r, v, y), w) = After(r, w, y)
<1>. DEFINE t == After(r, v, y)
<1>1. t \in Readers /\ t.err = "none" /\ t.rest = y /\ Front(t.vals) = r.vals
  BY AfterFacts
<1>. HIDE DEF t
<1>2. Last_as(t, w) = [rest |-> t.rest, vals |-> Append(Front(t.vals), w), err |-> t.err]
  BY <1>1 DEF Last_as, Readers
<1>3. Last_as(t, w) = After(r, w, y)
  BY <1>1, <1>2 DEF After
<1>. QED  BY <1>3 DEF t

\* A sequence of one or two bytes.
LEMMA ShortSeqs ==
    /\ \A b \in Byte : <<b>> \in Seq(Byte) /\ Len(<<b>>) = 1 /\ <<b>>[1] = b
    /\ \A v \in Seq(Byte) : Len(v) = 1 => v[1] \in Byte /\ v = <<v[1]>>
    /\ \A v \in Seq(Byte) : Len(v) = 2 => v[1] \in Byte /\ v[2] \in Byte /\ v = <<v[1], v[2]>>
<1>1. \A b \in Byte : <<b>> \in Seq(Byte) /\ Len(<<b>>) = 1 /\ <<b>>[1] = b
  OBVIOUS
<1>2. ASSUME NEW v \in Seq(Byte), Len(v) = 1  PROVE v[1] \in Byte /\ v = <<v[1]>>
  <2>1. v[1] \in Byte
    BY <1>2, ElementOfSeq
  <2>2. <<v[1]>> \in Seq(Byte) /\ Len(<<v[1]>>) = 1 /\ <<v[1]>>[1] = v[1]
    BY <2>1
  <2>3. \A i \in 1..Len(v) : v[i] = <<v[1]>>[i]
    BY <1>2, <2>2
  <2>. QED  BY <1>2, <2>1, <2>2, <2>3, SeqEqual
<1>3. ASSUME NEW v \in Seq(Byte), Len(v) = 2
      PROVE  v[1] \in Byte /\ v[2] \in Byte /\ v = <<v[1], v[2]>>
  <2>1. v[1] \in Byte /\ v[2] \in Byte
    BY <1>3, ElementOfSeq
  <2>2. /\ <<v[1], v[2]>> \in Seq(Byte) /\ Len(<<v[1], v[2]>>) = 2
        /\ <<v[1], v[2]>>[1] = v[1] /\ <<v[1], v[2]>>[2] = v[2]
    BY <2>1
  <2>3. \A i \in 1..Len(v) : v[i] = <<v[1], v[2]>>[i]
    BY <1>3, <2>2
  <2>. QED  BY <1>3, <2>1, <2>2, <2>3, SeqEqual
<1>. QED  BY <1>1, <1>2, <1>3

\* A byte and a sequence of bytes are values of a field.
LEMMA Vals == Byte \subseteq Val /\ Seq(Byte) \subseteq Val /\ 0..(BASE * BASE - 1) \subseteq Val
<1>1. Byte \subseteq Nat /\ 0..(BASE * BASE - 1) \subseteq Nat
  BY WidthAssumption DEF Byte
<1>. QED  BY <1>1, Zenon DEF Val

\* take_u8.
LEMMA TakeU8 ==
    ASSUME NEW r \in Readers
    PROVE  /\ take_u8(r) \in Readers
           /\ take_u8(r).err = "none" =>
                 /\ r.err = "none"
                 /\ \E v \in Byte, y \in Seq(Byte) :
                       r.rest = <<v>> \o y /\ take_u8(r) = After(r, v, y)
           /\ \A v \in Byte, y \in Seq(Byte) :
                 r.err = "none" /\ r.rest = <<v>> \o y => take_u8(r) = After(r, v, y)
<1>. DEFINE t == take(r, 1, "Truncated")
<1>0. "Truncated" \in Errors
  BY DEF Errors
<1>1. /\ t \in Readers
      /\ t.err = "none" => /\ r.err = "none"
                           /\ \E v, y \in Seq(Byte) :
                                 Len(v) = 1 /\ r.rest = v \o y /\ t = After(r, v, y)
      /\ \A v, y \in Seq(Byte) :
            r.err = "none" /\ Len(v) = 1 /\ r.rest = v \o y => t = After(r, v, y)
  BY <1>0, Take
<1>2. take_u8(r) = Last_as(t, Last(t.vals)[1])
  BY DEF take_u8
<1>. HIDE DEF t
<1>3. ASSUME NEW v \in Byte, NEW y \in Seq(Byte), t = After(r, <<v>>, y)
      PROVE  take_u8(r) = After(r, v, y) /\ take_u8(r) \in Readers /\ take_u8(r).err = "none"
  <2>1. <<v>> \in Val /\ v \in Val /\ <<v>>[1] = v
    BY ShortSeqs, Vals, Zenon
  <2>2. Last(t.vals) = <<v>>
    BY <1>3, <2>1, AfterFacts
  <2>3. take_u8(r) = After(r, v, y)
    BY <1>2, <1>3, <2>1, <2>2, LastAs
  <2>. QED  BY <2>1, <2>3, AfterFacts
<1>4. CASE t.err = "none"
  <2>1. PICK v, y \in Seq(Byte) : Len(v) = 1 /\ r.rest = v \o y /\ t = After(r, v, y)
    BY <1>1, <1>4
  <2>2. v[1] \in Byte /\ v = <<v[1]>>
    BY <2>1, ShortSeqs
  <2>3. r.err = "none" /\ r.rest = <<v[1]>> \o y /\ t = After(r, <<v[1]>>, y)
    BY <1>1, <1>4, <2>1, <2>2
  <2>4. take_u8(r) = After(r, v[1], y) /\ take_u8(r) \in Readers
    BY <1>3, <2>2, <2>3
  <2>5. ASSUME NEW u \in Byte, NEW z \in Seq(Byte), r.rest = <<u>> \o z
        PROVE  take_u8(r) = After(r, u, z)
    <3>1. t = After(r, <<u>>, z)
      BY <1>1, <2>3, <2>5, ShortSeqs
    <3>. QED  BY <1>3, <3>1
  <2>. QED  BY <2>2, <2>3, <2>4, <2>5
<1>5. CASE t.err # "none"
  <2>1. take_u8(r) = t
    BY <1>2, <1>5 DEF Last_as
  <2>2. ASSUME NEW u \in Byte, NEW z \in Seq(Byte), r.err = "none", r.rest = <<u>> \o z
        PROVE  FALSE
    <3>1. t = After(r, <<u>>, z)
      BY <1>1, <2>2, ShortSeqs
    <3>. QED  BY <1>5, <3>1 DEF After
  <2>. QED  BY <1>1, <1>5, <2>1, <2>2
<1>. QED  BY <1>4, <1>5

\* take_u16.
LEMMA TakeU16 ==
    ASSUME NEW r \in Readers
    PROVE  /\ take_u16(r) \in Readers
           /\ take_u16(r).err = "none" =>
                 /\ r.err = "none"
                 /\ \E v \in 0..(BASE * BASE - 1), y \in Seq(Byte) :
                       r.rest = u16(v) \o y /\ take_u16(r) = After(r, v, y)
           /\ \A v \in 0..(BASE * BASE - 1), y \in Seq(Byte) :
                 r.err = "none" /\ r.rest = u16(v) \o y => take_u16(r) = After(r, v, y)
<1>. DEFINE t == take(r, 2, "Truncated")
            Short == 0..(BASE * BASE - 1)
<1>0. "Truncated" \in Errors
  BY DEF Errors
<1>1. /\ t \in Readers
      /\ t.err = "none" => /\ r.err = "none"
                           /\ \E v, y \in Seq(Byte) :
                                 Len(v) = 2 /\ r.rest = v \o y /\ t = After(r, v, y)
      /\ \A v, y \in Seq(Byte) :
            r.err = "none" /\ Len(v) = 2 /\ r.rest = v \o y => t = After(r, v, y)
  BY <1>0, Take
<1>2. take_u16(r) = Last_as(t, from_u16(Last(t.vals)))
  BY DEF take_u16
<1>2a. /\ \A n \in Short : u16(n) \in Seq(Byte) /\ Len(u16(n)) = 2 /\ from_u16(u16(n)) = n
       /\ \A a, b \in Byte : u16(from_u16(<<a, b>>)) = <<a, b>> /\ from_u16(<<a, b>>) \in Short
       /\ Short \subseteq Val
  BY U16, Vals
<1>. HIDE DEF t, Short
<1>3. ASSUME NEW v \in Short, NEW y \in Seq(Byte), t = After(r, u16(v), y)
      PROVE  take_u16(r) = After(r, v, y) /\ take_u16(r) \in Readers /\ take_u16(r).err = "none"
  <2>1. u16(v) \in Val /\ v \in Val /\ from_u16(u16(v)) = v
    BY <1>2a, Vals, Zenon
  <2>2. Last(t.vals) = u16(v)
    BY <1>3, <2>1, AfterFacts
  <2>3. take_u16(r) = After(r, v, y)
    BY <1>2, <1>3, <2>1, <2>2, LastAs
  <2>. QED  BY <2>1, <2>3, AfterFacts
<1>4. CASE t.err = "none"
  <2>1. PICK v, y \in Seq(Byte) : Len(v) = 2 /\ r.rest = v \o y /\ t = After(r, v, y)
    BY <1>1, <1>4
  <2>2. v[1] \in Byte /\ v[2] \in Byte /\ v = <<v[1], v[2]>>
    BY <2>1, ShortSeqs
  <2>3. PICK n \in Short : u16(n) = v
    BY <1>2a, <2>2
  <2>4. r.err = "none" /\ r.rest = u16(n) \o y /\ t = After(r, u16(n), y)
    BY <1>1, <1>4, <2>1, <2>3
  <2>5. take_u16(r) = After(r, n, y) /\ take_u16(r) \in Readers
    BY <1>3, <2>4
  <2>6. ASSUME NEW u \in Short, NEW z \in Seq(Byte), r.rest = u16(u) \o z
        PROVE  take_u16(r) = After(r, u, z)
    <3>1. t = After(r, u16(u), z)
      BY <1>1, <1>2a, <2>4, <2>6
    <3>. QED  BY <1>3, <3>1
  <2>. QED  BY <2>4, <2>5, <2>6 DEF Short
<1>5. CASE t.err # "none"
  <2>1. take_u16(r) = t
    BY <1>2, <1>5 DEF Last_as
  <2>2. ASSUME NEW u \in Short, NEW z \in Seq(Byte), r.err = "none", r.rest = u16(u) \o z
        PROVE  FALSE
    <3>1. t = After(r, u16(u), z)
      BY <1>1, <1>2a, <2>2
    <3>. QED  BY <1>5, <3>1 DEF After
  <2>. QED  BY <1>1, <1>5, <2>1, <2>2 DEF Short
<1>. QED  BY <1>4, <1>5

\* A field with its length in front, however long it is (the length of one
\* that is too long wraps).
LEMMA LvLen ==
    ASSUME NEW v \in Seq(Byte)
    PROVE  lv(v) \in Seq(Byte) /\ Len(lv(v)) = 2 + Len(v)
<1>1. PICK n \in Nat : n = Len(v)
  BY LenProperties
<1>2. n \div BASE \in Nat /\ n % BASE \in Byte
  BY DivMod
<1>3. (n \div BASE) % BASE \in Byte
  BY <1>2, DivMod
<1>4. PICK a \in Byte, b \in Byte : u16(n) = <<a, b>>
  BY <1>2, <1>3 DEF u16
<1>5. PICK u : u = u16(n) /\ u \in Seq(Byte) /\ Len(u) = 2
  <2>1. <<a, b>> \in Seq(Byte) /\ Len(<<a, b>>) = 2
    OBVIOUS
  <2>. QED  BY <1>4, <2>1
<1>6. u \o v \in Seq(Byte) /\ Len(u \o v) = Len(u) + Len(v)
  BY <1>5, ConcatProperties
<1>. QED  BY <1>1, <1>5, <1>6 DEF lv

\* And what follows it.
LEMMA LvConcat ==
    ASSUME NEW v \in Seq(Byte), NEW y \in Seq(Byte), Len(v) <= MAX_PAYLOAD
    PROVE  /\ Len(v) \in 0..(BASE * BASE - 1) /\ lv(v) \in Seq(Byte)
           /\ u16(Len(v)) \in Seq(Byte) /\ v \o y \in Seq(Byte)
           /\ lv(v) \o y = u16(Len(v)) \o (v \o y)
           /\ Len(lv(v)) = 2 + Len(v)
<1>1. Len(v) \in 0..(BASE * BASE - 1)
  <2>1. Len(v) \in Nat /\ BASE * BASE \in Nat
    BY LenProperties, WidthAssumption
  <2>. QED  BY <2>1, WidthAssumption
<1>2. u16(Len(v)) \in Seq(Byte) /\ Len(u16(Len(v))) = 2
  BY <1>1, U16
<1>3. lv(v) \in Seq(Byte) /\ v \o y \in Seq(Byte) /\ Len(lv(v)) = 2 + Len(v)
  <2>1. lv(v) = u16(Len(v)) \o v
    BY DEF lv
  <2>2. lv(v) \in Seq(Byte) /\ Len(lv(v)) = Len(u16(Len(v))) + Len(v)
    BY <1>2, <2>1, ConcatProperties
  <2>3. v \o y \in Seq(Byte)
    BY ConcatProperties
  <2>. QED  BY <1>2, <2>2, <2>3
<1>4. lv(v) \o y = u16(Len(v)) \o (v \o y)
  BY <1>2, ConcatAssociative DEF lv
<1>. QED  BY <1>1, <1>2, <1>3, <1>4

\* take_lv.
LEMMA TakeLv ==
    ASSUME NEW r \in Readers
    PROVE  /\ take_lv(r) \in Readers
           /\ take_lv(r).err = "none" =>
                 /\ r.err = "none"
                 /\ \E v, y \in Seq(Byte) : /\ Len(v) <= MAX_PAYLOAD /\ r.rest = lv(v) \o y
                                            /\ take_lv(r) = After(r, v, y)
           /\ \A v, y \in Seq(Byte) :
                 r.err = "none" /\ Len(v) <= MAX_PAYLOAD /\ r.rest = lv(v) \o y
                     => take_lv(r) = After(r, v, y)
<1>. DEFINE t == take_u16(r)
            Short == 0..(BASE * BASE - 1)
            Without(z) == [rest |-> z, vals |-> r.vals, err |-> "none"]
<1>1. /\ t \in Readers
      /\ t.err = "none" =>
            /\ r.err = "none"
            /\ \E v \in Short, y \in Seq(Byte) : r.rest = u16(v) \o y /\ t = After(r, v, y)
      /\ \A v \in Short, y \in Seq(Byte) :
            r.err = "none" /\ r.rest = u16(v) \o y => t = After(r, v, y)
  BY TakeU16
<1>2. take_lv(r) = IF t.err # "none" THEN t
                   ELSE IF Last(t.vals) > MAX_PAYLOAD THEN Err(t, "LengthOutOfRange")
                   ELSE take([t EXCEPT !.vals = Front(@)], Last(t.vals), "Truncated")
  BY DEF take_lv
<1>3. Short \subseteq Nat /\ Short \subseteq Val
  BY Vals, WidthAssumption
<1>4. "Truncated" \in Errors /\ "LengthOutOfRange" \in Errors
  BY DEF Errors
<1>5. r.vals \in Seq(Val)
  BY DEF Readers
<1>. HIDE DEF t, Short
<1>6. ASSUME NEW n \in Short, NEW z \in Seq(Byte), t = After(r, n, z)
      PROVE  /\ take_lv(r) = IF n > MAX_PAYLOAD THEN Err(t, "LengthOutOfRange")
                             ELSE take(Without(z), n, "Truncated")
             /\ Without(z) \in Readers
             /\ \A v, y \in Seq(Byte) : After(Without(z), v, y) = After(r, v, y)
  <2>1. n \in Val
    BY <1>3
  <2>2. t.err = "none" /\ t.rest = z /\ Last(t.vals) = n /\ Front(t.vals) = r.vals
    BY <1>6, <2>1, AfterFacts
  <2>3. [t EXCEPT !.vals = Front(@)] = [rest |-> t.rest, vals |-> Front(t.vals), err |-> t.err]
    <3>1. t \in Readers
      BY <1>1
    <3>2. /\ DOMAIN t = {"rest", "vals", "err"}
          /\ t = [f \in {"rest", "vals", "err"} |-> t[f]]
      BY <3>1 DEF Readers
    <3>. QED  BY <3>2
  <2>4. [t EXCEPT !.vals = Front(@)] = Without(z)
    BY <2>2, <2>3
  <2>5. Without(z) \in Readers
    BY <1>5 DEF Readers
  <2>6. \A v, y \in Seq(Byte) : After(Without(z), v, y) = After(r, v, y)
    BY DEF After
  <2>. QED  BY <1>2, <2>2, <2>4, <2>5, <2>6
<1>. HIDE DEF Without
<1>7. ASSUME NEW v \in Seq(Byte), NEW y \in Seq(Byte), r.err = "none", Len(v) <= MAX_PAYLOAD,
             r.rest = lv(v) \o y
      PROVE  take_lv(r) = After(r, v, y)
  <2>1. /\ Len(v) \in Short /\ r.rest = u16(Len(v)) \o (v \o y) /\ v \o y \in Seq(Byte)
    BY <1>7, LvConcat DEF Short
  <2>2. t = After(r, Len(v), v \o y)
    BY <1>1, <1>7, <2>1
  <2>3. /\ take_lv(r) = take(Without(v \o y), Len(v), "Truncated")
        /\ Without(v \o y) \in Readers /\ After(Without(v \o y), v, y) = After(r, v, y)
    <3>1. ~(Len(v) > MAX_PAYLOAD)
      BY <1>3, <1>7, <2>1, WidthAssumption
    <3>. QED  BY <1>6, <2>1, <2>2, <3>1
  <2>4. Without(v \o y).err = "none" /\ Without(v \o y).rest = v \o y
    BY DEF Without
  <2>5. take(Without(v \o y), Len(v), "Truncated") = After(Without(v \o y), v, y)
    <3>1. Len(v) \in Nat
      BY <1>3, <2>1
    <3>2. PICK w \in Readers : w = Without(v \o y)
      BY <2>3
    <3>3. take(w, Len(v), "Truncated") = After(w, v, y)
      <4>1. PICK n \in Nat : n = Len(v)
        BY <3>1
      <4>2. w.err = "none" /\ w.rest = v \o y
        BY <2>4, <3>2
      <4>3. take(w, n, "Truncated") = After(w, v, y)
        BY <1>4, <4>1, <4>2, TakeFits
      <4>. QED  BY <4>1, <4>3
    <3>. QED  BY <3>2, <3>3
  <2>. QED  BY <2>3, <2>5
<1>8. CASE t.err = "none"
  <2>1. PICK n \in Short, z \in Seq(Byte) : r.rest = u16(n) \o z /\ t = After(r, n, z)
    BY <1>1, <1>8
  <2>2. CASE n > MAX_PAYLOAD
    <3>1. take_lv(r) = Err(t, "LengthOutOfRange")
      BY <1>6, <2>1, <2>2
    <3>2. take_lv(r) \in Readers /\ take_lv(r).err # "none"
      BY <1>1, <1>4, <3>1, ErrFacts
    <3>. QED  BY <1>7, <3>2
  <2>3. CASE ~(n > MAX_PAYLOAD)
    <3>1. take_lv(r) = take(Without(z), n, "Truncated") /\ Without(z) \in Readers
      BY <1>6, <2>1, <2>3
    <3>2. take_lv(r) \in Readers
      BY <1>3, <1>4, <3>1, Take
    <3>3. ASSUME take_lv(r).err = "none"
          PROVE  \E v, y \in Seq(Byte) : /\ Len(v) <= MAX_PAYLOAD /\ r.rest = lv(v) \o y
                                         /\ take_lv(r) = After(r, v, y)
      <4>1. PICK v, y \in Seq(Byte) : /\ Len(v) = n /\ Without(z).rest = v \o y
                                      /\ take_lv(r) = After(Without(z), v, y)
        <5>1. n \in Nat
          BY <1>3
        <5>2. take(Without(z), n, "Truncated").err = "none"
          BY <3>1, <3>3
        <5>3. \E v, y \in Seq(Byte) : /\ Len(v) = n /\ Without(z).rest = v \o y
                                      /\ take(Without(z), n, "Truncated") = After(Without(z), v, y)
          BY <1>4, <3>1, <5>1, <5>2, Take
        <5>. QED  BY <3>1, <5>3
      <4>2. z = v \o y
        BY <4>1 DEF Without
      <4>3. Len(v) <= MAX_PAYLOAD
        BY <1>3, <2>3, <4>1, WidthAssumption
      <4>4. r.rest = lv(v) \o y
        BY <2>1, <4>1, <4>2, <4>3, LvConcat
      <4>5. take_lv(r) = After(r, v, y)
        BY <1>6, <2>1, <4>1
      <4>. QED  BY <4>3, <4>4, <4>5
    <3>. QED  BY <1>1, <1>7, <1>8, <3>2, <3>3
  <2>. QED  BY <2>2, <2>3
<1>9. CASE t.err # "none"
  <2>1. take_lv(r) = t
    BY <1>2, <1>9
  <2>. QED  BY <1>1, <1>7, <1>9, <2>1
<1>. QED  BY <1>8, <1>9

\* A field of variable size that must have a certain one.
LEMMA TakeSized ==
    ASSUME NEW r \in Readers, NEW n \in Nat
    PROVE  /\ take_sized(r, n) \in Readers
           /\ take_sized(r, n).err = "none" =>
                 /\ r.err = "none"
                 /\ \E v, y \in Seq(Byte) :
                       /\ Len(v) = n /\ Len(v) <= MAX_PAYLOAD /\ r.rest = lv(v) \o y
                       /\ take_sized(r, n) = After(r, v, y)
           /\ \A v, y \in Seq(Byte) :
                 r.err = "none" /\ Len(v) = n /\ Len(v) <= MAX_PAYLOAD /\ r.rest = lv(v) \o y
                     => take_sized(r, n) = After(r, v, y)
<1>. DEFINE t == take_lv(r)
<1>1. /\ t \in Readers
      /\ t.err = "none" =>
            /\ r.err = "none"
            /\ \E v, y \in Seq(Byte) : /\ Len(v) <= MAX_PAYLOAD /\ r.rest = lv(v) \o y
                                       /\ t = After(r, v, y)
      /\ \A v, y \in Seq(Byte) :
            r.err = "none" /\ Len(v) <= MAX_PAYLOAD /\ r.rest = lv(v) \o y => t = After(r, v, y)
  BY TakeLv
<1>2. take_sized(r, n) = IF t.err = "none" /\ Len(Last(t.vals)) # n THEN Err(t, "Invalid") ELSE t
  BY DEF take_sized
<1>3. "Invalid" \in Errors
  BY DEF Errors
<1>. HIDE DEF t
<1>4. \A v, y \in Seq(Byte) : t = After(r, v, y) => t.err = "none" /\ Last(t.vals) = v
  <2>. SUFFICES ASSUME NEW v \in Seq(Byte), NEW y \in Seq(Byte), t = After(r, v, y)
                PROVE  t.err = "none" /\ Last(t.vals) = v
    OBVIOUS
  <2>1. v \in Val
    BY Vals
  <2>. QED  BY <2>1, AfterFacts
<1>5. ASSUME NEW v \in Seq(Byte), NEW y \in Seq(Byte), r.err = "none", Len(v) = n,
             Len(v) <= MAX_PAYLOAD, r.rest = lv(v) \o y
      PROVE  take_sized(r, n) = After(r, v, y)
  BY <1>1, <1>2, <1>4, <1>5
<1>6. CASE t.err = "none" /\ Len(Last(t.vals)) # n
  <2>1. take_sized(r, n) \in Readers /\ take_sized(r, n).err # "none"
    BY <1>1, <1>2, <1>3, <1>6, ErrFacts
  <2>. QED  BY <1>5, <2>1
<1>7. CASE ~(t.err = "none" /\ Len(Last(t.vals)) # n)
  <2>1. take_sized(r, n) = t
    BY <1>2, <1>7
  <2>2. ASSUME t.err = "none"
        PROVE  /\ r.err = "none"
               /\ \E v, y \in Seq(Byte) :
                       /\ Len(v) = n /\ Len(v) <= MAX_PAYLOAD /\ r.rest = lv(v) \o y
                       /\ t = After(r, v, y)
    BY <1>1, <1>4, <1>7, <2>2
  <2>. QED  BY <1>1, <1>5, <2>1, <2>2
<1>. QED  BY <1>6, <1>7

\* take_arr.
LEMMA TakeArr ==
    ASSUME NEW r \in Readers, NEW n \in Nat
    PROVE  /\ take_arr(r, n) \in Readers
           /\ take_arr(r, n).err = "none" =>
                 /\ r.err = "none"
                 /\ \E v, y \in Seq(Byte) :
                       Len(v) = n /\ r.rest = v \o y /\ take_arr(r, n) = After(r, v, y)
           /\ \A v, y \in Seq(Byte) :
                 r.err = "none" /\ Len(v) = n /\ r.rest = v \o y => take_arr(r, n) = After(r, v, y)
<1>1. "Invalid" \in Errors
  BY DEF Errors
<1>. QED  BY <1>1, Take DEF take_arr

\* The code of an algorithm.
LEMMA TakeAlgo ==
    ASSUME NEW r \in Readers
    PROVE  /\ algo_from_u8(take_u8(r)) \in Readers
           /\ algo_from_u8(take_u8(r)).err = "none" =>
                 /\ r.err = "none"
                 /\ \E v \in AlgoCodes, y \in Seq(Byte) :
                       r.rest = <<v>> \o y /\ algo_from_u8(take_u8(r)) = After(r, v, y)
           /\ \A v \in AlgoCodes, y \in Seq(Byte) :
                 r.err = "none" /\ r.rest = <<v>> \o y
                     => algo_from_u8(take_u8(r)) = After(r, v, y)
<1>. DEFINE t == take_u8(r)
            a == algo_from_u8(t)
<1>1. /\ t \in Readers
      /\ t.err = "none" =>
            /\ r.err = "none"
            /\ \E v \in Byte, y \in Seq(Byte) : r.rest = <<v>> \o y /\ t = After(r, v, y)
      /\ \A v \in Byte, y \in Seq(Byte) :
            r.err = "none" /\ r.rest = <<v>> \o y => t = After(r, v, y)
  BY TakeU8
<1>2. a = IF t.err = "none" /\ Last(t.vals) \notin AlgoCodes THEN Err(t, "Invalid") ELSE t
  BY DEF algo_from_u8
<1>3. "Invalid" \in Errors /\ AlgoCodes \subseteq Byte
  BY SizesAssumption DEF Errors, Byte
<1>. HIDE DEF t, a
<1>4. \A v \in Byte, y \in Seq(Byte) : t = After(r, v, y) => t.err = "none" /\ Last(t.vals) = v
  <2>. SUFFICES ASSUME NEW v \in Byte, NEW y \in Seq(Byte), t = After(r, v, y)
                PROVE  t.err = "none" /\ Last(t.vals) = v
    OBVIOUS
  <2>1. v \in Val
    BY Vals
  <2>. QED  BY <2>1, AfterFacts
<1>5. ASSUME NEW v \in AlgoCodes, NEW y \in Seq(Byte), r.err = "none", r.rest = <<v>> \o y
      PROVE  a = After(r, v, y)
  BY <1>1, <1>2, <1>3, <1>4, <1>5
<1>6. CASE t.err = "none" /\ Last(t.vals) \notin AlgoCodes
  <2>1. a \in Readers /\ a.err # "none"
    BY <1>1, <1>2, <1>3, <1>6, ErrFacts
  <2>. QED  BY <1>5, <2>1 DEF a, t
<1>7. CASE ~(t.err = "none" /\ Last(t.vals) \notin AlgoCodes)
  <2>1. a = t
    BY <1>2, <1>7
  <2>2. ASSUME t.err = "none"
        PROVE  /\ r.err = "none"
               /\ \E v \in AlgoCodes, y \in Seq(Byte) : r.rest = <<v>> \o y /\ t = After(r, v, y)
    BY <1>1, <1>4, <1>7, <2>2
  <2>3. /\ a \in Readers
        /\ a.err = "none" => /\ r.err = "none"
                             /\ \E v \in AlgoCodes, y \in Seq(Byte) :
                                   r.rest = <<v>> \o y /\ a = After(r, v, y)
    BY <1>1, <2>1, <2>2
  <2>. QED  BY <1>5, <2>3 DEF a, t
<1>. QED  BY <1>6, <1>7

-----------------------------------------------------------------------------
(***************************************************************************)
(* The same operations, by what they do to the list of fields.             *)
(***************************************************************************)

\* One sequence after the other, as an operator of its own.
Cat(a, b) == a \o b

\* t is r with v taken, and y is left.
Took(r, t, v, y) ==
    /\ r.err = "none" /\ t \in Readers /\ t.err = "none" /\ t.rest = y
    /\ Len(t.vals) = Len(r.vals) + 1 /\ t.vals[Len(r.vals) + 1] = v
    /\ \A j \in 1..Len(r.vals) : t.vals[j] = r.vals[j]

\* After is that.
LEMMA AfterTook ==
    ASSUME NEW r \in Readers, NEW v \in Val, NEW y \in Seq(Byte), NEW t, r.err = "none",
           t = After(r, v, y)
    PROVE  Took(r, t, v, y)
<1>1. t \in Readers /\ t.err = "none" /\ t.rest = y /\ t.vals = Append(r.vals, v)
  BY AfterFacts
<1>2. r.vals \in Seq(Val)
  BY DEF Readers
<1>3. /\ Len(Append(r.vals, v)) = Len(r.vals) + 1 /\ Append(r.vals, v)[Len(r.vals) + 1] = v
      /\ \A j \in 1..Len(r.vals) : Append(r.vals, v)[j] = r.vals[j]
  BY <1>2, AppendProperties
<1>. QED  BY <1>1, <1>3 DEF Took

\* An array of n bytes that is taken was there.
LEMMA ArrGives ==
    ASSUME NEW r \in Readers, NEW n \in Nat, take_arr(r, n).err = "none"
    PROVE  \E v, y \in Seq(Byte) :
              Len(v) = n /\ r.rest = Cat(v, y) /\ Took(r, take_arr(r, n), v, y)
<1>1. r.err = "none"
  BY TakeArr
<1>2. PICK v, y \in Seq(Byte) : Len(v) = n /\ r.rest = Cat(v, y) /\ take_arr(r, n) = After(r, v, y)
  BY TakeArr DEF Cat
<1>3. v \in Val
  BY Vals
<1>4. Took(r, take_arr(r, n), v, y)
  BY <1>1, <1>2, <1>3, AfterTook
<1>. QED  BY <1>2, <1>4

\* An array of n bytes that is there is taken.
LEMMA ArrFits ==
    ASSUME NEW r \in Readers, NEW n \in Nat, NEW v \in Seq(Byte), NEW y \in Seq(Byte),
           r.err = "none", Len(v) = n, r.rest = Cat(v, y)
    PROVE  Took(r, take_arr(r, n), v, y)
<1>1. take_arr(r, n) = After(r, v, y)
  BY TakeArr DEF Cat
<1>2. v \in Val
  BY Vals
<1>. QED  BY <1>1, <1>2, AfterTook

\* A field of a certain size that is taken was there.
LEMMA SizedGives ==
    ASSUME NEW r \in Readers, NEW n \in Nat, take_sized(r, n).err = "none"
    PROVE  \E v, y \in Seq(Byte) : /\ Len(v) = n /\ Len(v) <= MAX_PAYLOAD /\ r.rest = Cat(lv(v), y)
                                   /\ Took(r, take_sized(r, n), v, y)
<1>1. r.err = "none"
  BY TakeSized
<1>2. PICK v, y \in Seq(Byte) : /\ Len(v) = n /\ Len(v) <= MAX_PAYLOAD /\ r.rest = Cat(lv(v), y)
                                /\ take_sized(r, n) = After(r, v, y)
  BY TakeSized DEF Cat
<1>3. v \in Val
  BY Vals
<1>4. Took(r, take_sized(r, n), v, y)
  BY <1>1, <1>2, <1>3, AfterTook
<1>. QED  BY <1>2, <1>4

\* A field of a certain size that is there is taken.
LEMMA SizedFits ==
    ASSUME NEW r \in Readers, NEW n \in Nat, NEW v \in Seq(Byte), NEW y \in Seq(Byte),
           r.err = "none", Len(v) = n, n <= MAX_PAYLOAD, r.rest = Cat(lv(v), y)
    PROVE  Took(r, take_sized(r, n), v, y)
<1>1. take_sized(r, n) = After(r, v, y)
  BY TakeSized DEF Cat
<1>2. v \in Val
  BY Vals
<1>. QED  BY <1>1, <1>2, AfterTook

\* A field behind its length that is taken was there.
LEMMA LvGives ==
    ASSUME NEW r \in Readers, take_lv(r).err = "none"
    PROVE  \E v, y \in Seq(Byte) : /\ Len(v) <= MAX_PAYLOAD /\ r.rest = Cat(lv(v), y)
                                   /\ Took(r, take_lv(r), v, y)
<1>1. r.err = "none"
  BY TakeLv
<1>2. PICK v, y \in Seq(Byte) : /\ Len(v) <= MAX_PAYLOAD /\ r.rest = Cat(lv(v), y)
                                /\ take_lv(r) = After(r, v, y)
  BY TakeLv DEF Cat
<1>3. v \in Val
  BY Vals
<1>4. Took(r, take_lv(r), v, y)
  BY <1>1, <1>2, <1>3, AfterTook
<1>. QED  BY <1>2, <1>4

\* A field behind its length that is there is taken.
LEMMA LvFits ==
    ASSUME NEW r \in Readers, NEW v \in Seq(Byte), NEW y \in Seq(Byte),
           r.err = "none", Len(v) <= MAX_PAYLOAD, r.rest = Cat(lv(v), y)
    PROVE  Took(r, take_lv(r), v, y)
<1>1. take_lv(r) = After(r, v, y)
  BY TakeLv DEF Cat
<1>2. v \in Val
  BY Vals
<1>. QED  BY <1>1, <1>2, AfterTook

\* A byte that is taken was there, and one that is there is taken.
LEMMA U8Gives ==
    ASSUME NEW r \in Readers, take_u8(r).err = "none"
    PROVE  \E v \in Byte, y \in Seq(Byte) : r.rest = Cat(<<v>>, y) /\ Took(r, take_u8(r), v, y)
<1>1. r.err = "none"
  BY TakeU8
<1>2. PICK v \in Byte, y \in Seq(Byte) : r.rest = Cat(<<v>>, y) /\ take_u8(r) = After(r, v, y)
  BY TakeU8 DEF Cat
<1>3. v \in Val
  BY Vals
<1>4. Took(r, take_u8(r), v, y)
  BY <1>1, <1>2, <1>3, AfterTook
<1>. QED  BY <1>2, <1>4

\* A byte that is there is taken.
LEMMA U8Fits ==
    ASSUME NEW r \in Readers, NEW v \in Byte, NEW y \in Seq(Byte),
           r.err = "none", r.rest = Cat(<<v>>, y)
    PROVE  Took(r, take_u8(r), v, y)
<1>1. take_u8(r) = After(r, v, y)
  BY TakeU8 DEF Cat
<1>2. v \in Val
  BY Vals
<1>. QED  BY <1>1, <1>2, AfterTook

\* A u16 that is taken was there.
LEMMA U16Gives ==
    ASSUME NEW r \in Readers, take_u16(r).err = "none"
    PROVE  \E v \in 0..(BASE * BASE - 1), y \in Seq(Byte) :
              r.rest = Cat(u16(v), y) /\ Took(r, take_u16(r), v, y)
<1>1. r.err = "none"
  BY TakeU16
<1>2. PICK v \in 0..(BASE * BASE - 1), y \in Seq(Byte) :
              r.rest = Cat(u16(v), y) /\ take_u16(r) = After(r, v, y)
  BY TakeU16 DEF Cat
<1>3. v \in Val
  BY Vals
<1>4. Took(r, take_u16(r), v, y)
  BY <1>1, <1>2, <1>3, AfterTook
<1>. QED  BY <1>2, <1>4

\* A u16 that is there is taken.
LEMMA U16Fits ==
    ASSUME NEW r \in Readers, NEW v \in 0..(BASE * BASE - 1), NEW y \in Seq(Byte),
           r.err = "none", r.rest = Cat(u16(v), y)
    PROVE  Took(r, take_u16(r), v, y)
<1>1. take_u16(r) = After(r, v, y)
  BY TakeU16 DEF Cat
<1>2. v \in Val
  BY Vals
<1>. QED  BY <1>1, <1>2, AfterTook

\* The code of an algorithm that is taken was there.
LEMMA AlgoGives ==
    ASSUME NEW r \in Readers, algo_from_u8(take_u8(r)).err = "none"
    PROVE  \E v \in AlgoCodes, y \in Seq(Byte) :
              r.rest = Cat(<<v>>, y) /\ Took(r, algo_from_u8(take_u8(r)), v, y)
<1>1. r.err = "none"
  BY TakeAlgo
<1>2. PICK v \in AlgoCodes, y \in Seq(Byte) :
              r.rest = Cat(<<v>>, y) /\ algo_from_u8(take_u8(r)) = After(r, v, y)
  BY TakeAlgo DEF Cat
<1>3. v \in Val
  BY Vals, SizesAssumption DEF Byte
<1>4. Took(r, algo_from_u8(take_u8(r)), v, y)
  BY <1>1, <1>2, <1>3, AfterTook
<1>. QED  BY <1>2, <1>4

\* The code of an algorithm that is there is taken.
LEMMA AlgoFits ==
    ASSUME NEW r \in Readers, NEW v \in AlgoCodes, NEW y \in Seq(Byte),
           r.err = "none", r.rest = Cat(<<v>>, y)
    PROVE  Took(r, algo_from_u8(take_u8(r)), v, y)
<1>1. algo_from_u8(take_u8(r)) = After(r, v, y)
  BY TakeAlgo DEF Cat
<1>2. v \in Val
  BY Vals, SizesAssumption DEF Byte
<1>. QED  BY <1>1, <1>2, AfterTook

-----------------------------------------------------------------------------
(***************************************************************************)
(* Payloads: the fields one after the other.                               *)
(***************************************************************************)

\* Two parts and what follows them.
LEMMA Join2 ==
    ASSUME NEW a \in Seq(Byte), NEW b \in Seq(Byte), NEW y \in Seq(Byte)
    PROVE  Cat(Cat(a, b), y) = Cat(a, Cat(b, y))
BY ConcatAssociative DEF Cat

\* Their length.
LEMMA Len2 ==
    ASSUME NEW a \in Seq(Byte), NEW b \in Seq(Byte)
    PROVE  /\ Cat(a, b) \in Seq(Byte) /\ Len(Cat(a, b)) = Len(a) + Len(b)
           /\ Len(a) \in Nat /\ Len(b) \in Nat
BY ConcatProperties, LenProperties DEF Cat

\* The sizes are numbers, and an array of n bytes is a sequence of them.
LEMMA Sizes ==
    /\ SID_LEN \in Nat /\ NONCE_LEN \in Nat /\ KEY_LEN \in Nat /\ TAG_LEN \in Nat
    /\ IP_LEN \in Nat /\ SIGNATURE_LEN \in Nat
    /\ AlgoCodes \subseteq Byte
    /\ \A c \in AlgoCodes : mlkem_pub_len[c] \in Nat /\ ciphertext_len[c] \in Nat
BY SizesAssumption DEF Byte

\* An array of n bytes is a sequence of them.
LEMMA BytesAreSeqs ==
    ASSUME NEW n \in Nat, NEW v \in Bytes(n)
    PROVE  v \in Seq(Byte) /\ Len(v) = n
BY DEF Bytes

-----------------------------------------------------------------------------
(***************************************************************************)
(* ClientHello.                                                            *)
(***************************************************************************)

\* The fields of a hello have their sizes.
HelloFits(h) ==
    /\ h.algo \in AlgoCodes
    /\ h.nonce \in Seq(Byte) /\ Len(h.nonce) = NONCE_LEN
    /\ h.wg_pubkey \in Seq(Byte) /\ Len(h.wg_pubkey) = KEY_LEN
    /\ h.x25519 \in Seq(Byte) /\ Len(h.x25519) = KEY_LEN
    /\ h.mlkem \in Seq(Byte) /\ Len(h.mlkem) = mlkem_pub_len[h.algo]

\* The bytes of a hello, and what follows them.
LEMMA HelloBytes ==
    ASSUME NEW h, HelloFits(h), NEW y \in Seq(Byte)
    PROVE  /\ ClientHello_encode_into(h) \in Seq(Byte)
           /\ Len(ClientHello_encode_into(h))
                = 1 + Len(h.nonce) + Len(h.wg_pubkey) + 2 + Len(h.x25519) + 2 + Len(h.mlkem)
           /\ Cat(ClientHello_encode_into(h), y)
                = Cat(<<h.algo>>, Cat(h.nonce, Cat(h.wg_pubkey,
                      Cat(lv(h.x25519), Cat(lv(h.mlkem), y)))))
<1>1. PICK a : a = <<h.algo>> /\ a \in Seq(Byte) /\ Len(a) = 1
  <2>1. h.algo \in Byte
    BY Sizes DEF HelloFits
  <2>. QED  BY <2>1, ShortSeqs
<1>1a. a \in Seq(Byte)
  BY <1>1
<1>2. PICK b : b = h.nonce /\ b \in Seq(Byte)
  BY DEF HelloFits
<1>3. PICK c : c = h.wg_pubkey /\ c \in Seq(Byte)
  BY DEF HelloFits
<1>4. PICK d : d = lv(h.x25519) /\ d \in Seq(Byte) /\ Len(d) = 2 + Len(h.x25519)
  <2>1. h.x25519 \in Seq(Byte)
    BY DEF HelloFits
  <2>. QED  BY <2>1, LvLen
<1>5. PICK e : e = lv(h.mlkem) /\ e \in Seq(Byte) /\ Len(e) = 2 + Len(h.mlkem)
  <2>1. h.mlkem \in Seq(Byte)
    BY DEF HelloFits
  <2>. QED  BY <2>1, LvLen
<1>6. PICK p2 : /\ p2 = Cat(a, b) /\ p2 \in Seq(Byte)
               /\ Len(p2) = Len(a) + Len(b)
  BY <1>1, <1>2, Len2
<1>7. PICK p3 : /\ p3 = Cat(p2, c) /\ p3 \in Seq(Byte)
               /\ Len(p3) = Len(p2) + Len(c)
  BY <1>6, <1>3, Len2
<1>8. PICK p4 : /\ p4 = Cat(p3, d) /\ p4 \in Seq(Byte)
               /\ Len(p4) = Len(p3) + Len(d)
  BY <1>7, <1>4, Len2
<1>9. PICK p5 : /\ p5 = Cat(p4, e) /\ p5 \in Seq(Byte)
               /\ Len(p5) = Len(p4) + Len(e)
  BY <1>8, <1>5, Len2
<1>10. PICK z5 : z5 = Cat(e, y) /\ z5 \in Seq(Byte)
  BY <1>5, Len2
<1>11. PICK z4 : z4 = Cat(d, z5) /\ z4 \in Seq(Byte)
  BY <1>4, <1>10, Len2
<1>12. PICK z3 : z3 = Cat(c, z4) /\ z3 \in Seq(Byte)
  BY <1>3, <1>11, Len2
<1>13. PICK z2 : z2 = Cat(b, z3) /\ z2 \in Seq(Byte)
  BY <1>2, <1>12, Len2
<1>14. Cat(p5, y) = Cat(p4, z5)
  BY <1>8, <1>5, <1>9, <1>10, Join2
<1>15. Cat(p4, z5) = Cat(p3, z4)
  BY <1>7, <1>4, <1>8, <1>10, <1>11, Join2
<1>16. Cat(p3, z4) = Cat(p2, z3)
  BY <1>6, <1>3, <1>7, <1>11, <1>12, Join2
<1>17. Cat(p2, z3) = Cat(a, z2)
  BY <1>1a, <1>2, <1>6, <1>12, <1>13, Join2
<1>18. Cat(p5, y) = Cat(a, Cat(b, Cat(c, Cat(d, Cat(e, y)))))
  BY <1>13, <1>12, <1>11, <1>10, <1>14, <1>15, <1>16, <1>17
<1>19. p5 = ClientHello_encode_into(h)
  BY <1>1, <1>2, <1>3, <1>4, <1>5, <1>6, <1>7, <1>8, <1>9 DEF Cat, ClientHello_encode_into
<1>20. Len(h.nonce) \in Nat /\ Len(h.wg_pubkey) \in Nat /\ Len(h.x25519) \in Nat /\ Len(h.mlkem) \in Nat
  BY LenProperties DEF HelloFits
<1>21. Len(p5) = 1 + Len(h.nonce) + Len(h.wg_pubkey) + 2 + Len(h.x25519) + 2 + Len(h.mlkem)
  <2>1. Len(a) = 1 /\ Len(b) = Len(h.nonce) /\ Len(c) = Len(h.wg_pubkey)
    BY <1>1, <1>2, <1>3
  <2>2. Len(p2) = 1 + Len(h.nonce) /\ Len(p3) = Len(p2) + Len(h.wg_pubkey)
    BY <1>6, <1>7, <2>1
  <2>3. Len(p4) = Len(p3) + (2 + Len(h.x25519)) /\ Len(p5) = Len(p4) + (2 + Len(h.mlkem))
    BY <1>4, <1>5, <1>8, <1>9
  <2>4. PICK i \in Nat, j \in Nat, k \in Nat, l \in Nat :
           i = Len(h.nonce) /\ j = Len(h.wg_pubkey) /\ k = Len(h.x25519) /\ l = Len(h.mlkem)
    BY <1>20
  <2>5. Len(p3) = 1 + i + j
    BY <2>2, <2>4
  <2>6. Len(p5) = 1 + i + j + (2 + k) + (2 + l)
    BY <2>3, <2>4, <2>5
  <2>7. Len(p5) = 1 + i + j + 2 + k + 2 + l
    BY <2>6
  <2>. QED  BY <2>4, <2>7
<1>. QED  BY <1>1, <1>2, <1>3, <1>4, <1>5, <1>9, <1>18, <1>19, <1>21

\* A hello that is accepted is the one whose bytes were there.
LEMMA ClientHelloGives ==
    ASSUME NEW r \in Readers, NEW i \in {1, 2}, Len(r.vals) = i - 1,
           NEW t, t = ClientHello_decode_from(r, i), t.err = "none"
    PROVE  /\ r.err = "none" /\ t \in Readers /\ HelloFits(ClientHello_of(t.vals, i))
           /\ \A j \in 1..(i - 1) : t.vals[j] = r.vals[j]
           /\ r.rest = Cat(ClientHello_encode_into(ClientHello_of(t.vals, i)), t.rest)
<1>1. PICK a \in Readers : a = algo_from_u8(take_u8(r))
  BY TakeAlgo
<1>2. PICK b \in Readers : b = take_arr(a, NONCE_LEN)
  BY TakeArr, Sizes
<1>3. PICK c \in Readers : c = take_arr(b, KEY_LEN)
  BY TakeArr, Sizes
<1>4. PICK k \in Readers : k = take_sized(c, KEY_LEN)
  BY TakeSized, Sizes
<1>5. t = IF k.err # "none" THEN k ELSE take_sized(k, mlkem_pub_len[k.vals[i]])
  BY <1>1, <1>2, <1>3, <1>4 DEF ClientHello_decode_from
<1>6. k.err = "none" /\ t = take_sized(k, mlkem_pub_len[k.vals[i]])
  BY <1>5
<1>7. PICK x, y4 : /\ x \in Seq(Byte) /\ y4 \in Seq(Byte) /\ Len(x) = KEY_LEN
                   /\ Len(x) <= MAX_PAYLOAD /\ c.rest = Cat(lv(x), y4) /\ Took(c, k, x, y4)
  BY <1>4, <1>6, SizedGives, Sizes
<1>8. c.err = "none"
  BY <1>7 DEF Took
<1>9. PICK w, y3 : /\ w \in Seq(Byte) /\ y3 \in Seq(Byte) /\ Len(w) = KEY_LEN
                   /\ b.rest = Cat(w, y3) /\ Took(b, c, w, y3)
  BY <1>3, <1>8, ArrGives, Sizes
<1>10. b.err = "none"
  BY <1>9 DEF Took
<1>11. PICK n, y2 : /\ n \in Seq(Byte) /\ y2 \in Seq(Byte) /\ Len(n) = NONCE_LEN
                    /\ a.rest = Cat(n, y2) /\ Took(a, b, n, y2)
  BY <1>2, <1>10, ArrGives, Sizes
<1>12. a.err = "none"
  BY <1>11 DEF Took
<1>13. PICK g, y1 : /\ g \in AlgoCodes /\ y1 \in Seq(Byte)
                    /\ r.rest = Cat(<<g>>, y1) /\ Took(r, a, g, y1)
  BY <1>1, <1>12, AlgoGives
<1>14. /\ Len(a.vals) = i /\ a.vals[i] = g /\ a.rest = y1 /\ r.err = "none"
       /\ \A j \in 1..(i - 1) : a.vals[j] = r.vals[j]
  <2>1. i - 1 \in Nat /\ (i - 1) + 1 = i
    OBVIOUS
  <2>. QED  BY <1>13, <2>1 DEF Took
<1>15. /\ Len(b.vals) = i + 1 /\ b.vals[i + 1] = n /\ b.rest = y2
       /\ \A j \in 1..i : b.vals[j] = a.vals[j]
  BY <1>11, <1>14 DEF Took
<1>16. /\ Len(c.vals) = i + 2 /\ c.vals[i + 2] = w /\ c.rest = y3
       /\ \A j \in 1..(i + 1) : c.vals[j] = b.vals[j]
  <2>1. i + 1 \in Nat /\ (i + 1) + 1 = i + 2
    OBVIOUS
  <2>. QED  BY <1>9, <1>15, <2>1 DEF Took
<1>17. /\ Len(k.vals) = i + 3 /\ k.vals[i + 3] = x /\ k.rest = y4
       /\ \A j \in 1..(i + 2) : k.vals[j] = c.vals[j]
  <2>1. i + 2 \in Nat /\ (i + 2) + 1 = i + 3
    OBVIOUS
  <2>. QED  BY <1>7, <1>16, <2>1 DEF Took
<1>18. k.vals[i] = g
  <2>1. i \in 1..i /\ i \in 1..(i + 1) /\ i \in 1..(i + 2)
    OBVIOUS
  <2>. QED  BY <1>14, <1>15, <1>16, <1>17, <2>1
<1>19. PICK m, y5 : /\ m \in Seq(Byte) /\ y5 \in Seq(Byte) /\ Len(m) = mlkem_pub_len[g]
                    /\ Len(m) <= MAX_PAYLOAD /\ k.rest = Cat(lv(m), y5) /\ Took(k, t, m, y5)
  <2>1. mlkem_pub_len[g] \in Nat /\ t = take_sized(k, mlkem_pub_len[g])
    BY <1>6, <1>13, <1>18, Sizes
  <2>. QED  BY <2>1, SizedGives
<1>20. /\ Len(t.vals) = i + 4 /\ t.vals[i + 4] = m /\ t.rest = y5 /\ t \in Readers
       /\ \A j \in 1..(i + 3) : t.vals[j] = k.vals[j]
  <2>1. i + 3 \in Nat /\ (i + 3) + 1 = i + 4
    OBVIOUS
  <2>. QED  BY <1>17, <1>19, <2>1 DEF Took
<1>21. t.vals[i] = g /\ t.vals[i + 1] = n /\ t.vals[i + 2] = w /\ t.vals[i + 3] = x
  <2>1. /\ i \in 1..(i + 3) /\ i + 1 \in 1..(i + 3) /\ i + 2 \in 1..(i + 3) /\ i + 3 \in 1..(i + 3)
        /\ i + 1 \in 1..(i + 2) /\ i + 2 \in 1..(i + 2) /\ i + 1 \in 1..(i + 1)
    OBVIOUS
  <2>. QED  BY <1>15, <1>16, <1>17, <1>18, <1>20, <2>1
<1>22. \A j \in 1..(i - 1) : t.vals[j] = r.vals[j]
  BY <1>14, <1>15, <1>16, <1>17, <1>20
<1>23. PICK h : h = ClientHello_of(t.vals, i)
  OBVIOUS
<1>24. /\ h.algo = g /\ h.nonce = n /\ h.wg_pubkey = w /\ h.x25519 = x /\ h.mlkem = m
  BY <1>20, <1>21, <1>23 DEF ClientHello_of
<1>25. HelloFits(h)
  BY <1>7, <1>9, <1>11, <1>13, <1>19, <1>24 DEF HelloFits
<1>26. r.rest = Cat(<<h.algo>>, Cat(h.nonce, Cat(h.wg_pubkey,
                     Cat(lv(h.x25519), Cat(lv(h.mlkem), y5)))))
  <2>1. y4 = Cat(lv(h.mlkem), y5)
    BY <1>17, <1>19, <1>24
  <2>2. y3 = Cat(lv(h.x25519), y4)
    BY <1>7, <1>16, <1>24
  <2>3. y2 = Cat(h.wg_pubkey, y3)
    BY <1>9, <1>15, <1>24
  <2>4. y1 = Cat(h.nonce, y2)
    BY <1>11, <1>14, <1>24
  <2>5. r.rest = Cat(<<h.algo>>, y1)
    BY <1>13, <1>24
  <2>. QED  BY <2>1, <2>2, <2>3, <2>4, <2>5
<1>27. r.rest = Cat(ClientHello_encode_into(h), y5)
  BY <1>19, <1>25, <1>26, HelloBytes
<1>. QED  BY <1>14, <1>20, <1>22, <1>23, <1>25, <1>27

\* The bytes of h are next, and y follows them; r has read i - 1 fields.
HelloAhead(r, i, h, y) ==
    /\ Len(r.vals) = i - 1 /\ r.err = "none" /\ y \in Seq(Byte)
    /\ HelloFits(h) /\ Len(ClientHello_encode_into(h)) <= MAX_PAYLOAD
    /\ r.rest = Cat(ClientHello_encode_into(h), y)

\* t has read h after the fields of r, and y is left.
HelloRead(t, r, i, h, y) ==
    /\ t \in Readers /\ t.err = "none" /\ t.rest = y
    /\ \A j \in 1..(i - 1) : t.vals[j] = r.vals[j]
    /\ t.vals[i] = h.algo /\ t.vals[i + 1] = h.nonce /\ t.vals[i + 2] = h.wg_pubkey
    /\ t.vals[i + 3] = h.x25519 /\ t.vals[i + 4] = h.mlkem

\* And the bytes of a hello that are there make that hello.
LEMMA ClientHelloFits ==
    ASSUME NEW r \in Readers, NEW i \in {1, 2}, NEW h, NEW y, HelloAhead(r, i, h, y)
    PROVE  HelloRead(ClientHello_decode_from(r, i), r, i, h, y)
<1>. DEFINE t == ClientHello_decode_from(r, i)
<1>0. /\ Len(r.vals) = i - 1 /\ r.err = "none" /\ y \in Seq(Byte)
      /\ HelloFits(h) /\ Len(ClientHello_encode_into(h)) <= MAX_PAYLOAD
      /\ r.rest = Cat(ClientHello_encode_into(h), y)
  BY DEF HelloAhead
<1>. HIDE DEF t
<1>1. PICK g, n, w, x, m :
         /\ g = h.algo /\ n = h.nonce /\ w = h.wg_pubkey /\ x = h.x25519 /\ m = h.mlkem
  OBVIOUS
<1>2. /\ g \in AlgoCodes /\ n \in Seq(Byte) /\ Len(n) = NONCE_LEN
      /\ w \in Seq(Byte) /\ Len(w) = KEY_LEN
      /\ x \in Seq(Byte) /\ Len(x) = KEY_LEN /\ Len(x) <= MAX_PAYLOAD
      /\ m \in Seq(Byte) /\ Len(m) = mlkem_pub_len[g] /\ Len(m) <= MAX_PAYLOAD
  <2>1. /\ g \in AlgoCodes /\ n \in Seq(Byte) /\ Len(n) = NONCE_LEN
        /\ w \in Seq(Byte) /\ Len(w) = KEY_LEN /\ x \in Seq(Byte) /\ Len(x) = KEY_LEN
        /\ m \in Seq(Byte) /\ Len(m) = mlkem_pub_len[g]
    BY <1>0, <1>1 DEF HelloFits
  <2>2. 1 + Len(n) + Len(w) + 2 + Len(x) + 2 + Len(m) <= MAX_PAYLOAD
    BY <1>0, <1>1, HelloBytes
  <2>3. Len(n) \in Nat /\ Len(w) \in Nat /\ Len(x) \in Nat /\ Len(m) \in Nat
    BY <2>1, LenProperties
  <2>4. Len(x) <= MAX_PAYLOAD /\ Len(m) <= MAX_PAYLOAD
    BY <2>2, <2>3, WidthAssumption
  <2>. QED  BY <2>1, <2>4
<1>3. /\ lv(x) \in Seq(Byte) /\ lv(m) \in Seq(Byte)
  BY <1>2, LvLen
<1>4. PICK y4 : y4 = Cat(lv(m), y) /\ y4 \in Seq(Byte)
  BY <1>0, <1>3, Len2
<1>5. PICK y3 : y3 = Cat(lv(x), y4) /\ y3 \in Seq(Byte)
  BY <1>3, <1>4, Len2
<1>6. PICK y2 : y2 = Cat(w, y3) /\ y2 \in Seq(Byte)
  BY <1>2, <1>5, Len2
<1>7. PICK y1 : y1 = Cat(n, y2) /\ y1 \in Seq(Byte)
  BY <1>2, <1>6, Len2
<1>8. r.rest = Cat(<<g>>, y1)
  <2>1. Cat(ClientHello_encode_into(h), y)
          = Cat(<<h.algo>>, Cat(h.nonce, Cat(h.wg_pubkey, Cat(lv(h.x25519), Cat(lv(h.mlkem), y)))))
    BY <1>0, HelloBytes
  <2>. QED  BY <1>0, <1>1, <1>4, <1>5, <1>6, <1>7, <2>1
<1>9. PICK a \in Readers : a = algo_from_u8(take_u8(r)) /\ Took(r, a, g, y1)
  <2>1. Took(r, algo_from_u8(take_u8(r)), g, y1)
    BY <1>0, <1>2, <1>7, <1>8, AlgoFits
  <2>. QED  BY <2>1, TakeAlgo
<1>10. /\ Len(a.vals) = i /\ a.vals[i] = g /\ a.rest = y1 /\ a.err = "none"
       /\ \A j \in 1..(i - 1) : a.vals[j] = r.vals[j]
  <2>1. i - 1 \in Nat /\ (i - 1) + 1 = i
    OBVIOUS
  <2>. QED  BY <1>0, <1>9, <2>1 DEF Took
<1>11. PICK b \in Readers : b = take_arr(a, NONCE_LEN) /\ Took(a, b, n, y2)
  <2>1. Took(a, take_arr(a, NONCE_LEN), n, y2)
    <3>1. a.err = "none" /\ a.rest = Cat(n, y2) /\ NONCE_LEN \in Nat
      BY <1>7, <1>10, Sizes
    <3>. QED  BY <1>2, <1>6, <3>1, ArrFits
  <2>. QED  BY <2>1, TakeArr, Sizes
<1>12. /\ Len(b.vals) = i + 1 /\ b.vals[i + 1] = n /\ b.rest = y2 /\ b.err = "none"
       /\ \A j \in 1..i : b.vals[j] = a.vals[j]
  BY <1>10, <1>11 DEF Took
<1>13. PICK c \in Readers : c = take_arr(b, KEY_LEN) /\ Took(b, c, w, y3)
  <2>1. Took(b, take_arr(b, KEY_LEN), w, y3)
    <3>1. b.err = "none" /\ b.rest = Cat(w, y3) /\ KEY_LEN \in Nat
      BY <1>6, <1>12, Sizes
    <3>. QED  BY <1>2, <1>5, <3>1, ArrFits
  <2>. QED  BY <2>1, TakeArr, Sizes
<1>14. /\ Len(c.vals) = i + 2 /\ c.vals[i + 2] = w /\ c.rest = y3 /\ c.err = "none"
       /\ \A j \in 1..(i + 1) : c.vals[j] = b.vals[j]
  <2>1. i + 1 \in Nat /\ (i + 1) + 1 = i + 2
    OBVIOUS
  <2>. QED  BY <1>12, <1>13, <2>1 DEF Took
<1>15. PICK k \in Readers : k = take_sized(c, KEY_LEN) /\ Took(c, k, x, y4)
  <2>1. Took(c, take_sized(c, KEY_LEN), x, y4)
    <3>1. c.err = "none" /\ c.rest = Cat(lv(x), y4) /\ KEY_LEN \in Nat /\ KEY_LEN <= MAX_PAYLOAD
      BY <1>2, <1>5, <1>14, Sizes
    <3>. QED  BY <1>2, <1>4, <3>1, SizedFits
  <2>. QED  BY <2>1, TakeSized, Sizes
<1>16. /\ Len(k.vals) = i + 3 /\ k.vals[i + 3] = x /\ k.rest = y4 /\ k.err = "none"
       /\ \A j \in 1..(i + 2) : k.vals[j] = c.vals[j]
  <2>1. i + 2 \in Nat /\ (i + 2) + 1 = i + 3
    OBVIOUS
  <2>. QED  BY <1>14, <1>15, <2>1 DEF Took
<1>17. k.vals[i] = g
  <2>1. i \in 1..i /\ i \in 1..(i + 1) /\ i \in 1..(i + 2)
    OBVIOUS
  <2>. QED  BY <1>10, <1>12, <1>14, <1>16, <2>1
<1>18. t = take_sized(k, mlkem_pub_len[g])
  BY <1>9, <1>11, <1>13, <1>15, <1>16, <1>17 DEF ClientHello_decode_from, t
<1>19. Took(k, t, m, y)
  <2>1. /\ mlkem_pub_len[g] \in Nat /\ mlkem_pub_len[g] <= MAX_PAYLOAD /\ k.err = "none"
        /\ k.rest = Cat(lv(m), y)
    BY <1>0, <1>2, <1>4, <1>16, Sizes
  <2>. QED  BY <1>0, <1>2, <1>18, <2>1, SizedFits
<1>20. /\ t.vals[i + 4] = m /\ t.rest = y /\ t \in Readers /\ t.err = "none"
       /\ \A j \in 1..(i + 3) : t.vals[j] = k.vals[j]
  <2>1. i + 3 \in Nat /\ (i + 3) + 1 = i + 4
    OBVIOUS
  <2>. QED  BY <1>16, <1>19, <2>1 DEF Took
<1>21. t.vals[i] = g /\ t.vals[i + 1] = n /\ t.vals[i + 2] = w /\ t.vals[i + 3] = x
  <2>1. /\ i \in 1..(i + 3) /\ i + 1 \in 1..(i + 3) /\ i + 2 \in 1..(i + 3) /\ i + 3 \in 1..(i + 3)
        /\ i + 1 \in 1..(i + 2) /\ i + 2 \in 1..(i + 2) /\ i + 1 \in 1..(i + 1)
    OBVIOUS
  <2>. QED  BY <1>12, <1>14, <1>16, <1>17, <1>20, <2>1
<1>22. \A j \in 1..(i - 1) : t.vals[j] = r.vals[j]
  BY <1>10, <1>12, <1>14, <1>16, <1>20
<1>. QED  BY <1>1, <1>20, <1>21, <1>22 DEF HelloRead, t

-----------------------------------------------------------------------------
(***************************************************************************)
(* The other messages.                                                     *)
(***************************************************************************)

\* r has taken nothing; the bytes of m are next, and y follows them.
Ahead(r, m, y) ==
    /\ Len(r.vals) = 0 /\ r.err = "none" /\ y \in Seq(Byte)
    /\ Len(encode_payload(m)) <= MAX_PAYLOAD /\ r.rest = Cat(encode_payload(m), y)

\* The fields of a ClientFinish have their sizes.
ClientFinishFits(m) ==
    /\ m.type = "ClientFinish"
    /\ m.session_id \in Seq(Byte) /\ Len(m.session_id) = SID_LEN
    /\ m.tag \in Seq(Byte) /\ Len(m.tag) = TAG_LEN

\* The bytes of a ClientFinish, and what follows them.
LEMMA ClientFinishBytes ==
    ASSUME NEW m, ClientFinishFits(m), NEW y \in Seq(Byte)
    PROVE  /\ encode_payload(m) \in Seq(Byte)
           /\ Len(encode_payload(m)) = Len(m.session_id) + Len(m.tag)
           /\ Cat(encode_payload(m), y)
                = Cat(m.session_id, Cat(m.tag, y))
<1>1. PICK a : a = m.session_id /\ a \in Seq(Byte)
  BY DEF ClientFinishFits
<1>2. a \in Seq(Byte)
  BY <1>1
<1>3. PICK b : b = m.tag /\ b \in Seq(Byte)
  BY DEF ClientFinishFits
<1>4. b \in Seq(Byte)
  BY <1>3
<1>5. PICK p2 : /\ p2 = Cat(a, b) /\ p2 \in Seq(Byte)
               /\ Len(p2) = Len(a) + Len(b)
  BY <1>2, <1>4, Len2
<1>6. PICK z2 : z2 = Cat(b, y) /\ z2 \in Seq(Byte)
  BY <1>4, Len2
<1>7. Cat(p2, y) = Cat(a, z2)
  BY <1>2, <1>4, <1>5, <1>6, Join2
<1>8. Cat(p2, y) = Cat(a, Cat(b, y))
  BY <1>6, <1>7
<1>9. p2 = encode_payload(m)
  <2>1. p2 = m.session_id \o m.tag
    BY <1>1, <1>2, <1>3, <1>4, <1>5 DEF Cat
  <2>. QED  BY <2>1 DEF encode_payload, ClientFinishFits
<1>10. Len(m.session_id) \in Nat /\ Len(m.tag) \in Nat
  BY LenProperties DEF ClientFinishFits
<1>11. Len(p2) = Len(m.session_id) + Len(m.tag)
  <2>1. PICK i \in Nat, j \in Nat :
           i = Len(m.session_id) /\ j = Len(m.tag)
    BY <1>10
  <2>2. Len(a) = i /\ Len(b) = j
    BY <1>1, <1>2, <1>3, <1>4, <2>1
  <2>3. Len(p2) = i + j
    BY <1>5, <2>1, <2>2
  <2>. QED  BY <2>1, <2>3
<1>. QED  BY <1>1, <1>2, <1>3, <1>4, <1>5, <1>8, <1>9, <1>11

\* A ClientFinish that is accepted is the one whose bytes were there.
LEMMA ClientFinishGives ==
    ASSUME NEW r \in Readers, Len(r.vals) = 0,
           NEW t, t = take_arr(take_arr(r, SID_LEN), TAG_LEN),
           t.err = "none",
           NEW m, m.type = "ClientFinish", m.session_id = t.vals[1], m.tag = t.vals[2]
    PROVE  /\ r.err = "none" /\ t \in Readers /\ ClientFinishFits(m)
           /\ r.rest = Cat(encode_payload(m), t.rest)
<1>1. PICK r1 \in Readers : r1 = take_arr(r, SID_LEN)
  BY TakeArr, Sizes
<1>2. t = take_arr(r1, TAG_LEN)
  BY <1>1
<1>3. PICK v2, y2 : /\ v2 \in Seq(Byte)
                   /\ Len(v2) = TAG_LEN
                   /\ y2 \in Seq(Byte)
                   /\ r1.rest = Cat(v2, y2)
                   /\ Took(r1, t, v2, y2)
  <2>1. take_arr(r1, TAG_LEN).err = "none" /\ TAG_LEN \in Nat
    BY <1>2, Sizes
  <2>. QED  BY <1>2, <2>1, ArrGives
<1>4. r1.err = "none"
  BY <1>3 DEF Took
<1>5. PICK v1, y1 : /\ v1 \in Seq(Byte)
                   /\ Len(v1) = SID_LEN
                   /\ y1 \in Seq(Byte)
                   /\ r.rest = Cat(v1, y1)
                   /\ Took(r, r1, v1, y1)
  BY <1>1, <1>4, ArrGives, Sizes
<1>6. /\ Len(r1.vals) = 1 /\ r1.vals[1] = v1 /\ r1.rest = y1
       /\ r1 \in Readers /\ r1.err = "none"
  BY <1>5 DEF Took
<1>7. /\ Len(t.vals) = 2 /\ t.vals[2] = v2 /\ t.rest = y2
       /\ t \in Readers /\ t.err = "none"
       /\ \A j \in 1..1 : t.vals[j] = r1.vals[j]
  BY <1>6, <1>3 DEF Took
<1>8. /\ m.session_id = v1
      /\ m.tag = v2
  BY <1>6, <1>7
<1>9. ClientFinishFits(m)
  BY <1>5, <1>3, <1>8 DEF ClientFinishFits
<1>10. r.rest = Cat(m.session_id, Cat(m.tag, y2))
  <2>1. y1 = Cat(m.tag, y2)
    BY <1>3, <1>6, <1>8
  <2>2. r.rest = Cat(m.session_id, y1)
    BY <1>5, <1>8
  <2>. QED  BY <2>1, <2>2
<1>11. r.rest = Cat(encode_payload(m), y2)
  BY <1>3, <1>9, <1>10, ClientFinishBytes
<1>12. r.err = "none"
  BY <1>5 DEF Took
<1>. QED  BY <1>7, <1>9, <1>11, <1>12

\* And the bytes of a ClientFinish that are there make that message.
LEMMA ClientFinishRead ==
    ASSUME NEW r \in Readers, NEW m, ClientFinishFits(m), NEW y, Ahead(r, m, y),
           NEW t, t = take_arr(take_arr(r, SID_LEN), TAG_LEN)
    PROVE  /\ t \in Readers /\ t.err = "none" /\ t.rest = y
           /\ t.vals[1] = m.session_id /\ t.vals[2] = m.tag
<1>0. /\ Len(r.vals) = 0 /\ r.err = "none" /\ y \in Seq(Byte)
      /\ Len(encode_payload(m)) <= MAX_PAYLOAD /\ r.rest = Cat(encode_payload(m), y)
  BY DEF Ahead
<1>. USE <1>0
<1>1. PICK v1, v2 : v1 = m.session_id /\ v2 = m.tag
  OBVIOUS
<1>2. /\ v1 \in Seq(Byte)
      /\ Len(v1) = SID_LEN
      /\ v2 \in Seq(Byte)
      /\ Len(v2) = TAG_LEN
  BY <1>1 DEF ClientFinishFits
<1>3. PICK y1 : y1 = Cat(v2, y) /\ y1 \in Seq(Byte)
  BY <1>2, Len2
<1>4. r.rest = Cat(v1, y1)
  <2>1. Cat(encode_payload(m), y)
          = Cat(m.session_id, Cat(m.tag, y))
    BY ClientFinishBytes
  <2>. QED  BY <1>1, <1>3, <2>1
<1>5. PICK r1 \in Readers : r1 = take_arr(r, SID_LEN) /\ Took(r, r1, v1, y1)
  <2>1. Took(r, take_arr(r, SID_LEN), v1, y1)
    <3>1. r.err = "none" /\ r.rest = Cat(v1, y1) /\ SID_LEN \in Nat
      BY <1>2, <1>4, Sizes
    <3>. QED  BY <1>2, <1>3, <3>1, ArrFits
  <2>. QED  BY <1>2, <2>1, TakeArr, Sizes
<1>6. /\ Len(r1.vals) = 1 /\ r1.vals[1] = v1 /\ r1.rest = y1
       /\ r1 \in Readers /\ r1.err = "none"
  BY <1>5 DEF Took
<1>7. t = take_arr(r1, TAG_LEN)
  BY <1>5
<1>8. Took(r1, t, v2, y)
  <2>1. Took(r1, take_arr(r1, TAG_LEN), v2, y)
    <3>1. r1.err = "none" /\ r1.rest = Cat(v2, y) /\ TAG_LEN \in Nat
      BY <1>2, <1>3, <1>6, Sizes
    <3>. QED  BY <1>2, <3>1, ArrFits
  <2>. QED  BY <1>7, <2>1
<1>9. /\ Len(t.vals) = 2 /\ t.vals[2] = v2 /\ t.rest = y
       /\ t \in Readers /\ t.err = "none"
       /\ \A j \in 1..1 : t.vals[j] = r1.vals[j]
  BY <1>6, <1>8 DEF Took
<1>10. /\ t.vals[1] = v1
      /\ t.vals[2] = v2
  BY <1>6, <1>9
<1>. QED  BY <1>1, <1>9, <1>10

\* The fields of a ServerFinish have their sizes.
ServerFinishFits(m) ==
    /\ m.type = "ServerFinish"
    /\ m.session_id \in Seq(Byte) /\ Len(m.session_id) = SID_LEN
    /\ m.tag \in Seq(Byte) /\ Len(m.tag) = TAG_LEN
    /\ m.wg_pubkey \in Seq(Byte) /\ Len(m.wg_pubkey) = KEY_LEN
    /\ m.assigned_ip \in Seq(Byte) /\ Len(m.assigned_ip) = IP_LEN
    /\ m.wg_port \in 0..(BASE * BASE - 1)

\* The bytes of a ServerFinish, and what follows them.
LEMMA ServerFinishBytes ==
    ASSUME NEW m, ServerFinishFits(m), NEW y \in Seq(Byte)
    PROVE  /\ encode_payload(m) \in Seq(Byte)
           /\ Len(encode_payload(m)) = Len(m.session_id) + Len(m.tag) + Len(m.wg_pubkey) + Len(m.assigned_ip) + 2
           /\ Cat(encode_payload(m), y)
                = Cat(m.session_id, Cat(m.tag, Cat(m.wg_pubkey, Cat(m.assigned_ip, Cat(u16(m.wg_port), y)))))
<1>1. PICK a : a = m.session_id /\ a \in Seq(Byte)
  BY DEF ServerFinishFits
<1>2. a \in Seq(Byte)
  BY <1>1
<1>3. PICK b : b = m.tag /\ b \in Seq(Byte)
  BY DEF ServerFinishFits
<1>4. b \in Seq(Byte)
  BY <1>3
<1>5. PICK c : c = m.wg_pubkey /\ c \in Seq(Byte)
  BY DEF ServerFinishFits
<1>6. c \in Seq(Byte)
  BY <1>5
<1>7. PICK d : d = m.assigned_ip /\ d \in Seq(Byte)
  BY DEF ServerFinishFits
<1>8. d \in Seq(Byte)
  BY <1>7
<1>9. PICK e : e = u16(m.wg_port) /\ e \in Seq(Byte) /\ Len(e) = 2
  <2>1. m.wg_port \in 0..(BASE * BASE - 1)
    BY Sizes DEF ServerFinishFits
  <2>. QED  BY <2>1, U16
<1>10. e \in Seq(Byte)
  BY <1>9
<1>11. PICK p2 : /\ p2 = Cat(a, b) /\ p2 \in Seq(Byte)
                /\ Len(p2) = Len(a) + Len(b)
  BY <1>2, <1>4, Len2
<1>12. PICK p3 : /\ p3 = Cat(p2, c) /\ p3 \in Seq(Byte)
                /\ Len(p3) = Len(p2) + Len(c)
  BY <1>11, <1>6, Len2
<1>13. PICK p4 : /\ p4 = Cat(p3, d) /\ p4 \in Seq(Byte)
                /\ Len(p4) = Len(p3) + Len(d)
  BY <1>12, <1>8, Len2
<1>14. PICK p5 : /\ p5 = Cat(p4, e) /\ p5 \in Seq(Byte)
                /\ Len(p5) = Len(p4) + Len(e)
  BY <1>13, <1>10, Len2
<1>15. PICK z5 : z5 = Cat(e, y) /\ z5 \in Seq(Byte)
  BY <1>10, Len2
<1>16. PICK z4 : z4 = Cat(d, z5) /\ z4 \in Seq(Byte)
  BY <1>8, <1>15, Len2
<1>17. PICK z3 : z3 = Cat(c, z4) /\ z3 \in Seq(Byte)
  BY <1>6, <1>16, Len2
<1>18. PICK z2 : z2 = Cat(b, z3) /\ z2 \in Seq(Byte)
  BY <1>4, <1>17, Len2
<1>19. Cat(p5, y) = Cat(p4, z5)
  BY <1>13, <1>10, <1>14, <1>15, Join2
<1>20. Cat(p4, z5) = Cat(p3, z4)
  BY <1>12, <1>8, <1>13, <1>15, <1>16, Join2
<1>21. Cat(p3, z4) = Cat(p2, z3)
  BY <1>11, <1>6, <1>12, <1>16, <1>17, Join2
<1>22. Cat(p2, z3) = Cat(a, z2)
  BY <1>2, <1>4, <1>11, <1>17, <1>18, Join2
<1>23. Cat(p5, y) = Cat(a, Cat(b, Cat(c, Cat(d, Cat(e, y)))))
  BY <1>18, <1>17, <1>16, <1>15, <1>19, <1>20, <1>21, <1>22
<1>24. p5 = encode_payload(m)
  <2>1. p5 = m.session_id \o m.tag \o m.wg_pubkey \o m.assigned_ip \o u16(m.wg_port)
    BY <1>1, <1>2, <1>3, <1>4, <1>5, <1>6, <1>7, <1>8, <1>9, <1>10, <1>11, <1>12, <1>13, <1>14 DEF Cat
  <2>. QED  BY <2>1 DEF encode_payload, ServerFinishFits
<1>25. Len(m.session_id) \in Nat /\ Len(m.tag) \in Nat /\ Len(m.wg_pubkey) \in Nat /\ Len(m.assigned_ip) \in Nat
  BY LenProperties DEF ServerFinishFits
<1>26. Len(p5) = Len(m.session_id) + Len(m.tag) + Len(m.wg_pubkey) + Len(m.assigned_ip) + 2
  <2>1. PICK i \in Nat, j \in Nat, k \in Nat, l \in Nat :
           i = Len(m.session_id) /\ j = Len(m.tag) /\ k = Len(m.wg_pubkey) /\ l = Len(m.assigned_ip)
    BY <1>25
  <2>2. Len(a) = i /\ Len(b) = j /\ Len(c) = k /\ Len(d) = l /\ Len(e) = 2
    BY <1>1, <1>2, <1>3, <1>4, <1>5, <1>6, <1>7, <1>8, <1>9, <1>10, <2>1
  <2>3. Len(p2) = i + j
    BY <1>11, <2>1, <2>2
  <2>4. Len(p3) = i + j + k
    BY <1>12, <2>1, <2>2, <2>3
  <2>5. Len(p4) = i + j + k + l
    BY <1>13, <2>1, <2>2, <2>4
  <2>6. Len(p5) = i + j + k + l + 2
    BY <1>14, <2>1, <2>2, <2>5
  <2>. QED  BY <2>1, <2>6
<1>. QED  BY <1>1, <1>2, <1>3, <1>4, <1>5, <1>6, <1>7, <1>8, <1>9, <1>10, <1>14, <1>23, <1>24, <1>26

\* A ServerFinish that is accepted is the one whose bytes were there.
LEMMA ServerFinishGives ==
    ASSUME NEW r \in Readers, Len(r.vals) = 0,
           NEW t, t = take_u16(take_arr(take_arr(take_arr(take_arr(r, SID_LEN), TAG_LEN), KEY_LEN), IP_LEN)),
           t.err = "none",
           NEW m, m.type = "ServerFinish", m.session_id = t.vals[1], m.tag = t.vals[2],
           m.wg_pubkey = t.vals[3], m.assigned_ip = t.vals[4], m.wg_port = t.vals[5]
    PROVE  /\ r.err = "none" /\ t \in Readers /\ ServerFinishFits(m)
           /\ r.rest = Cat(encode_payload(m), t.rest)
<1>1. PICK r1 \in Readers : r1 = take_arr(r, SID_LEN)
  BY TakeArr, Sizes
<1>2. PICK r2 \in Readers : r2 = take_arr(r1, TAG_LEN)
  BY TakeArr, Sizes
<1>3. PICK r3 \in Readers : r3 = take_arr(r2, KEY_LEN)
  BY TakeArr, Sizes
<1>4. PICK r4 \in Readers : r4 = take_arr(r3, IP_LEN)
  BY TakeArr, Sizes
<1>5. t = take_u16(r4)
  BY <1>1, <1>2, <1>3, <1>4
<1>6. PICK v5, y5 : /\ v5 \in 0..(BASE * BASE - 1)
                   /\ y5 \in Seq(Byte)
                   /\ r4.rest = Cat(u16(v5), y5)
                   /\ Took(r4, t, v5, y5)
  <2>1. take_u16(r4).err = "none"
    BY <1>5, Sizes
  <2>. QED  BY <1>5, <2>1, U16Gives
<1>7. r4.err = "none"
  BY <1>6 DEF Took
<1>8. PICK v4, y4 : /\ v4 \in Seq(Byte)
                   /\ Len(v4) = IP_LEN
                   /\ y4 \in Seq(Byte)
                   /\ r3.rest = Cat(v4, y4)
                   /\ Took(r3, r4, v4, y4)
  BY <1>4, <1>7, ArrGives, Sizes
<1>9. r3.err = "none"
  BY <1>8 DEF Took
<1>10. PICK v3, y3 : /\ v3 \in Seq(Byte)
                   /\ Len(v3) = KEY_LEN
                   /\ y3 \in Seq(Byte)
                   /\ r2.rest = Cat(v3, y3)
                   /\ Took(r2, r3, v3, y3)
  BY <1>3, <1>9, ArrGives, Sizes
<1>11. r2.err = "none"
  BY <1>10 DEF Took
<1>12. PICK v2, y2 : /\ v2 \in Seq(Byte)
                   /\ Len(v2) = TAG_LEN
                   /\ y2 \in Seq(Byte)
                   /\ r1.rest = Cat(v2, y2)
                   /\ Took(r1, r2, v2, y2)
  BY <1>2, <1>11, ArrGives, Sizes
<1>13. r1.err = "none"
  BY <1>12 DEF Took
<1>14. PICK v1, y1 : /\ v1 \in Seq(Byte)
                   /\ Len(v1) = SID_LEN
                   /\ y1 \in Seq(Byte)
                   /\ r.rest = Cat(v1, y1)
                   /\ Took(r, r1, v1, y1)
  BY <1>1, <1>13, ArrGives, Sizes
<1>15. /\ Len(r1.vals) = 1 /\ r1.vals[1] = v1 /\ r1.rest = y1
       /\ r1 \in Readers /\ r1.err = "none"
  BY <1>14 DEF Took
<1>16. /\ Len(r2.vals) = 2 /\ r2.vals[2] = v2 /\ r2.rest = y2
       /\ r2 \in Readers /\ r2.err = "none"
       /\ \A j \in 1..1 : r2.vals[j] = r1.vals[j]
  BY <1>15, <1>12 DEF Took
<1>17. /\ Len(r3.vals) = 3 /\ r3.vals[3] = v3 /\ r3.rest = y3
       /\ r3 \in Readers /\ r3.err = "none"
       /\ \A j \in 1..2 : r3.vals[j] = r2.vals[j]
  BY <1>16, <1>10 DEF Took
<1>18. /\ Len(r4.vals) = 4 /\ r4.vals[4] = v4 /\ r4.rest = y4
       /\ r4 \in Readers /\ r4.err = "none"
       /\ \A j \in 1..3 : r4.vals[j] = r3.vals[j]
  BY <1>17, <1>8 DEF Took
<1>19. /\ Len(t.vals) = 5 /\ t.vals[5] = v5 /\ t.rest = y5
       /\ t \in Readers /\ t.err = "none"
       /\ \A j \in 1..4 : t.vals[j] = r4.vals[j]
  BY <1>18, <1>6 DEF Took
<1>20. /\ m.session_id = v1
      /\ m.tag = v2
      /\ m.wg_pubkey = v3
      /\ m.assigned_ip = v4
      /\ m.wg_port = v5
  BY <1>15, <1>16, <1>17, <1>18, <1>19
<1>21. ServerFinishFits(m)
  BY <1>14, <1>12, <1>10, <1>8, <1>6, <1>20 DEF ServerFinishFits
<1>22. r.rest = Cat(m.session_id, Cat(m.tag, Cat(m.wg_pubkey, Cat(m.assigned_ip, Cat(u16(m.wg_port), y5)))))
  <2>1. y4 = Cat(u16(m.wg_port), y5)
    BY <1>6, <1>18, <1>20
  <2>2. y3 = Cat(m.assigned_ip, y4)
    BY <1>8, <1>17, <1>20
  <2>3. y2 = Cat(m.wg_pubkey, y3)
    BY <1>10, <1>16, <1>20
  <2>4. y1 = Cat(m.tag, y2)
    BY <1>12, <1>15, <1>20
  <2>5. r.rest = Cat(m.session_id, y1)
    BY <1>14, <1>20
  <2>. QED  BY <2>1, <2>2, <2>3, <2>4, <2>5
<1>23. r.rest = Cat(encode_payload(m), y5)
  BY <1>6, <1>21, <1>22, ServerFinishBytes
<1>24. r.err = "none"
  BY <1>14 DEF Took
<1>. QED  BY <1>19, <1>21, <1>23, <1>24

\* And the bytes of a ServerFinish that are there make that message.
LEMMA ServerFinishRead ==
    ASSUME NEW r \in Readers, NEW m, ServerFinishFits(m), NEW y, Ahead(r, m, y),
           NEW t, t = take_u16(take_arr(take_arr(take_arr(take_arr(r, SID_LEN), TAG_LEN), KEY_LEN), IP_LEN))
    PROVE  /\ t \in Readers /\ t.err = "none" /\ t.rest = y
           /\ t.vals[1] = m.session_id /\ t.vals[2] = m.tag /\ t.vals[3] = m.wg_pubkey /\
              t.vals[4] = m.assigned_ip /\ t.vals[5] = m.wg_port
<1>0. /\ Len(r.vals) = 0 /\ r.err = "none" /\ y \in Seq(Byte)
      /\ Len(encode_payload(m)) <= MAX_PAYLOAD /\ r.rest = Cat(encode_payload(m), y)
  BY DEF Ahead
<1>. USE <1>0
<1>1. PICK v1, v2, v3, v4, v5 : v1 = m.session_id /\ v2 = m.tag /\ v3 = m.wg_pubkey /\ v4 = m.assigned_ip /\ v5 = m.wg_port
  OBVIOUS
<1>2. /\ v1 \in Seq(Byte)
      /\ Len(v1) = SID_LEN
      /\ v2 \in Seq(Byte)
      /\ Len(v2) = TAG_LEN
      /\ v3 \in Seq(Byte)
      /\ Len(v3) = KEY_LEN
      /\ v4 \in Seq(Byte)
      /\ Len(v4) = IP_LEN
      /\ v5 \in 0..(BASE * BASE - 1)
  BY <1>1 DEF ServerFinishFits
<1>3. u16(v5) \in Seq(Byte)
  BY <1>2, LvLen, U16
<1>4. PICK y4 : y4 = Cat(u16(v5), y) /\ y4 \in Seq(Byte)
  BY <1>2, <1>3, Len2
<1>5. PICK y3 : y3 = Cat(v4, y4) /\ y3 \in Seq(Byte)
  BY <1>2, <1>3, <1>4, Len2
<1>6. PICK y2 : y2 = Cat(v3, y3) /\ y2 \in Seq(Byte)
  BY <1>2, <1>3, <1>5, Len2
<1>7. PICK y1 : y1 = Cat(v2, y2) /\ y1 \in Seq(Byte)
  BY <1>2, <1>3, <1>6, Len2
<1>8. r.rest = Cat(v1, y1)
  <2>1. Cat(encode_payload(m), y)
          = Cat(m.session_id, Cat(m.tag, Cat(m.wg_pubkey, Cat(m.assigned_ip, Cat(u16(m.wg_port), y)))))
    BY ServerFinishBytes
  <2>. QED  BY <1>1, <1>7, <1>6, <1>5, <1>4, <2>1
<1>9. PICK r1 \in Readers : r1 = take_arr(r, SID_LEN) /\ Took(r, r1, v1, y1)
  <2>1. Took(r, take_arr(r, SID_LEN), v1, y1)
    <3>1. r.err = "none" /\ r.rest = Cat(v1, y1) /\ SID_LEN \in Nat
      BY <1>2, <1>8, Sizes
    <3>. QED  BY <1>2, <1>7, <3>1, ArrFits
  <2>. QED  BY <1>2, <2>1, TakeArr, Sizes
<1>10. /\ Len(r1.vals) = 1 /\ r1.vals[1] = v1 /\ r1.rest = y1
       /\ r1 \in Readers /\ r1.err = "none"
  BY <1>9 DEF Took
<1>11. PICK r2 \in Readers : r2 = take_arr(r1, TAG_LEN) /\ Took(r1, r2, v2, y2)
  <2>1. Took(r1, take_arr(r1, TAG_LEN), v2, y2)
    <3>1. r1.err = "none" /\ r1.rest = Cat(v2, y2) /\ TAG_LEN \in Nat
      BY <1>2, <1>7, <1>10, Sizes
    <3>. QED  BY <1>2, <1>6, <3>1, ArrFits
  <2>. QED  BY <1>2, <2>1, TakeArr, Sizes
<1>12. /\ Len(r2.vals) = 2 /\ r2.vals[2] = v2 /\ r2.rest = y2
       /\ r2 \in Readers /\ r2.err = "none"
       /\ \A j \in 1..1 : r2.vals[j] = r1.vals[j]
  BY <1>10, <1>11 DEF Took
<1>13. PICK r3 \in Readers : r3 = take_arr(r2, KEY_LEN) /\ Took(r2, r3, v3, y3)
  <2>1. Took(r2, take_arr(r2, KEY_LEN), v3, y3)
    <3>1. r2.err = "none" /\ r2.rest = Cat(v3, y3) /\ KEY_LEN \in Nat
      BY <1>2, <1>6, <1>12, Sizes
    <3>. QED  BY <1>2, <1>5, <3>1, ArrFits
  <2>. QED  BY <1>2, <2>1, TakeArr, Sizes
<1>14. /\ Len(r3.vals) = 3 /\ r3.vals[3] = v3 /\ r3.rest = y3
       /\ r3 \in Readers /\ r3.err = "none"
       /\ \A j \in 1..2 : r3.vals[j] = r2.vals[j]
  BY <1>12, <1>13 DEF Took
<1>15. PICK r4 \in Readers : r4 = take_arr(r3, IP_LEN) /\ Took(r3, r4, v4, y4)
  <2>1. Took(r3, take_arr(r3, IP_LEN), v4, y4)
    <3>1. r3.err = "none" /\ r3.rest = Cat(v4, y4) /\ IP_LEN \in Nat
      BY <1>2, <1>5, <1>14, Sizes
    <3>. QED  BY <1>2, <1>4, <3>1, ArrFits
  <2>. QED  BY <1>2, <2>1, TakeArr, Sizes
<1>16. /\ Len(r4.vals) = 4 /\ r4.vals[4] = v4 /\ r4.rest = y4
       /\ r4 \in Readers /\ r4.err = "none"
       /\ \A j \in 1..3 : r4.vals[j] = r3.vals[j]
  BY <1>14, <1>15 DEF Took
<1>17. t = take_u16(r4)
  BY <1>9, <1>11, <1>13, <1>15
<1>18. Took(r4, t, v5, y)
  <2>1. Took(r4, take_u16(r4), v5, y)
    <3>1. r4.err = "none" /\ r4.rest = Cat(u16(v5), y)
      BY <1>2, <1>4, <1>16, Sizes
    <3>. QED  BY <1>2, <3>1, U16Fits
  <2>. QED  BY <1>17, <2>1
<1>19. /\ Len(t.vals) = 5 /\ t.vals[5] = v5 /\ t.rest = y
       /\ t \in Readers /\ t.err = "none"
       /\ \A j \in 1..4 : t.vals[j] = r4.vals[j]
  BY <1>16, <1>18 DEF Took
<1>20. /\ t.vals[1] = v1
      /\ t.vals[2] = v2
      /\ t.vals[3] = v3
      /\ t.vals[4] = v4
      /\ t.vals[5] = v5
  BY <1>10, <1>12, <1>14, <1>16, <1>19
<1>. QED  BY <1>1, <1>19, <1>20

\* The fields of a ServerHello have their sizes.
ServerHelloFits(m) ==
    /\ m.type = "ServerHello"
    /\ m.algo \in AlgoCodes
    /\ m.session_id \in Seq(Byte) /\ Len(m.session_id) = SID_LEN
    /\ m.nonce \in Seq(Byte) /\ Len(m.nonce) = NONCE_LEN
    /\ m.x25519 \in Seq(Byte) /\ Len(m.x25519) = KEY_LEN
    /\ m.ciphertext \in Seq(Byte) /\ Len(m.ciphertext) = ciphertext_len[m.algo]
    /\ m.signature \in Seq(Byte) /\ Len(m.signature) = SIGNATURE_LEN

\* The bytes of a ServerHello, and what follows them.
LEMMA ServerHelloBytes ==
    ASSUME NEW m, ServerHelloFits(m), NEW y \in Seq(Byte)
    PROVE  /\ encode_payload(m) \in Seq(Byte)
           /\ Len(encode_payload(m)) = 1 + Len(m.session_id) + Len(m.nonce) + (2 + Len(m.x25519)) + (2 + Len(m.ciphertext)) + (2 + Len(m.signature))
           /\ Cat(encode_payload(m), y)
                = Cat(<<m.algo>>, Cat(m.session_id, Cat(m.nonce, Cat(lv(m.x25519), Cat(lv(m.ciphertext), Cat(lv(m.signature), y))))))
<1>1. PICK a : a = <<m.algo>> /\ a \in Seq(Byte) /\ Len(a) = 1
  <2>1. m.algo \in Byte
    BY Sizes DEF ServerHelloFits
  <2>. QED  BY <2>1, ShortSeqs
<1>2. a \in Seq(Byte)
  BY <1>1
<1>3. PICK b : b = m.session_id /\ b \in Seq(Byte)
  BY DEF ServerHelloFits
<1>4. b \in Seq(Byte)
  BY <1>3
<1>5. PICK c : c = m.nonce /\ c \in Seq(Byte)
  BY DEF ServerHelloFits
<1>6. c \in Seq(Byte)
  BY <1>5
<1>7. PICK d : d = lv(m.x25519) /\ d \in Seq(Byte) /\ Len(d) = 2 + Len(m.x25519)
  <2>1. m.x25519 \in Seq(Byte)
    BY Sizes DEF ServerHelloFits
  <2>. QED  BY <2>1, LvLen
<1>8. d \in Seq(Byte)
  BY <1>7
<1>9. PICK e : e = lv(m.ciphertext) /\ e \in Seq(Byte) /\ Len(e) = 2 + Len(m.ciphertext)
  <2>1. m.ciphertext \in Seq(Byte)
    BY Sizes DEF ServerHelloFits
  <2>. QED  BY <2>1, LvLen
<1>10. e \in Seq(Byte)
  BY <1>9
<1>11. PICK f : f = lv(m.signature) /\ f \in Seq(Byte) /\ Len(f) = 2 + Len(m.signature)
  <2>1. m.signature \in Seq(Byte)
    BY Sizes DEF ServerHelloFits
  <2>. QED  BY <2>1, LvLen
<1>12. f \in Seq(Byte)
  BY <1>11
<1>13. PICK p2 : /\ p2 = Cat(a, b) /\ p2 \in Seq(Byte)
                /\ Len(p2) = Len(a) + Len(b)
  BY <1>2, <1>4, Len2
<1>14. PICK p3 : /\ p3 = Cat(p2, c) /\ p3 \in Seq(Byte)
                /\ Len(p3) = Len(p2) + Len(c)
  BY <1>13, <1>6, Len2
<1>15. PICK p4 : /\ p4 = Cat(p3, d) /\ p4 \in Seq(Byte)
                /\ Len(p4) = Len(p3) + Len(d)
  BY <1>14, <1>8, Len2
<1>16. PICK p5 : /\ p5 = Cat(p4, e) /\ p5 \in Seq(Byte)
                /\ Len(p5) = Len(p4) + Len(e)
  BY <1>15, <1>10, Len2
<1>17. PICK p6 : /\ p6 = Cat(p5, f) /\ p6 \in Seq(Byte)
                /\ Len(p6) = Len(p5) + Len(f)
  BY <1>16, <1>12, Len2
<1>18. PICK z6 : z6 = Cat(f, y) /\ z6 \in Seq(Byte)
  BY <1>12, Len2
<1>19. PICK z5 : z5 = Cat(e, z6) /\ z5 \in Seq(Byte)
  BY <1>10, <1>18, Len2
<1>20. PICK z4 : z4 = Cat(d, z5) /\ z4 \in Seq(Byte)
  BY <1>8, <1>19, Len2
<1>21. PICK z3 : z3 = Cat(c, z4) /\ z3 \in Seq(Byte)
  BY <1>6, <1>20, Len2
<1>22. PICK z2 : z2 = Cat(b, z3) /\ z2 \in Seq(Byte)
  BY <1>4, <1>21, Len2
<1>23. Cat(p6, y) = Cat(p5, z6)
  BY <1>16, <1>12, <1>17, <1>18, Join2
<1>24. Cat(p5, z6) = Cat(p4, z5)
  BY <1>15, <1>10, <1>16, <1>18, <1>19, Join2
<1>25. Cat(p4, z5) = Cat(p3, z4)
  BY <1>14, <1>8, <1>15, <1>19, <1>20, Join2
<1>26. Cat(p3, z4) = Cat(p2, z3)
  BY <1>13, <1>6, <1>14, <1>20, <1>21, Join2
<1>27. Cat(p2, z3) = Cat(a, z2)
  BY <1>2, <1>4, <1>13, <1>21, <1>22, Join2
<1>28. Cat(p6, y) = Cat(a, Cat(b, Cat(c, Cat(d, Cat(e, Cat(f, y))))))
  BY <1>22, <1>21, <1>20, <1>19, <1>18, <1>23, <1>24, <1>25, <1>26, <1>27
<1>29. p6 = encode_payload(m)
  <2>1. p6 = <<m.algo>> \o m.session_id \o m.nonce \o lv(m.x25519) \o lv(m.ciphertext) \o lv(m.signature)
    BY <1>1, <1>2, <1>3, <1>4, <1>5, <1>6, <1>7, <1>8, <1>9, <1>10, <1>11, <1>12, <1>13, <1>14, <1>15, <1>16, <1>17 DEF Cat
  <2>. QED  BY <2>1 DEF ServerHello_encode_into, encode_payload, ServerHelloFits
<1>30. Len(m.session_id) \in Nat /\ Len(m.nonce) \in Nat /\ Len(m.x25519) \in Nat /\ Len(m.ciphertext) \in Nat /\ Len(m.signature) \in Nat
  BY LenProperties DEF ServerHelloFits
<1>31. Len(p6) = 1 + Len(m.session_id) + Len(m.nonce) + (2 + Len(m.x25519)) + (2 + Len(m.ciphertext)) + (2 + Len(m.signature))
  <2>1. PICK i \in Nat, j \in Nat, k \in Nat, l \in Nat, g \in Nat :
           i = Len(m.session_id) /\ j = Len(m.nonce) /\ k = Len(m.x25519) /\ l = Len(m.ciphertext) /\ g = Len(m.signature)
    BY <1>30
  <2>2. Len(a) = 1 /\ Len(b) = i /\ Len(c) = j /\ Len(d) = (2 + k) /\ Len(e) = (2 + l) /\ Len(f) = (2 + g)
    BY <1>1, <1>2, <1>3, <1>4, <1>5, <1>6, <1>7, <1>8, <1>9, <1>10, <1>11, <1>12, <2>1
  <2>3. Len(p2) = 1 + i
    BY <1>13, <2>1, <2>2
  <2>4. Len(p3) = 1 + i + j
    BY <1>14, <2>1, <2>2, <2>3
  <2>5. Len(p4) = 1 + i + j + (2 + k)
    BY <1>15, <2>1, <2>2, <2>4
  <2>6. Len(p5) = 1 + i + j + (2 + k) + (2 + l)
    BY <1>16, <2>1, <2>2, <2>5
  <2>7. Len(p6) = 1 + i + j + (2 + k) + (2 + l) + (2 + g)
    BY <1>17, <2>1, <2>2, <2>6
  <2>. QED  BY <2>1, <2>7
<1>. QED  BY <1>1, <1>2, <1>3, <1>4, <1>5, <1>6, <1>7, <1>8, <1>9, <1>10, <1>11, <1>12, <1>17, <1>28, <1>29, <1>31

\* A ServerHello that is accepted is the one whose bytes were there.
LEMMA ServerHelloGives ==
    ASSUME NEW r \in Readers, Len(r.vals) = 0,
           NEW t, t = ServerHello_decode_from(r),
           t.err = "none",
           NEW m, m.type = "ServerHello", m.algo = t.vals[1], m.session_id = t.vals[2], m.nonce
           = t.vals[3], m.x25519 = t.vals[4], m.ciphertext = t.vals[5], m.signature = t.vals[6]
    PROVE  /\ r.err = "none" /\ t \in Readers /\ ServerHelloFits(m)
           /\ r.rest = Cat(encode_payload(m), t.rest)
<1>1. PICK r1 \in Readers : r1 = algo_from_u8(take_u8(r))
  BY TakeAlgo, Sizes
<1>2. PICK r2 \in Readers : r2 = take_arr(r1, SID_LEN)
  BY TakeArr, Sizes
<1>3. PICK r3 \in Readers : r3 = take_arr(r2, NONCE_LEN)
  BY TakeArr, Sizes
<1>4. PICK r4 \in Readers : r4 = take_sized(r3, KEY_LEN)
  BY TakeSized, Sizes
<1>5. r4.err = "none" /\ t = take_sized(take_sized(r4, ciphertext_len[r4.vals[1]]), SIGNATURE_LEN)
  <2>1. t = IF r4.err # "none" THEN r4 ELSE take_sized(take_sized(r4, ciphertext_len[r4.vals[1]]), SIGNATURE_LEN)
    BY <1>1, <1>2, <1>3, <1>4 DEF ServerHello_decode_from
  <2>. QED  BY <2>1
<1>6. PICK v4, y4 : /\ v4 \in Seq(Byte)
                   /\ Len(v4) = KEY_LEN
                   /\ y4 \in Seq(Byte)
                   /\ r3.rest = Cat(lv(v4), y4)
                   /\ Took(r3, r4, v4, y4)
  BY <1>4, <1>5, SizedGives, Sizes
<1>7. r3.err = "none"
  BY <1>6 DEF Took
<1>8. PICK v3, y3 : /\ v3 \in Seq(Byte)
                   /\ Len(v3) = NONCE_LEN
                   /\ y3 \in Seq(Byte)
                   /\ r2.rest = Cat(v3, y3)
                   /\ Took(r2, r3, v3, y3)
  BY <1>3, <1>7, ArrGives, Sizes
<1>9. r2.err = "none"
  BY <1>8 DEF Took
<1>10. PICK v2, y2 : /\ v2 \in Seq(Byte)
                   /\ Len(v2) = SID_LEN
                   /\ y2 \in Seq(Byte)
                   /\ r1.rest = Cat(v2, y2)
                   /\ Took(r1, r2, v2, y2)
  BY <1>2, <1>9, ArrGives, Sizes
<1>11. r1.err = "none"
  BY <1>10 DEF Took
<1>12. PICK v1, y1 : /\ v1 \in AlgoCodes
                   /\ y1 \in Seq(Byte)
                   /\ r.rest = Cat(<<v1>>, y1)
                   /\ Took(r, r1, v1, y1)
  BY <1>1, <1>11, AlgoGives, Sizes
<1>13. /\ Len(r1.vals) = 1 /\ r1.vals[1] = v1 /\ r1.rest = y1
       /\ r1 \in Readers /\ r1.err = "none"
  BY <1>12 DEF Took
<1>14. /\ Len(r2.vals) = 2 /\ r2.vals[2] = v2 /\ r2.rest = y2
       /\ r2 \in Readers /\ r2.err = "none"
       /\ \A j \in 1..1 : r2.vals[j] = r1.vals[j]
  BY <1>13, <1>10 DEF Took
<1>15. /\ Len(r3.vals) = 3 /\ r3.vals[3] = v3 /\ r3.rest = y3
       /\ r3 \in Readers /\ r3.err = "none"
       /\ \A j \in 1..2 : r3.vals[j] = r2.vals[j]
  BY <1>14, <1>8 DEF Took
<1>16. /\ Len(r4.vals) = 4 /\ r4.vals[4] = v4 /\ r4.rest = y4
       /\ r4 \in Readers /\ r4.err = "none"
       /\ \A j \in 1..3 : r4.vals[j] = r3.vals[j]
  BY <1>15, <1>6 DEF Took
<1>17. PICK r5 \in Readers : r5 = take_sized(r4, ciphertext_len[v1])
  BY <1>12, TakeSized, Sizes
<1>18. t = take_sized(r5, SIGNATURE_LEN)
  <2>1. r4.vals[1] = v1
    BY <1>13, <1>14, <1>15, <1>16
  <2>. QED  BY <1>5, <1>17, <2>1
<1>19. PICK v6, y6 : /\ v6 \in Seq(Byte)
                   /\ Len(v6) = SIGNATURE_LEN
                   /\ y6 \in Seq(Byte)
                   /\ r5.rest = Cat(lv(v6), y6)
                   /\ Took(r5, t, v6, y6)
  <2>1. take_sized(r5, SIGNATURE_LEN).err = "none" /\ SIGNATURE_LEN \in Nat
    BY <1>18, Sizes
  <2>. QED  BY <1>18, <2>1, SizedGives
<1>20. r5.err = "none"
  BY <1>19 DEF Took
<1>21. PICK v5, y5 : /\ v5 \in Seq(Byte)
                   /\ Len(v5) = ciphertext_len[v1]
                   /\ y5 \in Seq(Byte)
                   /\ r4.rest = Cat(lv(v5), y5)
                   /\ Took(r4, r5, v5, y5)
  BY <1>17, <1>20, <1>12, SizedGives, Sizes
<1>22. r4.err = "none"
  BY <1>21 DEF Took
<1>23. /\ Len(r5.vals) = 5 /\ r5.vals[5] = v5 /\ r5.rest = y5
       /\ r5 \in Readers /\ r5.err = "none"
       /\ \A j \in 1..4 : r5.vals[j] = r4.vals[j]
  BY <1>16, <1>21 DEF Took
<1>24. /\ Len(t.vals) = 6 /\ t.vals[6] = v6 /\ t.rest = y6
       /\ t \in Readers /\ t.err = "none"
       /\ \A j \in 1..5 : t.vals[j] = r5.vals[j]
  BY <1>23, <1>19 DEF Took
<1>25. /\ m.algo = v1
      /\ m.session_id = v2
      /\ m.nonce = v3
      /\ m.x25519 = v4
      /\ m.ciphertext = v5
      /\ m.signature = v6
  BY <1>13, <1>14, <1>15, <1>16, <1>23, <1>24
<1>26. ServerHelloFits(m)
  BY <1>12, <1>10, <1>8, <1>6, <1>21, <1>19, <1>25 DEF ServerHelloFits
<1>27. r.rest = Cat(<<m.algo>>, Cat(m.session_id, Cat(m.nonce, Cat(lv(m.x25519), Cat(lv(m.ciphertext), Cat(lv(m.signature), y6))))))
  <2>1. y5 = Cat(lv(m.signature), y6)
    BY <1>19, <1>23, <1>25
  <2>2. y4 = Cat(lv(m.ciphertext), y5)
    BY <1>21, <1>16, <1>25
  <2>3. y3 = Cat(lv(m.x25519), y4)
    BY <1>6, <1>15, <1>25
  <2>4. y2 = Cat(m.nonce, y3)
    BY <1>8, <1>14, <1>25
  <2>5. y1 = Cat(m.session_id, y2)
    BY <1>10, <1>13, <1>25
  <2>6. r.rest = Cat(<<m.algo>>, y1)
    BY <1>12, <1>25
  <2>. QED  BY <2>1, <2>2, <2>3, <2>4, <2>5, <2>6
<1>28. r.rest = Cat(encode_payload(m), y6)
  BY <1>19, <1>26, <1>27, ServerHelloBytes
<1>29. r.err = "none"
  BY <1>12 DEF Took
<1>. QED  BY <1>24, <1>26, <1>28, <1>29

\* And the bytes of a ServerHello that are there make that message.
LEMMA ServerHelloRead ==
    ASSUME NEW r \in Readers, NEW m, ServerHelloFits(m), NEW y, Ahead(r, m, y),
           NEW t, t = ServerHello_decode_from(r)
    PROVE  /\ t \in Readers /\ t.err = "none" /\ t.rest = y
           /\ t.vals[1] = m.algo /\ t.vals[2] = m.session_id /\ t.vals[3] = m.nonce /\
              t.vals[4] = m.x25519 /\ t.vals[5] = m.ciphertext /\ t.vals[6] = m.signature
<1>0. /\ Len(r.vals) = 0 /\ r.err = "none" /\ y \in Seq(Byte)
      /\ Len(encode_payload(m)) <= MAX_PAYLOAD /\ r.rest = Cat(encode_payload(m), y)
  BY DEF Ahead
<1>. USE <1>0
<1>1. PICK v1, v2, v3, v4, v5, v6 : v1 = m.algo /\ v2 = m.session_id /\ v3 = m.nonce /\ v4 = m.x25519 /\ v5 = m.ciphertext /\ v6 = m.signature
  OBVIOUS
<1>2. /\ v1 \in AlgoCodes
      /\ v2 \in Seq(Byte)
      /\ Len(v2) = SID_LEN
      /\ v3 \in Seq(Byte)
      /\ Len(v3) = NONCE_LEN
      /\ v4 \in Seq(Byte)
      /\ Len(v4) = KEY_LEN
      /\ v5 \in Seq(Byte)
      /\ Len(v5) = ciphertext_len[v1]
      /\ v6 \in Seq(Byte)
      /\ Len(v6) = SIGNATURE_LEN
      /\ Len(v4) <= MAX_PAYLOAD
      /\ Len(v5) <= MAX_PAYLOAD
      /\ Len(v6) <= MAX_PAYLOAD
  <2>1. /\ v1 \in AlgoCodes
        /\ v2 \in Seq(Byte)
        /\ Len(v2) = SID_LEN
        /\ v3 \in Seq(Byte)
        /\ Len(v3) = NONCE_LEN
        /\ v4 \in Seq(Byte)
        /\ Len(v4) = KEY_LEN
        /\ v5 \in Seq(Byte)
        /\ Len(v5) = ciphertext_len[v1]
        /\ v6 \in Seq(Byte)
        /\ Len(v6) = SIGNATURE_LEN
    BY <1>1 DEF ServerHelloFits
  <2>2. 1 + Len(v2) + Len(v3) + (2 + Len(v4)) + (2 + Len(v5)) + (2 + Len(v6)) <= MAX_PAYLOAD
    BY <1>1, ServerHelloBytes
  <2>3. Len(v2) \in Nat /\ Len(v3) \in Nat /\ Len(v4) \in Nat /\ Len(v5) \in Nat /\ Len(v6) \in Nat
    BY <2>1, LenProperties
  <2>4. Len(v4) <= MAX_PAYLOAD /\ Len(v5) <= MAX_PAYLOAD /\ Len(v6) <= MAX_PAYLOAD
    BY <2>2, <2>3, WidthAssumption
  <2>. QED  BY <2>1, <2>4
<1>3. lv(v4) \in Seq(Byte) /\ lv(v5) \in Seq(Byte) /\ lv(v6) \in Seq(Byte)
  BY <1>2, LvLen, U16
<1>4. PICK y5 : y5 = Cat(lv(v6), y) /\ y5 \in Seq(Byte)
  BY <1>2, <1>3, Len2
<1>5. PICK y4 : y4 = Cat(lv(v5), y5) /\ y4 \in Seq(Byte)
  BY <1>2, <1>3, <1>4, Len2
<1>6. PICK y3 : y3 = Cat(lv(v4), y4) /\ y3 \in Seq(Byte)
  BY <1>2, <1>3, <1>5, Len2
<1>7. PICK y2 : y2 = Cat(v3, y3) /\ y2 \in Seq(Byte)
  BY <1>2, <1>3, <1>6, Len2
<1>8. PICK y1 : y1 = Cat(v2, y2) /\ y1 \in Seq(Byte)
  BY <1>2, <1>3, <1>7, Len2
<1>9. r.rest = Cat(<<v1>>, y1)
  <2>1. Cat(encode_payload(m), y)
          = Cat(<<m.algo>>, Cat(m.session_id, Cat(m.nonce, Cat(lv(m.x25519), Cat(lv(m.ciphertext), Cat(lv(m.signature), y))))))
    BY ServerHelloBytes
  <2>. QED  BY <1>1, <1>8, <1>7, <1>6, <1>5, <1>4, <2>1
<1>10. PICK r1 \in Readers : r1 = algo_from_u8(take_u8(r)) /\ Took(r, r1, v1, y1)
  <2>1. Took(r, algo_from_u8(take_u8(r)), v1, y1)
    <3>1. r.err = "none" /\ r.rest = Cat(<<v1>>, y1)
      BY <1>2, <1>9, Sizes
    <3>. QED  BY <1>2, <1>8, <3>1, AlgoFits
  <2>. QED  BY <1>2, <2>1, TakeAlgo, Sizes
<1>11. /\ Len(r1.vals) = 1 /\ r1.vals[1] = v1 /\ r1.rest = y1
       /\ r1 \in Readers /\ r1.err = "none"
  BY <1>10 DEF Took
<1>12. PICK r2 \in Readers : r2 = take_arr(r1, SID_LEN) /\ Took(r1, r2, v2, y2)
  <2>1. Took(r1, take_arr(r1, SID_LEN), v2, y2)
    <3>1. r1.err = "none" /\ r1.rest = Cat(v2, y2) /\ SID_LEN \in Nat
      BY <1>2, <1>8, <1>11, Sizes
    <3>. QED  BY <1>2, <1>7, <3>1, ArrFits
  <2>. QED  BY <1>2, <2>1, TakeArr, Sizes
<1>13. /\ Len(r2.vals) = 2 /\ r2.vals[2] = v2 /\ r2.rest = y2
       /\ r2 \in Readers /\ r2.err = "none"
       /\ \A j \in 1..1 : r2.vals[j] = r1.vals[j]
  BY <1>11, <1>12 DEF Took
<1>14. PICK r3 \in Readers : r3 = take_arr(r2, NONCE_LEN) /\ Took(r2, r3, v3, y3)
  <2>1. Took(r2, take_arr(r2, NONCE_LEN), v3, y3)
    <3>1. r2.err = "none" /\ r2.rest = Cat(v3, y3) /\ NONCE_LEN \in Nat
      BY <1>2, <1>7, <1>13, Sizes
    <3>. QED  BY <1>2, <1>6, <3>1, ArrFits
  <2>. QED  BY <1>2, <2>1, TakeArr, Sizes
<1>15. /\ Len(r3.vals) = 3 /\ r3.vals[3] = v3 /\ r3.rest = y3
       /\ r3 \in Readers /\ r3.err = "none"
       /\ \A j \in 1..2 : r3.vals[j] = r2.vals[j]
  BY <1>13, <1>14 DEF Took
<1>16. PICK r4 \in Readers : r4 = take_sized(r3, KEY_LEN) /\ Took(r3, r4, v4, y4)
  <2>1. Took(r3, take_sized(r3, KEY_LEN), v4, y4)
    <3>1. r3.err = "none" /\ r3.rest = Cat(lv(v4), y4) /\ KEY_LEN \in Nat /\ KEY_LEN <= MAX_PAYLOAD
      BY <1>2, <1>6, <1>15, Sizes
    <3>. QED  BY <1>2, <1>5, <3>1, SizedFits
  <2>. QED  BY <1>2, <2>1, TakeSized, Sizes
<1>17. /\ Len(r4.vals) = 4 /\ r4.vals[4] = v4 /\ r4.rest = y4
       /\ r4 \in Readers /\ r4.err = "none"
       /\ \A j \in 1..3 : r4.vals[j] = r3.vals[j]
  BY <1>15, <1>16 DEF Took
<1>18. PICK r5 \in Readers : r5 = take_sized(r4, ciphertext_len[v1]) /\ Took(r4, r5, v5, y5)
  <2>1. Took(r4, take_sized(r4, ciphertext_len[v1]), v5, y5)
    <3>1. r4.err = "none" /\ r4.rest = Cat(lv(v5), y5) /\ ciphertext_len[v1] \in Nat /\ ciphertext_len[v1] <= MAX_PAYLOAD
      BY <1>2, <1>5, <1>17, Sizes
    <3>. QED  BY <1>2, <1>4, <3>1, SizedFits
  <2>. QED  BY <1>2, <2>1, TakeSized, Sizes
<1>19. /\ Len(r5.vals) = 5 /\ r5.vals[5] = v5 /\ r5.rest = y5
       /\ r5 \in Readers /\ r5.err = "none"
       /\ \A j \in 1..4 : r5.vals[j] = r4.vals[j]
  BY <1>17, <1>18 DEF Took
<1>20. t = take_sized(r5, SIGNATURE_LEN)
  <2>1. r4.vals[1] = v1 /\ r4.err = "none"
    BY <1>11, <1>13, <1>15, <1>17
  <2>. QED  BY <1>10, <1>12, <1>14, <1>16, <1>18, <2>1 DEF ServerHello_decode_from
<1>21. Took(r5, t, v6, y)
  <2>1. Took(r5, take_sized(r5, SIGNATURE_LEN), v6, y)
    <3>1. r5.err = "none" /\ r5.rest = Cat(lv(v6), y) /\ SIGNATURE_LEN \in Nat /\ SIGNATURE_LEN <= MAX_PAYLOAD
      BY <1>2, <1>4, <1>19, Sizes
    <3>. QED  BY <1>2, <3>1, SizedFits
  <2>. QED  BY <1>20, <2>1
<1>22. /\ Len(t.vals) = 6 /\ t.vals[6] = v6 /\ t.rest = y
       /\ t \in Readers /\ t.err = "none"
       /\ \A j \in 1..5 : t.vals[j] = r5.vals[j]
  BY <1>19, <1>21 DEF Took
<1>23. /\ t.vals[1] = v1
      /\ t.vals[2] = v2
      /\ t.vals[3] = v3
      /\ t.vals[4] = v4
      /\ t.vals[5] = v5
      /\ t.vals[6] = v6
  BY <1>11, <1>13, <1>15, <1>17, <1>19, <1>22
<1>. QED  BY <1>1, <1>22, <1>23

\* The fields of an Error have their sizes.
ErrorFits(m) ==
    /\ m.type = "Error"
    /\ m.code \in Byte
    /\ m.message \in Seq(Byte)

\* The bytes of an Error, and what follows them.
LEMMA ErrorBytes ==
    ASSUME NEW m, ErrorFits(m), NEW y \in Seq(Byte)
    PROVE  /\ encode_payload(m) \in Seq(Byte)
           /\ Len(encode_payload(m)) = 1 + (2 + Len(m.message))
           /\ Cat(encode_payload(m), y)
                = Cat(<<m.code>>, Cat(lv(m.message), y))
<1>1. PICK a : a = <<m.code>> /\ a \in Seq(Byte) /\ Len(a) = 1
  <2>1. m.code \in Byte
    BY Sizes DEF ErrorFits
  <2>. QED  BY <2>1, ShortSeqs
<1>2. a \in Seq(Byte)
  BY <1>1
<1>3. PICK b : b = lv(m.message) /\ b \in Seq(Byte) /\ Len(b) = 2 + Len(m.message)
  <2>1. m.message \in Seq(Byte)
    BY Sizes DEF ErrorFits
  <2>. QED  BY <2>1, LvLen
<1>4. b \in Seq(Byte)
  BY <1>3
<1>5. PICK p2 : /\ p2 = Cat(a, b) /\ p2 \in Seq(Byte)
               /\ Len(p2) = Len(a) + Len(b)
  BY <1>2, <1>4, Len2
<1>6. PICK z2 : z2 = Cat(b, y) /\ z2 \in Seq(Byte)
  BY <1>4, Len2
<1>7. Cat(p2, y) = Cat(a, z2)
  BY <1>2, <1>4, <1>5, <1>6, Join2
<1>8. Cat(p2, y) = Cat(a, Cat(b, y))
  BY <1>6, <1>7
<1>9. p2 = encode_payload(m)
  <2>1. p2 = <<m.code>> \o lv(m.message)
    BY <1>1, <1>2, <1>3, <1>4, <1>5 DEF Cat
  <2>. QED  BY <2>1 DEF encode_payload, ErrorFits
<1>10. Len(m.message) \in Nat
  BY LenProperties DEF ErrorFits
<1>11. Len(p2) = 1 + (2 + Len(m.message))
  <2>1. PICK i \in Nat :
           i = Len(m.message)
    BY <1>10
  <2>2. Len(a) = 1 /\ Len(b) = (2 + i)
    BY <1>1, <1>2, <1>3, <1>4, <2>1
  <2>3. Len(p2) = 1 + (2 + i)
    BY <1>5, <2>1, <2>2
  <2>. QED  BY <2>1, <2>3
<1>. QED  BY <1>1, <1>2, <1>3, <1>4, <1>5, <1>8, <1>9, <1>11

\* An Error that is accepted is the one whose bytes were there.
LEMMA ErrorGives ==
    ASSUME NEW r \in Readers, Len(r.vals) = 0,
           NEW t, t = take_lv(take_u8(r)),
           t.err = "none",
           NEW m, m.type = "Error", m.code = t.vals[1], m.message = t.vals[2]
    PROVE  /\ r.err = "none" /\ t \in Readers /\ ErrorFits(m)
           /\ r.rest = Cat(encode_payload(m), t.rest)
<1>1. PICK r1 \in Readers : r1 = take_u8(r)
  BY TakeU8, Sizes
<1>2. t = take_lv(r1)
  BY <1>1
<1>3. PICK v2, y2 : /\ v2 \in Seq(Byte)
                   /\ y2 \in Seq(Byte)
                   /\ r1.rest = Cat(lv(v2), y2)
                   /\ Took(r1, t, v2, y2)
  <2>1. take_lv(r1).err = "none"
    BY <1>2, Sizes
  <2>. QED  BY <1>2, <2>1, LvGives
<1>4. r1.err = "none"
  BY <1>3 DEF Took
<1>5. PICK v1, y1 : /\ v1 \in Byte
                   /\ y1 \in Seq(Byte)
                   /\ r.rest = Cat(<<v1>>, y1)
                   /\ Took(r, r1, v1, y1)
  BY <1>1, <1>4, U8Gives, Sizes
<1>6. /\ Len(r1.vals) = 1 /\ r1.vals[1] = v1 /\ r1.rest = y1
       /\ r1 \in Readers /\ r1.err = "none"
  BY <1>5 DEF Took
<1>7. /\ Len(t.vals) = 2 /\ t.vals[2] = v2 /\ t.rest = y2
       /\ t \in Readers /\ t.err = "none"
       /\ \A j \in 1..1 : t.vals[j] = r1.vals[j]
  BY <1>6, <1>3 DEF Took
<1>8. /\ m.code = v1
      /\ m.message = v2
  BY <1>6, <1>7
<1>9. ErrorFits(m)
  BY <1>5, <1>3, <1>8 DEF ErrorFits
<1>10. r.rest = Cat(<<m.code>>, Cat(lv(m.message), y2))
  <2>1. y1 = Cat(lv(m.message), y2)
    BY <1>3, <1>6, <1>8
  <2>2. r.rest = Cat(<<m.code>>, y1)
    BY <1>5, <1>8
  <2>. QED  BY <2>1, <2>2
<1>11. r.rest = Cat(encode_payload(m), y2)
  BY <1>3, <1>9, <1>10, ErrorBytes
<1>12. r.err = "none"
  BY <1>5 DEF Took
<1>. QED  BY <1>7, <1>9, <1>11, <1>12

\* And the bytes of an Error that are there make that message.
LEMMA ErrorRead ==
    ASSUME NEW r \in Readers, NEW m, ErrorFits(m), NEW y, Ahead(r, m, y),
           NEW t, t = take_lv(take_u8(r))
    PROVE  /\ t \in Readers /\ t.err = "none" /\ t.rest = y
           /\ t.vals[1] = m.code /\ t.vals[2] = m.message
<1>0. /\ Len(r.vals) = 0 /\ r.err = "none" /\ y \in Seq(Byte)
      /\ Len(encode_payload(m)) <= MAX_PAYLOAD /\ r.rest = Cat(encode_payload(m), y)
  BY DEF Ahead
<1>. USE <1>0
<1>1. PICK v1, v2 : v1 = m.code /\ v2 = m.message
  OBVIOUS
<1>2. /\ v1 \in Byte
      /\ v2 \in Seq(Byte)
      /\ Len(v2) <= MAX_PAYLOAD
  <2>1. /\ v1 \in Byte
        /\ v2 \in Seq(Byte)
    BY <1>1 DEF ErrorFits
  <2>2. 1 + (2 + Len(v2)) <= MAX_PAYLOAD
    BY <1>1, ErrorBytes
  <2>3. Len(v2) \in Nat
    BY <2>1, LenProperties
  <2>4. Len(v2) <= MAX_PAYLOAD
    BY <2>2, <2>3, WidthAssumption
  <2>. QED  BY <2>1, <2>4
<1>3. lv(v2) \in Seq(Byte)
  BY <1>2, LvLen, U16
<1>4. PICK y1 : y1 = Cat(lv(v2), y) /\ y1 \in Seq(Byte)
  BY <1>2, <1>3, Len2
<1>5. r.rest = Cat(<<v1>>, y1)
  <2>1. Cat(encode_payload(m), y)
          = Cat(<<m.code>>, Cat(lv(m.message), y))
    BY ErrorBytes
  <2>. QED  BY <1>1, <1>4, <2>1
<1>6. PICK r1 \in Readers : r1 = take_u8(r) /\ Took(r, r1, v1, y1)
  <2>1. Took(r, take_u8(r), v1, y1)
    <3>1. r.err = "none" /\ r.rest = Cat(<<v1>>, y1)
      BY <1>2, <1>5, Sizes
    <3>. QED  BY <1>2, <1>4, <3>1, U8Fits
  <2>. QED  BY <1>2, <2>1, TakeU8, Sizes
<1>7. /\ Len(r1.vals) = 1 /\ r1.vals[1] = v1 /\ r1.rest = y1
       /\ r1 \in Readers /\ r1.err = "none"
  BY <1>6 DEF Took
<1>8. t = take_lv(r1)
  BY <1>6
<1>9. Took(r1, t, v2, y)
  <2>1. Took(r1, take_lv(r1), v2, y)
    <3>1. r1.err = "none" /\ r1.rest = Cat(lv(v2), y)
      BY <1>2, <1>4, <1>7, Sizes
    <3>. QED  BY <1>2, <3>1, LvFits
  <2>. QED  BY <1>8, <2>1
<1>10. /\ Len(t.vals) = 2 /\ t.vals[2] = v2 /\ t.rest = y
       /\ t \in Readers /\ t.err = "none"
       /\ \A j \in 1..1 : t.vals[j] = r1.vals[j]
  BY <1>7, <1>9 DEF Took
<1>11. /\ t.vals[1] = v1
      /\ t.vals[2] = v2
  BY <1>7, <1>10
<1>. QED  BY <1>1, <1>10, <1>11

\* The fields of a RekeyRequest have their sizes.
RekeyRequestFits(m) ==
    /\ m.type = "RekeyRequest"
    /\ m.session_id \in Seq(Byte) /\ Len(m.session_id) = SID_LEN
    /\ HelloFits(m.hello)

\* The bytes of a RekeyRequest, and what follows them.
LEMMA RekeyRequestBytes ==
    ASSUME NEW m, RekeyRequestFits(m), NEW y \in Seq(Byte)
    PROVE  /\ encode_payload(m) \in Seq(Byte)
           /\ Len(encode_payload(m)) = Len(m.session_id) + Len(ClientHello_encode_into(m.hello))
           /\ Len(m.session_id) \in Nat /\ Len(ClientHello_encode_into(m.hello)) \in Nat
           /\ Cat(encode_payload(m), y)
                = Cat(m.session_id, Cat(ClientHello_encode_into(m.hello), y))
<1>1. PICK a : a = m.session_id
  OBVIOUS
<1>2. PICK b : b = ClientHello_encode_into(m.hello)
  OBVIOUS
<1>3. a \in Seq(Byte)
  BY <1>1 DEF RekeyRequestFits
<1>4. b \in Seq(Byte)
  BY <1>2, HelloBytes DEF RekeyRequestFits
<1>5. encode_payload(m) = Cat(a, b)
  BY <1>1, <1>2 DEF Cat, encode_payload, RekeyRequestFits
<1>6. /\ Cat(a, b) \in Seq(Byte) /\ Len(Cat(a, b)) = Len(a) + Len(b)
      /\ Len(a) \in Nat /\ Len(b) \in Nat
  BY <1>3, <1>4, Len2
<1>7. Cat(Cat(a, b), y) = Cat(a, Cat(b, y))
  BY <1>3, <1>4, Join2
<1>. QED  BY <1>1, <1>2, <1>5, <1>6, <1>7

\* A RekeyRequest that is accepted is the one whose bytes were there.
LEMMA RekeyRequestGives ==
    ASSUME NEW r \in Readers, Len(r.vals) = 0,
           NEW t, t = ClientHello_decode_from(take_arr(r, SID_LEN), 2), t.err = "none",
           NEW m, m.type = "RekeyRequest", m.session_id = t.vals[1],
           m.hello = ClientHello_of(t.vals, 2)
    PROVE  /\ r.err = "none" /\ t \in Readers /\ RekeyRequestFits(m)
           /\ r.rest = Cat(encode_payload(m), t.rest)
<1>1. PICK a \in Readers : a = take_arr(r, SID_LEN)
  BY TakeArr, Sizes
<1>2. a.err = "none"
  <2>1. ASSUME a.err # "none"  PROVE FALSE
    <3>1. take_arr(a, NONCE_LEN) = a /\ take_arr(a, KEY_LEN) = a /\ take_u8(a) = a
      BY <2>1 DEF take_arr, take_u8, take, Last_as
    <3>2. algo_from_u8(a) = a /\ take_u16(a) = a
      BY <2>1 DEF algo_from_u8, take_u16, take, Last_as
    <3>3. take_sized(a, KEY_LEN) = a
      BY <2>1, <3>2 DEF take_sized, take_lv
    <3>4. t = a
      BY <1>1, <2>1, <3>1, <3>2, <3>3 DEF ClientHello_decode_from
    <3>. QED  BY <2>1, <3>4
  <2>. QED  BY <2>1
<1>3. PICK v, z : /\ v \in Seq(Byte) /\ z \in Seq(Byte) /\ Len(v) = SID_LEN
                  /\ r.rest = Cat(v, z) /\ Took(r, a, v, z)
  BY <1>1, <1>2, ArrGives, Sizes
<1>4. Len(a.vals) = 1 /\ a.vals[1] = v /\ a.rest = z /\ r.err = "none"
  BY <1>3 DEF Took
<1>5. /\ t \in Readers /\ HelloFits(m.hello) /\ t.vals[1] = a.vals[1]
      /\ a.rest = Cat(ClientHello_encode_into(m.hello), t.rest)
  <2>1. PICK i \in {1, 2} : i = 2
    OBVIOUS
  <2>2. t = ClientHello_decode_from(a, i) /\ Len(a.vals) = i - 1 /\ 1 \in 1..(i - 1)
    BY <1>1, <1>4, <2>1
  <2>3. /\ t \in Readers /\ HelloFits(ClientHello_of(t.vals, i)) /\ t.vals[1] = a.vals[1]
        /\ a.rest = Cat(ClientHello_encode_into(ClientHello_of(t.vals, i)), t.rest)
    BY <2>2, ClientHelloGives
  <2>. QED  BY <2>1, <2>3
<1>6. RekeyRequestFits(m)
  BY <1>3, <1>4, <1>5 DEF RekeyRequestFits
<1>7. r.rest = Cat(m.session_id, Cat(ClientHello_encode_into(m.hello), t.rest))
  BY <1>3, <1>4, <1>5
<1>8. t.rest \in Seq(Byte)
  BY <1>5 DEF Readers
<1>9. r.rest = Cat(encode_payload(m), t.rest)
  BY <1>6, <1>7, <1>8, RekeyRequestBytes
<1>. QED  BY <1>4, <1>5, <1>6, <1>9

\* And the bytes of a RekeyRequest that are there make that message.
LEMMA RekeyRequestRead ==
    ASSUME NEW r \in Readers, NEW m, RekeyRequestFits(m), NEW y, Ahead(r, m, y),
           NEW t, t = ClientHello_decode_from(take_arr(r, SID_LEN), 2)
    PROVE  /\ t \in Readers /\ t.err = "none" /\ t.rest = y /\ t.vals[1] = m.session_id
           /\ t.vals[2] = m.hello.algo /\ t.vals[3] = m.hello.nonce
           /\ t.vals[4] = m.hello.wg_pubkey /\ t.vals[5] = m.hello.x25519
           /\ t.vals[6] = m.hello.mlkem
<1>0. /\ Len(r.vals) = 0 /\ r.err = "none" /\ y \in Seq(Byte)
      /\ Len(encode_payload(m)) <= MAX_PAYLOAD /\ r.rest = Cat(encode_payload(m), y)
  BY DEF Ahead
<1>. USE <1>0
<1>1. PICK v : v = m.session_id /\ v \in Seq(Byte) /\ Len(v) = SID_LEN
  BY DEF RekeyRequestFits
<1>2. PICK e : e = ClientHello_encode_into(m.hello)
  OBVIOUS
<1>3. HelloFits(m.hello)
  BY DEF RekeyRequestFits
<1>4. e \in Seq(Byte)
  BY <1>2, <1>3, HelloBytes
<1>5. PICK z : z = Cat(e, y) /\ z \in Seq(Byte)
  BY <1>4, Len2
<1>6. /\ r.rest = Cat(v, z) /\ Len(e) <= MAX_PAYLOAD
  <2>1. /\ Len(encode_payload(m)) = Len(v) + Len(e) /\ Len(v) \in Nat /\ Len(e) \in Nat
        /\ Cat(encode_payload(m), y) = Cat(v, Cat(e, y))
    BY <1>1, <1>2, RekeyRequestBytes
  <2>2. Len(e) <= MAX_PAYLOAD
    BY <2>1, WidthAssumption
  <2>. QED  BY <1>5, <2>1, <2>2
<1>7. PICK a \in Readers : a = take_arr(r, SID_LEN) /\ Took(r, a, v, z)
  <2>1. Took(r, take_arr(r, SID_LEN), v, z)
    BY <1>1, <1>5, <1>6, ArrFits, Sizes
  <2>. QED  BY <2>1, TakeArr, Sizes
<1>8. Len(a.vals) = 2 - 1 /\ a.vals[1] = v /\ a.rest = Cat(e, y) /\ a.err = "none"
  BY <1>5, <1>7 DEF Took
<1>9. PICK i \in {1, 2} : i = 2
  OBVIOUS
<1>10. /\ t \in Readers /\ t.err = "none" /\ t.rest = y
       /\ \A j \in 1..(i - 1) : t.vals[j] = a.vals[j]
       /\ t.vals[i] = m.hello.algo /\ t.vals[i + 1] = m.hello.nonce
       /\ t.vals[i + 2] = m.hello.wg_pubkey /\ t.vals[i + 3] = m.hello.x25519
       /\ t.vals[i + 4] = m.hello.mlkem
  <2>1. t = ClientHello_decode_from(a, i) /\ Len(a.vals) = i - 1
    BY <1>7, <1>8, <1>9
  <2>2. HelloAhead(a, i, m.hello, y)
    BY <1>2, <1>3, <1>6, <1>8, <2>1 DEF HelloAhead
  <2>3. HelloRead(ClientHello_decode_from(a, i), a, i, m.hello, y)
    BY <2>2, ClientHelloFits
  <2>. QED  BY <2>1, <2>3 DEF HelloRead
<1>. QED  BY <1>1, <1>8, <1>9, <1>10

-----------------------------------------------------------------------------
(***************************************************************************)
(* Messages.                                                               *)
(***************************************************************************)

\* The codes of the message types.
LEMMA TypeCodes ==
    /\ \A type \in MsgTypes : to_u8(type) \in Byte /\ to_u8(type) \in KnownTypes
    /\ \A type \in MsgTypes : from_u8(to_u8(type)) = type
    /\ \A b \in KnownTypes : from_u8(b) \in MsgTypes /\ to_u8(from_u8(b)) = b
<1>1. /\ to_u8("ClientHello") = 1 /\ to_u8("ServerHello") = 2 /\ to_u8("ClientFinish") = 3
      /\ to_u8("ServerFinish") = 4 /\ to_u8("RekeyRequest") = 5 /\ to_u8("Error") = ERROR_TYPE
  BY DEF to_u8
<1>2. ERROR_TYPE \in Nat /\ ERROR_TYPE > 5 /\ ERROR_TYPE \in Byte /\ \A n \in 1..5 : n \in Byte
  BY WidthAssumption DEF Byte
<1>3. \A type \in MsgTypes : to_u8(type) \in Byte /\ to_u8(type) \in KnownTypes
  BY <1>1, <1>2 DEF MsgTypes, KnownTypes
<1>4. \A x, y \in MsgTypes : to_u8(x) = to_u8(y) => x = y
  BY <1>1, <1>2 DEF MsgTypes
<1>5. ASSUME NEW b \in KnownTypes  PROVE from_u8(b) \in MsgTypes /\ to_u8(from_u8(b)) = b
  BY DEF from_u8, KnownTypes
<1>6. ASSUME NEW type \in MsgTypes  PROVE from_u8(to_u8(type)) = type
  BY <1>3, <1>4, <1>5
<1>. QED  BY <1>3, <1>5, <1>6

\* The reader of a payload has taken nothing.
LEMMA NewReader ==
    ASSUME NEW p \in Seq(Byte)
    PROVE  /\ Reader(p) \in Readers /\ Len(Reader(p).vals) = 0 /\ Reader(p).err = "none"
           /\ Reader(p).rest = p
<1>1. <<>> \in Seq(Val) /\ Len(<<>>) = 0
  BY EmptySeq
<1>. QED  BY <1>1 DEF Reader, Readers

\* Nothing may be left.
LEMMA End ==
    ASSUME NEW t, NEW d, d = expect_end(t)
    PROVE  /\ d.err = "none" => t.err = "none"
           /\ (d.err = "none" /\ t \in Readers) => (t = d /\ t.err = "none" /\ t.rest = <<>>)
           /\ (t.err = "none" /\ t.rest = <<>>) => d = t
<1>1. ASSUME t \in Readers, d.err = "none"  PROVE t = d /\ t.err = "none" /\ t.rest = <<>>
  <2>1. CASE t.err = "none" /\ t.rest # <<>>
    <3>1. d = Err(t, "Invalid") /\ "Invalid" \in Errors
      BY <2>1 DEF expect_end, Errors
    <3>. QED  BY <1>1, <3>1, ErrFacts
  <2>2. CASE ~(t.err = "none" /\ t.rest # <<>>)
    BY <1>1, <2>2 DEF expect_end
  <2>. QED  BY <2>1, <2>2
<1>2. ASSUME t.err = "none", t.rest = <<>>  PROVE d = t
  BY <1>2 DEF expect_end
<1>3. ASSUME t.err # "none"  PROVE d = t
  BY <1>3 DEF expect_end
<1>. QED  BY <1>1, <1>2, <1>3

\* Nothing after a sequence.
LEMMA CatEmpty == \A s \in Seq(Byte) : Cat(s, <<>>) = s
BY ConcatEmptySeq DEF Cat

\* A payload that is accepted is the encoding of the message it gives.
LEMMA PayloadGives ==
    ASSUME NEW type \in MsgTypes, NEW p \in Seq(Byte), NEW d, d = decode_fields(type, p),
           d.err = "none", NEW m, m = message_of(type, d.vals)
    PROVE  m.type = type /\ (type # "Error" => encode_payload(m) = p)
<1>1. PICK r \in Readers : /\ r = Reader(p) /\ Len(r.vals) = 0 /\ r.err = "none" /\ r.rest = p
  BY NewReader
<1>2. CASE type = "ServerHello"
  <2>1. PICK t : t = ServerHello_decode_from(r)
    OBVIOUS
  <2>2. d = expect_end(t)
    BY <1>1, <1>2, <2>1 DEF decode_fields
  <2>3. t.err = "none"
    BY <2>2, End
  <2>4. PICK g : g = message_of("ServerHello", t.vals)
    OBVIOUS
  <2>5. /\ g.type = "ServerHello"
        /\ g.algo = t.vals[1] /\ g.session_id = t.vals[2] /\ g.nonce = t.vals[3] /\
           g.x25519 = t.vals[4] /\ g.ciphertext = t.vals[5] /\ g.signature = t.vals[6]
    BY <2>4 DEF message_of
  <2>6. t \in Readers /\ ServerHelloFits(g) /\ p = Cat(encode_payload(g), t.rest)
    BY <1>1, <2>1, <2>3, <2>5, ServerHelloGives
  <2>7. t = d /\ t.rest = <<>>
    BY <2>2, <2>6, End
  <2>8. encode_payload(g) \in Seq(Byte)
    BY <2>6, ServerHelloBytes
  <2>9. p = encode_payload(g) /\ g = m
    BY <1>2, <2>4, <2>6, <2>7, <2>8, CatEmpty
  <2>. QED  BY <1>2, <2>5, <2>9
<1>3. CASE type = "ClientFinish"
  <2>1. PICK t : t = take_arr(take_arr(r, SID_LEN), TAG_LEN)
    OBVIOUS
  <2>2. d = expect_end(t)
    BY <1>1, <1>3, <2>1 DEF decode_fields
  <2>3. t.err = "none"
    BY <2>2, End
  <2>4. PICK g : g = message_of("ClientFinish", t.vals)
    OBVIOUS
  <2>5. /\ g.type = "ClientFinish"
        /\ g.session_id = t.vals[1] /\ g.tag = t.vals[2]
    BY <2>4 DEF message_of
  <2>6. t \in Readers /\ ClientFinishFits(g) /\ p = Cat(encode_payload(g), t.rest)
    BY <1>1, <2>1, <2>3, <2>5, ClientFinishGives
  <2>7. t = d /\ t.rest = <<>>
    BY <2>2, <2>6, End
  <2>8. encode_payload(g) \in Seq(Byte)
    BY <2>6, ClientFinishBytes
  <2>9. p = encode_payload(g) /\ g = m
    BY <1>3, <2>4, <2>6, <2>7, <2>8, CatEmpty
  <2>. QED  BY <1>3, <2>5, <2>9
<1>4. CASE type = "ServerFinish"
  <2>1. PICK t : t = take_u16(take_arr(take_arr(take_arr(take_arr(r, SID_LEN), TAG_LEN), KEY_LEN), IP_LEN))
    OBVIOUS
  <2>2. d = expect_end(t)
    BY <1>1, <1>4, <2>1 DEF decode_fields
  <2>3. t.err = "none"
    BY <2>2, End
  <2>4. PICK g : g = message_of("ServerFinish", t.vals)
    OBVIOUS
  <2>5. /\ g.type = "ServerFinish"
        /\ g.session_id = t.vals[1] /\ g.tag = t.vals[2] /\ g.wg_pubkey = t.vals[3] /\
           g.assigned_ip = t.vals[4] /\ g.wg_port = t.vals[5]
    BY <2>4 DEF message_of
  <2>6. t \in Readers /\ ServerFinishFits(g) /\ p = Cat(encode_payload(g), t.rest)
    BY <1>1, <2>1, <2>3, <2>5, ServerFinishGives
  <2>7. t = d /\ t.rest = <<>>
    BY <2>2, <2>6, End
  <2>8. encode_payload(g) \in Seq(Byte)
    BY <2>6, ServerFinishBytes
  <2>9. p = encode_payload(g) /\ g = m
    BY <1>4, <2>4, <2>6, <2>7, <2>8, CatEmpty
  <2>. QED  BY <1>4, <2>5, <2>9
<1>5. CASE type = "ClientHello"
  <2>1. PICK t, i : t = ClientHello_decode_from(r, i) /\ i = 1
    OBVIOUS
  <2>2. d = expect_end(t)
    BY <1>1, <1>5, <2>1 DEF decode_fields
  <2>3. t.err = "none"
    BY <2>2, End
  <2>4. PICK g : g = ClientHello_of(t.vals, i)
    OBVIOUS
  <2>5. g.type = "ClientHello"
    BY <2>4 DEF ClientHello_of
  <2>6. t \in Readers /\ HelloFits(g) /\ p = Cat(ClientHello_encode_into(g), t.rest)
    <3>1. i \in {1, 2} /\ Len(r.vals) = i - 1
      BY <1>1, <2>1
    <3>. QED  BY <1>1, <2>1, <2>3, <2>4, <3>1, ClientHelloGives
  <2>7. t = d /\ t.rest = <<>>
    BY <2>2, <2>6, End
  <2>8. encode_payload(g) \in Seq(Byte) /\ encode_payload(g) = ClientHello_encode_into(g)
    BY <2>5, <2>6, HelloBytes DEF encode_payload
  <2>9. p = encode_payload(g)
    BY <2>6, <2>7, <2>8, CatEmpty
  <2>10. g = m
    BY <1>5, <2>1, <2>4, <2>7 DEF message_of
  <2>. QED  BY <1>5, <2>5, <2>9, <2>10
<1>6. CASE type = "RekeyRequest"
  <2>1. PICK t : t = ClientHello_decode_from(take_arr(r, SID_LEN), 2)
    OBVIOUS
  <2>2. d = expect_end(t)
    BY <1>1, <1>6, <2>1 DEF decode_fields
  <2>3. t.err = "none"
    BY <2>2, End
  <2>4. PICK g : g = message_of("RekeyRequest", t.vals)
    OBVIOUS
  <2>5. g.type = "RekeyRequest" /\ g.session_id = t.vals[1] /\ g.hello = ClientHello_of(t.vals, 2)
    BY <2>4 DEF message_of
  <2>6. t \in Readers /\ RekeyRequestFits(g) /\ p = Cat(encode_payload(g), t.rest)
    BY <1>1, <2>1, <2>3, <2>5, RekeyRequestGives
  <2>7. t = d /\ t.rest = <<>>
    BY <2>2, <2>6, End
  <2>8. encode_payload(g) \in Seq(Byte)
    BY <2>6, RekeyRequestBytes
  <2>9. p = encode_payload(g) /\ g = m
    BY <1>6, <2>4, <2>6, <2>7, <2>8, CatEmpty
  <2>. QED  BY <1>6, <2>5, <2>9
<1>7. CASE type = "Error"
  BY <1>7 DEF message_of
<1>. QED  BY <1>2, <1>3, <1>4, <1>5, <1>6, <1>7 DEF MsgTypes

\* The messages have fields of their sizes.
LEMMA MessagesFit ==
    /\ \A m \in ClientHello : HelloFits(m) /\ m.type = "ClientHello"
    /\ \A m \in ServerHello : ServerHelloFits(m)
    /\ \A m \in ClientFinish : ClientFinishFits(m)
    /\ \A m \in ServerFinish : ServerFinishFits(m)
    /\ \A m \in RekeyRequest : RekeyRequestFits(m)
    /\ \A m \in ErrorMsg : ErrorFits(m)
<1>1. ASSUME NEW m \in ClientHello  PROVE HelloFits(m) /\ m.type = "ClientHello"
  <2>1. /\ m.type = "ClientHello"
        /\ m.nonce \in Bytes(NONCE_LEN)
        /\ m.wg_pubkey \in Bytes(KEY_LEN)
        /\ m.x25519 \in Bytes(KEY_LEN)
        /\ m.algo \in AlgoCodes
        /\ m.mlkem \in Seq(Byte)
        /\ Len(m.mlkem) = mlkem_pub_len[m.algo]
    BY DEF ClientHello
  <2>2. /\ m.nonce \in Seq(Byte) /\ Len(m.nonce) = NONCE_LEN
        /\ m.wg_pubkey \in Seq(Byte) /\ Len(m.wg_pubkey) = KEY_LEN
        /\ m.x25519 \in Seq(Byte) /\ Len(m.x25519) = KEY_LEN
    BY <2>1, BytesAreSeqs, Sizes
  <2>. QED  BY <2>1, <2>2 DEF HelloFits
<1>2. ASSUME NEW m \in ServerHello  PROVE ServerHelloFits(m)
  <2>1. /\ m.type = "ServerHello"
        /\ m.session_id \in Bytes(SID_LEN)
        /\ m.nonce \in Bytes(NONCE_LEN)
        /\ m.x25519 \in Bytes(KEY_LEN)
        /\ m.signature \in Bytes(SIGNATURE_LEN)
        /\ m.algo \in AlgoCodes
        /\ m.ciphertext \in Seq(Byte)
        /\ Len(m.ciphertext) = ciphertext_len[m.algo]
    BY DEF ServerHello
  <2>2. /\ m.session_id \in Seq(Byte) /\ Len(m.session_id) = SID_LEN
        /\ m.nonce \in Seq(Byte) /\ Len(m.nonce) = NONCE_LEN
        /\ m.x25519 \in Seq(Byte) /\ Len(m.x25519) = KEY_LEN
        /\ m.signature \in Seq(Byte) /\ Len(m.signature) = SIGNATURE_LEN
    BY <2>1, BytesAreSeqs, Sizes
  <2>. QED  BY <2>1, <2>2 DEF ServerHelloFits
<1>3. ASSUME NEW m \in ClientFinish  PROVE ClientFinishFits(m)
  <2>1. /\ m.type = "ClientFinish"
        /\ m.session_id \in Bytes(SID_LEN)
        /\ m.tag \in Bytes(TAG_LEN)
    BY DEF ClientFinish
  <2>2. /\ m.session_id \in Seq(Byte) /\ Len(m.session_id) = SID_LEN
        /\ m.tag \in Seq(Byte) /\ Len(m.tag) = TAG_LEN
    BY <2>1, BytesAreSeqs, Sizes
  <2>. QED  BY <2>1, <2>2 DEF ClientFinishFits
<1>4. ASSUME NEW m \in ServerFinish  PROVE ServerFinishFits(m)
  <2>1. /\ m.type = "ServerFinish"
        /\ m.session_id \in Bytes(SID_LEN)
        /\ m.tag \in Bytes(TAG_LEN)
        /\ m.wg_pubkey \in Bytes(KEY_LEN)
        /\ m.assigned_ip \in Bytes(IP_LEN)
        /\ m.wg_port \in 0..(BASE * BASE - 1)
    BY DEF ServerFinish
  <2>2. /\ m.session_id \in Seq(Byte) /\ Len(m.session_id) = SID_LEN
        /\ m.tag \in Seq(Byte) /\ Len(m.tag) = TAG_LEN
        /\ m.wg_pubkey \in Seq(Byte) /\ Len(m.wg_pubkey) = KEY_LEN
        /\ m.assigned_ip \in Seq(Byte) /\ Len(m.assigned_ip) = IP_LEN
    BY <2>1, BytesAreSeqs, Sizes
  <2>. QED  BY <2>1, <2>2 DEF ServerFinishFits
<1>5. ASSUME NEW m \in RekeyRequest  PROVE RekeyRequestFits(m)
  <2>1. /\ m.type = "RekeyRequest"
        /\ m.session_id \in Bytes(SID_LEN)
        /\ m.hello \in ClientHello
    BY DEF RekeyRequest
  <2>2. /\ m.session_id \in Seq(Byte) /\ Len(m.session_id) = SID_LEN
    BY <2>1, BytesAreSeqs, Sizes
  <2>. QED  BY <1>1, <2>1, <2>2 DEF RekeyRequestFits
<1>6. ASSUME NEW m \in ErrorMsg  PROVE ErrorFits(m)
  <2>1. m.type = "Error" /\ m.code \in Byte /\ m.message \in Seq(Byte \ {BASE - 1})
    BY DEF ErrorMsg
  <2>2. m.message \in Seq(Byte)
    BY <2>1, SeqMonotonic
  <2>. QED  BY <2>1, <2>2 DEF ErrorFits
<1>. QED  BY <1>1, <1>2, <1>3, <1>4, <1>5, <1>6

\* Text that is UTF-8 stays as it is.
LEMMA TextStays == \A m \in ErrorMsg : from_utf8_lossy(m.message) = m.message
<1>. SUFFICES ASSUME NEW m \in ErrorMsg  PROVE from_utf8_lossy(m.message) = m.message
  OBVIOUS
<1>1. m.message \in Seq(Byte \ {BASE - 1})
  BY DEF ErrorMsg
<1>2. PICK s \in Seq(Byte \ {BASE - 1}) : s = m.message
  BY <1>1
<1>3. \A i \in DOMAIN s : s[i] # BASE - 1
  <2>1. DOMAIN s = 1..Len(s) /\ \A i \in 1..Len(s) : s[i] \in Byte \ {BASE - 1}
    BY LenProperties, ElementOfSeq
  <2>. QED  BY <2>1
<1>. QED  BY <1>2, <1>3 DEF from_utf8_lossy

\* A message that fits into a payload is read back from its encoding.
LEMMA PayloadRead ==
    ASSUME NEW m \in Message, Len(encode_payload(m)) <= MAX_PAYLOAD,
           NEW d, d = decode_fields(m.type, encode_payload(m))
    PROVE  /\ m.type \in MsgTypes /\ encode_payload(m) \in Seq(Byte)
           /\ d.err = "none" /\ message_of(m.type, d.vals) = m
<1>0. PICK p : p = encode_payload(m)
  OBVIOUS
<1>1. <<>> \in Seq(Byte)
  BY EmptySeq
<1>2. CASE m \in ServerHello
  <2>1. ServerHelloFits(m) /\ m.type = "ServerHello"
    BY <1>2, MessagesFit DEF ServerHelloFits
  <2>2. p \in Seq(Byte)
    BY <1>0, <1>1, <2>1, ServerHelloBytes
  <2>3. PICK r \in Readers : /\ r = Reader(p) /\ Len(r.vals) = 0 /\ r.err = "none"
                            /\ r.rest = Cat(encode_payload(m), <<>>)
    BY <1>0, <2>2, NewReader, CatEmpty
  <2>4. PICK t : t = ServerHello_decode_from(r)
    OBVIOUS
  <2>5. /\ t.err = "none" /\ t.rest = <<>>
        /\ t.vals[1] = m.algo /\ t.vals[2] = m.session_id /\ t.vals[3] = m.nonce /\
           t.vals[4] = m.x25519 /\ t.vals[5] = m.ciphertext /\ t.vals[6] = m.signature
    <3>1. Ahead(r, m, <<>>)
      BY <1>1, <2>3 DEF Ahead
    <3>. QED  BY <2>1, <2>4, <3>1, ServerHelloRead
  <2>6. d = t
    <3>1. d = expect_end(t)
      BY <1>0, <2>1, <2>3, <2>4 DEF decode_fields
    <3>. QED  BY <2>5, <3>1, End
  <2>7. message_of("ServerHello", d.vals) = [type |-> "ServerHello", algo |-> m.algo, session_id |-> m.session_id, nonce
             |-> m.nonce, x25519 |-> m.x25519, ciphertext |-> m.ciphertext, signature |->
             m.signature]
    BY <2>5, <2>6 DEF message_of
  <2>8. m = [type |-> "ServerHello", algo |-> m.algo, session_id |-> m.session_id, nonce
             |-> m.nonce, x25519 |-> m.x25519, ciphertext |-> m.ciphertext, signature |->
             m.signature]
    BY <1>2, <2>1 DEF ServerHello
  <2>9. m.type \in MsgTypes
    BY <2>1 DEF MsgTypes
  <2>10. message_of(m.type, d.vals) = m /\ d.err = "none"
    BY <2>1, <2>5, <2>6, <2>7, <2>8
  <2>. QED  BY <1>0, <2>2, <2>9, <2>10
<1>3. CASE m \in ClientFinish
  <2>1. ClientFinishFits(m) /\ m.type = "ClientFinish"
    BY <1>3, MessagesFit DEF ClientFinishFits
  <2>2. p \in Seq(Byte)
    BY <1>0, <1>1, <2>1, ClientFinishBytes
  <2>3. PICK r \in Readers : /\ r = Reader(p) /\ Len(r.vals) = 0 /\ r.err = "none"
                            /\ r.rest = Cat(encode_payload(m), <<>>)
    BY <1>0, <2>2, NewReader, CatEmpty
  <2>4. PICK t : t = take_arr(take_arr(r, SID_LEN), TAG_LEN)
    OBVIOUS
  <2>5. /\ t.err = "none" /\ t.rest = <<>>
        /\ t.vals[1] = m.session_id /\ t.vals[2] = m.tag
    <3>1. Ahead(r, m, <<>>)
      BY <1>1, <2>3 DEF Ahead
    <3>. QED  BY <2>1, <2>4, <3>1, ClientFinishRead
  <2>6. d = t
    <3>1. d = expect_end(t)
      BY <1>0, <2>1, <2>3, <2>4 DEF decode_fields
    <3>. QED  BY <2>5, <3>1, End
  <2>7. message_of("ClientFinish", d.vals) = [type |-> "ClientFinish", session_id |-> m.session_id, tag |-> m.tag]
    BY <2>5, <2>6 DEF message_of
  <2>8. m = [type |-> "ClientFinish", session_id |-> m.session_id, tag |-> m.tag]
    BY <1>3, <2>1 DEF ClientFinish
  <2>9. m.type \in MsgTypes
    BY <2>1 DEF MsgTypes
  <2>10. message_of(m.type, d.vals) = m /\ d.err = "none"
    BY <2>1, <2>5, <2>6, <2>7, <2>8
  <2>. QED  BY <1>0, <2>2, <2>9, <2>10
<1>4. CASE m \in ServerFinish
  <2>1. ServerFinishFits(m) /\ m.type = "ServerFinish"
    BY <1>4, MessagesFit DEF ServerFinishFits
  <2>2. p \in Seq(Byte)
    BY <1>0, <1>1, <2>1, ServerFinishBytes
  <2>3. PICK r \in Readers : /\ r = Reader(p) /\ Len(r.vals) = 0 /\ r.err = "none"
                            /\ r.rest = Cat(encode_payload(m), <<>>)
    BY <1>0, <2>2, NewReader, CatEmpty
  <2>4. PICK t : t = take_u16(take_arr(take_arr(take_arr(take_arr(r, SID_LEN), TAG_LEN), KEY_LEN), IP_LEN))
    OBVIOUS
  <2>5. /\ t.err = "none" /\ t.rest = <<>>
        /\ t.vals[1] = m.session_id /\ t.vals[2] = m.tag /\ t.vals[3] = m.wg_pubkey /\
           t.vals[4] = m.assigned_ip /\ t.vals[5] = m.wg_port
    <3>1. Ahead(r, m, <<>>)
      BY <1>1, <2>3 DEF Ahead
    <3>. QED  BY <2>1, <2>4, <3>1, ServerFinishRead
  <2>6. d = t
    <3>1. d = expect_end(t)
      BY <1>0, <2>1, <2>3, <2>4 DEF decode_fields
    <3>. QED  BY <2>5, <3>1, End
  <2>7. message_of("ServerFinish", d.vals) = [type |-> "ServerFinish", session_id |-> m.session_id, tag |-> m.tag, wg_pubkey
             |-> m.wg_pubkey, assigned_ip |-> m.assigned_ip, wg_port |-> m.wg_port]
    BY <2>5, <2>6 DEF message_of
  <2>8. m = [type |-> "ServerFinish", session_id |-> m.session_id, tag |-> m.tag, wg_pubkey
             |-> m.wg_pubkey, assigned_ip |-> m.assigned_ip, wg_port |-> m.wg_port]
    BY <1>4, <2>1 DEF ServerFinish
  <2>9. m.type \in MsgTypes
    BY <2>1 DEF MsgTypes
  <2>10. message_of(m.type, d.vals) = m /\ d.err = "none"
    BY <2>1, <2>5, <2>6, <2>7, <2>8
  <2>. QED  BY <1>0, <2>2, <2>9, <2>10
<1>5. CASE m \in ErrorMsg
  <2>1. ErrorFits(m) /\ m.type = "Error"
    BY <1>5, MessagesFit DEF ErrorFits
  <2>2. p \in Seq(Byte)
    BY <1>0, <1>1, <2>1, ErrorBytes
  <2>3. PICK r \in Readers : /\ r = Reader(p) /\ Len(r.vals) = 0 /\ r.err = "none"
                            /\ r.rest = Cat(encode_payload(m), <<>>)
    BY <1>0, <2>2, NewReader, CatEmpty
  <2>4. PICK t : t = take_lv(take_u8(r))
    OBVIOUS
  <2>5. /\ t.err = "none" /\ t.rest = <<>>
        /\ t.vals[1] = m.code /\ t.vals[2] = m.message
    <3>1. Ahead(r, m, <<>>)
      BY <1>1, <2>3 DEF Ahead
    <3>. QED  BY <2>1, <2>4, <3>1, ErrorRead
  <2>6. d = t
    <3>1. d = expect_end(t)
      BY <1>0, <2>1, <2>3, <2>4 DEF decode_fields
    <3>. QED  BY <2>5, <3>1, End
  <2>7. message_of("Error", d.vals) = [type |-> "Error", code |-> m.code, message |-> m.message]
    BY <1>5, TextStays, <2>5, <2>6 DEF message_of
  <2>8. m = [type |-> "Error", code |-> m.code, message |-> m.message]
    BY <1>5, <2>1 DEF ErrorMsg
  <2>9. m.type \in MsgTypes
    BY <2>1 DEF MsgTypes
  <2>10. message_of(m.type, d.vals) = m /\ d.err = "none"
    BY <2>1, <2>5, <2>6, <2>7, <2>8
  <2>. QED  BY <1>0, <2>2, <2>9, <2>10
<1>6. CASE m \in ClientHello
  <2>1. HelloFits(m) /\ m.type = "ClientHello"
    BY <1>6, MessagesFit
  <2>2. p \in Seq(Byte) /\ p = ClientHello_encode_into(m)
    BY <1>0, <1>1, <2>1, HelloBytes DEF encode_payload
  <2>3. PICK r \in Readers : /\ r = Reader(p) /\ Len(r.vals) = 0 /\ r.err = "none"
                            /\ r.rest = Cat(p, <<>>)
    BY <2>2, NewReader, CatEmpty
  <2>4. PICK t, i : t = ClientHello_decode_from(r, i) /\ i = 1
    OBVIOUS
  <2>5. HelloRead(t, r, i, m, <<>>)
    <3>1. i \in {1, 2} /\ HelloAhead(r, i, m, <<>>)
      BY <1>0, <1>1, <2>1, <2>2, <2>3, <2>4 DEF HelloAhead
    <3>. QED  BY <2>4, <3>1, ClientHelloFits
  <2>6. d = t
    <3>1. d = expect_end(t)
      BY <1>0, <2>1, <2>3, <2>4 DEF decode_fields
    <3>2. t.err = "none" /\ t.rest = <<>>
      BY <2>5 DEF HelloRead
    <3>. QED  BY <3>1, <3>2, End
  <2>7. message_of("ClientHello", d.vals)
          = [type |-> "ClientHello", algo |-> m.algo, nonce |-> m.nonce,
             wg_pubkey |-> m.wg_pubkey, x25519 |-> m.x25519, mlkem |-> m.mlkem]
    <3>1. /\ t.vals[1] = m.algo /\ t.vals[1 + 1] = m.nonce /\ t.vals[1 + 2] = m.wg_pubkey
          /\ t.vals[1 + 3] = m.x25519 /\ t.vals[1 + 4] = m.mlkem
      BY <2>4, <2>5 DEF HelloRead
    <3>. QED  BY <2>6, <3>1 DEF message_of, ClientHello_of
  <2>8. m = [type |-> "ClientHello", algo |-> m.algo, nonce |-> m.nonce,
             wg_pubkey |-> m.wg_pubkey, x25519 |-> m.x25519, mlkem |-> m.mlkem]
    BY <1>6 DEF ClientHello
  <2>9. m.type \in MsgTypes
    BY <2>1 DEF MsgTypes
  <2>10. message_of(m.type, d.vals) = m /\ d.err = "none"
    BY <2>1, <2>5, <2>6, <2>7, <2>8 DEF HelloRead
  <2>. QED  BY <1>0, <2>2, <2>9, <2>10
<1>7. CASE m \in RekeyRequest
  <2>1. RekeyRequestFits(m) /\ m.type = "RekeyRequest"
    BY <1>7, MessagesFit DEF RekeyRequestFits
  <2>2. p \in Seq(Byte)
    BY <1>0, <1>1, <2>1, RekeyRequestBytes
  <2>3. PICK r \in Readers : /\ r = Reader(p) /\ Len(r.vals) = 0 /\ r.err = "none"
                            /\ r.rest = Cat(encode_payload(m), <<>>)
    BY <1>0, <2>2, NewReader, CatEmpty
  <2>4. PICK t : t = ClientHello_decode_from(take_arr(r, SID_LEN), 2)
    OBVIOUS
  <2>5. /\ t.err = "none" /\ t.rest = <<>> /\ t.vals[1] = m.session_id
        /\ t.vals[2] = m.hello.algo /\ t.vals[3] = m.hello.nonce
        /\ t.vals[4] = m.hello.wg_pubkey /\ t.vals[5] = m.hello.x25519
        /\ t.vals[6] = m.hello.mlkem
    <3>1. Ahead(r, m, <<>>)
      BY <1>1, <2>3 DEF Ahead
    <3>. QED  BY <2>1, <2>4, <3>1, RekeyRequestRead
  <2>6. d = t
    <3>1. d = expect_end(t)
      BY <1>0, <2>1, <2>3, <2>4 DEF decode_fields
    <3>. QED  BY <2>5, <3>1, End
  <2>7. PICK h : h = m.hello /\ h \in ClientHello
    BY <1>7 DEF RekeyRequest
  <2>8. h = [type |-> "ClientHello", algo |-> h.algo, nonce |-> h.nonce,
             wg_pubkey |-> h.wg_pubkey, x25519 |-> h.x25519, mlkem |-> h.mlkem]
    BY <2>7 DEF ClientHello
  <2>9. ClientHello_of(d.vals, 2) = h
    BY <2>5, <2>6, <2>7, <2>8 DEF ClientHello_of
  <2>10. message_of("RekeyRequest", d.vals)
          = [type |-> "RekeyRequest", session_id |-> m.session_id, hello |-> m.hello]
    BY <2>5, <2>6, <2>7, <2>9 DEF message_of
  <2>11. m = [type |-> "RekeyRequest", session_id |-> m.session_id, hello |-> m.hello]
    BY <1>7 DEF RekeyRequest
  <2>12. m.type \in MsgTypes
    BY <2>1 DEF MsgTypes
  <2>13. message_of(m.type, d.vals) = m /\ d.err = "none"
    BY <2>1, <2>5, <2>6, <2>10, <2>11
  <2>. QED  BY <1>0, <2>2, <2>12, <2>13
<1>. QED  BY <1>2, <1>3, <1>4, <1>5, <1>6, <1>7 DEF Message

-----------------------------------------------------------------------------
(***************************************************************************)
(* Frames.                                                                 *)
(***************************************************************************)

\* The front of two sequences is that of the first.
LEMMA FrontStays ==
    ASSUME NEW h \in Seq(Byte), NEW p \in Seq(Byte), NEW i \in 1..Len(h)
    PROVE  (h \o p)[i] = h[i]
<1>1. Len(h) \in Nat /\ Len(p) \in Nat
  BY LenProperties
<1>2. i \in 1..(Len(h) + Len(p)) /\ i <= Len(h)
  BY <1>1
<1>. QED  BY <1>2, ConcatProperties

\* Four bytes in front of a sequence.
LEMMA FourInFront ==
    ASSUME NEW a \in Byte, NEW b \in Byte, NEW c \in Byte, NEW d \in Byte, NEW p \in Seq(Byte),
           NEW f, f = <<a, b>> \o <<c, d>> \o p
    PROVE  /\ f \in Seq(Byte) /\ Len(f) = 4 + Len(p)
           /\ f[1] = a /\ f[2] = b /\ f[3] = c /\ f[4] = d /\ SubSeq(f, 5, Len(f)) = p
<1>1. PICK h : h = <<a, b>> \o <<c, d>>
  OBVIOUS
<1>2. PICK x, z : /\ x = <<a, b>> /\ x \in Seq(Byte) /\ Len(x) = 2 /\ x[1] = a /\ x[2] = b
                  /\ z = <<c, d>> /\ z \in Seq(Byte) /\ Len(z) = 2 /\ z[1] = c /\ z[2] = d
  <2>1. <<a, b>> \in Seq(Byte) /\ Len(<<a, b>>) = 2 /\ <<a, b>>[1] = a /\ <<a, b>>[2] = b
    OBVIOUS
  <2>2. <<c, d>> \in Seq(Byte) /\ Len(<<c, d>>) = 2 /\ <<c, d>>[1] = c /\ <<c, d>>[2] = d
    OBVIOUS
  <2>. QED  BY <2>1, <2>2
<1>3. h \in Seq(Byte) /\ Len(h) = 4 /\ h[1] = a /\ h[2] = b /\ h[3] = c /\ h[4] = d
  <2>1. /\ x \in Seq(Byte) /\ Len(x) = 2 /\ x[1] = a /\ x[2] = b
        /\ z \in Seq(Byte) /\ Len(z) = 2 /\ z[1] = c /\ z[2] = d /\ h = x \o z
    BY <1>1, <1>2
  <2>2. /\ h \in Seq(Byte) /\ Len(h) = 2 + 2
        /\ \A i \in 1..(2 + 2) : h[i] = IF i <= 2 THEN x[i] ELSE z[i - 2]
    <3>1. /\ x \o z \in Seq(Byte) /\ Len(x \o z) = Len(x) + Len(z)
          /\ \A i \in 1..(Len(x) + Len(z)) :
                (x \o z)[i] = IF i <= Len(x) THEN x[i] ELSE z[i - Len(x)]
      BY <2>1, ConcatProperties
    <3>. QED  BY <2>1, <3>1
  <2>3. h[1] = x[1] /\ h[2] = x[2] /\ h[3] = z[3 - 2] /\ h[4] = z[4 - 2]
    BY <2>2
  <2>. QED  BY <2>1, <2>2, <2>3
<1>4. f = h \o p
  BY <1>1
<1>. HIDE <1>1, <1>2
<1>5. /\ h \o p \in Seq(Byte) /\ Len(h \o p) = Len(h) + Len(p)
      /\ SubSeq(h \o p, Len(h) + 1, Len(h \o p)) = p
  BY <1>3, SplitConcat
<1>6. (h \o p)[1] = a /\ (h \o p)[2] = b /\ (h \o p)[3] = c /\ (h \o p)[4] = d
  <2>1. 1 \in 1..Len(h) /\ 2 \in 1..Len(h) /\ 3 \in 1..Len(h) /\ 4 \in 1..Len(h)
    BY <1>3
  <2>2. (h \o p)[1] = h[1] /\ (h \o p)[2] = h[2] /\ (h \o p)[3] = h[3] /\ (h \o p)[4] = h[4]
    BY <1>3, <2>1, FrontStays
  <2>. QED  BY <1>3, <2>2
<1>7. SubSeq(h \o p, 5, Len(h \o p)) = p /\ Len(h \o p) = 4 + Len(p)
  BY <1>3, <1>5
<1>. QED  BY <1>4, <1>5, <1>6, <1>7

\* A sequence with four bytes or more has them in front.
LEMMA HasFour ==
    ASSUME NEW s \in Seq(Byte), Len(s) >= 4
    PROVE  /\ s[1] \in Byte /\ s[2] \in Byte /\ s[3] \in Byte /\ s[4] \in Byte
           /\ SubSeq(s, 5, Len(s)) \in Seq(Byte) /\ Len(SubSeq(s, 5, Len(s))) = Len(s) - 4
           /\ s = <<s[1], s[2]>> \o <<s[3], s[4]>> \o SubSeq(s, 5, Len(s))
<1>1. Len(s) \in Nat /\ 4 \in 0..Len(s)
  BY LenProperties
<1>2. s[1] \in Byte /\ s[2] \in Byte /\ s[3] \in Byte /\ s[4] \in Byte
  BY <1>1, ElementOfSeq
<1>3. PICK p : p = SubSeq(s, 5, Len(s)) /\ p \in Seq(Byte) /\ Len(p) = Len(s) - 4
  <2>1. PICK n \in 0..Len(s) : n = 4
    BY <1>1
  <2>2. SubSeq(s, n + 1, Len(s)) \in Seq(Byte) /\ Len(SubSeq(s, n + 1, Len(s))) = Len(s) - n
    BY SplitSeq
  <2>3. n + 1 = 5
    BY <2>1
  <2>. QED  BY <2>1, <2>2, <2>3
<1>4. PICK f : f = <<s[1], s[2]>> \o <<s[3], s[4]>> \o p
  OBVIOUS
<1>5. /\ f \in Seq(Byte) /\ Len(f) = 4 + Len(p)
      /\ f[1] = s[1] /\ f[2] = s[2] /\ f[3] = s[3] /\ f[4] = s[4] /\ SubSeq(f, 5, Len(f)) = p
  BY <1>2, <1>3, <1>4, FourInFront
<1>6. Len(f) = Len(s)
  BY <1>1, <1>3, <1>5
<1>7. ASSUME NEW i \in 1..Len(s)  PROVE f[i] = s[i]
  <2>1. CASE i <= 4
    <3>1. i = 1 \/ i = 2 \/ i = 3 \/ i = 4
      BY <1>1, <2>1
    <3>. QED  BY <1>5, <3>1
  <2>2. CASE i > 4
    <3>1. i - 4 \in 1..Len(p) /\ i - 4 \in 1..(Len(s) - 5 + 1) /\ 5 + (i - 4) - 1 = i
      BY <1>1, <1>3, <2>2
    <3>2. SubSeq(s, 5, Len(s))[i - 4] = s[5 + (i - 4) - 1]
      BY <1>1, <3>1
    <3>3. SubSeq(f, 5, Len(f))[i - 4] = f[5 + (i - 4) - 1]
      BY <1>1, <1>6, <3>1
    <3>. QED  BY <1>3, <1>5, <3>1, <3>2, <3>3
  <2>. QED  BY <1>1, <2>1, <2>2
<1>8. f = s
  BY <1>5, <1>6, <1>7, SeqEqual
<1>. QED  BY <1>2, <1>3, <1>4, <1>8

\* A frame: its header, its length and its payload.
LEMMA FrameFacts ==
    ASSUME NEW m, m.type \in MsgTypes, encode_payload(m) \in Seq(Byte), writable(m)
    PROVE  /\ frame(m) \in Seq(Byte) /\ Len(frame(m)) = 4 + Len(encode_payload(m))
           /\ frame(m)[1] = PROTOCOL_VERSION /\ frame(m)[2] = to_u8(m.type)
           /\ from_u16(<<frame(m)[3], frame(m)[4]>>) = Len(encode_payload(m))
           /\ SubSeq(frame(m), 5, Len(frame(m))) = encode_payload(m)
<1>1. PICK p \in Seq(Byte) : p = encode_payload(m)
  OBVIOUS
<1>2. Len(p) \in Nat /\ Len(p) <= MAX_PAYLOAD
  BY <1>1, LenProperties DEF writable
<1>3. Len(p) \in 0..(BASE * BASE - 1)
  <2>1. BASE * BASE \in Nat
    BY WidthAssumption
  <2>. QED  BY <1>2, <2>1, WidthAssumption
<1>4. PICK u : u = u16(Len(p)) /\ u \in Seq(Byte) /\ Len(u) = 2 /\ from_u16(u) = Len(p)
  BY <1>3, U16
<1>5. u[1] \in Byte /\ u[2] \in Byte /\ u = <<u[1], u[2]>>
  BY <1>4, ShortSeqs
<1>6. PROTOCOL_VERSION \in Byte /\ to_u8(m.type) \in Byte
  BY TypeCodes, WidthAssumption DEF Byte
<1>7. PICK f : f = <<PROTOCOL_VERSION, to_u8(m.type)>> \o <<u[1], u[2]>> \o p
  OBVIOUS
<1>8. frame(m) = f
  BY <1>1, <1>4, <1>5, <1>7 DEF frame
<1>9. /\ f \in Seq(Byte) /\ Len(f) = 4 + Len(p)
      /\ f[1] = PROTOCOL_VERSION /\ f[2] = to_u8(m.type) /\ f[3] = u[1] /\ f[4] = u[2]
      /\ SubSeq(f, 5, Len(f)) = p
  BY <1>5, <1>6, <1>7, FourInFront
<1>10. from_u16(<<f[3], f[4]>>) = Len(p)
  BY <1>4, <1>5, <1>9
<1>. QED  BY <1>1, <1>8, <1>9, <1>10

\* A frame is judged by its first four bytes.
LEMMA HeaderJudged ==
    ASSUME NEW s, NEW f, s[1] = f[1], s[2] = f[2], s[3] = f[3], s[4] = f[4]
    PROVE  header_error(s) = header_error(f)
BY DEF header_error

\* A complete frame that is accepted is the encoding of the message it gives.
LEMMA FrameGives ==
    ASSUME NEW s \in Seq(Byte), Len(s) >= 4, header_error(s) = "none",
           Len(s) = 4 + from_u16(<<s[3], s[4]>>),
           NEW d, d = decode_fields(from_u8(s[2]), SubSeq(s, 5, Len(s))), d.err = "none",
           NEW m, m = message_of(from_u8(s[2]), d.vals)
    PROVE  m.type # "Error" => frame(m) = s
<1>1. PICK p \in Seq(Byte) : /\ p = SubSeq(s, 5, Len(s)) /\ Len(p) = Len(s) - 4
                             /\ s = <<s[1], s[2]>> \o <<s[3], s[4]>> \o p
  BY HasFour
<1>2. s[1] = PROTOCOL_VERSION /\ s[2] \in KnownTypes
  BY DEF header_error
<1>3. PICK type \in MsgTypes : type = from_u8(s[2]) /\ to_u8(type) = s[2]
  BY <1>2, TypeCodes
<1>4. m.type = type /\ (type # "Error" => encode_payload(m) = p)
  <2>1. d = decode_fields(type, p) /\ m = message_of(type, d.vals)
    BY <1>1, <1>3
  <2>. QED  BY <2>1, PayloadGives
<1>5. u16(Len(p)) = <<s[3], s[4]>>
  <2>1. s[3] \in Byte /\ s[4] \in Byte
    BY HasFour
  <2>2. u16(from_u16(<<s[3], s[4]>>)) = <<s[3], s[4]>> /\ from_u16(<<s[3], s[4]>>) \in 0..(BASE * BASE - 1)
    BY <2>1, U16
  <2>3. Len(p) = from_u16(<<s[3], s[4]>>)
    <3>1. from_u16(<<s[3], s[4]>>) \in Nat
      BY <2>2, WidthAssumption
    <3>. QED  BY <1>1, <3>1
  <2>. QED  BY <2>2, <2>3
<1>. QED  BY <1>1, <1>2, <1>3, <1>4, <1>5 DEF frame

\* The frame of a message that was written is judged good and read back.
LEMMA FrameRead ==
    ASSUME NEW m \in Message, writable(m), NEW d,
           d = decode_fields(from_u8(frame(m)[2]), SubSeq(frame(m), 5, Len(frame(m))))
    PROVE  /\ header_error(frame(m)) = "none" /\ d.err = "none"
           /\ message_of(from_u8(frame(m)[2]), d.vals) = m
<1>1. Len(encode_payload(m)) <= MAX_PAYLOAD
  BY DEF writable
<1>2. m.type \in MsgTypes /\ encode_payload(m) \in Seq(Byte)
  BY <1>1, PayloadRead
<1>3. /\ frame(m)[1] = PROTOCOL_VERSION /\ frame(m)[2] = to_u8(m.type)
      /\ from_u16(<<frame(m)[3], frame(m)[4]>>) = Len(encode_payload(m))
      /\ SubSeq(frame(m), 5, Len(frame(m))) = encode_payload(m)
  BY <1>2, FrameFacts
<1>4. from_u8(frame(m)[2]) = m.type /\ frame(m)[2] \in KnownTypes
  BY <1>2, <1>3, TypeCodes
<1>5. d = decode_fields(m.type, encode_payload(m))
  BY <1>3, <1>4
<1>6. d.err = "none" /\ message_of(m.type, d.vals) = m
  BY <1>1, <1>5, PayloadRead
<1>7. header_error(frame(m)) = "none"
  <2>1. Len(encode_payload(m)) \in Nat /\ ~(Len(encode_payload(m)) > MAX_PAYLOAD)
    BY <1>1, <1>2, LenProperties, WidthAssumption
  <2>. QED  BY <1>3, <1>4, <2>1 DEF header_error
<1>. QED  BY <1>4, <1>6, <1>7

-----------------------------------------------------------------------------
(***************************************************************************)
(* What is accepted is canonical.                                          *)
(***************************************************************************)

\* Each entry of g is a message with the bytes it is the encoding of.
Canonical(g) == \A i \in DOMAIN g : g[i].msg.type # "Error" => frame(g[i].msg) = g[i].bytes

\* The list of the messages read grows by one.
LEMMA GotGrows ==
    ASSUME NEW S, NEW g \in Seq(S), NEW x
    PROVE  /\ \E T : Append(g, x) \in Seq(T)
           /\ Len(g) \in Nat /\ Len(Append(g, x)) = Len(g) + 1
           /\ DOMAIN g = 1..Len(g) /\ DOMAIN Append(g, x) = 1..(Len(g) + 1)
           /\ \A i \in 1..Len(g) : Append(g, x)[i] = g[i]
           /\ Append(g, x)[Len(g) + 1] = x
<1>1. PICK T : T = S \union {x}
  OBVIOUS
<1>2. g \in Seq(T) /\ x \in T
  BY <1>1, SeqMonotonic
<1>3. /\ Append(g, x) \in Seq(T) /\ Len(Append(g, x)) = Len(g) + 1
      /\ \A i \in 1..Len(g) : Append(g, x)[i] = g[i]
      /\ Append(g, x)[Len(g) + 1] = x
  BY <1>2, AppendProperties
<1>4. Len(g) \in Nat /\ DOMAIN g = 1..Len(g) /\ DOMAIN Append(g, x) = 1..Len(Append(g, x))
  BY <1>2, <1>3, LenProperties
<1>. QED  BY <1>3, <1>4

\* And stays canonical.
LEMMA CanonicalGrows ==
    ASSUME NEW S, NEW g \in Seq(S), NEW x, Canonical(g),
           x.msg.type # "Error" => frame(x.msg) = x.bytes
    PROVE  Canonical(Append(g, x))
<1>1. PICK a : a = Append(g, x)
  OBVIOUS
<1>2. /\ Len(g) \in Nat /\ DOMAIN g = 1..Len(g) /\ DOMAIN a = 1..(Len(g) + 1)
      /\ \A i \in 1..Len(g) : a[i] = g[i]
      /\ a[Len(g) + 1] = x
  BY <1>1, GotGrows
<1>3. ASSUME NEW i \in DOMAIN a, a[i].msg.type # "Error"  PROVE frame(a[i].msg) = a[i].bytes
  <2>1. CASE i = Len(g) + 1
    BY <1>2, <1>3, <2>1
  <2>2. CASE i # Len(g) + 1
    <3>1. i \in 1..Len(g)
      BY <1>2, <2>2
    <3>2. i \in DOMAIN g /\ a[i] = g[i]
      BY <1>2, <3>1
    <3>. QED  BY <1>3, <3>2 DEF Canonical
  <2>. QED  BY <2>1, <2>2
<1>4. Canonical(a)
  BY <1>3 DEF Canonical
<1>. QED  BY <1>1, <1>4

\* The bytes are bytes and the lists are lists; a header that was let pass is
\* a good one.
ByteInv ==
    /\ stream \in Seq(Byte) /\ buf \in Seq(Byte)
    /\ \E S : got \in Seq(S)
    /\ err = "none" /\ Len(buf) >= 4 => header_error(buf) = "none"

CanonInv == ByteInv /\ Canonical(got)

\* The frame of a message that is written is bytes.
LEMMA WrittenIsBytes ==
    ASSUME NEW m \in Message, writable(m)
    PROVE  /\ frame(m) \in Seq(Byte) /\ Len(frame(m)) >= 4
           /\ Len(frame(m)) = 4 + from_u16(<<frame(m)[3], frame(m)[4]>>)
<1>1. Len(encode_payload(m)) <= MAX_PAYLOAD
  BY DEF writable
<1>2. m.type \in MsgTypes /\ encode_payload(m) \in Seq(Byte)
  BY <1>1, PayloadRead
<1>3. Len(encode_payload(m)) \in Nat
  BY <1>2, LenProperties
<1>. QED  BY <1>2, <1>3, FrameFacts

\* The length in a header is a number.
LEMMA LengthIsNumber ==
    ASSUME NEW s \in Seq(Byte), Len(s) >= 4
    PROVE  from_u16(<<s[3], s[4]>>) \in Nat /\ Len(s) \in Nat
<1>1. s[3] \in Byte /\ s[4] \in Byte
  BY HasFour
<1>2. from_u16(<<s[3], s[4]>>) \in 0..(BASE * BASE - 1) /\ BASE * BASE \in Nat
  BY <1>1, U16, WidthAssumption
<1>. QED  BY <1>2, LenProperties

\* Nothing more is asked for when the frame is complete.
LEMMA WantedNothing ==
    ASSUME buf \in Seq(Byte), wanted = 0
    PROVE  Len(buf) >= 4 /\ Len(buf) = 4 + from_u16(<<buf[3], buf[4]>>)
<1>1. Len(buf) \in Nat
  BY LenProperties
<1>2. Len(buf) >= 4
  BY <1>1 DEF wanted
<1>3. from_u16(<<buf[3], buf[4]>>) \in Nat
  BY <1>2, LengthIsNumber
<1>4. 4 + from_u16(<<buf[3], buf[4]>>) - Len(buf) = 0
  BY <1>1, <1>2 DEF wanted
<1>. QED  BY <1>1, <1>2, <1>3, <1>4

\* What a read does to the two ends of the stream.
LEMMA ReadMoves ==
    ASSUME ByteInv, read_exact
    PROVE  /\ \E n \in 1..Len(stream) : /\ buf' = buf \o SubSeq(stream, 1, n)
                                        /\ stream' = SubSeq(stream, n + 1, Len(stream))
           /\ buf' \in Seq(Byte) /\ stream' \in Seq(Byte)
           /\ Len(buf') >= 4 /\ Len(buf) >= 4 => header_error(buf') = header_error(buf)
           /\ Len(buf') >= 4 /\ Len(buf) < 4 => Len(buf') = 4
           /\ Len(buf) \in Nat /\ Len(buf') \in Nat
<1>1. /\ stream \in Seq(Byte) /\ buf \in Seq(Byte) /\ Len(stream) \in Nat /\ Len(buf) \in Nat
  BY LenProperties DEF ByteInv
<1>2. PICK n \in 1..Len(stream) : /\ n <= wanted /\ buf' = buf \o SubSeq(stream, 1, n)
                                  /\ stream' = SubSeq(stream, n + 1, Len(stream))
  BY DEF read_exact
<1>3. PICK v : /\ v = SubSeq(stream, 1, n) /\ v \in Seq(Byte) /\ Len(v) = n
               /\ SubSeq(stream, n + 1, Len(stream)) \in Seq(Byte)
  <2>1. n \in 0..Len(stream)
    BY <1>1
  <2>. QED  BY <1>1, <2>1, SplitSeq
<1>4. PICK b : b = buf'
  OBVIOUS
<1>5. b = buf \o v /\ b \in Seq(Byte) /\ Len(b) = Len(buf) + n
  <2>1. buf \o v \in Seq(Byte) /\ Len(buf \o v) = Len(buf) + Len(v)
    BY <1>1, <1>3, ConcatProperties
  <2>. QED  BY <1>2, <1>3, <1>4, <2>1
<1>6. ASSUME Len(buf) >= 4  PROVE header_error(b) = header_error(buf)
  <2>1. 1 \in 1..Len(buf) /\ 2 \in 1..Len(buf) /\ 3 \in 1..Len(buf) /\ 4 \in 1..Len(buf)
    BY <1>1, <1>6
  <2>2. b[1] = buf[1] /\ b[2] = buf[2] /\ b[3] = buf[3] /\ b[4] = buf[4]
    BY <1>1, <1>3, <1>5, <2>1, FrontStays
  <2>. QED  BY <2>2, HeaderJudged
<1>7. ASSUME Len(buf) < 4, Len(b) >= 4  PROVE Len(b) = 4
  <2>1. n <= 4 - Len(buf)
    BY <1>2, <1>7 DEF wanted
  <2>. QED  BY <1>1, <1>5, <1>7, <2>1
<1>8. Len(b) \in Nat
  BY <1>5, LenProperties
<1>. QED  BY <1>1, <1>2, <1>3, <1>4, <1>5, <1>6, <1>7, <1>8

\* ByteInv holds at the start and every step keeps it.
LEMMA ByteInit == WireInit => ByteInv
<1>1. <<>> \in Seq(Byte) /\ Len(<<>>) = 0
  BY EmptySeq
<1>. QED  BY <1>1 DEF WireInit, ByteInv

\* Every step keeps it.
LEMMA ByteStep ==
    ASSUME ByteInv, [WireNext]_wireVars
    PROVE  ByteInv'
<1>0. /\ stream \in Seq(Byte) /\ buf \in Seq(Byte) /\ Len(stream) \in Nat /\ Len(buf) \in Nat
  BY LenProperties DEF ByteInv
<1>1. CASE UNCHANGED wireVars
  BY <1>1 DEF ByteInv, wireVars
<1>2. ASSUME NEW m \in Messages, write(m)  PROVE ByteInv'
  <2>1. stream' \in Seq(Byte)
    <3>1. CASE writable(m)
      <4>1. frame(m) \in Seq(Byte)
        BY <3>1, WrittenIsBytes, MessagesAssumption
      <4>2. stream \o frame(m) \in Seq(Byte)
        BY <1>0, <4>1, ConcatProperties
      <4>. QED  BY <1>2, <3>1, <4>2 DEF write
    <3>2. CASE ~writable(m)
      BY <1>0, <1>2, <3>2 DEF write
    <3>. QED  BY <3>1, <3>2
  <2>. QED  BY <1>2, <2>1 DEF write, ByteInv
<1>3. CASE Cut
  <2>1. stream' \in Seq(Byte)
    BY <1>0, <1>3, SplitSeq DEF Cut
  <2>. QED  BY <1>3, <2>1 DEF Cut, ByteInv
<1>4. CASE Damage
  <2>1. stream' \in Seq(Byte)
    <3>1. PICK i \in DOMAIN stream, b \in 0..(BASE - 1) : stream' = [stream EXCEPT ![i] = b]
      BY <1>4 DEF Damage
    <3>2. i \in 1..Len(stream) /\ b \in Byte
      BY <1>0, LenProperties DEF Byte
    <3>. QED  BY <1>0, <3>1, <3>2, ExceptSeq
  <2>. QED  BY <1>4, <2>1 DEF Damage, ByteInv
<1>5. CASE read_exact
  <2>1. /\ buf' \in Seq(Byte) /\ stream' \in Seq(Byte) /\ Len(buf') \in Nat
        /\ Len(buf') >= 4 /\ Len(buf) >= 4 => header_error(buf') = header_error(buf)
        /\ Len(buf') >= 4 /\ Len(buf) < 4 => Len(buf') = 4
    BY <1>5, ReadMoves
  <2>2. ASSUME err' = "none", Len(buf') >= 4  PROVE header_error(buf') = "none"
    <3>1. CASE Len(buf) < 4
      <4>1. err' = header_error(buf')
        BY <1>5, <2>1, <2>2, <3>1 DEF read_exact
      <4>. QED  BY <2>2, <4>1
    <3>2. CASE Len(buf) >= 4
      <4>1. err = "none" /\ header_error(buf) = "none"
        BY <1>5, <3>2 DEF read_exact, ByteInv
      <4>. QED  BY <2>1, <2>2, <3>2, <4>1
    <3>. QED  BY <1>0, <3>1, <3>2
  <2>3. got' = got
    BY <1>5 DEF read_exact
  <2>. QED  BY <2>1, <2>2, <2>3 DEF ByteInv
<1>6. CASE decode_payload
  <2>1. buf' = <<>> /\ buf' \in Seq(Byte) /\ Len(buf') = 0 /\ stream' = stream
    BY <1>6, EmptySeq DEF decode_payload
  <2>2. PICK S : got \in Seq(S)
    BY DEF ByteInv
  <2>3. \E T : got' \in Seq(T)
    <3>1. got' = got \/ \E x : got' = Append(got, x)
      BY <1>6 DEF decode_payload
    <3>2. ASSUME NEW x, got' = Append(got, x)  PROVE \E T : got' \in Seq(T)
      <4>1. PICK g : g = got
        OBVIOUS
      <4>2. g \in Seq(S)
        BY <2>2, <4>1
      <4>3. \E T : Append(g, x) \in Seq(T)
        BY <4>2, GotGrows
      <4>. QED  BY <3>2, <4>1, <4>3
    <3>. QED  BY <2>2, <3>1, <3>2
  <2>. QED  BY <1>0, <2>1, <2>3 DEF ByteInv
<1>7. CASE ReadFails
  BY <1>7 DEF ReadFails, ByteInv
<1>. QED  BY <1>1, <1>2, <1>3, <1>4, <1>5, <1>6, <1>7 DEF WireNext

\* Canonical holds at the start, and only a read payload adds to the list.
LEMMA CanonStep ==
    ASSUME CanonInv, [WireNext]_wireVars
    PROVE  Canonical(got)'
<1>0. ByteInv /\ Canonical(got)
  BY DEF CanonInv
<1>1. CASE decode_payload
  <2>1. PICK S : got \in Seq(S)
    BY <1>0 DEF ByteInv
  <2>2. Len(buf) >= 4 /\ Len(buf) = 4 + from_u16(<<buf[3], buf[4]>>)
    BY <1>0, <1>1, WantedNothing DEF ByteInv, decode_payload
  <2>3. buf \in Seq(Byte) /\ header_error(buf) = "none"
    BY <1>0, <1>1, <2>2 DEF ByteInv, decode_payload
  <2>4. PICK d : d = decode_fields(from_u8(buf[2]), SubSeq(buf, 5, Len(buf)))
    OBVIOUS
  <2>5. PICK m : m = message_of(from_u8(buf[2]), d.vals)
    OBVIOUS
  <2>6. CASE d.err = "none"
    <3>1. got' = Append(got, [msg |-> m, bytes |-> buf])
      BY <1>1, <2>4, <2>5, <2>6 DEF decode_payload
    <3>2. m.type # "Error" => frame(m) = buf
      BY <2>2, <2>3, <2>4, <2>5, <2>6, FrameGives
    <3>3. PICK x, g : x = [msg |-> m, bytes |-> buf] /\ g = got
      OBVIOUS
    <3>4. x.msg = m /\ x.bytes = buf
      BY <3>3
    <3>5. Canonical(Append(g, x))
      BY <1>0, <2>1, <3>2, <3>3, <3>4, CanonicalGrows
    <3>6. got' = Append(g, x)
      BY <3>1, <3>3
    <3>. QED  BY <3>5, <3>6
  <2>7. CASE d.err # "none"
    <3>1. got' = got
      BY <1>1, <2>4, <2>7 DEF decode_payload
    <3>. QED  BY <1>0, <3>1
  <2>. QED  BY <2>6, <2>7
<1>2. CASE ~decode_payload
  <2>1. got' = got
    BY <1>2 DEF WireNext, wireVars, write, Cut, Damage, read_exact, ReadFails
  <2>. QED  BY <1>0, <2>1
<1>. QED  BY <1>1, <1>2

\* A message has one encoding, for any sizes of the fields and any width of a
\* byte, however the bytes arrive and whichever of them was changed: what the
\* reader accepts is what the writer would have written (decode_from, take_lv,
\* expect_end against encode_into).
THEOREM AcceptedStaysCanonical == WireSpec => []AcceptedIsCanonical
<1>1. WireInit => CanonInv
  <2>1. WireInit => got = <<>> /\ DOMAIN got = {}
    BY DEF WireInit
  <2>. QED  BY <2>1, ByteInit DEF CanonInv, Canonical
<1>2. CanonInv /\ [WireNext]_wireVars => CanonInv'
  BY ByteStep, CanonStep DEF CanonInv
<1>3. CanonInv => AcceptedIsCanonical
  BY DEF CanonInv, Canonical, AcceptedIsCanonical
<1>. QED  BY <1>1, <1>2, <1>3, PTL DEF WireSpec

-----------------------------------------------------------------------------
(***************************************************************************)
(* What is read is what was written.                                       *)
(***************************************************************************)

\* rem[j] is what is left of the bytes when the first j messages of ms are
\* taken off, for every j from k on: nothing in the end, and before that a
\* frame and what is left behind it.
Laid(rem, ms, k) ==
    /\ rem \in [Nat -> Seq(Byte)] /\ rem[Len(ms)] = <<>>
    /\ \A j \in Nat : k <= j /\ j < Len(ms) => rem[j] = Cat(frame(ms[j + 1]), rem[j + 1])

\* The bytes b in the reader's hand and the bytes s on their way are the frames
\* of the messages of ms after the k-th, cut off somewhere if the connection is
\* not open any more.
OnWay(b, s, o, ms, k) ==
    \E rem, cut : /\ Laid(rem, ms, k) /\ cut \in Seq(Byte)
                  /\ rem[k] = Cat(b, Cat(s, cut)) /\ (o => cut = <<>>)

\* Messages that were written.
Written(ms) == ms \in Seq(Message) /\ \A j \in 1..Len(ms) : writable(ms[j])

\* A message that is written is one of those, and the others stay.
LEMMA WrittenGrows ==
    ASSUME NEW ms, Written(ms), NEW m \in Message, writable(m)
    PROVE  /\ Written(Append(ms, m)) /\ Len(ms) \in Nat /\ Len(Append(ms, m)) = Len(ms) + 1
           /\ \A j \in 1..Len(ms) : Append(ms, m)[j] = ms[j]
           /\ Append(ms, m)[Len(ms) + 1] = m
<1>1. ms \in Seq(Message) /\ Len(ms) \in Nat
  BY LenProperties DEF Written
<1>2. PICK a : a = Append(ms, m)
  OBVIOUS
<1>3. /\ a \in Seq(Message) /\ Len(a) = Len(ms) + 1
      /\ \A j \in 1..Len(ms) : a[j] = ms[j]
      /\ a[Len(ms) + 1] = m
  BY <1>1, <1>2, AppendProperties
<1>4. ASSUME NEW j \in 1..Len(a)  PROVE writable(a[j])
  <2>1. CASE j = Len(ms) + 1
    BY <1>3, <2>1
  <2>2. CASE j # Len(ms) + 1
    <3>1. j \in 1..Len(ms)
      BY <1>1, <1>3, <2>2
    <3>. QED  BY <1>3, <3>1 DEF Written
  <2>. QED  BY <2>1, <2>2
<1>5. Written(a)
  BY <1>3, <1>4 DEF Written
<1>. QED  BY <1>1, <1>2, <1>3, <1>5

\* The frames of the messages that were written are bytes.
LEMMA WrittenFrames ==
    ASSUME NEW ms, Written(ms), NEW j \in Nat, j < Len(ms)
    PROVE  /\ ms[j + 1] \in Message /\ writable(ms[j + 1])
           /\ frame(ms[j + 1]) \in Seq(Byte) /\ Len(frame(ms[j + 1])) >= 4
<1>1. ms \in Seq(Message) /\ Len(ms) \in Nat
  BY LenProperties DEF Written
<1>2. j + 1 \in 1..Len(ms)
  BY <1>1
<1>3. ms[j + 1] \in Message /\ writable(ms[j + 1])
  BY <1>1, <1>2, ElementOfSeq DEF Written
<1>. QED  BY <1>3, WrittenIsBytes

\* Nothing was written: nothing is on its way.
LEMMA NothingOnWay == OnWay(<<>>, <<>>, TRUE, <<>>, 0)
<1>1. <<>> \in Seq(Byte) /\ Len(<<>>) = 0 /\ Cat(<<>>, <<>>) = <<>>
  BY EmptySeq, CatEmpty
<1>2. PICK rem : rem = [j \in Nat |-> <<>>]
  OBVIOUS
<1>3. rem \in [Nat -> Seq(Byte)] /\ rem[0] = <<>>
  BY <1>1, <1>2
<1>4. Laid(rem, <<>>, 0)
  BY <1>1, <1>3 DEF Laid
<1>5. rem[0] = Cat(<<>>, Cat(<<>>, <<>>))
  BY <1>1, <1>3
<1>. QED  BY <1>1, <1>4, <1>5 DEF OnWay

\* A write puts its frame behind all that is on its way.
LEMMA WriteLays ==
    ASSUME NEW b \in Seq(Byte), NEW s \in Seq(Byte), NEW ms, Written(ms), NEW k \in Nat,
           k <= Len(ms), OnWay(b, s, TRUE, ms, k), NEW m \in Message, writable(m)
    PROVE  OnWay(b, Cat(s, frame(m)), TRUE, Append(ms, m), k)
<1>1. PICK a : a = Append(ms, m)
  OBVIOUS
<1>2. /\ Len(ms) \in Nat /\ Len(a) = Len(ms) + 1 /\ a[Len(ms) + 1] = m
      /\ \A j \in 1..Len(ms) : a[j] = ms[j]
  BY <1>1, WrittenGrows
<1>3. PICK f : f = frame(m) /\ f \in Seq(Byte)
  BY WrittenIsBytes
<1>4. PICK rem : Laid(rem, ms, k) /\ rem[k] = Cat(b, Cat(s, <<>>))
  BY DEF OnWay
<1>5. /\ rem \in [Nat -> Seq(Byte)] /\ rem[Len(ms)] = <<>>
      /\ \A j \in Nat : k <= j /\ j < Len(ms) => rem[j] = Cat(frame(ms[j + 1]), rem[j + 1])
  BY <1>4 DEF Laid
<1>6. PICK new : new = [j \in Nat |-> IF j <= Len(ms) THEN Cat(rem[j], f) ELSE <<>>]
  OBVIOUS
<1>7. <<>> \in Seq(Byte) /\ Cat(<<>>, f) = f /\ Cat(f, <<>>) = f
  BY <1>3, EmptySeq, ConcatEmptySeq DEF Cat
<1>8. new \in [Nat -> Seq(Byte)]
  <2>1. ASSUME NEW j \in Nat  PROVE Cat(rem[j], f) \in Seq(Byte)
    <3>1. rem[j] \in Seq(Byte)
      BY <1>5
    <3>. QED  BY <1>3, <3>1, Len2
  <2>. QED  BY <1>6, <1>7, <2>1
<1>9. new[Len(a)] = <<>>
  <2>1. Len(ms) + 1 \in Nat /\ ~(Len(ms) + 1 <= Len(ms))
    BY <1>2
  <2>. QED  BY <1>2, <1>6, <2>1
<1>10. ASSUME NEW j \in Nat, k <= j, j < Len(a)
       PROVE  new[j] = Cat(frame(a[j + 1]), new[j + 1])
  <2>1. CASE j = Len(ms)
    <3>1. new[j] = f
      BY <1>2, <1>5, <1>6, <1>7, <2>1
    <3>2. new[j + 1] = <<>> /\ frame(a[j + 1]) = f
      BY <1>2, <1>3, <1>9, <2>1
    <3>. QED  BY <1>7, <3>1, <3>2
  <2>2. CASE j # Len(ms)
    <3>1. j < Len(ms) /\ j + 1 \in Nat /\ j + 1 <= Len(ms) /\ j + 1 \in 1..Len(ms) /\ j <= Len(ms)
      BY <1>2, <1>10, <2>2
    <3>2. PICK g : g = frame(ms[j + 1]) /\ g \in Seq(Byte)
      BY <3>1, WrittenFrames
    <3>3. PICK z : z = rem[j + 1] /\ z \in Seq(Byte)
      BY <1>5, <3>1
    <3>4. rem[j] = Cat(g, z)
      BY <1>5, <1>10, <3>1, <3>2, <3>3
    <3>5. new[j] = Cat(Cat(g, z), f) /\ new[j + 1] = Cat(z, f)
      BY <1>6, <3>1, <3>3, <3>4
    <3>6. Cat(Cat(g, z), f) = Cat(g, Cat(z, f))
      BY <1>3, <3>2, <3>3, Join2
    <3>7. frame(a[j + 1]) = g
      BY <1>2, <3>1, <3>2
    <3>. QED  BY <3>5, <3>6, <3>7
  <2>. QED  BY <2>1, <2>2
<1>11. Laid(new, a, k)
  BY <1>8, <1>9, <1>10 DEF Laid
<1>12. new[k] = Cat(b, Cat(Cat(s, f), <<>>))
  <2>1. Cat(s, <<>>) = s
    BY CatEmpty
  <2>2. PICK u : u = Cat(s, f) /\ u \in Seq(Byte)
    BY <1>3, Len2
  <2>3. Cat(u, <<>>) = u
    BY <2>2, CatEmpty
  <2>4. new[k] = Cat(Cat(b, s), f)
    BY <1>4, <1>6, <2>1
  <2>5. Cat(Cat(b, s), f) = Cat(b, Cat(s, f))
    BY <1>3, Join2
  <2>. QED  BY <2>2, <2>3, <2>4, <2>5
<1>13. OnWay(b, Cat(s, f), TRUE, a, k)
  BY <1>7, <1>11, <1>12 DEF OnWay
<1>. QED  BY <1>1, <1>3, <1>13

\* A break cuts off what is behind it.
LEMMA CutLays ==
    ASSUME NEW b \in Seq(Byte), NEW v \in Seq(Byte), NEW w \in Seq(Byte), NEW ms, NEW k,
           OnWay(b, Cat(v, w), TRUE, ms, k)
    PROVE  OnWay(b, v, FALSE, ms, k)
<1>1. PICK rem : Laid(rem, ms, k) /\ rem[k] = Cat(b, Cat(Cat(v, w), <<>>))
  BY DEF OnWay
<1>2. PICK u : u = Cat(v, w) /\ u \in Seq(Byte)
  BY Len2
<1>3. Cat(u, <<>>) = u
  BY <1>2, CatEmpty
<1>4. rem[k] = Cat(b, Cat(v, w))
  BY <1>1, <1>2, <1>3
<1>. QED  BY <1>1, <1>4 DEF OnWay

\* A read moves bytes from the one to the other.
LEMMA ReadLays ==
    ASSUME NEW b \in Seq(Byte), NEW v \in Seq(Byte), NEW w \in Seq(Byte), NEW o, NEW ms, NEW k,
           OnWay(b, Cat(v, w), o, ms, k)
    PROVE  OnWay(Cat(b, v), w, o, ms, k)
<1>1. PICK rem, cut : /\ Laid(rem, ms, k) /\ cut \in Seq(Byte)
                      /\ rem[k] = Cat(b, Cat(Cat(v, w), cut)) /\ (o => cut = <<>>)
  BY DEF OnWay
<1>2. PICK z : z = Cat(w, cut) /\ z \in Seq(Byte)
  BY <1>1, Len2
<1>3. Cat(Cat(v, w), cut) = Cat(v, z)
  <2>1. cut \in Seq(Byte)
    BY <1>1
  <2>. QED  BY <1>2, <2>1, Join2
<1>4. Cat(Cat(b, v), z) = Cat(b, Cat(v, z))
  BY <1>2, Join2
<1>5. rem[k] = Cat(Cat(b, v), Cat(w, cut))
  BY <1>1, <1>2, <1>3, <1>4
<1>. QED  BY <1>1, <1>5 DEF OnWay

\* Two ways to divide the same bytes agree where both have a front.
LEMMA SameFront ==
    ASSUME NEW b \in Seq(Byte), NEW z \in Seq(Byte), NEW f \in Seq(Byte), NEW w \in Seq(Byte),
           Cat(b, z) = Cat(f, w)
    PROVE  /\ \A i \in 1..Len(b) : i <= Len(f) => b[i] = f[i]
           /\ Len(b) = Len(f) => b = f /\ z = w
<1>1. Len(b) \in Nat /\ Len(f) \in Nat
  BY LenProperties
<1>2. ASSUME NEW i \in 1..Len(b), i <= Len(f)  PROVE b[i] = f[i]
  <2>1. i \in 1..Len(f)
    BY <1>1, <1>2
  <2>2. (b \o z)[i] = b[i]
    BY FrontStays
  <2>3. (f \o w)[i] = f[i]
    BY <2>1, FrontStays
  <2>. QED  BY <2>2, <2>3 DEF Cat
<1>3. ASSUME Len(b) = Len(f)  PROVE b = f /\ z = w
  <2>1. SubSeq(b \o z, 1, Len(b)) = b /\ SubSeq(b \o z, Len(b) + 1, Len(b \o z)) = z
    BY SplitConcat
  <2>2. SubSeq(f \o w, 1, Len(f)) = f /\ SubSeq(f \o w, Len(f) + 1, Len(f \o w)) = w
    BY SplitConcat
  <2>. QED  BY <1>3, <2>1, <2>2 DEF Cat
<1>. QED  BY <1>2, <1>3

\* Bytes in the reader's hand belong to the frame of the next message.
LEMMA NextFrame ==
    ASSUME NEW b \in Seq(Byte), NEW s \in Seq(Byte), NEW o, NEW ms, Written(ms), NEW k \in Nat,
           k <= Len(ms), OnWay(b, s, o, ms, k), Len(b) > 0
    PROVE  /\ k < Len(ms)
           /\ \A i \in 1..Len(b) : i <= Len(frame(ms[k + 1])) => b[i] = frame(ms[k + 1])[i]
           /\ Len(b) = Len(frame(ms[k + 1])) =>
                 b = frame(ms[k + 1]) /\ OnWay(<<>>, s, o, ms, k + 1)
<1>1. PICK rem, cut : /\ Laid(rem, ms, k) /\ cut \in Seq(Byte)
                      /\ rem[k] = Cat(b, Cat(s, cut)) /\ (o => cut = <<>>)
  BY DEF OnWay
<1>2. /\ rem \in [Nat -> Seq(Byte)] /\ rem[Len(ms)] = <<>>
      /\ \A j \in Nat : k <= j /\ j < Len(ms) => rem[j] = Cat(frame(ms[j + 1]), rem[j + 1])
  BY <1>1 DEF Laid
<1>3. PICK z : z = Cat(s, cut) /\ z \in Seq(Byte)
  BY <1>1, Len2
<1>4. Len(ms) \in Nat
  BY LenProperties DEF Written
<1>5. k < Len(ms)
  <2>. SUFFICES ASSUME k = Len(ms)  PROVE FALSE
    BY <1>4
  <2>1. Cat(b, z) = <<>>
    BY <1>1, <1>2, <1>3
  <2>2. Len(Cat(b, z)) = Len(b) + Len(z) /\ Len(b) \in Nat /\ Len(z) \in Nat
    BY <1>3, Len2
  <2>3. Len(<<>>) = 0
    BY EmptySeq
  <2>. QED  BY <2>1, <2>2, <2>3
<1>6. PICK f : f = frame(ms[k + 1]) /\ f \in Seq(Byte)
  BY <1>5, WrittenFrames
<1>7. PICK w : w = rem[k + 1] /\ w \in Seq(Byte)
  <2>1. k + 1 \in Nat /\ rem \in [Nat -> Seq(Byte)]
    BY <1>2
  <2>2. rem[k + 1] \in Seq(Byte)
    BY <2>1
  <2>. QED  BY <2>2
<1>8. Cat(b, z) = Cat(f, w)
  <2>1. k <= k
    OBVIOUS
  <2>. QED  BY <1>1, <1>2, <1>3, <1>5, <1>6, <1>7, <2>1
<1>9. /\ \A i \in 1..Len(b) : i <= Len(f) => b[i] = f[i]
      /\ Len(b) = Len(f) => b = f /\ z = w
  BY <1>3, <1>6, <1>7, <1>8, SameFront
<1>10. ASSUME Len(b) = Len(f)  PROVE OnWay(<<>>, s, o, ms, k + 1)
  <2>1. rem[k + 1] = z
    BY <1>7, <1>9, <1>10
  <2>2. Cat(<<>>, z) = z
    BY <1>3, ConcatEmptySeq DEF Cat
  <2>3. rem[k + 1] = Cat(<<>>, Cat(s, cut))
    BY <1>3, <2>1, <2>2
  <2>4. Laid(rem, ms, k + 1)
    <3>1. \A j \in Nat : k + 1 <= j => k <= j
      OBVIOUS
    <3>. QED  BY <1>2, <3>1 DEF Laid
  <2>. QED  BY <1>1, <2>3, <2>4 DEF OnWay
<1>. QED  BY <1>5, <1>6, <1>9, <1>10

\* The messages read so far are the first of those written.
FirstOf(g, ms) == Len(g) <= Len(ms) /\ \A i \in 1..Len(g) : g[i].msg = ms[i]

\* Reading so far: no error but one of the transport, the messages read are the
\* first of those written, and the frames of the others are on their way.
Faithful ==
    /\ err \in {"none", "Io"} /\ FirstOf(got, sent)
    /\ OnWay(buf, stream, open, sent, Len(got))

FlowInv == ByteInv /\ Written(sent) /\ (~damaged => Faithful)

\* The invariant holds at the start.
LEMMA FlowInit == WireInit => FlowInv
<1>. SUFFICES ASSUME WireInit  PROVE FlowInv
  OBVIOUS
<1>1. /\ sent = <<>> /\ stream = <<>> /\ open = TRUE /\ buf = <<>> /\ got = <<>> /\ err = "none"
  BY DEF WireInit
<1>2. Len(<<>>) = 0 /\ <<>> \in Seq(Message)
  BY EmptySeq
<1>3. Written(<<>>) /\ FirstOf(<<>>, <<>>)
  <2>1. 1..0 = {}
    OBVIOUS
  <2>. QED  BY <1>2, <2>1 DEF Written, FirstOf
<1>4. OnWay(buf, stream, open, sent, Len(got))
  BY <1>1, <1>2, NothingOnWay
<1>. QED  BY <1>1, <1>3, <1>4, ByteInit DEF FlowInv, Faithful

\* How many messages were written and read.
LEMMA Counts ==
    ASSUME FlowInv
    PROVE  /\ stream \in Seq(Byte) /\ buf \in Seq(Byte) /\ Len(buf) \in Nat
           /\ Written(sent) /\ Len(sent) \in Nat /\ Len(got) \in Nat
<1>1. stream \in Seq(Byte) /\ buf \in Seq(Byte) /\ Written(sent)
  BY DEF FlowInv, ByteInv
<1>2. PICK S : got \in Seq(S)
  BY DEF FlowInv, ByteInv
<1>3. Len(got) \in Nat /\ Len(buf) \in Nat
  BY <1>1, <1>2, LenProperties
<1>4. Len(sent) \in Nat
  BY <1>1, LenProperties DEF Written
<1>. QED  BY <1>1, <1>3, <1>4

\* A write keeps it: its frame goes behind the others.
LEMMA FlowWrite ==
    ASSUME FlowInv, NEW m \in Messages, write(m)
    PROVE  Written(sent)' /\ (~damaged' => Faithful')
<1>0. m \in Message
  BY MessagesAssumption
<1>1. CASE ~writable(m)
  <2>1. UNCHANGED wireVars
    BY <1>1 DEF write, wireVars
  <2>. QED  BY <2>1 DEF FlowInv, Faithful, wireVars
<1>2. CASE writable(m)
  <2>1. PICK ms, s : ms = sent /\ s = stream
    OBVIOUS
  <2>2. PICK a, t : a = Append(ms, m) /\ t = Cat(s, frame(m))
    OBVIOUS
  <2>3. sent' = a /\ stream' = t
    BY <1>2, <2>1, <2>2 DEF write, Cat
  <2>4. /\ Written(a) /\ Len(ms) \in Nat /\ Len(a) = Len(ms) + 1
        /\ \A j \in 1..Len(ms) : a[j] = ms[j]
    BY <1>0, <1>2, <2>1, <2>2, Counts, WrittenGrows
  <2>5. ASSUME ~damaged'  PROVE Faithful'
    <3>1. /\ ~damaged /\ open /\ open' = open /\ buf' = buf /\ got' = got /\ err' = err
      BY <2>5 DEF write
    <3>2. Faithful
      BY <3>1 DEF FlowInv
    <3>3. PICK k \in Nat : k = Len(got)
      BY Counts
    <3>4. PICK b \in Seq(Byte) : b = buf
      BY Counts
    <3>5. OnWay(b, s, TRUE, ms, k) /\ k <= Len(ms)
      BY <2>1, <3>1, <3>2, <3>3, <3>4 DEF Faithful, FirstOf, OnWay
    <3>6. OnWay(b, t, TRUE, a, k)
      BY <1>0, <1>2, <2>1, <2>2, <3>5, Counts, WriteLays
    <3>7. OnWay(buf', stream', open', sent', Len(got'))
      BY <2>3, <3>1, <3>3, <3>4, <3>6 DEF OnWay
    <3>8. FirstOf(got, a)
      <4>1. k <= Len(a) /\ 1..k \subseteq 1..Len(ms)
        BY <2>4, <3>5
      <4>. QED  BY <2>1, <2>4, <3>2, <3>3, <4>1 DEF Faithful, FirstOf
    <3>9. FirstOf(got', sent') /\ err' \in {"none", "Io"}
      BY <2>3, <3>1, <3>2, <3>8 DEF Faithful
    <3>. QED  BY <3>7, <3>9 DEF Faithful
  <2>. QED  BY <2>3, <2>4, <2>5
<1>. QED  BY <1>1, <1>2

\* A break keeps it: the frames are cut off, none is changed.
LEMMA FlowCut ==
    ASSUME FlowInv, Cut
    PROVE  Written(sent)' /\ (~damaged' => Faithful')
<1>1. /\ open /\ open' = FALSE /\ sent' = sent /\ damaged' = damaged /\ buf' = buf
      /\ got' = got /\ err' = err
  BY DEF Cut
<1>2. Written(sent)'
  BY <1>1, Counts
<1>3. ASSUME ~damaged'  PROVE Faithful'
  <2>1. Faithful
    BY <1>1, <1>3 DEF FlowInv
  <2>2. PICK n \in 0..Len(stream) : stream' = SubSeq(stream, 1, n)
    BY DEF Cut
  <2>3. PICK v, w : /\ v = SubSeq(stream, 1, n) /\ v \in Seq(Byte) /\ w \in Seq(Byte)
                    /\ stream = Cat(v, w)
    <3>1. PICK s \in Seq(Byte) : s = stream
      BY Counts
    <3>2. n \in 0..Len(s)
      BY <3>1
    <3>3. PICK v, w : v = SubSeq(s, 1, n) /\ w = SubSeq(s, n + 1, Len(s))
      OBVIOUS
    <3>4. v \in Seq(Byte) /\ w \in Seq(Byte) /\ v \o w = s
      BY <3>2, <3>3, SplitSeq
    <3>. QED  BY <3>1, <3>3, <3>4 DEF Cat
  <2>4. PICK b \in Seq(Byte) : b = buf
    BY Counts
  <2>5. PICK k, ms : k = Len(got) /\ ms = sent
    OBVIOUS
  <2>6. OnWay(b, Cat(v, w), TRUE, ms, k)
    BY <1>1, <2>1, <2>3, <2>4, <2>5 DEF Faithful, OnWay
  <2>7. OnWay(b, v, FALSE, ms, k)
    BY <2>3, <2>6, CutLays
  <2>8. OnWay(buf', stream', open', sent', Len(got'))
    BY <1>1, <2>2, <2>3, <2>4, <2>5, <2>7
  <2>. QED  BY <1>1, <2>1, <2>8 DEF Faithful
<1>. QED  BY <1>2, <1>3

\* Bytes taken up to a header or beyond are those of a written frame, so that
\* the header is good.
LEMMA HeaderOnWay ==
    ASSUME NEW b \in Seq(Byte), NEW s \in Seq(Byte), NEW o, NEW ms, Written(ms), NEW k \in Nat,
           k <= Len(ms), OnWay(b, s, o, ms, k), Len(b) >= 4
    PROVE  /\ k < Len(ms) /\ header_error(b) = "none"
           /\ ms[k + 1] \in Message /\ writable(ms[k + 1])
           /\ Len(b) = 4 + from_u16(<<b[3], b[4]>>) =>
                 b = frame(ms[k + 1]) /\ OnWay(<<>>, s, o, ms, k + 1)
<1>1. Len(b) \in Nat /\ Len(b) > 0
  BY LenProperties
<1>2. /\ k < Len(ms)
      /\ \A i \in 1..Len(b) : i <= Len(frame(ms[k + 1])) => b[i] = frame(ms[k + 1])[i]
      /\ Len(b) = Len(frame(ms[k + 1])) =>
            b = frame(ms[k + 1]) /\ OnWay(<<>>, s, o, ms, k + 1)
  BY <1>1, NextFrame
<1>3. ms[k + 1] \in Message /\ writable(ms[k + 1])
  BY <1>2, WrittenFrames
<1>4. PICK m \in Message : m = ms[k + 1] /\ writable(m)
  BY <1>3
<1>5. PICK f : /\ f = frame(m) /\ f \in Seq(Byte) /\ Len(f) >= 4
               /\ Len(f) = 4 + from_u16(<<f[3], f[4]>>) /\ header_error(f) = "none"
  BY <1>4, WrittenIsBytes, FrameRead
<1>6. b[1] = f[1] /\ b[2] = f[2] /\ b[3] = f[3] /\ b[4] = f[4]
  <2>1. \A i \in 1..Len(b) : i <= Len(f) => b[i] = f[i]
    BY <1>2, <1>4, <1>5
  <2>2. Len(f) \in Nat
    BY <1>5, LenProperties
  <2>3. /\ 1 \in 1..Len(b) /\ 2 \in 1..Len(b) /\ 3 \in 1..Len(b) /\ 4 \in 1..Len(b)
        /\ 1 <= Len(f) /\ 2 <= Len(f) /\ 3 <= Len(f) /\ 4 <= Len(f)
    BY <1>1, <1>5, <2>2
  <2>. QED  BY <2>1, <2>3
<1>7. header_error(b) = "none"
  BY <1>5, <1>6, HeaderJudged
<1>8. Len(b) = 4 + from_u16(<<b[3], b[4]>>) => Len(b) = Len(f)
  BY <1>5, <1>6
<1>. QED  BY <1>2, <1>3, <1>4, <1>5, <1>7, <1>8

\* A read keeps it: the bytes it takes are the next ones, and a header that is
\* complete now is good.
LEMMA FlowRead ==
    ASSUME FlowInv, read_exact
    PROVE  Written(sent)' /\ (~damaged' => Faithful')
<1>1. /\ err = "none" /\ open' = open /\ sent' = sent /\ damaged' = damaged /\ got' = got
      /\ err' = IF Len(buf) < 4 /\ Len(buf') = 4 THEN header_error(buf') ELSE err
  BY DEF read_exact
<1>2. Written(sent)'
  BY <1>1, Counts
<1>3. ASSUME ~damaged'  PROVE Faithful'
  <2>1. Faithful
    BY <1>1, <1>3 DEF FlowInv
  <2>2. PICK n \in 1..Len(stream) : /\ buf' = buf \o SubSeq(stream, 1, n)
                                    /\ stream' = SubSeq(stream, n + 1, Len(stream))
    BY DEF read_exact
  <2>3. PICK v, w : /\ v = SubSeq(stream, 1, n) /\ w = SubSeq(stream, n + 1, Len(stream))
                    /\ v \in Seq(Byte) /\ w \in Seq(Byte) /\ stream = Cat(v, w)
    <3>1. PICK s \in Seq(Byte) : s = stream
      BY Counts
    <3>2. n \in 0..Len(s)
      BY <3>1, LenProperties
    <3>3. PICK v, w : v = SubSeq(s, 1, n) /\ w = SubSeq(s, n + 1, Len(s))
      OBVIOUS
    <3>4. v \in Seq(Byte) /\ w \in Seq(Byte) /\ v \o w = s
      BY <3>2, <3>3, SplitSeq
    <3>. QED  BY <3>1, <3>3, <3>4 DEF Cat
  <2>4. PICK b \in Seq(Byte) : b = buf
    BY Counts
  <2>5. PICK k \in Nat : k = Len(got)
    BY Counts
  <2>6. PICK ms, o : ms = sent /\ o = open
    OBVIOUS
  <2>7. OnWay(b, Cat(v, w), o, ms, k) /\ k <= Len(ms) /\ Written(ms)
    BY <2>1, <2>3, <2>4, <2>5, <2>6, Counts DEF Faithful, FirstOf
  <2>8. PICK c : c = Cat(b, v) /\ c \in Seq(Byte)
    BY <2>3, Len2
  <2>9. buf' = c /\ stream' = w
    BY <2>2, <2>3, <2>4, <2>8 DEF Cat
  <2>10. OnWay(c, w, o, ms, k)
    BY <2>3, <2>7, <2>8, ReadLays
  <2>11. OnWay(buf', stream', open', sent', Len(got'))
    BY <1>1, <2>5, <2>6, <2>9, <2>10
  <2>12. err' = "none"
    <3>1. Len(c) = 4 => header_error(c) = "none"
      <4>. SUFFICES ASSUME Len(c) = 4  PROVE header_error(c) = "none"
        OBVIOUS
      <4>1. Len(c) >= 4
        OBVIOUS
      <4>. QED  BY <2>3, <2>7, <2>8, <2>10, <4>1, HeaderOnWay
    <3>. QED  BY <1>1, <2>9, <3>1
  <2>13. FirstOf(got', sent')
    BY <1>1, <2>1 DEF Faithful
  <2>. QED  BY <2>11, <2>12, <2>13 DEF Faithful
<1>. QED  BY <1>2, <1>3

\* The next message joins those that were read.
LEMMA FirstGrows ==
    ASSUME NEW S, NEW g \in Seq(S), NEW ms, Len(ms) \in Nat, FirstOf(g, ms), Len(g) < Len(ms),
           NEW x, x.msg = ms[Len(g) + 1]
    PROVE  FirstOf(Append(g, x), ms)
<1>1. PICK a : a = Append(g, x)
  OBVIOUS
<1>2. /\ Len(g) \in Nat /\ Len(a) = Len(g) + 1 /\ \A i \in 1..Len(g) : a[i] = g[i]
      /\ a[Len(g) + 1] = x
  BY <1>1, GotGrows
<1>3. ASSUME NEW i \in 1..Len(a)  PROVE a[i].msg = ms[i]
  <2>1. CASE i = Len(g) + 1
    BY <1>2, <2>1
  <2>2. CASE i # Len(g) + 1
    <3>1. i \in 1..Len(g)
      BY <1>2, <2>2
    <3>. QED  BY <1>2, <3>1 DEF FirstOf
  <2>. QED  BY <2>1, <2>2
<1>4. Len(a) <= Len(ms)
  BY <1>2
<1>. QED  BY <1>1, <1>3, <1>4 DEF FirstOf

\* A complete payload keeps it: the frame is the next one that was written, and
\* what is read from it is the message.
LEMMA FlowDecode ==
    ASSUME FlowInv, decode_payload
    PROVE  Written(sent)' /\ (~damaged' => Faithful')
<1>1. /\ err = "none" /\ wanted = 0 /\ buf' = <<>> /\ stream' = stream /\ open' = open
      /\ sent' = sent /\ damaged' = damaged
  BY DEF decode_payload
<1>2. Written(sent)'
  BY <1>1, Counts
<1>3. ASSUME ~damaged'  PROVE Faithful'
  <2>1. Faithful
    BY <1>1, <1>3 DEF FlowInv
  <2>2. PICK b \in Seq(Byte) : /\ b = buf /\ Len(b) >= 4
                               /\ Len(b) = 4 + from_u16(<<b[3], b[4]>>)
    BY <1>1, Counts, WantedNothing
  <2>3. PICK S, g : g = got /\ g \in Seq(S)
    BY DEF FlowInv, ByteInv
  <2>4. PICK k \in Nat : k = Len(g)
    BY <2>3, Counts
  <2>5. PICK ms, o : ms = sent /\ o = open
    OBVIOUS
  <2>6. PICK s \in Seq(Byte) : s = stream
    BY Counts
  <2>7. /\ OnWay(b, s, o, ms, k) /\ FirstOf(g, ms) /\ k <= Len(ms) /\ Written(ms)
        /\ Len(ms) \in Nat
    BY <2>1, <2>2, <2>3, <2>4, <2>5, <2>6, Counts DEF Faithful, FirstOf
  <2>8. /\ k < Len(ms) /\ ms[k + 1] \in Message /\ writable(ms[k + 1])
        /\ b = frame(ms[k + 1]) /\ OnWay(<<>>, s, o, ms, k + 1)
    BY <2>2, <2>7, HeaderOnWay
  <2>9. PICK m \in Message : m = ms[k + 1] /\ writable(m) /\ b = frame(m)
    BY <2>8
  <2>10. PICK d : d = decode_fields(from_u8(b[2]), SubSeq(b, 5, Len(b)))
    OBVIOUS
  <2>11. d.err = "none" /\ message_of(from_u8(b[2]), d.vals) = m
    BY <2>9, <2>10, FrameRead
  <2>12. PICK x : x = [msg |-> m, bytes |-> b]
    OBVIOUS
  <2>13. x.msg = m
    BY <2>12
  <2>14. got' = Append(g, x) /\ err' = err
    BY <2>2, <2>3, <2>10, <2>11, <2>12 DEF decode_payload
  <2>15. PICK a : a = Append(g, x)
    OBVIOUS
  <2>16. FirstOf(a, ms) /\ Len(a) = k + 1
    <3>1. FirstOf(a, ms)
      BY <2>3, <2>4, <2>7, <2>8, <2>9, <2>13, <2>15, FirstGrows
    <3>2. Len(a) = Len(g) + 1
      BY <2>3, <2>15, GotGrows
    <3>. QED  BY <2>4, <3>1, <3>2
  <2>17. got' = a
    BY <2>14, <2>15
  <2>18. OnWay(buf', stream', open', sent', Len(got'))
    BY <1>1, <2>5, <2>6, <2>8, <2>16, <2>17
  <2>19. FirstOf(got', sent') /\ err' \in {"none", "Io"}
    BY <1>1, <2>5, <2>14, <2>16, <2>17
  <2>. QED  BY <2>18, <2>19 DEF Faithful
<1>. QED  BY <1>2, <1>3

\* Every step keeps the invariant.
LEMMA FlowStep ==
    ASSUME FlowInv, [WireNext]_wireVars
    PROVE  FlowInv'
<1>0. ByteInv'
  BY ByteStep DEF FlowInv
<1>1. CASE UNCHANGED wireVars
  BY <1>0, <1>1 DEF FlowInv, Faithful, wireVars
<1>2. ASSUME NEW m \in Messages, write(m)  PROVE FlowInv'
  BY <1>0, <1>2, FlowWrite DEF FlowInv
<1>3. CASE Cut
  BY <1>0, <1>3, FlowCut DEF FlowInv
<1>4. CASE Damage
  <2>1. damaged' = TRUE /\ sent' = sent
    BY <1>4 DEF Damage
  <2>. QED  BY <1>0, <2>1 DEF FlowInv
<1>5. CASE read_exact
  BY <1>0, <1>5, FlowRead DEF FlowInv
<1>6. CASE decode_payload
  BY <1>0, <1>6, FlowDecode DEF FlowInv
<1>7. CASE ReadFails
  BY <1>0, <1>7 DEF ReadFails, FlowInv, Faithful
<1>. QED  BY <1>1, <1>2, <1>3, <1>4, <1>5, <1>6, <1>7 DEF WireNext

\* The first of the messages written are a prefix of them.
LEMMA FirstIsPrefix ==
    ASSUME NEW S, NEW g \in Seq(S), NEW ms \in Seq(Message), FirstOf(g, ms)
    PROVE  IsPrefix([i \in DOMAIN g |-> g[i].msg], ms)
<1>1. Len(g) \in Nat /\ DOMAIN g = 1..Len(g) /\ Len(ms) \in Nat
  BY LenProperties
<1>2. PICK p : p = [i \in 1..Len(g) |-> g[i].msg]
  OBVIOUS
<1>3. p = [i \in 1..Len(g) |-> ms[i]]
  BY <1>2 DEF FirstOf
<1>4. p \in Seq(Message) /\ Len(p) = Len(g)
  <2>1. ASSUME NEW i \in 1..Len(g)  PROVE ms[i] \in Message
    <3>1. i \in 1..Len(ms)
      BY <1>1 DEF FirstOf
    <3>. QED  BY <3>1, ElementOfSeq
  <2>. QED  BY <1>1, <1>3, <2>1
<1>5. Len(p) <= Len(ms)
  BY <1>4 DEF FirstOf
<1>6. SubSeq(p, 1, Len(p)) = SubSeq(ms, 1, Len(p))
  <2>1. SubSeq(p, 1, Len(p)) = [i \in 1..Len(p) |-> p[i]]
    BY <1>1, <1>4
  <2>2. SubSeq(ms, 1, Len(p)) = [i \in 1..Len(p) |-> ms[i]]
    BY <1>1, <1>4, <1>5
  <2>3. \A i \in 1..Len(p) : p[i] = ms[i]
    BY <1>3, <1>4
  <2>. QED  BY <2>1, <2>2, <2>3
<1>7. IsPrefix(p, ms)
  BY <1>5, <1>6 DEF IsPrefix
<1>. QED  BY <1>1, <1>2, <1>7

\* What is read is what was written, for any sizes of the fields, any width of
\* a byte and any number of messages, in whatever pieces the bytes arrive and
\* wherever the connection breaks (Message::write, Message::read).
THEOREM ReadStaysWritten == WireSpec => []ReadIsWritten
<1>1. FlowInv => ReadIsWritten
  <2>. SUFFICES ASSUME FlowInv, ~damaged
                PROVE  IsPrefix([i \in DOMAIN got |-> got[i].msg], sent) /\ err \in {"none", "Io"}
    BY DEF ReadIsWritten
  <2>1. PICK S : got \in Seq(S)
    BY DEF FlowInv, ByteInv
  <2>2. sent \in Seq(Message) /\ FirstOf(got, sent) /\ err \in {"none", "Io"}
    BY DEF FlowInv, Written, Faithful
  <2>. QED  BY <2>1, <2>2, FirstIsPrefix
<1>. QED  BY <1>1, FlowInit, FlowStep, PTL DEF WireSpec
=============================================================================
