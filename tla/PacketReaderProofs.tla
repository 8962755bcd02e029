------------------------- MODULE PacketReaderProofs -------------------------
(***************************************************************************)
(* Proofs about the packet reader, for every alphabet and buffer size: a   *)
(* packet is acknowledged exactly when its checksum is right, and what the *)
(* stub then processes is the payload the host sent.                       *)
(***************************************************************************)
EXTENDS PacketReader, SequenceTheorems, WellFoundedInduction, TLAPS

-----------------------------------------------------------------------------
(* The inductive invariant: how the reader's state describes the bytes since *)
(* the last $.                                                               *)

\* The payload bytes read so far.
Body == SubSeq(since, 2, read_offset + 1)

\* A $ and a payload without # have been read and are in the buffer; the running
\* checksum is that of the payload, and there is room for its NUL.
Framed ==
  /\ Len(since) > read_offset
  /\ since[1] = Dollar
  /\ \A n \in 1 .. read_offset : since[n + 1] # Hash /\ buffer[n - 1] = since[n + 1]
  /\ checksum_value = Sum(Body)[read_offset]
  /\ read_offset + 1 < BufferSize

Parsed ==
  \/ readState = "JUNK" /\ verdict = "more" /\ since = <<>>
  \/ readState = "JUNK" /\ verdict = "refused" /\ Complete(since) /\ ~Correct(since)
  \/ readState = "PACKET_INPROGRESS" /\ verdict = "overflow" /\ since = <<>>
  \/ readState = "PACKET_INPROGRESS" /\ verdict = "more" /\ Framed /\ Len(since) = read_offset + 1
  \/ readState = "CHECKSUM_B1" /\ verdict = "more" /\ Framed /\ Len(since) = read_offset + 2
       /\ since[read_offset + 2] = Hash
  \/ readState = "CHECKSUM_B2" /\ verdict = "more" /\ Framed /\ Len(since) = read_offset + 3
       /\ since[read_offset + 2] = Hash /\ since[read_offset + 3] = checksum
  \/ readState = "CHECKSUM_B2" /\ verdict = "accepted" /\ Framed /\ Len(since) = read_offset + 4
       /\ Correct(since) /\ buffer[read_offset] = 0

IInv == TypeOK /\ Parsed

-----------------------------------------------------------------------------
(* Induction over the naturals, as a property of sets. *)

LEMMA LeastNatural ==
  ASSUME NEW T, T \subseteq Nat, T # {}
  PROVE  \E m \in T : \A n \in T : m <= n
<1> DEFINE R == OpToRel(<, Nat)
<1>1. IsWellFoundedOn(R, Nat)
  BY NatLessThanWellFounded
<1>2. \A x \in T, y \in T : y < x => <<y, x>> \in R
  BY DEF OpToRel
<1> HIDE DEF R
<1>3. \E x \in T : \A y \in T : ~ (<<y, x>> \in R)
  BY <1>1, WFMin
<1>4. PICK x \in T : \A y \in T : ~ (<<y, x>> \in R)
  BY <1>3
<1>5. \A y \in T : ~ (y < x)
  BY <1>2, <1>4
<1>6. \A y \in T : x <= y
  BY <1>5
<1> QED
  BY <1>6

LEMMA Induction ==
  ASSUME NEW S, 0 \in S, \A n \in Nat : n \in S => n + 1 \in S
  PROVE  Nat \subseteq S
<1> SUFFICES ASSUME ~(Nat \subseteq S) PROVE FALSE
  OBVIOUS
<1>1. PICK m \in Nat \ S : \A n \in Nat \ S : m <= n
  BY LeastNatural
<1>2. m # 0 /\ m - 1 \in Nat /\ m - 1 \in S
  BY <1>1
<1> QED
  BY <1>1, <1>2

-----------------------------------------------------------------------------
(* The checksum of a sequence of bytes. *)

\* f is the running checksum of the first m elements of s.
Sums(f, s, m) ==
  /\ f \in [0 .. m -> Byte]
  /\ f[0] = 0
  /\ \A k \in 1 .. m : f[k] = (f[k - 1] + s[k]) % 256

LEMMA SumByte == ASSUME NEW a \in Byte, NEW b \in Byte PROVE (a + b) % 256 \in Byte
BY DEF Byte

LEMMA SumsExist ==
  ASSUME NEW s \in Seq(Byte), NEW m \in Nat, m <= Len(s) PROVE \E f : Sums(f, s, m)
<1> DEFINE S == {n \in Nat : n <= Len(s) => \E f : Sums(f, s, n)}
<1>1. 0 \in S
  <2>1. Sums([k \in 0 .. 0 |-> 0], s, 0)
    BY DEF Sums, Byte
  <2> QED
    BY <2>1
<1>2. ASSUME NEW n \in Nat, n \in S PROVE n + 1 \in S
  <2> SUFFICES ASSUME n + 1 <= Len(s) PROVE \E f : Sums(f, s, n + 1)
    OBVIOUS
  <2>1. PICK f : Sums(f, s, n)
    BY <1>2
  <2> DEFINE c == (f[n] + s[n + 1]) % 256
             g == [k \in 0 .. n + 1 |-> IF k = n + 1 THEN c ELSE f[k]]
  <2>2. c \in Byte
    <3>1. f[n] \in Byte /\ s[n + 1] \in Byte
      BY <2>1 DEF Sums
    <3> QED
      BY <3>1, SumByte
  <2>3. g \in [0 .. n + 1 -> Byte] /\ g[0] = 0
    BY <2>1, <2>2 DEF Sums
  <2>4. ASSUME NEW k \in 1 .. n + 1 PROVE g[k] = (g[k - 1] + s[k]) % 256
    BY <2>1 DEF Sums
  <2> QED
    BY <2>3, <2>4 DEF Sums
<1>3. Nat \subseteq S
  <2> HIDE DEF S
  <2> QED
    BY <1>1, <1>2, Induction
<1> QED
  BY <1>3

\* The recursive definition of Sum has its intended meaning.
LEMMA SumMeaning == ASSUME NEW s \in Seq(Byte) PROVE Sums(Sum(s), s, Len(s))
<1> DEFINE Fix(f) == f = [n \in 0 .. Len(s) |-> IF n = 0 THEN 0 ELSE (f[n - 1] + s[n]) % 256]
<1>1. PICK f : Sums(f, s, Len(s))
  BY SumsExist
<1>2. Fix(f)
  BY <1>1 DEF Sums
<1>3. Sum(s) = CHOOSE g : Fix(g)
  BY DEF Sum
<1>4. Fix(Sum(s))
  BY <1>2, <1>3
<1>5. Sum(s)[0] = 0 /\ \A k \in 1 .. Len(s) : Sum(s)[k] = (Sum(s)[k - 1] + s[k]) % 256
  BY <1>4
<1>6. \A k \in 0 .. Len(s) : Sum(s)[k] \in Byte
  <2> DEFINE S == {k \in Nat : k <= Len(s) => Sum(s)[k] \in Byte}
  <2>1. 0 \in S
    BY <1>5 DEF Byte
  <2>2. ASSUME NEW n \in Nat, n \in S PROVE n + 1 \in S
    <3> SUFFICES ASSUME n + 1 <= Len(s) PROVE Sum(s)[n + 1] \in Byte
      OBVIOUS
    <3>1. Sum(s)[n] \in Byte /\ s[n + 1] \in Byte
      BY <2>2
    <3>2. Sum(s)[n + 1] = (Sum(s)[n] + s[n + 1]) % 256
      BY <1>5
    <3> QED
      BY <3>1, <3>2, SumByte
  <2>3. Nat \subseteq S
    <3> HIDE DEF S
    <3> QED
      BY <2>1, <2>2, Induction
  <2> QED
    BY <2>3
<1> QED
  BY <1>4, <1>5, <1>6 DEF Sums

\* A checksum depends on nothing but the bytes it is taken of.
LEMMA SumsAgree ==
  ASSUME NEW s, NEW t, NEW m \in Nat, NEW f, NEW g, Sums(f, s, m), Sums(g, t, m),
         \A k \in 1 .. m : s[k] = t[k]
  PROVE  f[m] = g[m]
<1> DEFINE S == {n \in Nat : n <= m => f[n] = g[n]}
<1>1. 0 \in S
  BY DEF Sums
<1>2. ASSUME NEW n \in Nat, n \in S PROVE n + 1 \in S
  BY <1>2 DEF Sums
<1>3. Nat \subseteq S
  <2> HIDE DEF S
  <2> QED
    BY <1>1, <1>2, Induction
<1> QED
  BY <1>3

\* One more byte of payload.
LEMMA SumAppend ==
  ASSUME NEW s \in Seq(Byte), NEW c \in Byte
  PROVE  Sum(Append(s, c))[Len(s) + 1] = (Sum(s)[Len(s)] + c) % 256
<1> DEFINE t == Append(s, c)
           m == Len(s)
<1>1. t \in Seq(Byte) /\ Len(t) = m + 1 /\ t[m + 1] = c /\ \A k \in 1 .. m : t[k] = s[k]
  BY AppendProperties
<1>2. Sums(Sum(s), s, m) /\ Sums(Sum(t), t, m + 1)
  BY <1>1, SumMeaning
<1>3. m \in Nat
  OBVIOUS
<1> HIDE DEF t, m
<1>4. Sum(t)[m + 1] = (Sum(t)[m] + c) % 256
  BY <1>1, <1>2, <1>3 DEF Sums
<1> DEFINE h == [k \in 0 .. m |-> Sum(t)[k]]
<1>5. Sums(h, t, m)
  BY <1>2, <1>3 DEF Sums
<1>6. h[m] = Sum(s)[m]
  <2> HIDE DEF h
  <2> QED
    BY <1>1, <1>2, <1>3, <1>5, SumsAgree
<1>7. h[m] = Sum(t)[m]
  BY <1>3
<1> QED
  BY <1>4, <1>6, <1>7 DEF t, m

-----------------------------------------------------------------------------
(* The invariant is inductive. *)

LEMMA ReaderInit == Init => IInv
<1> SUFFICES ASSUME Init PROVE IInv
  OBVIOUS
<1>1. TypeOK
  BY BufferAssumption DEF Init, TypeOK, ReadState, Offset, Byte
<1> QED
  BY <1>1 DEF Init, IInv, Parsed

LEMMA Bytes == Dollar \in Byte /\ 0 \in Byte /\ Hash \in Byte /\ Dollar # Hash /\ Chars \subseteq Byte
BY CharsAssumption DEF Dollar, Hash, Byte

\* The state a byte meets: packet in progress means a payload without # is framed.
LEMMA Framing ==
  ASSUME IInv
  PROVE  /\ Reading = "PACKET_INPROGRESS" =>
              Framed /\ Len(since) = read_offset + 1 /\ Filled = read_offset
         /\ Reading = "CHECKSUM_B1" =>
              Framed /\ Len(since) = read_offset + 2 /\ since[read_offset + 2] = Hash
         /\ Reading = "CHECKSUM_B2" =>
              Framed /\ Len(since) = read_offset + 3 /\ since[read_offset + 2] = Hash
                /\ since[read_offset + 3] = checksum
BY DEF IInv, Parsed, Reading, Filled, Fresh

\* A framed payload stays framed when a byte is appended behind it and neither the
\* payload nor its checksum changes.
LEMMA FramedAppend ==
  ASSUME TypeOK, Framed, NEW in \in Chars, since' = Append(since, in),
         UNCHANGED <<read_offset, checksum_value>>,
         \A n \in 1 .. read_offset : buffer'[n - 1] = buffer[n - 1]
  PROVE  /\ Framed' /\ Len(since') = Len(since) + 1 /\ since'[Len(since) + 1] = in
         /\ \A n \in 1 .. Len(since) : since'[n] = since[n]
         /\ Body' = Body
<1>1. /\ read_offset \in Nat /\ since \in Seq(Chars) /\ Len(since) \in Nat
      /\ Len(since) > read_offset
  BY BufferAssumption DEF TypeOK, Offset, Framed
<1>2. /\ Len(since') = Len(since) + 1 /\ since'[Len(since) + 1] = in
      /\ \A n \in 1 .. Len(since) : since'[n] = since[n]
  BY <1>1, AppendProperties
<1>3. Body' = Body
  BY <1>1, <1>2 DEF Body
<1> QED
  BY <1>1, <1>2, <1>3 DEF Framed

\* The payload of a framed packet with its two digits is the framed one.
LEMMA FramedPacket ==
  ASSUME TypeOK, Framed, Len(since) = read_offset + 4, since[read_offset + 2] = Hash
  PROVE  /\ Complete(since)
         /\ PayloadOf(since) = Body
         /\ Correct(since) <=>
              checksum_value = hex_to_char(since[read_offset + 3], since[read_offset + 4])
<1>1. read_offset \in Nat
  BY BufferAssumption DEF TypeOK, Offset
<1>2. Complete(since)
  <2>1. \A n \in 2 .. Len(since) - 3 : n - 1 \in 1 .. read_offset /\ n = (n - 1) + 1
    BY <1>1
  <2>2. \A n \in 2 .. Len(since) - 3 : since[n] # Hash
    BY <2>1 DEF Framed
  <2> QED
    BY <1>1, <2>2 DEF Complete, Framed
<1>3. Len(since) - 3 = read_offset + 1 /\ Len(since) - 4 = read_offset
      /\ Len(since) - 1 = read_offset + 3
  BY <1>1
<1>4. PayloadOf(since) = Body
  BY <1>3 DEF PayloadOf, Body
<1> QED
  BY <1>2, <1>3, <1>4 DEF Correct, Framed

\* Until its second digit has come, a framed packet is not complete.
LEMMA FramedIncomplete ==
  ASSUME TypeOK, Framed, Len(since) <= read_offset + 3
  PROVE  ~Complete(since)
<1>1. read_offset \in Nat /\ Len(since) \in Nat
  BY BufferAssumption DEF TypeOK, Offset
<1> SUFFICES ASSUME Complete(since) PROVE FALSE
  OBVIOUS
<1>2. Len(since) - 3 \in 1 .. read_offset /\ (Len(since) - 3) + 1 = Len(since) - 2
  BY <1>1 DEF Complete
<1> QED
  BY <1>2 DEF Framed, Complete

LEMMA PayloadStep ==
  ASSUME IInv, NEW in \in Chars, Payload(in) PROVE IInv'
<1>1. /\ TypeOK /\ Framed /\ Len(since) = read_offset + 1 /\ in # Hash
      /\ readState = "PACKET_INPROGRESS" /\ readState' = "PACKET_INPROGRESS"
      /\ checksum' = checksum /\ in \in Byte
  BY Framing, Bytes DEF Payload, Reading, Fresh, IInv
<1>2. /\ read_offset \in Nat /\ since \in Seq(Chars) /\ Len(since) \in Nat /\ since \in Seq(Byte)
      /\ read_offset' = read_offset + 1 /\ read_offset' \in Offset /\ read_offset \in Offset
  BY <1>1, Bytes, BufferAssumption DEF TypeOK, Offset, Framed, Payload
<1>3. checksum_value' = (checksum_value + in) % 256 /\ checksum_value' \in Byte
  BY <1>1, SumByte DEF Payload, AddToSum, TypeOK
<1>4. CASE Room(read_offset')
  <2>1. /\ verdict' = "more" /\ buffer' = [buffer EXCEPT ![read_offset] = in]
        /\ since' = Append(since, in)
    BY <1>4 DEF Payload
  <2>2. /\ Len(since') = Len(since) + 1 /\ since'[Len(since) + 1] = in
        /\ \A n \in 1 .. Len(since) : since'[n] = since[n]
        /\ since' \in Seq(Chars)
    BY <1>2, <2>1, AppendProperties
  <2>3. Body \in Seq(Byte) /\ Len(Body) = read_offset
    BY <1>1, <1>2, SubSeqProperties DEF Body
  <2>4. Body' = Append(Body, in)
    <3>1. Body' \in Seq(Byte) /\ Len(Body') = read_offset + 1
      <4>1. since' \in Seq(Byte)
        BY <2>2, Bytes
      <4> QED
        BY <1>1, <1>2, <2>2, <4>1, SubSeqProperties DEF Body
    <3>2. \A n \in 1 .. read_offset + 1 : Body'[n] = since'[n + 1]
      BY <1>1, <1>2, <2>2, SubSeqProperties DEF Body
    <3>3. \A n \in 1 .. read_offset : Body[n] = since[n + 1]
      BY <1>1, <1>2, SubSeqProperties DEF Body
    <3>4. /\ Append(Body, in) \in Seq(Byte) /\ Len(Append(Body, in)) = read_offset + 1
          /\ \A n \in 1 .. read_offset : Append(Body, in)[n] = Body[n]
          /\ Append(Body, in)[read_offset + 1] = in
      BY <1>1, <2>3, AppendProperties
    <3>5. \A n \in 1 .. read_offset + 1 : Body'[n] = Append(Body, in)[n]
      BY <1>1, <1>2, <2>2, <3>2, <3>3, <3>4
    <3> HIDE DEF Body
    <3> QED
      BY <3>1, <3>4, <3>5, SeqEqual
  <2>5. checksum_value' = Sum(Body')[read_offset']
    <3>1. Sum(Append(Body, in))[read_offset + 1] = (Sum(Body)[read_offset] + in) % 256
      BY <1>1, <2>3, SumAppend
    <3> QED
      BY <1>1, <1>2, <1>3, <2>4, <3>1 DEF Framed
  <2>6. ASSUME NEW n \in 1 .. read_offset'
        PROVE  since'[n + 1] # Hash /\ buffer'[n - 1] = since'[n + 1]
    <3>1. CASE n = read_offset + 1
      BY <1>1, <1>2, <2>1, <2>2, <3>1 DEF TypeOK
    <3>2. CASE n \in 1 .. read_offset
      <4>1. n - 1 \in Offset /\ n - 1 # read_offset /\ n + 1 \in 1 .. Len(since)
        BY <1>1, <1>2, <3>2, BufferAssumption DEF Offset
      <4> QED
        BY <1>1, <2>1, <2>2, <3>2, <4>1 DEF Framed, TypeOK
    <3> QED
      BY <1>2, <3>1, <3>2
  <2>7. Framed' /\ Len(since') = read_offset' + 1
    BY <1>1, <1>2, <1>4, <2>2, <2>5, <2>6, BufferAssumption DEF Framed, Room
  <2>8. TypeOK'
    BY <1>1, <1>2, <1>3, <2>1, <2>2 DEF TypeOK, ReadState
  <2> QED
    BY <1>1, <2>1, <2>7, <2>8 DEF IInv, Parsed
<1>5. CASE ~Room(read_offset')
  <2>1. verdict' = "overflow" /\ since' = <<>>
        /\ buffer' = [buffer EXCEPT ![read_offset] = in, ![BufferSize - 1] = Dollar]
    BY <1>5 DEF Payload
  <2>2. buffer' \in [Offset -> Byte]
    BY <1>1, <2>1, Bytes DEF TypeOK
  <2>3. TypeOK'
    BY <1>1, <1>2, <1>3, <2>1, <2>2 DEF TypeOK, ReadState
  <2> QED
    BY <1>1, <2>1, <2>3 DEF IInv, Parsed
<1> QED
  BY <1>4, <1>5

LEMMA DigitStep ==
  ASSUME IInv, NEW in \in Chars, EndOfPayload(in) \/ FirstDigit(in) PROVE IInv'
<1>1. /\ TypeOK /\ since' = Append(since, in) /\ verdict' = "more" /\ in \in Byte
      /\ UNCHANGED <<buffer, read_offset, checksum_value>>
      /\ since' \in Seq(Chars)
  BY Bytes, AppendProperties DEF EndOfPayload, FirstDigit, IInv, TypeOK
<1>2. TypeOK'
  BY <1>1 DEF EndOfPayload, FirstDigit, TypeOK, ReadState
<1>3. Framed
  BY Framing DEF EndOfPayload, FirstDigit
<1>4. /\ Framed' /\ Len(since') = Len(since) + 1 /\ since'[Len(since) + 1] = in
      /\ \A n \in 1 .. Len(since) : since'[n] = since[n]
  BY <1>1, <1>3, FramedAppend
<1>5. read_offset \in Nat
  BY <1>1, BufferAssumption DEF TypeOK, Offset
<1>6. CASE EndOfPayload(in)
  BY <1>1, <1>2, <1>4, <1>5, <1>6, Framing DEF EndOfPayload, IInv, Parsed
<1>7. CASE FirstDigit(in)
  BY <1>1, <1>2, <1>4, <1>5, <1>7, Framing DEF FirstDigit, IInv, Parsed
<1> QED
  BY <1>6, <1>7

LEMMA SecondDigitStep ==
  ASSUME IInv, NEW in \in Chars, SecondDigit(in) PROVE IInv'
<1>1. /\ TypeOK /\ since' = Append(since, in) /\ in \in Byte
      /\ UNCHANGED <<read_offset, checksum_value, checksum>>
      /\ since' \in Seq(Chars) /\ read_offset \in Offset /\ read_offset \in Nat
  BY Bytes, AppendProperties, BufferAssumption DEF SecondDigit, IInv, TypeOK, Offset
<1>2. /\ Framed /\ Len(since) = read_offset + 3 /\ since[read_offset + 2] = Hash
      /\ since[read_offset + 3] = checksum
      /\ readState = "CHECKSUM_B2"
  BY Framing DEF SecondDigit, Reading
<1> DEFINE right == checksum_value = hex_to_char(checksum, in)
<1>3. /\ right => verdict' = "accepted" /\ readState' = "CHECKSUM_B2"
                    /\ buffer' = [buffer EXCEPT ![read_offset] = 0]
      /\ ~right => verdict' = "refused" /\ readState' = "JUNK" /\ buffer' = buffer
  BY <1>2 DEF SecondDigit
<1>4. TypeOK'
  BY <1>1, <1>3, Bytes DEF TypeOK, ReadState
<1>5. \A n \in 1 .. read_offset : buffer'[n - 1] = buffer[n - 1]
  <2>1. \A n \in 1 .. read_offset : n - 1 \in Offset /\ n - 1 # read_offset
    BY <1>1, BufferAssumption DEF Offset
  <2> HIDE DEF right
  <2> QED
    BY <1>1, <1>3, <2>1 DEF TypeOK
<1>6. /\ Framed' /\ Len(since') = Len(since) + 1 /\ since'[Len(since) + 1] = in
      /\ \A n \in 1 .. Len(since) : since'[n] = since[n]
  BY <1>1, <1>2, <1>5, FramedAppend
<1>7. /\ Len(since') = read_offset' + 4 /\ since'[read_offset' + 2] = Hash
      /\ since'[read_offset' + 3] = checksum /\ since'[read_offset' + 4] = in
  BY <1>1, <1>2, <1>6
<1>8. (TypeOK /\ Framed /\ Len(since) = read_offset + 4 /\ since[read_offset + 2] = Hash =>
         Complete(since) /\ (Correct(since) <=>
           checksum_value = hex_to_char(since[read_offset + 3], since[read_offset + 4])))'
  BY FramedPacket, PTL
<1>9. Complete(since') /\ (Correct(since') <=> right)
  BY <1>1, <1>4, <1>6, <1>7, <1>8
<1>10. right => buffer'[read_offset'] = 0
  BY <1>1, <1>3 DEF TypeOK
<1> HIDE DEF right
<1> QED
  BY <1>3, <1>4, <1>6, <1>7, <1>9, <1>10 DEF IInv, Parsed

LEMMA ReaderStep == IInv /\ [Next]_vars => IInv'
<1> SUFFICES ASSUME IInv, [Next]_vars PROVE IInv'
  OBVIOUS
<1>1. ASSUME Dollar \in Chars, Start PROVE IInv'
  <2>1. TypeOK'
    BY <1>1, Bytes, BufferAssumption
       DEF Start, StartOffset, IInv, TypeOK, ReadState, Offset
  <2>2. Framed' /\ Len(since') = read_offset' + 1
    <3>1. Body' = <<>>
      BY <1>1 DEF Start, StartOffset, Body
    <3>2. Sum(<<>>)[0] = 0
      <4>1. <<>> \in Seq(Byte) /\ Len(<<>>) = 0
        OBVIOUS
      <4> QED
        BY <4>1, SumMeaning DEF Sums
    <3> QED
      BY <1>1, <3>1, <3>2, BufferAssumption DEF Start, StartOffset, Framed
  <2> QED
    BY <1>1, <2>1, <2>2 DEF Start, IInv, Parsed
<1>2. CASE Skip
  <2>1. TypeOK'
    BY <1>2, BufferAssumption DEF Skip, Filled, IInv, TypeOK, ReadState, Offset
  <2> QED
    BY <1>2, <2>1 DEF Skip, IInv, Parsed
<1>3. CASE UNCHANGED vars
  BY <1>3 DEF vars, IInv, TypeOK, Parsed, Framed, Body
<1> QED
  BY <1>1, <1>2, <1>3, PayloadStep, DigitStep, SecondDigitStep DEF Next, Receive

-----------------------------------------------------------------------------
(* Theorems. *)

\* The reader's state is well typed; no byte is ever stored outside the buffer.
THEOREM ReaderTypeCorrect == Spec => []TypeOK
BY ReaderInit, ReaderStep, PTL DEF Spec, IInv

\* Every byte is answered as the bytes since the last $ deserve: acknowledged if
\* they are a packet with the right checksum, refused if they are one with another,
\* and answered by nothing otherwise.
THEOREM PacketsAnswered == Spec => []AnswersPackets
<1>1. IInv => AnswersPackets
  <2> SUFFICES ASSUME IInv PROVE AnswersPackets
    OBVIOUS
  <2>1. TypeOK /\ (read_offset \in Nat) /\ ~Complete(<<>>)
    BY BufferAssumption DEF IInv, TypeOK, Offset, Complete
  <2>2. verdict \in {"more", "overflow"} => ~Complete(since)
    BY <2>1, FramedIncomplete DEF IInv, Parsed
  <2>3. Correct(since) => Complete(since)
    BY DEF Correct
  <2> QED
    BY <2>1, <2>2, <2>3 DEF AnswersPackets, IInv, Parsed
<1> QED
  BY <1>1, ReaderInit, ReaderStep, PTL DEF Spec

\* process_packet finds the payload the host sent, terminated where it ends.
THEOREM PayloadArrives == Spec => []PayloadDelivered
<1>1. IInv => PayloadDelivered
  <2> SUFFICES ASSUME IInv, verdict = "accepted" PROVE PayloadDelivered
    BY DEF PayloadDelivered
  <2>1. /\ TypeOK /\ Framed /\ Len(since) = read_offset + 4 /\ buffer[read_offset] = 0
        /\ read_offset \in Nat /\ read_offset \in Offset
        /\ since \in Seq(Chars)
    BY BufferAssumption DEF IInv, Parsed, TypeOK, Offset
  <2> DEFINE sent == PayloadOf(since)
  <2>2. Len(sent) = read_offset /\ \A n \in 1 .. read_offset : sent[n] = since[n + 1]
    <3>1. Len(since) - 3 = read_offset + 1
      BY <2>1
    <3> QED
      BY <2>1, <3>1, SubSeqProperties DEF PayloadOf
  <2> HIDE DEF sent
  <2>3. \A n \in 1 .. Len(sent) : buffer[n - 1] = sent[n]
    BY <2>1, <2>2 DEF Framed
  <2> QED
    BY <2>1, <2>2, <2>3 DEF PayloadDelivered, sent
<1> QED
  BY <1>1, ReaderInit, ReaderStep, PTL DEF Spec

\* The reader gives up one byte early: a call ends in an overflow exactly when its
\* payload and the NUL behind it would fill the buffer, which they still fit
\* (the loop's condition is tested after the byte is stored).  The payload is the
\* bytes behind the $ in since and the one that comes in.
THEOREM OverflowOneByteEarly ==
  Spec => [][\A in \in Chars :
                Payload(in) => (verdict' = "overflow" <=> Len(since) + 1 = BufferSize)]_vars
<1>1. ASSUME IInv, NEW in \in Chars, Payload(in)
      PROVE  verdict' = "overflow" <=> Len(since) + 1 = BufferSize
  <2>1. Len(since) = read_offset + 1 /\ read_offset' = read_offset + 1 /\ Framed
    BY <1>1, Framing DEF Payload
  <2>2. verdict' = "overflow" <=> ~Room(read_offset')
    BY <1>1 DEF Payload
  <2>3. read_offset \in Nat
    BY <1>1, BufferAssumption DEF IInv, TypeOK, Offset
  <2> QED
    BY <2>1, <2>2, <2>3, BufferAssumption DEF Room, Framed
<1>2. IInv /\ [Next]_vars =>
        [\A in \in Chars :
           Payload(in) => (verdict' = "overflow" <=> Len(since) + 1 = BufferSize)]_vars
  BY <1>1
<1> QED
  BY <1>2, ReaderInit, ReaderStep, PTL DEF Spec
=============================================================================
