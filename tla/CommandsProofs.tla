--------------------------- MODULE CommandsProofs ---------------------------
(***************************************************************************)
(* Proofs about the host's requests, for any registers, memory and slots:  *)
(* what it reads is what the program has, what it writes reaches the       *)
(* program, and nothing else changes.                                      *)
(***************************************************************************)
EXTENDS Commands, FiniteSetTheorems, SequenceTheorems, TLAPS

-----------------------------------------------------------------------------
(* Digits and bytes. *)

LEMMA Nibbles ==
  ASSUME NEW b \in Byte
  PROVE  b \div 16 \in Digit /\ b % 16 \in Digit /\ b = 16 * (b \div 16) + (b % 16)
BY SMT DEF Byte, Digit

LEMMA Halves ==
  ASSUME NEW w \in Word
  PROVE  Low(w) \in Byte /\ High(w) \in Byte /\ w = Low(w) + 256 * High(w)
BY SMT DEF Word, Byte, Low, High

LEMMA HexDigits ==
  ASSUME NEW bytes \in Seq(Byte)
  PROVE  /\ to_hex(bytes) \in Seq(Digit) /\ Len(to_hex(bytes)) = 2 * Len(bytes)
         /\ \A k \in 1 .. Len(bytes) : /\ to_hex(bytes)[2 * k - 1] = bytes[k] \div 16
                                       /\ to_hex(bytes)[2 * k] = bytes[k] % 16
<1>1. PICK l \in Nat : l = Len(bytes)
  OBVIOUS
<1>2. \A k \in 1 .. l : bytes[k] \in Byte
  BY <1>1
<1> DEFINE f == [n \in 1 .. 2 * l |-> LET byte == bytes[(n + 1) \div 2]
                                      IN IF n % 2 = 1 THEN byte \div 16 ELSE byte % 16]
<1>3. to_hex(bytes) = f
  BY <1>1 DEF to_hex
<1>4. ASSUME NEW n \in 1 .. 2 * l PROVE f[n] \in Digit
  <2>1. (n + 1) \div 2 \in 1 .. l
    OBVIOUS
  <2> QED
    BY <1>2, <2>1, Nibbles
<1>5. f \in [1 .. 2 * l -> Digit] /\ 2 * l \in Nat
  BY <1>4
<1>6. f \in Seq(Digit) /\ Len(f) = 2 * l
  BY <1>5
<1>7. ASSUME NEW k \in 1 .. l PROVE f[2 * k - 1] = bytes[k] \div 16 /\ f[2 * k] = bytes[k] % 16
  <2>1. /\ 2 * k - 1 \in 1 .. 2 * l /\ (2 * k - 1 + 1) \div 2 = k /\ (2 * k - 1) % 2 = 1
        /\ 2 * k \in 1 .. 2 * l /\ (2 * k + 1) \div 2 = k /\ (2 * k) % 2 = 0
    OBVIOUS
  <2> QED
    BY <2>1
<1> QED
  BY <1>1, <1>3, <1>6, <1>7

\* What to_hex wrote, from_hex reads.
LEMMA HexAndBack ==
  ASSUME NEW bytes \in Seq(Byte)
  PROVE  from_hex(to_hex(bytes), 2 * Len(bytes)) = bytes
<1>1. PICK l \in Nat : l = Len(bytes)
  OBVIOUS
<1>2. (2 * l) \div 2 = l
  OBVIOUS
<1>3. ASSUME NEW k \in 1 .. l PROVE 16 * to_hex(bytes)[2 * k - 1] + to_hex(bytes)[2 * k] = bytes[k]
  <2>1. bytes[k] \in Byte
    BY <1>1
  <2> QED
    BY <1>1, <2>1, HexDigits, Nibbles
<1>4. from_hex(to_hex(bytes), 2 * Len(bytes)) = [k \in 1 .. l |-> 16 * to_hex(bytes)[2 * k - 1] + to_hex(bytes)[2 * k]]
  BY <1>1, <1>2 DEF from_hex
<1>5. bytes = [k \in 1 .. l |-> bytes[k]]
  BY <1>1
<1> QED
  BY <1>3, <1>4, <1>5

\* The bytes of words, and back.
LEMMA BytesAndBack ==
  ASSUME NEW count \in Nat \ {0}, NEW w \in [0 .. count - 1 -> Word]
  PROVE  /\ Bytes(w, count) \in Seq(Byte) /\ Len(Bytes(w, count)) = 2 * count
         /\ Words(Bytes(w, count)) = w
<1> DEFINE f == [n \in 1 .. 2 * count |-> LET word == w[(n - 1) \div 2]
                                          IN IF n % 2 = 1 THEN Low(word) ELSE High(word)]
<1>1. Bytes(w, count) = f
  BY DEF Bytes
<1>2. ASSUME NEW n \in 1 .. 2 * count PROVE f[n] \in Byte
  <2>1. (n - 1) \div 2 \in 0 .. count - 1
    OBVIOUS
  <2> QED
    BY <2>1, Halves
<1>3. f \in [1 .. 2 * count -> Byte] /\ 2 * count \in Nat
  BY <1>2
<1>4. f \in Seq(Byte) /\ Len(f) = 2 * count
  BY <1>3
<1>5. ASSUME NEW k \in 0 .. count - 1 PROVE f[2 * k + 1] + 256 * f[2 * k + 2] = w[k]
  <2>1. /\ 2 * k + 1 \in 1 .. 2 * count /\ (2 * k + 1 - 1) \div 2 = k /\ (2 * k + 1) % 2 = 1
        /\ 2 * k + 2 \in 1 .. 2 * count /\ (2 * k + 2 - 1) \div 2 = k /\ (2 * k + 2) % 2 = 0
    OBVIOUS
  <2>2. f[2 * k + 1] = Low(w[k]) /\ f[2 * k + 2] = High(w[k])
    BY <2>1
  <2> QED
    BY <2>2, Halves
<1>6. (2 * count) \div 2 - 1 = count - 1
  OBVIOUS
<1> HIDE DEF f
<1>7. Words(f) = [k \in 0 .. count - 1 |-> f[2 * k + 1] + 256 * f[2 * k + 2]]
  BY <1>4, <1>6 DEF Words
<1>8. w = [k \in 0 .. count - 1 |-> w[k]]
  OBVIOUS
<1> QED
  BY <1>1, <1>4, <1>5, <1>7, <1>8

\* The digits in d, right-aligned among zeros.
Aligned(b, d, l) == \A n \in 1 .. 4 : b[n] = IF n <= 4 - l THEN 0 ELSE d[n - (4 - l)]

\* Four digits make a number.
LEMMA FourDigits ==
  ASSUME NEW l \in 0 .. 4, NEW d \in Seq(Digit), Len(d) = l,
         NEW b, Aligned(b, d, l)
  PROVE  from_hex_str(d) = 16 * b[3] + b[4] + 256 * (16 * b[1] + b[2])
<1> DEFINE z == [n \in 1 .. 4 - l |-> 0]
           c == z \o d
           f == [n \in 1 .. 2 |-> 16 * c[2 * n - 1] + c[2 * n]]
<1>1. 4 - l \in Nat /\ 0 \in Digit
  BY DEF Digit
<1>2. z \in Seq(Digit) /\ Len(z) = 4 - l /\ \A n \in 1 .. 4 - l : z[n] = 0
  BY <1>1
<1>3. from_hex_str(d) = f[2] + 256 * f[1]
  <2>1. from_hex(c, 4) = f
    BY DEF from_hex
  <2> HIDE DEF f
  <2> QED
    BY <2>1 DEF from_hex_str
<1> HIDE DEF z
<1>4. \A n \in 1 .. 4 : c[n] = IF n <= 4 - l THEN z[n] ELSE d[n - (4 - l)]
  BY <1>2, ConcatProperties
<1> HIDE DEF c
<1>5. c[1] = b[1] /\ c[2] = b[2] /\ c[3] = b[3] /\ c[4] = b[4]
  <2>1. \A n \in 1 .. 4 : c[n] = b[n]
    BY <1>2, <1>4 DEF Aligned
  <2> QED
    BY <2>1
<1>6. f[1] = 16 * c[1] + c[2] /\ f[2] = 16 * c[3] + c[4]
  OBVIOUS
<1> HIDE DEF f
<1> QED
  BY <1>3, <1>5, <1>6

\* The digits of a number, the high one first.
LEMMA WordDigits ==
  ASSUME NEW n \in Word
  PROVE  /\ n \div 4096 \in Digit /\ (n \div 256) % 16 \in Digit /\ (n \div 16) % 16 \in Digit /\ n % 16 \in Digit
         /\ n = 16 * ((n \div 16) % 16) + (n % 16) + 256 * (16 * (n \div 4096) + ((n \div 256) % 16))
<1>1. n \in Nat /\ n < 65536
  BY DEF Word
<1>2. /\ n \div 16 \in Nat /\ n % 16 \in 0 .. 15 /\ n \div 256 \in Nat /\ n \div 4096 \in 0 .. 15
      /\ (n \div 16) % 16 \in 0 .. 15 /\ (n \div 256) % 16 \in 0 .. 15
  BY <1>1
<1>3. n = 16 * (n \div 16) + (n % 16)
  BY <1>1
<1>4. n \div 16 = 16 * (n \div 256) + ((n \div 16) % 16)
  BY <1>1
<1>5. n \div 256 = 16 * (n \div 4096) + ((n \div 256) % 16)
  BY <1>1
<1>6. n = 16 * ((n \div 16) % 16) + (n % 16) + 256 * (16 * (n \div 4096) + ((n \div 256) % 16))
  BY <1>1, <1>2, <1>3, <1>4, <1>5
<1> QED
  BY <1>2, <1>6 DEF Digit

\* A number as gdb writes it is read as that number; its length is that of its value.
LEMMA NumberRead ==
  ASSUME NEW n \in Word
  PROVE  /\ from_hex_str(Number(n)) = n
         /\ Number(n) \in Seq(Digit) /\ Len(Number(n)) \in 1 .. 4
         /\ Len(Number(n)) <= 2 <=> n < 256
<1> DEFINE q1 == n \div 4096  q2 == (n \div 256) % 16  q3 == (n \div 16) % 16  q4 == n % 16
           b == <<q1, q2, q3, q4>>
           Leads(k) == (k = 4 \/ b[k] # 0) /\ \A j \in 1 .. k - 1 : b[j] = 0
           first == CHOOSE k \in 1 .. 4 : Leads(k)
           d == SubSeq(b, first, 4)
<1>1. Number(n) = d
  BY DEF Number
<1>2. /\ q1 \in Digit /\ q2 \in Digit /\ q3 \in Digit /\ q4 \in Digit
      /\ n = 16 * q3 + q4 + 256 * (16 * q1 + q2)
  BY WordDigits
<1>3. n \in Nat
  BY DEF Word
<1> HIDE DEF q1, q2, q3, q4
<1>4. b \in Seq(Digit) /\ Len(b) = 4 /\ b[1] = q1 /\ b[2] = q2 /\ b[3] = q3 /\ b[4] = q4
  BY <1>2
<1> HIDE DEF b
<1>5. \E k \in 1 .. 4 : Leads(k)
  <2>1. CASE b[1] # 0
    BY <2>1
  <2>2. CASE b[1] = 0 /\ b[2] # 0
    BY <2>2
  <2>3. CASE b[1] = 0 /\ b[2] = 0 /\ b[3] # 0
    BY <2>3
  <2>4. CASE b[1] = 0 /\ b[2] = 0 /\ b[3] = 0
    BY <2>4
  <2> QED
    BY <2>1, <2>2, <2>3, <2>4
<1>6. first \in 1 .. 4 /\ Leads(first)
  <2> HIDE DEF Leads
  <2> QED
    BY <1>5
<1> HIDE DEF first
<1>7. PICK l \in 1 .. 4 : first = 5 - l
  <2>1. 5 - first \in 1 .. 4 /\ first = 5 - (5 - first)
    BY <1>6
  <2> QED
    BY <2>1
<1>8. (l = 1 \/ b[5 - l] # 0) /\ \A k \in 1 .. 4 : k <= 4 - l => b[k] = 0
  BY <1>6, <1>7
<1>9. l <= 2 <=> n < 256
  <2>1. q1 \in Nat /\ q2 \in Nat /\ q3 \in 0 .. 15 /\ q4 \in 0 .. 15
    BY <1>2 DEF Digit
  <2>2. CASE l <= 2
    BY <1>2, <1>4, <1>8, <2>1, <2>2
  <2>3. CASE l = 3 \/ l = 4
    <3>1. q1 # 0 \/ q2 # 0
      BY <1>4, <1>8, <2>3
    <3> QED
      BY <1>2, <2>1, <2>3, <3>1
  <2> QED
    BY <2>2, <2>3
<1>10. d \in Seq(Digit) /\ Len(d) = l /\ \A k \in 1 .. l : d[k] = b[4 - l + k]
  <2>1. 5 - l \in Int /\ 4 \in Int /\ \A k \in 5 - l .. 4 : b[k] \in Digit
    <3>1. \A k \in 1 .. 4 : b[k] \in Digit
      BY <1>4
    <3>2. 5 - l \in 1 .. 4
      OBVIOUS
    <3> QED
      BY <3>1, <3>2
  <2>2. /\ d \in Seq(Digit)
        /\ Len(d) = IF 5 - l <= 4 THEN 4 - (5 - l) + 1 ELSE 0
        /\ \A k \in 1 .. 4 - (5 - l) + 1 : d[k] = b[5 - l + k - 1]
    BY <1>7, <2>1, SubSeqProperties
  <2> HIDE DEF d
  <2>3. 4 - (5 - l) + 1 = l /\ 5 - l <= 4 /\ \A k \in 1 .. l : 5 - l + k - 1 = 4 - l + k
    OBVIOUS
  <2> QED
    BY <2>2, <2>3
<1> HIDE DEF d
<1>11. Aligned(b, d, l)
  BY <1>8, <1>10 DEF Aligned
<1>12. from_hex_str(d) = 16 * b[3] + b[4] + 256 * (16 * b[1] + b[2])
  <2>1. l \in 0 .. 4
    OBVIOUS
  <2>2. d \in Seq(Digit)
    BY <1>10
  <2>3. Len(d) = l
    BY <1>10
  <2> HIDE DEF Leads
  <2> QED
    BY <1>11, <2>1, <2>2, <2>3, FourDigits
<1> QED
  BY <1>1, <1>2, <1>4, <1>9, <1>10, <1>12

\* The value of P, the high byte first.
LEMMA ValueRead ==
  ASSUME NEW w \in Word, Liberties = {}
  PROVE  from_hex_str(Value(w)) = w
<1> DEFINE h == High(w)  l == Low(w)  bytes == <<h, l>>  d == to_hex(bytes)
<1>1. Value(w) = d
  BY DEF Value, Allowed
<1>2. h \in Byte /\ l \in Byte /\ w = l + 256 * h
  BY Halves
<1> HIDE DEF h, l
<1>3. bytes \in Seq(Byte) /\ Len(bytes) = 2 /\ bytes[1] = h /\ bytes[2] = l
  BY <1>2
<1> HIDE DEF bytes
<1>4. /\ d \in Seq(Digit) /\ Len(d) = 2 * Len(bytes)
      /\ \A k \in 1 .. Len(bytes) : d[2 * k - 1] = bytes[k] \div 16 /\ d[2 * k] = bytes[k] % 16
  BY <1>3, HexDigits
<1> HIDE DEF d
<1>5. Len(d) = 4 /\ d[1] = h \div 16 /\ d[2] = h % 16 /\ d[3] = l \div 16 /\ d[4] = l % 16
  <2>1. \A k \in 1 .. 2 : d[2 * k - 1] = bytes[k] \div 16 /\ d[2 * k] = bytes[k] % 16
    BY <1>3, <1>4
  <2> QED
    BY <1>3, <1>4, <2>1
<1>6. Aligned(d, d, 4)
  BY DEF Aligned
<1>7. from_hex_str(d) = 16 * d[3] + d[4] + 256 * (16 * d[1] + d[2])
  <2>1. 4 \in 0 .. 4
    OBVIOUS
  <2> QED
    BY <1>4, <1>5, <1>6, <2>1, FourDigits
<1>8. h = 16 * d[1] + d[2] /\ l = 16 * d[3] + d[4]
  BY <1>2, <1>5, Nibbles
<1> QED
  BY <1>1, <1>2, <1>7, <1>8

-----------------------------------------------------------------------------
(* The inductive invariant. *)

\* What a host asks that keeps to the protocol: numbers of one word, memory the model has,
\* a block that fits the packet, and of what is torn off no more than a command letter
\* that takes fields, or one that the stub does not know.
Block(first, count) == {(first + n - 1) % 65536 : n \in 1 .. count}

Askable(r) ==
  \/ r \in [name : {"g", "k", "?"}]
  \/ r \in [name : {"q"}, known : BOOLEAN]
  \/ r.name = "torn" /\ r.of \notin {"g", "k", "?", "q", "G"}
  \/ r \in [name : {"G"}, words : [Register -> Word]]
  \/ r \in [name : {"P"}, register : Word, word : Word]
  \/ r \in [name : {"m"}, at : Word, length : Word] /\ (~TooLong(r.length) => Block(r.at, r.length) \subseteq Cells)
  \/ r \in [name : {"M"}, at : Word, bytes : Seq(Byte)] /\ Len(r.bytes) < BufferSize
  \/ r \in [name : {"Z", "z"}, at : Word]

Plain == Liberties = {} /\ \A r \in Requests : Askable(r)

\* The SP the host reads is the one the program goes on with.
StackPointer == at # "program" => registers[SP] = SPBefore(rst8_sp_copy)

\* No address is in two slots.
Distinct == \A j, k \in Slots : breakpoints[j] = breakpoints[k] /\ breakpoints[j] # 0 => j = k

IInv == TypeOK /\ StackPointer /\ Distinct

LEMMA Numbers ==
  /\ SP = 0 /\ PC = 1 /\ HL = 2 /\ DE = 3 /\ BC = 4 /\ AF = 5 /\ IX = 6 /\ IY = 7
  /\ OfProgram = 0 .. 7 /\ Register = 0 .. 11 /\ SLOT_0 .. SLOT_3 = 8 .. 11
  /\ BufferSize = 128 /\ REGISTERS_COUNT = 12
BY DEF SP, PC, HL, DE, BC, AF, IX, IY, OfProgram, Register, SLOT_0, SLOT_3, BufferSize, REGISTERS_COUNT

LEMMA WordRange == \A n \in Nat : n <= 65535 => n \in Word
<1> DEFINE max == 65535
<1>1. max \in Nat /\ Word = 0 .. max
  BY DEF Word
<1> HIDE DEF max
<1>2. \A n \in Nat : n <= max => n \in Word
  BY <1>1
<1> QED
  BY <1>2 DEF max

LEMMA WordNat == \A w \in Word : w \in Nat /\ w <= 65535
BY DEF Word

\* An address that has been moved away and back is the same address.
LEMMA Wraps ==
  ASSUME NEW w \in Word
  PROVE  /\ (w + 1) % 65536 \in Word /\ (w + 65535) % 65536 \in Word
         /\ (w + 2) % 65536 \in Word /\ (w + 65534) % 65536 \in Word
         /\ w = (((w + 1) % 65536) + 65535) % 65536
         /\ w = (((w + 65535) % 65536) + 1) % 65536
         /\ w = (((w + 65534) % 65536) + 2) % 65536
<1>1. w \in Nat /\ w < 65536
  BY DEF Word
<1>2. CASE w = 0
  BY <1>1, <1>2 DEF Word
<1>3. CASE w = 1
  BY <1>1, <1>3 DEF Word
<1>4. CASE w = 65535
  BY <1>1, <1>4 DEF Word
<1>5. CASE w = 65534
  BY <1>1, <1>5 DEF Word
<1>6. CASE 1 < w /\ w < 65534
  <2>1. (w + 1) % 65536 = w + 1 /\ (w + 2) % 65536 = w + 2
    BY <1>1, <1>6
  <2>2. (w + 65535) % 65536 = w - 1 /\ (w + 65534) % 65536 = w - 2
    BY <1>1, <1>6
  <2>3. (w + 1 + 65535) % 65536 = w /\ (w - 2 + 2) % 65536 = w /\ (w - 1 + 1) % 65536 = w
    BY <1>1, <1>6
  <2>4. w + 1 \in Word /\ w + 2 \in Word /\ w - 1 \in Word /\ w - 2 \in Word
    <3>1. w + 1 \in Nat /\ w + 2 \in Nat /\ w - 1 \in Nat /\ w - 2 \in Nat
      BY <1>1, <1>6
    <3>2. w + 1 <= 65535 /\ w + 2 <= 65535 /\ w - 1 <= 65535 /\ w - 2 <= 65535
      BY <1>1, <1>6
    <3> QED
      BY <3>1, <3>2, WordRange
  <2> QED
    BY <1>1, <2>1, <2>2, <2>3, <2>4
<1> QED
  BY <1>1, <1>2, <1>3, <1>4, <1>5, <1>6

\* The copies of the registers on the stack are those of the pairs they are taken for.
LEMMA Places ==
  /\ \A k \in 0 .. 5 : PushOrder[k + 1] \in HL .. IY
  /\ \A r \in HL .. IY : Place(ReadOrder, r) \in 0 .. 5 /\ PushOrder[Place(ReadOrder, r) + 1] = r
  /\ \A k \in 0 .. 5 : WriteOrder[k + 1] \in HL .. IY
  /\ \A r \in HL .. IY : Place(PopOrder, r) \in 0 .. 5 /\ WriteOrder[Place(PopOrder, r) + 1] = r
<1> DEFINE o == <<IY, IX, HL, DE, BC, AF>>
<1>1. /\ o[0 + 1] = 7 /\ o[1 + 1] = 6 /\ o[2 + 1] = 2 /\ o[3 + 1] = 3 /\ o[4 + 1] = 4 /\ o[5 + 1] = 5
  BY Numbers
<1> HIDE DEF o
<1>2. \A k \in 0 .. 5 : o[k + 1] \in 2 .. 7
  <2> SUFFICES ASSUME NEW k \in 0 .. 5 PROVE o[k + 1] \in 2 .. 7
    OBVIOUS
  <2>1. k = 0 \/ k = 1 \/ k = 2 \/ k = 3 \/ k = 4 \/ k = 5
    OBVIOUS
  <2> QED
    BY <1>1, <2>1
<1>3. \A r \in 2 .. 7 : \E k \in 0 .. 5 : o[k + 1] = r
  <2> SUFFICES ASSUME NEW r \in 2 .. 7 PROVE \E k \in 0 .. 5 : o[k + 1] = r
    OBVIOUS
  <2>1. r = 2 \/ r = 3 \/ r = 4 \/ r = 5 \/ r = 6 \/ r = 7
    OBVIOUS
  <2> QED
    BY <1>1, <2>1
<1>4. \A r \in 2 .. 7 : Place(o, r) \in 0 .. 5 /\ o[Place(o, r) + 1] = r
  BY <1>3 DEF Place
<1>5. PushOrder = o /\ ReadOrder = o /\ WriteOrder = o /\ PopOrder = o
  BY DEF o, PushOrder, ReadOrder, WriteOrder, PopOrder
<1> QED
  BY <1>2, <1>4, <1>5, Numbers

-----------------------------------------------------------------------------
(* What the host hears. *)

LEMMA StopHeard ==
  ASSUME NEW f \in [Register -> Word]
  PROVE  StopReply(f) \in Reply /\ Heard(StopReply(f)) = [is |-> "stop", at |-> f[PC]]
<1> DEFINE two == [k \in 0 .. 1 |-> f[PC + k]]
           bytes == Bytes(two, 2)
           hex == to_hex(bytes)
           d == SubSeq(hex, 1, 4)
           back == from_hex(d, 4)
<1>1. two \in [0 .. 2 - 1 -> Word] /\ two[0] = f[PC]
  BY Numbers
<1>2. bytes \in Seq(Byte) /\ Len(bytes) = 4 /\ Words(bytes) = two
  <2>1. two \in [0 .. 2 - 1 -> Word] /\ 2 \in Nat \ {0}
    BY <1>1
  <2> HIDE DEF two
  <2>2. bytes \in Seq(Byte) /\ Len(bytes) = 2 * 2 /\ Words(bytes) = two
    BY <2>1, BytesAndBack
  <2> HIDE DEF bytes
  <2> QED
    BY <2>2
<1> HIDE DEF bytes, two
<1>3. /\ hex \in Seq(Digit) /\ Len(hex) = 8
      /\ \A k \in 1 .. Len(bytes) : hex[2 * k - 1] = bytes[k] \div 16 /\ hex[2 * k] = bytes[k] % 16
  <2>1. bytes \in Seq(Byte)
    BY <1>2
  <2>2. /\ hex \in Seq(Digit) /\ Len(hex) = 2 * Len(bytes)
        /\ \A k \in 1 .. Len(bytes) : hex[2 * k - 1] = bytes[k] \div 16 /\ hex[2 * k] = bytes[k] % 16
    BY <2>1, HexDigits
  <2> HIDE DEF hex
  <2> QED
    BY <1>2, <2>2
<1> HIDE DEF hex
<1>4. d \in Seq(Digit) /\ Len(d) = 4 /\ \A k \in 1 .. 4 : d[k] = hex[k]
  <2>1. \A k \in 1 .. 4 : hex[k] \in Digit
    <3>1. hex \in Seq(Digit) /\ Len(hex) = 8
      BY <1>3
    <3>2. \A k \in 1 .. 4 : k \in 1 .. Len(hex)
      BY <3>1
    <3> QED
      BY <3>1, <3>2, ElementOfSeq
  <2>2. /\ d \in Seq(Digit)
        /\ Len(d) = IF 1 <= 4 THEN 4 - 1 + 1 ELSE 0
        /\ \A k \in 1 .. 4 - 1 + 1 : d[k] = hex[1 + k - 1]
    BY <2>1, SubSeqProperties
  <2> HIDE DEF d
  <2> QED
    BY <2>2
<1> HIDE DEF d
<1>5. /\ d[1] = bytes[1] \div 16 /\ d[2] = bytes[1] % 16
      /\ d[3] = bytes[2] \div 16 /\ d[4] = bytes[2] % 16
  <2>1. \A k \in 1 .. 2 : hex[2 * k - 1] = bytes[k] \div 16 /\ hex[2 * k] = bytes[k] % 16
    BY <1>2, <1>3
  <2> QED
    BY <1>4, <2>1
<1>6. Len(back) = 2 /\ back[1] = 16 * d[1] + d[2] /\ back[2] = 16 * d[3] + d[4]
  BY DEF from_hex
<1>7. back[1] = bytes[1] /\ back[2] = bytes[2]
  <2>1. bytes[1] \in Byte /\ bytes[2] \in Byte
    <3>1. bytes \in Seq(Byte)
      BY <1>2
    <3>2. 1 \in 1 .. Len(bytes) /\ 2 \in 1 .. Len(bytes)
      BY <1>2
    <3> QED
      BY <3>1, <3>2, ElementOfSeq
  <2> QED
    BY <1>5, <1>6, <2>1, Nibbles
<1> HIDE DEF back
<1>8. Words(back)[0] = Words(bytes)[0]
  BY <1>2, <1>6, <1>7 DEF Words
<1>9. StopReply(f) = [is |-> "T05_PC", digits |-> d]
  BY DEF StopReply, d, hex, bytes, two
<1>10. Heard(StopReply(f)) = [is |-> "stop", at |-> Words(back)[0]]
  BY <1>9 DEF Heard, back
<1> QED
  BY <1>1, <1>2, <1>4, <1>8, <1>9, <1>10 DEF Reply

LEMMA BytesHeard ==
  ASSUME NEW b \in Seq(Byte), NEW what \in {"registers", "memory"}, Len(b) <= 62
  PROVE  /\ Packet(what, to_hex(b)) = [is |-> what, digits |-> to_hex(b)]
         /\ Packet(what, to_hex(b)) \in Reply
         /\ from_hex(to_hex(b), Len(to_hex(b))) = b
<1>1. to_hex(b) \in Seq(Digit) /\ Len(to_hex(b)) = 2 * Len(b)
  BY HexDigits
<1>2. ~(Len(to_hex(b)) + 4 > BufferSize)
  <2>1. PICK l \in Nat : l = Len(b)
    OBVIOUS
  <2> QED
    BY <1>1, <2>1, Numbers
<1>3. Packet(what, to_hex(b)) = [is |-> what, digits |-> to_hex(b)]
  BY <1>2 DEF Packet
<1> QED
  BY <1>1, <1>3, HexAndBack DEF Reply

LEMMA RegistersHeard ==
  ASSUME NEW f \in [Register -> Word]
  PROVE  LET said == Packet("registers", to_hex(Bytes(f, REGISTERS_COUNT)))
         IN said \in Reply /\ Heard(said) = [is |-> "registers", words |-> f]
<1> DEFINE b == Bytes(f, 12)
<1>1. f \in [0 .. 12 - 1 -> Word]
  BY Numbers
<1>2. b \in Seq(Byte) /\ Len(b) = 24 /\ Words(b) = f
  <2>1. 12 \in Nat \ {0}
    OBVIOUS
  <2>2. b \in Seq(Byte) /\ Len(b) = 2 * 12 /\ Words(b) = f
    BY <1>1, <2>1, BytesAndBack
  <2> HIDE DEF b
  <2> QED
    BY <2>2
<1> HIDE DEF b
<1>3. /\ Packet("registers", to_hex(b)) = [is |-> "registers", digits |-> to_hex(b)]
      /\ Packet("registers", to_hex(b)) \in Reply
      /\ from_hex(to_hex(b), Len(to_hex(b))) = b
  <2>1. b \in Seq(Byte) /\ Len(b) <= 62
    BY <1>2
  <2> QED
    BY <2>1, BytesHeard
<1>4. Heard(Packet("registers", to_hex(b))) = [is |-> "registers", words |-> f]
  BY <1>2, <1>3 DEF Heard
<1> QED
  BY <1>3, <1>4, Numbers DEF b

LEMMA MemoryHeard ==
  ASSUME NEW b \in Seq(Byte), Len(b) <= 62
  PROVE  LET said == Packet("memory", to_hex(b))
         IN said \in Reply /\ Heard(said) = [is |-> "bytes", bytes |-> b]
<1>1. /\ Packet("memory", to_hex(b)) = [is |-> "memory", digits |-> to_hex(b)]
      /\ Packet("memory", to_hex(b)) \in Reply
      /\ from_hex(to_hex(b), Len(to_hex(b))) = b
  BY BytesHeard
<1> QED
  BY <1>1 DEF Heard

LEMMA WordsHeard ==
  /\ \A s \in {"none", "OK", "E01", "T05", "features"} : [is |-> s] \in Reply
  /\ Heard([is |-> "none"]) = T!Nothing
  /\ Heard(OK) = T!OK /\ OK \in Reply
  /\ Heard(Error) = T!Error /\ Error \in Reply
  /\ Heard([is |-> "T05"]) = [is |-> "signal"]
  /\ Heard([is |-> "features"]) = [is |-> "text"]
<1>1. \A s \in {"none", "OK", "E01", "T05", "features"} : [is |-> s] \in Reply
  BY DEF Reply
<1> QED
  BY <1>1 DEF Heard, OK, Error, T!Nothing, T!OK, T!Error

-----------------------------------------------------------------------------
(* The program, the trap and the way back. *)

LEMMA Same == T!OfProgram = OfProgram /\ T!Word = Word /\ T!Byte = Byte /\ T!PC = PC /\ T!SP = SP
BY Numbers DEF T!OfProgram, T!Word, Word, T!Byte, Byte, T!PC, T!SP

LEMMA InitStep == ASSUME Init PROVE IInv /\ T!Init
<1>1. cpu \in [OfProgram -> Word]
  BY FilesAssumption DEF Init
<1>2. 0 \in Word
  BY WordRange
<1>3. memory \in [Cells -> Byte]
  <2>1. \A a \in Cells : a \in Nat
    BY CellsAssumption, WordNat
  <2>2. \A a \in Nat : a % 251 \in Byte
    BY DEF Byte
  <2> QED
    BY <2>1, <2>2 DEF Init
<1>4. TypeOK
  BY <1>1, <1>2, <1>3, WordsHeard DEF Init, TypeOK
<1>5. StackPointer /\ Distinct
  BY DEF Init, StackPointer, Distinct
<1>6. SeenRegisters = cpu
  BY <1>1 DEF Init, SeenRegisters
<1>7. SetAddresses = {}
  BY DEF Init, SetAddresses
<1>8. OwnTrap = T!Nowhere
  BY DEF Init, OwnTrap, T!Nowhere
<1>9. Heard(reply) = T!Nothing
  BY WordsHeard DEF Init
<1> QED
  BY <1>1, <1>3, <1>4, <1>5, <1>6, <1>7, <1>8, <1>9, Same DEF IInv, Init, T!Init, NoRequest, T!NoRequest

LEMMA RunStep == ASSUME IInv, Run PROVE IInv' /\ T!Run
<1>1. at = "program" /\ at' = "program" /\ cpu' \in [OfProgram -> Word] /\ cpu \in [OfProgram -> Word]
  BY FilesAssumption DEF Run, IInv, TypeOK
<1>2. IInv'
  BY <1>1 DEF Run, IInv, TypeOK, StackPointer, Distinct, stack
<1>3. SeenRegisters' = cpu' /\ SetAddresses' = SetAddresses /\ OwnTrap' = OwnTrap
  BY <1>1 DEF Run, SeenRegisters, SetAddresses, OwnTrap
<1>4. memory' = memory /\ memory \in [Cells -> Byte] /\ reply' = reply /\ request' = request
  BY DEF Run, IInv, TypeOK
<1> QED
  BY <1>1, <1>2, <1>3, <1>4, Same DEF T!Run

LEMMA TrapStep ==
  ASSUME IInv, NEW breakpoint \in BOOLEAN, NEW enter \in BOOLEAN, Trap(breakpoint, enter)
  PROVE  IInv' /\ T!Stop
<1> USE Numbers
<1>1. /\ at = "program" /\ cpu \in [0 .. 7 -> Word] /\ registers \in [0 .. 11 -> Word]
      /\ breakpoints \in [Slots -> Word]
  BY DEF IInv, TypeOK, Trap
<1>2. cpu[0] \in Word /\ cpu[1] \in Word
  BY <1>1
<1>3. return_address' \in Word /\ cpu[1] = (return_address' + 65535) % 65536
  BY <1>2, Wraps DEF Trap
<1>16. rst8_sp_copy' \in Word /\ cpu[0] = SPBefore(rst8_sp_copy')
  BY <1>2, Wraps DEF Trap, SPBefore
<1>4. /\ saved_registers' \in [0 .. 5 -> Word]
      /\ \A r \in 2 .. 7 : saved_registers'[Place(ReadOrder, r)] = cpu[r]
  <2>1. saved_registers' = [k \in 0 .. 5 |-> cpu[PushOrder[k + 1]]]
    BY DEF Trap
  <2>2. \A k \in 0 .. 5 : PushOrder[k + 1] \in 2 .. 7
    BY Places
  <2>3. \A r \in 2 .. 7 : Place(ReadOrder, r) \in 0 .. 5 /\ PushOrder[Place(ReadOrder, r) + 1] = r
    BY Places
  <2> QED
    BY <1>1, <2>1, <2>2, <2>3
<1>5. /\ registers' \in [Register -> Word]
      /\ \A r \in 0 .. 7 : registers'[r] = cpu[r]
  <2>1. registers' = [r \in 0 .. 11 |->
          CASE r = 1           -> (return_address' + 65535) % 65536
            [] r = 0           -> SPBefore(rst8_sp_copy')
            [] r \in 2 .. 7   -> saved_registers'[Place(ReadOrder, r)]
            [] OTHER           -> registers[r]]
    BY DEF Trap
  <2>2. ASSUME NEW r \in 0 .. 7 PROVE registers'[r] = cpu[r]
    <3>1. CASE r = 0
      BY <1>16, <2>1, <3>1
    <3>2. CASE r = 1
      BY <1>3, <2>1, <3>2
    <3>3. CASE r \in 2 .. 7
      BY <1>4, <2>1, <3>3
    <3> QED
      BY <3>1, <3>2, <3>3
  <2>3. ASSUME NEW r \in 8 .. 11 PROVE registers'[r] = registers[r]
    BY <2>1
  <2>4. \A r \in 0 .. 11 : registers'[r] \in Word
    BY <1>1, <2>2, <2>3
  <2>5. registers' = [r \in 0 .. 11 |-> registers'[r]]
    BY <2>1
  <2> QED
    BY <2>2, <2>4, <2>5
<1>6. /\ at' \in {"loop", "leaving"} /\ reply' \in Reply
      /\ Heard(reply') \in {[is |-> "stop", at |-> cpu[1]], Heard(reply)}
  <2>1. CASE enter
    BY <1>5, <2>1, StopHeard DEF Trap
  <2>2. CASE ~enter
    BY <2>2 DEF Trap, IInv, TypeOK
  <2> QED
    BY <2>1, <2>2
<1>7. /\ breakpoints' \in [Slots -> Word]
      /\ \A k \in Slots : breakpoints'[k] \in {breakpoints[k], 0}
  <2>1. CASE enter
    <3>1. 0 \in Word
      BY WordRange
    <3>2. PICK given_up \in SUBSET Slots :
            breakpoints' = [k \in Slots |-> IF k \in given_up THEN 0 ELSE breakpoints[k]]
      <4>1. GiveUp
        BY <2>1 DEF Trap
      <4> QED
        BY <4>1 DEF GiveUp
    <3> QED
      BY <1>1, <3>1, <3>2
  <2>2. CASE ~enter
    BY <1>1, <2>2 DEF Trap
  <2> QED
    BY <2>1, <2>2
<1>8. Distinct'
  BY <1>1, <1>7 DEF IInv, Distinct
<1>9. StackPointer'
  BY <1>5, <1>16 DEF StackPointer
<1>10. TypeOK'
  <2>1. hit' = breakpoint /\ cpu' = cpu /\ memory' = memory /\ request' = request
    BY DEF Trap
  <2> QED
    BY <1>3, <1>4, <1>5, <1>6, <1>7, <1>16, <2>1 DEF IInv, TypeOK
<1>11. SeenRegisters = cpu /\ SeenRegisters' = cpu
  BY <1>1, <1>5, <1>6 DEF SeenRegisters
<1>12. SetAddresses' \subseteq SetAddresses
  BY <1>7 DEF SetAddresses
<1>13. OwnTrap' \in {cpu[1], 65536}
  BY <1>3 DEF OwnTrap, rst08_address
<1>14. memory' = memory /\ request' = request
  BY DEF Trap
<1>15. T!Stop
  BY <1>1, <1>6, <1>11, <1>12, <1>13, <1>14, Same DEF T!Stop, T!Nowhere
<1> QED
  BY <1>8, <1>9, <1>10, <1>15 DEF IInv

LEMMA LeaveStep == ASSUME IInv, Leave PROVE IInv' /\ T!Resume
<1> USE Numbers
<1>1. /\ at \in {"loop", "leaving"} /\ at' = "program" /\ hit \in BOOLEAN
      /\ registers \in [0 .. 11 -> Word] /\ return_address \in Word
      /\ registers[0] = SPBefore(rst8_sp_copy)
  BY DEF IInv, TypeOK, Leave, StackPointer
<1>2. registers[0] \in Word /\ registers[1] \in Word
  BY <1>1
<1>3. /\ resume_addr \in Word
      /\ resume_addr = IF registers[1] = OwnTrap THEN (registers[1] + 1) % 65536 ELSE registers[1]
  <2>1. rst08_address \in Word /\ return_address = (rst08_address + 1) % 65536
    BY <1>1, Wraps DEF rst08_address
  <2>2. registers[1] # 65536
    BY <1>2, WordNat
  <2> QED
    BY <1>1, <1>2, <2>1, <2>2 DEF resume_addr, OwnTrap
<1>4. /\ saved_registers' \in [0 .. 5 -> Word]
      /\ \A r \in 2 .. 7 : saved_registers'[Place(PopOrder, r)] = registers[r]
  <2>1. saved_registers' = [k \in 0 .. 5 |-> registers[WriteOrder[k + 1]]]
    BY DEF Leave
  <2>2. \A k \in 0 .. 5 : WriteOrder[k + 1] \in 2 .. 7
    BY Places
  <2>3. \A r \in 2 .. 7 : Place(PopOrder, r) \in 0 .. 5 /\ WriteOrder[Place(PopOrder, r) + 1] = r
    BY Places
  <2> QED
    BY <1>1, <2>1, <2>2, <2>3
<1>5. /\ cpu' \in [OfProgram -> Word]
      /\ cpu' = [r \in 0 .. 7 |-> IF r = 1 THEN resume_addr ELSE registers[r]]
  <2>1. cpu' = [r \in 0 .. 7 |->
          CASE r = 1 -> resume_addr
            [] r = 0 -> SPBefore(rst8_sp_copy)
            [] OTHER -> saved_registers'[Place(PopOrder, r)]]
    BY DEF Leave
  <2>2. ASSUME NEW r \in 0 .. 7 PROVE cpu'[r] = IF r = 1 THEN resume_addr ELSE registers[r]
    <3>1. CASE r = 0
      BY <1>1, <2>1, <3>1
    <3>2. CASE r = 1
      BY <2>1, <3>2
    <3>3. CASE r \in 2 .. 7
      BY <1>4, <2>1, <3>3
    <3> QED
      BY <3>1, <3>2, <3>3
  <2>3. cpu' = [r \in 0 .. 7 |-> cpu'[r]]
    BY <2>1
  <2>4. \A r \in 0 .. 7 : registers[r] \in Word
    BY <1>1
  <2> QED
    BY <1>3, <2>2, <2>3, <2>4
<1>6. reply' = [is |-> "none"] /\ reply' \in Reply /\ Heard(reply') = T!Nothing
  BY WordsHeard DEF Leave
<1>7. TypeOK'
  BY <1>1, <1>3, <1>4, <1>5, <1>6 DEF IInv, TypeOK, Leave
<1>8. StackPointer' /\ Distinct'
  BY <1>1 DEF IInv, StackPointer, Distinct, Leave
<1>9. SeenRegisters = [r \in 0 .. 7 |-> registers[r]] /\ SeenRegisters' = cpu'
  BY <1>1, <1>5 DEF SeenRegisters
<1>10. SetAddresses' = SetAddresses /\ OwnTrap' = T!Nowhere
  BY <1>1 DEF Leave, SetAddresses, OwnTrap, T!Nowhere
<1>11. SeenRegisters' = IF SeenRegisters[1] = OwnTrap
                          THEN [SeenRegisters EXCEPT ![1] = (@ + 1) % 65536] ELSE SeenRegisters
  BY <1>3, <1>5, <1>9
<1>12. memory' = memory /\ request' = NoRequest
  BY DEF Leave
<1>13. T!Resume
  BY <1>1, <1>6, <1>10, <1>11, <1>12, Same DEF T!Resume, NoRequest, T!NoRequest
<1> QED
  BY <1>7, <1>8, <1>13 DEF IInv

-----------------------------------------------------------------------------
(* The requests. *)

\* What every request keeps, and what is left to show of one.
LEMMA Served ==
  ASSUME IInv, at = "loop", NEW r \in Requests, request' = r,
         UNCHANGED <<at, cpu, stack, hit>>,
         memory' \in [Cells -> Byte], registers' \in [Register -> Word], breakpoints' \in [Slots -> Word],
         reply' \in Reply, registers'[SP] = registers[SP], Distinct',
         \/ T!ReadRegisters(r) \/ T!WriteRegisters(r) \/ T!WriteRegister(r)
         \/ T!ReadMemory(r) \/ T!WriteMemory(r)
         \/ T!PlaceBreakpoint(r) \/ T!DeleteBreakpoint(r) \/ T!Other(r)
  PROVE  IInv' /\ T!Serve(r)
<1>1. TypeOK'
  BY DEF IInv, TypeOK, stack
<1>2. StackPointer'
  BY DEF IInv, StackPointer, stack
<1>3. OwnTrap' = OwnTrap
  BY DEF OwnTrap, rst08_address, stack
<1> QED
  BY <1>1, <1>2, <1>3 DEF IInv, T!Serve

\* Registers that only the stub sees are no part of what the program has.
LEMMA SeenStopped ==
  ASSUME at = "loop"
  PROVE  SeenRegisters = [k \in OfProgram |-> registers[k]]
BY DEF SeenRegisters

LEMMA SeenAfter ==
  ASSUME at' = "loop"
  PROVE  SeenRegisters' = [k \in OfProgram |-> registers'[k]]
BY DEF SeenRegisters

\* A request that is only answered.
LEMMA Unseen ==
  ASSUME at = "loop", NEW said, AnswerOnly(said)
  PROVE  /\ UNCHANGED <<at, cpu, memory, stack, hit, registers, breakpoints>> /\ reply' = said
         /\ UNCHANGED <<SeenRegisters, SetAddresses>>
BY DEF AnswerOnly, Answer, SeenRegisters, SetAddresses

LEMMA AnsweredOnly ==
  ASSUME IInv, at = "loop", NEW r \in Requests, request' = r, NEW said \in Reply, AnswerOnly(said),
         T!ReadMemory(r) \/ T!WriteRegister(r) \/ T!PlaceBreakpoint(r) \/ T!DeleteBreakpoint(r) \/ T!Other(r)
  PROVE  IInv' /\ T!Serve(r)
<1>1. UNCHANGED <<at, cpu, memory, stack, hit, registers, breakpoints>> /\ reply' = said
  BY Unseen
<1>2. /\ memory' \in [Cells -> Byte] /\ registers' \in [Register -> Word]
      /\ breakpoints' \in [Slots -> Word]
  BY <1>1 DEF IInv, TypeOK
<1>3. Distinct'
  BY <1>1 DEF IInv, Distinct
<1> QED
  BY <1>1, <1>2, <1>3, Served

LEMMA OtherStep ==
  ASSUME IInv, NEW r \in Requests, request' = r, process_packet(Encoded(r)),
         \/ r \in [name : {"g", "k", "?"}] /\ r.name # "g"
         \/ r \in [name : {"q"}, known : BOOLEAN]
         \/ r.name = "torn" /\ r.of \notin {"g", "k", "?", "q", "G"}
  PROVE  IInv' /\ T!Serve(r)
<1> USE DEF process_packet, Fixed, ReadRegisters, WriteRegisters, WriteRegister, ReadMemory, WriteMemory,
            Breakpoint, Command, Known, Payload
<1>1. at = "loop"
  OBVIOUS
<1>2. CASE r.name = "k"
  <2>1. Encoded(r).command = "k"
    BY <1>2 DEF Encoded
  <2>2. AnswerOnly(OK)
    BY <2>1
  <2>3. T!Other(r)
    BY <1>1, <1>2, <2>2, Unseen, WordsHeard DEF T!Other, T!Unchanged
  <2> QED
    BY <1>1, <2>2, <2>3, WordsHeard, AnsweredOnly
<1>3. CASE r.name = "?"
  <2>1. Encoded(r).command = "?"
    BY <1>3 DEF Encoded
  <2>2. AnswerOnly([is |-> "T05"])
    BY <2>1
  <2>3. T!Other(r)
    BY <1>1, <1>3, <2>2, Unseen, WordsHeard DEF T!Other, T!Unchanged
  <2>4. [is |-> "T05"] \in Reply
    BY WordsHeard
  <2> QED
    BY <1>1, <2>2, <2>3, <2>4, AnsweredOnly
<1>4. CASE r \in [name : {"q"}, known : BOOLEAN]
  <2>1. Encoded(r).command = "q" /\ Encoded(r).fields = <<r.known>>
    <3>1. r.name = "q"
      BY <1>4
    <3> QED
      BY <3>1 DEF Encoded
  <2>2. CASE r.known
    <3>1. AnswerOnly([is |-> "features"])
      BY <2>1, <2>2
    <3>2. T!Other(r)
      BY <1>1, <1>4, <2>2, <3>1, Unseen, WordsHeard DEF T!Other, T!Unchanged
    <3>3. [is |-> "features"] \in Reply
      BY WordsHeard
    <3> QED
      BY <1>1, <3>1, <3>2, <3>3, AnsweredOnly
  <2>3. CASE ~r.known
    <3>1. AnswerOnly(Error)
      BY <2>1, <2>3
    <3>2. T!Other(r)
      BY <1>1, <1>4, <2>3, <3>1, Unseen, WordsHeard DEF T!Other, T!Unchanged
    <3> QED
      BY <1>1, <3>1, <3>2, WordsHeard, AnsweredOnly
  <2> QED
    BY <2>2, <2>3
<1>5. CASE r.name = "torn" /\ r.of \notin {"g", "k", "?", "q", "G"}
  <2>1. Encoded(r).command = r.of /\ Encoded(r).fields = <<>>
    BY <1>5 DEF Encoded
  <2>2. AnswerOnly(Error)
    BY <1>5, <2>1
  <2>3. T!Other(r)
    BY <1>1, <1>5, <2>2, Unseen, WordsHeard DEF T!Other, T!Unchanged
  <2> QED
    BY <1>1, <2>2, <2>3, WordsHeard, AnsweredOnly
<1> QED
  BY <1>2, <1>3, <1>4, <1>5

LEMMA ReadRegistersStep ==
  ASSUME IInv, NEW r \in Requests, request' = r, process_packet(Encoded(r)), r.name = "g"
  PROVE  IInv' /\ T!Serve(r)
<1>1. Encoded(r).command = "g"
  BY DEF Encoded, Payload
<1>2. ReadRegisters(Encoded(r))
  BY <1>1 DEF process_packet, Fixed, ReadRegisters, WriteRegisters, WriteRegister, ReadMemory, WriteMemory,
              Breakpoint, Command, Known
<1>3. /\ at = "loop" /\ at' = "loop"
      /\ registers' = [k \in Register |-> IF k \in SLOT_0 .. SLOT_3 THEN Pages[k] ELSE registers[k]]
      /\ reply' = Packet("registers", to_hex(Bytes(registers', REGISTERS_COUNT)))
      /\ UNCHANGED <<cpu, memory, stack, hit, breakpoints>>
  BY <1>2 DEF ReadRegisters, Command, Answer
<1>4. registers' \in [Register -> Word] /\ \A k \in 0 .. 7 : registers'[k] = registers[k]
  BY <1>3, PagesAssumption, Numbers DEF IInv, TypeOK
<1>5. reply' \in Reply /\ Heard(reply') = [is |-> "registers", words |-> registers']
  BY <1>3, <1>4, RegistersHeard
<1>6. SeenRegisters' = SeenRegisters
  BY <1>3, <1>4, Numbers, SeenStopped, SeenAfter
<1>7. registers' = [k \in T!OfProgram \union T!Mapped |-> IF k \in T!OfProgram THEN SeenRegisters[k] ELSE Pages[k]]
  <2>1. T!OfProgram = 0 .. 7 /\ T!OfProgram \union T!Mapped = 0 .. 11
    BY DEF T!OfProgram, T!Mapped
  <2> QED
    BY <1>3, <2>1, Numbers, SeenStopped
<1>8. SetAddresses' = SetAddresses
  BY <1>3 DEF SetAddresses
<1>9. T!ReadRegisters(r)
  BY <1>3, <1>5, <1>6, <1>7, <1>8 DEF T!ReadRegisters, T!Unchanged
<1>10. Distinct'
  BY <1>3 DEF IInv, Distinct
<1>11. memory' \in [Cells -> Byte] /\ breakpoints' \in [Slots -> Word]
  BY <1>3 DEF IInv, TypeOK
<1>12. registers'[SP] = registers[SP]
  BY <1>4, Numbers
<1> QED
  BY <1>3, <1>4, <1>5, <1>9, <1>10, <1>11, <1>12, Served

\* A request that writes registers: what they are afterwards is what Target says.
LEMMA RegistersSet ==
  ASSUME IInv, at = "loop", NEW r \in Requests, request' = r,
         NEW f \in [Register -> Word], SetRegisters(f), f[SP] = registers[SP],
         T!WriteRegisters(r) \/ T!WriteRegister(r)
  PROVE  IInv' /\ T!Serve(r)
<1>1. /\ registers' = f /\ reply' = OK /\ UNCHANGED <<at, cpu, memory, stack, hit, breakpoints>>
  BY DEF SetRegisters, Answer
<1>2. memory' \in [Cells -> Byte] /\ breakpoints' \in [Slots -> Word] /\ reply' \in Reply
  BY <1>1, WordsHeard DEF IInv, TypeOK
<1>3. Distinct'
  BY <1>1 DEF IInv, Distinct
<1> QED
  BY <1>1, <1>2, <1>3, Served

LEMMA WriteRegistersStep ==
  ASSUME IInv, NEW r \in Requests, request' = r, process_packet(Encoded(r)), Plain, Regular(r),
         r \in [name : {"G"}, words : [Register -> Word]]
  PROVE  IInv' /\ T!Serve(r)
<1> DEFINE w == r.words  b == Bytes(w, 12)
<1>1. r.name = "G" /\ w \in [Register -> Word]
  OBVIOUS
<1>2. Encoded(r).command = "G" /\ Encoded(r).fields = <<to_hex(Bytes(w, REGISTERS_COUNT))>>
  BY <1>1 DEF Encoded, Payload
<1>3. WriteRegisters(Encoded(r))
  BY <1>2 DEF process_packet, Fixed, ReadRegisters, WriteRegisters, WriteRegister, ReadMemory, WriteMemory,
              Breakpoint, Command, Known
<1>4. b \in Seq(Byte) /\ Len(b) = 24 /\ Words(b) = w
  <2>1. w \in [0 .. 12 - 1 -> Word] /\ 12 \in Nat \ {0}
    BY <1>1, Numbers
  <2> HIDE DEF w
  <2>2. b \in Seq(Byte) /\ Len(b) = 2 * 12 /\ Words(b) = w
    BY <2>1, BytesAndBack
  <2> HIDE DEF b
  <2> QED
    BY <2>2
<1>5. Encoded(r).fields[1] = to_hex(b)
  BY <1>2, Numbers
<1> HIDE DEF b
<1>6. from_hex(to_hex(b), 48) = b
  <2>1. from_hex(to_hex(b), 2 * Len(b)) = b
    BY <1>4, HexAndBack
  <2>2. 2 * Len(b) = 48
    BY <1>4
  <2> QED
    BY <2>1, <2>2
<1>7. at = "loop" /\ SetRegisters(w)
  <2>1. 4 * REGISTERS_COUNT = 48
    BY Numbers
  <2> QED
    BY <1>3, <1>4, <1>5, <1>6, <2>1 DEF WriteRegisters, Command
<1>8. w[SP] = registers[SP]
  BY <1>1 DEF Regular, Plain, Allowed
<1>9. registers' = w /\ reply' = OK /\ UNCHANGED <<at, memory, breakpoints>>
  BY <1>7 DEF SetRegisters, Answer
<1>10. SeenRegisters' = [k \in OfProgram |-> w[k]] /\ SetAddresses' = SetAddresses
  BY <1>7, <1>9, SeenAfter DEF SetAddresses
<1>11. T!WriteRegisters(r)
  BY <1>1, <1>9, <1>10, Same, WordsHeard DEF T!WriteRegisters
<1> QED
  BY <1>1, <1>7, <1>8, <1>11, RegistersSet

LEMMA WriteRegisterStep ==
  ASSUME IInv, NEW r \in Requests, request' = r, process_packet(Encoded(r)), Plain, Regular(r),
         r \in [name : {"P"}, register : Word, word : Word]
  PROVE  IInv' /\ T!Serve(r)
<1> DEFINE n == r.register  w == r.word
<1>1. r.name = "P" /\ n \in Word /\ w \in Word
  OBVIOUS
<1>2. Encoded(r).command = "P" /\ Encoded(r).fields = <<Number(n), Value(w)>>
  BY <1>1 DEF Encoded, Payload
<1>3. WriteRegister(Encoded(r))
  BY <1>2 DEF process_packet, Fixed, ReadRegisters, WriteRegisters, WriteRegister, ReadMemory, WriteMemory,
              Breakpoint, Command, Known
<1>4. /\ Len(Encoded(r).fields) = 2
      /\ from_hex_str(Encoded(r).fields[1]) = n /\ from_hex_str(Encoded(r).fields[2]) = w
      /\ Len(Encoded(r).fields[1]) \in 1 .. 2 <=> n < 256
  <2>1. from_hex_str(Number(n)) = n /\ Len(Number(n)) \in 1 .. 4 /\ (Len(Number(n)) <= 2 <=> n < 256)
    BY <1>1, NumberRead
  <2>2. from_hex_str(Value(w)) = w
    BY <1>1, ValueRead DEF Plain
  <2>3. PICK l \in 1 .. 4 : l = Len(Number(n))
    BY <2>1
  <2>4. l \in 1 .. 2 <=> l <= 2
    OBVIOUS
  <2>5. Len(<<Number(n), Value(w)>>) = 2
    OBVIOUS
  <2> QED
    BY <1>2, <2>1, <2>2, <2>3, <2>4, <2>5
<1>5. n \in Nat
  BY <1>1, WordNat
<1>6. at = "loop"
  BY <1>3 DEF WriteRegister, Command
<1>7. T!OfProgram = 0 .. 7 /\ T!OfProgram \union T!Mapped = 0 .. 11
  BY DEF T!OfProgram, T!Mapped
<1>8. CASE n < 12
  <2> DEFINE f == [registers EXCEPT ![n] = w]
  <2>1. SetRegisters(f)
    <3>1. n < 256
      BY <1>5, <1>8
    <3> QED
      BY <1>3, <1>4, <1>8, <3>1, Numbers DEF WriteRegister
  <2>2. f \in [Register -> Word] /\ n \in Register /\ registers \in [Register -> Word]
    BY <1>1, <1>5, <1>8, Numbers DEF IInv, TypeOK
  <2>3. f[SP] = registers[SP]
    <3>1. n # SP \/ w = registers[SP]
      BY <1>1 DEF Regular, Plain, Allowed
    <3> QED
      BY <2>2, <3>1, Numbers
  <2>4. registers' = f /\ reply' = OK /\ UNCHANGED <<at, memory, breakpoints>>
    BY <2>1 DEF SetRegisters, Answer
  <2>5. SetAddresses' = SetAddresses
    BY <2>4 DEF SetAddresses
  <2>6. SeenRegisters' = IF n \in OfProgram THEN [SeenRegisters EXCEPT ![n] = w] ELSE SeenRegisters
    BY <1>6, <2>2, <2>4, SeenStopped, SeenAfter, Numbers
  <2>7. T!WriteRegister(r)
    BY <1>1, <1>7, <2>2, <2>4, <2>5, <2>6, Same, WordsHeard, Numbers DEF T!WriteRegister
  <2> HIDE DEF f
  <2> QED
    BY <1>6, <2>1, <2>2, <2>3, <2>7, RegistersSet
<1>9. CASE ~(n < 12)
  <2>1. AnswerOnly(Error)
    BY <1>3, <1>4, <1>9, Numbers DEF WriteRegister
  <2>2. n \notin 0 .. 11
    BY <1>5, <1>9
  <2>3. T!WriteRegister(r)
    BY <1>1, <1>6, <1>7, <2>1, <2>2, Unseen, WordsHeard DEF T!WriteRegister
  <2> QED
    BY <1>6, <2>1, <2>3, WordsHeard, AnsweredOnly
<1> QED
  BY <1>8, <1>9

LEMMA ReadMemoryStep ==
  ASSUME IInv, NEW r \in Requests, request' = r, process_packet(Encoded(r)),
         r \in [name : {"m"}, at : Word, length : Word],
         ~TooLong(r.length) => Block(r.at, r.length) \subseteq Cells
  PROVE  IInv' /\ T!Serve(r)
<1> DEFINE first == r.at  count == r.length
<1>1. r.name = "m" /\ first \in Word /\ count \in Word
  OBVIOUS
<1>2. Encoded(r).command = "m" /\ Encoded(r).fields = <<Number(first), Number(count)>>
  BY <1>1 DEF Encoded, Payload
<1>3. ReadMemory(Encoded(r))
  BY <1>2 DEF process_packet, Fixed, ReadRegisters, WriteRegisters, WriteRegister, ReadMemory, WriteMemory,
              Breakpoint, Command, Known
<1>4. /\ Len(Encoded(r).fields) = 2
      /\ from_hex_str(Encoded(r).fields[1]) = first /\ from_hex_str(Encoded(r).fields[2]) = count
  <2>1. from_hex_str(Number(first)) = first /\ from_hex_str(Number(count)) = count
    BY <1>1, NumberRead
  <2> QED
    BY <1>2, <2>1
<1>5. count \in Nat /\ first \in Nat
  BY <1>1, WordNat
<1>6. TooLong(count) <=> count > 62
  BY <1>5, Numbers DEF TooLong
<1>7. at = "loop"
  BY <1>3 DEF ReadMemory, Command
<1>8. CASE TooLong(count)
  <2>1. AnswerOnly(Error)
    BY <1>3, <1>4, <1>8 DEF ReadMemory
  <2>2. T!ReadMemory(r)
    BY <1>1, <1>5, <1>6, <1>7, <1>8, <2>1, Unseen, WordsHeard DEF T!ReadMemory, T!Unchanged
  <2> QED
    BY <1>7, <2>1, <2>2, WordsHeard, AnsweredOnly
<1>9. CASE ~TooLong(count)
  <2> DEFINE b == [n \in 1 .. count |-> memory[(first + n - 1) % 65536]]
             said == Packet("memory", to_hex(b))
  <2>1. AnswerOnly(said)
    BY <1>3, <1>4, <1>9 DEF ReadMemory
  <2>2. ASSUME NEW n \in 1 .. count PROVE memory[(first + n - 1) % 65536] \in Byte
    <3>1. (first + n - 1) % 65536 \in Cells
      BY <1>9 DEF Block
    <3> QED
      BY <3>1 DEF IInv, TypeOK
  <2>3. b \in Seq(Byte) /\ Len(b) = count
    BY <1>5, <2>2
  <2>4. b \in Seq(Byte) /\ Len(b) <= 62
    BY <1>5, <1>6, <1>9, <2>3
  <2> HIDE DEF b
  <2>5. said \in Reply /\ Heard(said) = [is |-> "bytes", bytes |-> b]
    BY <2>4, MemoryHeard
  <2> HIDE DEF said
  <2>6. T!ReadMemory(r)
    <3>1. /\ reply' = said
          /\ UNCHANGED <<SeenRegisters, SetAddresses, memory>>
      BY <1>7, <2>1, Unseen
    <3>2. Heard(reply') = [is |-> "bytes", bytes |-> [n \in 1 .. count |-> memory[(first + n - 1) % 65536]]]
      BY <2>5, <3>1 DEF b
    <3> QED
      BY <1>1, <1>5, <1>6, <1>9, <3>1, <3>2 DEF T!ReadMemory, T!Unchanged
  <2> QED
    BY <1>7, <2>1, <2>5, <2>6, AnsweredOnly
<1> QED
  BY <1>8, <1>9

LEMMA WriteMemoryStep ==
  ASSUME IInv, NEW r \in Requests, request' = r, process_packet(Encoded(r)),
         r \in [name : {"M"}, at : Word, bytes : Seq(Byte)], Len(r.bytes) < BufferSize
  PROVE  IInv' /\ T!Serve(r)
<1> DEFINE first == r.at  b == r.bytes
<1>1. r.name = "M" /\ first \in Word /\ b \in Seq(Byte)
  OBVIOUS
<1>2. PICK l \in Nat : l = Len(b) /\ l < 128
  BY <1>1, Numbers
<1>3. l \in Word
  BY <1>2, WordRange
<1>4. Encoded(r).command = "M" /\ Encoded(r).fields = <<Number(first), Number(l), to_hex(b)>>
  BY <1>1, <1>2 DEF Encoded, Payload
<1>5. WriteMemory(Encoded(r))
  BY <1>4 DEF process_packet, Fixed, ReadRegisters, WriteRegisters, WriteRegister, ReadMemory, WriteMemory,
              Breakpoint, Command, Known
<1>6. /\ Len(Encoded(r).fields) = 3
      /\ from_hex_str(Encoded(r).fields[1]) = first /\ from_hex_str(Encoded(r).fields[2]) = l
      /\ Encoded(r).fields[3] = to_hex(b)
  <2>1. from_hex_str(Number(first)) = first /\ from_hex_str(Number(l)) = l
    BY <1>1, <1>3, NumberRead
  <2> QED
    BY <1>4, <2>1
<1>7. from_hex(to_hex(b), (2 * l) % 256) = b
  <2>1. (2 * l) % 256 = 2 * l
    BY <1>2
  <2>2. from_hex(to_hex(b), 2 * Len(b)) = b
    BY <1>1, HexAndBack
  <2> QED
    BY <1>2, <2>1, <2>2
<1>8. /\ at = "loop" /\ reply' = OK
      /\ memory' = [a \in Cells |-> IF (a + 65536 - first) % 65536 < l
                                     THEN b[((a + 65536 - first) % 65536) + 1] ELSE memory[a]]
      /\ UNCHANGED <<at, cpu, stack, hit, registers, breakpoints>>
  BY <1>5, <1>6, <1>7 DEF WriteMemory, Command, Answer
<1>9. memory' \in [Cells -> Byte]
  <2> SUFFICES ASSUME NEW a \in Cells
               PROVE  (IF (a + 65536 - first) % 65536 < l
                         THEN b[((a + 65536 - first) % 65536) + 1] ELSE memory[a]) \in Byte
    BY <1>8
  <2>1. memory[a] \in Byte
    BY DEF IInv, TypeOK
  <2>2. PICK i \in Nat : i = (a + 65536 - first) % 65536
    <3>1. a \in Nat /\ first \in Nat /\ first <= 65535
      BY <1>1, CellsAssumption, WordNat
    <3> QED
      BY <3>1
  <2>3. i < l => b[i + 1] \in Byte
    <3> SUFFICES ASSUME i < l PROVE b[i + 1] \in Byte
      OBVIOUS
    <3>1. i + 1 \in 1 .. Len(b)
      BY <1>2
    <3> QED
      BY <1>1, <3>1, ElementOfSeq
  <2> QED
    BY <2>1, <2>2, <2>3
<1>10. SeenRegisters' = SeenRegisters /\ SetAddresses' = SetAddresses
  BY <1>8 DEF SeenRegisters, SetAddresses
<1>11. T!WriteMemory(r)
  BY <1>1, <1>2, <1>8, <1>10, WordsHeard DEF T!WriteMemory, T!Index
<1>12. Distinct'
  BY <1>8 DEF IInv, Distinct
<1>13. registers' \in [Register -> Word] /\ breakpoints' \in [Slots -> Word] /\ reply' \in Reply
  BY <1>8, WordsHeard DEF IInv, TypeOK
<1> QED
  BY <1>8, <1>9, <1>11, <1>12, <1>13, Served

\* The abstract machine counts with an operator of its own, which is the same.
LEMMA SameCount == T!Cardinality(SetAddresses) = Cardinality(SetAddresses)
  BY Zenon DEF Cardinality, T!Cardinality

\* A slot is free exactly when fewer addresses are set than there are slots.
LEMMA FreeSlot ==
  ASSUME IInv
  PROVE  (\E k \in Slots : breakpoints[k] = 0) <=> Cardinality(SetAddresses) < MaxBreakpoints
<1>1. IsFiniteSet(Slots) /\ Cardinality(Slots) = MaxBreakpoints /\ MaxBreakpoints \in Nat
  BY SlotsAssumption, FS_Interval DEF Slots
<1> DEFINE used == {k \in Slots : breakpoints[k] # 0}
           f == [k \in used |-> breakpoints[k]]
<1>2. IsFiniteSet(used) /\ Cardinality(used) <= MaxBreakpoints
  BY <1>1, FS_Subset
<1>3. f \in [used -> SetAddresses]
  BY DEF SetAddresses
<1>4. \A a \in SetAddresses : \E k \in used : f[k] = a
  BY DEF SetAddresses
<1>5. \A j, k \in used : f[j] = f[k] => j = k
  BY DEF IInv, Distinct
<1>6. f \in Surjection(used, SetAddresses) /\ f \in Injection(used, SetAddresses)
  BY <1>3, <1>4, <1>5 DEF Surjection, Injection, IsInjective
<1> HIDE DEF f
<1>7. Cardinality(SetAddresses) = Cardinality(used)
  BY <1>2, <1>6, FS_Surjection
<1>8. CASE \E k \in Slots : breakpoints[k] = 0
  <2>1. PICK k \in Slots : breakpoints[k] = 0
    BY <1>8
  <2>2. IsFiniteSet(Slots \ {k}) /\ Cardinality(Slots \ {k}) = MaxBreakpoints - 1
    BY <1>1, FS_RemoveElement
  <2>3. used \in SUBSET (Slots \ {k})
    BY <2>1
  <2>4. Cardinality(used) <= MaxBreakpoints - 1
    BY <2>2, <2>3, FS_Subset
  <2>5. Cardinality(used) \in Nat
    BY <1>2, FS_CardinalityType
  <2> QED
    BY <1>1, <1>7, <1>8, <2>4, <2>5
<1>9. CASE ~\E k \in Slots : breakpoints[k] = 0
  <2>1. used = Slots
    BY <1>9
  <2> QED
    BY <1>1, <1>7, <1>9, <2>1
<1> QED
  BY <1>8, <1>9

LEMMA BreakpointStep ==
  ASSUME IInv, NEW r \in Requests, request' = r, process_packet(Encoded(r)), Plain, Regular(r),
         r \in [name : {"Z", "z"}, at : Word]
  PROVE  IInv' /\ T!Serve(r)
<1> DEFINE a == r.at
           found == IF r.name = "Z" THEN 0 ELSE a
           left  == IF r.name = "Z" THEN a ELSE 0
<1>1. r.name \in {"Z", "z"} /\ a \in Word
  OBVIOUS
<1>2. Encoded(r).command = r.name /\ Encoded(r).fields = <<Number(a)>>
  BY <1>1 DEF Encoded, Payload
<1>3. Breakpoint(Encoded(r))
  BY <1>1, <1>2 DEF process_packet, Fixed, ReadRegisters, WriteRegisters, WriteRegister, ReadMemory, WriteMemory,
              Breakpoint, Command, Known
<1>4. Encoded(r).fields # <<>> /\ from_hex_str(Encoded(r).fields[1]) = a
  <2>1. from_hex_str(Number(a)) = a
    BY <1>1, NumberRead
  <2> QED
    BY <1>2, <2>1
<1>5. at = "loop"
  BY <1>3 DEF Breakpoint, Command
<1>6. a # 0 /\ (r.name = "Z" => a \notin SetAddresses)
  BY <1>1 DEF Regular, Plain, Allowed, SetAddresses
<1>7. IF \E k \in Slots : breakpoints[k] = found
        THEN \E k \in Slots : breakpoints[k] = found /\ SetBreakpoint(k, left)
        ELSE AnswerOnly(Error)
  BY <1>2, <1>3, <1>4 DEF Breakpoint, First
<1>8. breakpoints \in [Slots -> Word]
  BY DEF IInv, TypeOK
<1>9. CASE \E k \in Slots : breakpoints[k] = found
  <2>1. PICK k \in Slots : breakpoints[k] = found /\ SetBreakpoint(k, left)
    BY <1>7, <1>9
  <2>2. /\ breakpoints' = [breakpoints EXCEPT ![k] = left] /\ reply' = OK
        /\ UNCHANGED <<at, cpu, memory, stack, hit, registers>>
    BY <2>1 DEF SetBreakpoint, Answer
  <2>3. left \in Word
    BY <1>1, WordRange
  <2>4. breakpoints' \in [Slots -> Word]
    BY <1>8, <2>2, <2>3
  <2>5. Distinct'
    BY <1>6, <1>8, <2>1, <2>2 DEF IInv, Distinct, SetAddresses
  <2>6. SetAddresses' = IF r.name = "Z" THEN SetAddresses \union {a} ELSE SetAddresses \ {a}
    <3>1. CASE r.name = "Z"
      BY <1>6, <1>8, <2>1, <2>2, <3>1 DEF SetAddresses
    <3>2. CASE r.name = "z"
      BY <1>6, <1>8, <2>1, <2>2, <3>2 DEF IInv, Distinct, SetAddresses
    <3> QED
      BY <1>1, <3>1, <3>2
  <2>7. SeenRegisters' = SeenRegisters
    BY <2>2 DEF SeenRegisters
  <2>8. T!PlaceBreakpoint(r) \/ T!DeleteBreakpoint(r)
    <3>1. CASE r.name = "Z"
      <4>1. Cardinality(SetAddresses) < MaxBreakpoints
        BY <2>1, <3>1, FreeSlot
      <4> QED
        <5>1. /\ SetAddresses' = SetAddresses \union {r.at} /\ Heard(reply)' = T!OK
              /\ UNCHANGED <<SeenRegisters, memory>>
          BY <2>2, <2>6, <2>7, <3>1, WordsHeard
        <5> QED
          BY <3>1, <4>1, <5>1, SameCount DEF T!PlaceBreakpoint
    <3>2. CASE r.name = "z"
      <4>1. a \in SetAddresses
        BY <1>6, <2>1, <3>2 DEF SetAddresses
      <4> QED
        BY <2>2, <2>6, <2>7, <3>2, <4>1, WordsHeard DEF T!DeleteBreakpoint
    <3> QED
      BY <1>1, <3>1, <3>2
  <2>9. memory' \in [Cells -> Byte] /\ registers' \in [Register -> Word] /\ reply' \in Reply
    BY <2>2, WordsHeard DEF IInv, TypeOK
  <2>10. registers'[SP] = registers[SP]
    BY <2>2
  <2> QED
    BY <1>5, <2>2, <2>4, <2>5, <2>8, <2>9, <2>10, Served
<1>10. CASE ~\E k \in Slots : breakpoints[k] = found
  <2>1. AnswerOnly(Error)
    BY <1>7, <1>10
  <2>2. /\ UNCHANGED <<memory, SeenRegisters, SetAddresses>> /\ reply' = Error
    BY <1>5, <2>1, Unseen
  <2>3. T!PlaceBreakpoint(r) \/ T!DeleteBreakpoint(r)
    <3>1. CASE r.name = "Z"
      <4>1. ~(Cardinality(SetAddresses) < MaxBreakpoints)
        BY <1>10, <3>1, FreeSlot
      <4> QED
        <5>1. UNCHANGED <<memory, SeenRegisters, SetAddresses>> /\ Heard(reply)' = T!Error
          BY <2>2, WordsHeard
        <5> QED
          BY <3>1, <4>1, <5>1, SameCount DEF T!PlaceBreakpoint
    <3>2. CASE r.name = "z"
      <4>1. a \notin SetAddresses
        BY <1>10, <3>2 DEF SetAddresses
      <4>2. SetAddresses = SetAddresses \ {a}
        BY <4>1
      <4> QED
        BY <2>2, <3>2, <4>1, <4>2, WordsHeard DEF T!DeleteBreakpoint
    <3> QED
      BY <1>1, <3>1, <3>2
  <2> QED
    BY <1>5, <2>1, <2>3, WordsHeard, AnsweredOnly
<1> QED
  BY <1>9, <1>10

-----------------------------------------------------------------------------
(* The theorems. *)

LEMMA RequestStep ==
  ASSUME Plain, IInv, NEW r \in Requests, Regular(r), process_packet(Encoded(r)), request' = r
  PROVE  IInv' /\ T!Serve(r)
<1>1. Askable(r)
  BY DEF Plain
<1>2. CASE r \in [name : {"g", "k", "?"}]
  <2>1. r.name \in {"g", "k", "?"}
    BY <1>2
  <2> QED
    BY <1>2, <2>1, OtherStep, ReadRegistersStep
<1>3. CASE \/ r \in [name : {"q"}, known : BOOLEAN]
           \/ r.name = "torn" /\ r.of \notin {"g", "k", "?", "q", "G"}
  BY <1>3, OtherStep
<1>4. CASE r \in [name : {"G"}, words : [Register -> Word]]
  BY <1>4, WriteRegistersStep
<1>5. CASE r \in [name : {"P"}, register : Word, word : Word]
  BY <1>5, WriteRegisterStep
<1>6. CASE r \in [name : {"m"}, at : Word, length : Word] /\ (~TooLong(r.length) => Block(r.at, r.length) \subseteq Cells)
  BY <1>6, ReadMemoryStep
<1>7. CASE r \in [name : {"M"}, at : Word, bytes : Seq(Byte)] /\ Len(r.bytes) < BufferSize
  BY <1>7, WriteMemoryStep
<1>8. CASE r \in [name : {"Z", "z"}, at : Word]
  BY <1>8, BreakpointStep
<1> QED
  BY <1>1, <1>2, <1>3, <1>4, <1>5, <1>6, <1>7, <1>8 DEF Askable

LEMMA StepSimulated ==
  ASSUME Plain, IInv, [Next]_vars
  PROVE  IInv' /\ [T!Next]_(T!vars)
<1>1. CASE Run
  BY <1>1, RunStep DEF T!Next
<1>2. CASE Leave
  BY <1>2, LeaveStep DEF T!Next
<1>3. CASE \E breakpoint, enter \in BOOLEAN : Trap(breakpoint, enter)
  BY <1>3, TrapStep DEF T!Next
<1>4. CASE \E r \in Requests : Regular(r) /\ process_packet(Encoded(r)) /\ request' = r
  BY <1>4, RequestStep DEF T!Next
<1>5. CASE UNCHANGED vars
  <2>1. UNCHANGED <<SeenRegisters, SetAddresses, OwnTrap>>
    BY <1>5 DEF vars, SeenRegisters, SetAddresses, OwnTrap, rst08_address
  <2>2. IInv'
    BY <1>5 DEF vars, IInv, TypeOK, StackPointer, Distinct
  <2> QED
    BY <1>5, <2>1, <2>2 DEF vars, T!vars
<1> QED
  BY <1>1, <1>2, <1>3, <1>4, <1>5 DEF Next

\* The registers the host sees are those the program has and will have, and no address
\* is set in two slots.
THEOREM Invariance == ASSUME Plain PROVE Spec => []IInv
<1>1. Init => IInv
  BY InitStep
<1>2. IInv /\ [Next]_vars => IInv'
  BY StepSimulated
<1> QED
  BY <1>1, <1>2, PTL DEF Spec

\* Every register, byte of memory, slot and reply of the stub is one.
THEOREM CommandsTypeCorrect == ASSUME Plain PROVE Spec => []TypeOK
<1>1. IInv => TypeOK
  BY DEF IInv
<1> QED
  BY <1>1, Invariance, PTL

\* process_packet, its digits and the copies of rst8_c_trap implement the machine the host
\* believes to debug: what it reads is what the program has, what it writes is what the
\* program goes on with, and an error changes nothing.
THEOREM HostIsRight == ASSUME Plain PROVE Spec => ImplementsTarget
<1>1. Init => T!Init
  BY InitStep
<1>2. IInv /\ [Next]_vars => [T!Next]_(T!vars)
  BY StepSimulated
<1> QED
  BY <1>1, <1>2, Invariance, PTL DEF Spec, ImplementsTarget, T!Spec

=============================================================================
