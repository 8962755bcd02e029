----------------------------- MODULE DartProofs -----------------------------
(***************************************************************************)
(* Proofs about the serial driver, for commands and answers of any length: *)
(* no byte of a command or of an answer is lost to a host that is handed   *)
(* fewer bytes in advance than the DART holds, and that still takes one    *)
(* byte when its receiver is nearly full.                                  *)
(***************************************************************************)
EXTENDS Dart, SequenceTheorems, TLAPS

\* What the driver asks of the host.
Modest == Depth < FIFO /\ Slack > 0

-----------------------------------------------------------------------------
(* The inductive invariant. *)

\* Whose turn it is: an answer is being written exactly when bytes of it are left,
\* and a command that is not complete finds the stub reading.
Turns ==
  /\ IF at \in Sending THEN answer > 0 ELSE answer = 0
  /\ got < CommandLength => at \in Polling \union {"read"}
  /\ running /\ got < CommandLength => resumes

\* The bytes in the DART and in the host's transmitter.
held   == Len(fifo)
handed == Len(uart)

\* What can still come fits into the DART: with DTR off that is what the host's
\* transmitter holds, and DTR is on only while the DART is empty but for the byte
\* that ends the polling, or while the program runs.
Room ==
  /\ ~dtr => held + handed <= FIFO
  /\ ~dtr /\ at # "read" => held + handed < FIFO
  /\ dtr => at \in {"drop", "program"} \/ (at = "test" /\ carry)
  /\ at = "raise" \/ (dtr /\ at # "program") => IF came THEN held = 1 ELSE held = 0
  /\ came => at \in Polling /\ held > 0
  /\ at \in {"drop", "read"} => held > 0

\* At most one byte is on its way when CTS has been seen on.
Flow ==
  /\ sending <= 1
  /\ at = "out" => sending = 0
  /\ unread + sending <= HighWater + 1
  /\ at \in {"sent", "out"} => unread + sending <= HighWater

\* The host takes RTS away exactly when its receiver is nearly full.
Heeded == rts <=> unread < HighWater

IInv == TypeOK /\ CommandKept /\ AnswerKept /\ Turns /\ Room /\ Flow /\ Heeded

-----------------------------------------------------------------------------
(* The bytes under way. *)

\* Handing the first byte of b to a leaves the bytes of both as they are.
LEMMA Handing ==
  ASSUME NEW S, NEW a \in Seq(S), NEW b \in Seq(S), b # <<>>
  PROVE  /\ Append(a, Head(b)) \in Seq(S) /\ Tail(b) \in Seq(S)
         /\ Len(Append(a, Head(b))) = Len(a) + 1 /\ Len(Tail(b)) = Len(b) - 1
         /\ Append(a, Head(b)) \o Tail(b) = a \o b
<1>1. /\ Head(b) = b[1] /\ Head(b) \in S /\ Tail(b) \in Seq(S) /\ Len(Tail(b)) = Len(b) - 1
      /\ \A i \in 1 .. Len(b) - 1 : Tail(b)[i] = b[i + 1]
      /\ Len(b) \in Nat \ {0} /\ Len(a) \in Nat
  BY HeadTailProperties, EmptySeq
<1>2. Append(a, Head(b)) \in Seq(S) /\ Len(Append(a, Head(b))) = Len(a) + 1
  BY <1>1
<1> DEFINE c == Append(a, Head(b))  l == c \o Tail(b)  r == a \o b
<1>3. /\ l \in Seq(S) /\ Len(l) = Len(a) + Len(b)
      /\ \A i \in 1 .. Len(a) + Len(b) :
           l[i] = IF i <= Len(a) + 1 THEN c[i] ELSE Tail(b)[i - (Len(a) + 1)]
  BY <1>1, <1>2, ConcatProperties
<1>4. /\ r \in Seq(S) /\ Len(r) = Len(a) + Len(b)
      /\ \A i \in 1 .. Len(a) + Len(b) : r[i] = IF i <= Len(a) THEN a[i] ELSE b[i - Len(a)]
  BY ConcatProperties
<1>5. \A i \in 1 .. Len(a) + 1 : c[i] = IF i <= Len(a) THEN a[i] ELSE b[1]
  BY <1>1
<1> HIDE DEF c, l, r
<1>6. ASSUME NEW i \in 1 .. Len(a) + Len(b) PROVE l[i] = r[i]
  <2>1. CASE i <= Len(a)
    BY <1>1, <1>3, <1>4, <1>5, <2>1
  <2>2. CASE i = Len(a) + 1
    BY <1>1, <1>3, <1>4, <1>5, <2>2
  <2>3. CASE i > Len(a) + 1
    <3>1. i - (Len(a) + 1) \in 1 .. Len(b) - 1
      BY <1>1, <2>3
    <3>2. l[i] = b[i - (Len(a) + 1) + 1] /\ r[i] = b[i - Len(a)]
      BY <1>1, <1>3, <1>4, <2>3, <3>1
    <3> QED
      BY <1>1, <3>2
  <2> QED
    BY <1>1, <2>1, <2>2, <2>3
<1>7. l = r
  BY <1>3, <1>4, <1>6, SeqEqual
<1> QED
  BY <1>1, <1>2, <1>7 DEF c, l, r

\* Reading the first byte of a takes it from the bytes of both.
LEMMA Reading ==
  ASSUME NEW S, NEW a \in Seq(S), NEW b \in Seq(S), a # <<>>
  PROVE  /\ Tail(a) \in Seq(S) /\ Len(Tail(a)) = Len(a) - 1 /\ Head(a) \in S
         /\ a \o b # <<>> /\ Head(a) = Head(a \o b)
         /\ Tail(a) \o b = Tail(a \o b)
<1>1. /\ Head(a) = a[1] /\ Head(a) \in S /\ Tail(a) \in Seq(S) /\ Len(Tail(a)) = Len(a) - 1
      /\ \A i \in 1 .. Len(a) - 1 : Tail(a)[i] = a[i + 1]
      /\ Len(a) \in Nat \ {0} /\ Len(b) \in Nat
  BY HeadTailProperties, EmptySeq
<1> DEFINE c == a \o b  l == Tail(a) \o b  r == Tail(c)
<1>2. /\ c \in Seq(S) /\ Len(c) = Len(a) + Len(b)
      /\ \A i \in 1 .. Len(a) + Len(b) : c[i] = IF i <= Len(a) THEN a[i] ELSE b[i - Len(a)]
  BY ConcatProperties
<1>3. c # <<>> /\ Head(c) = c[1]
  BY <1>1, <1>2, EmptySeq
<1>4. /\ r \in Seq(S) /\ Len(r) = Len(a) + Len(b) - 1
      /\ \A i \in 1 .. Len(a) + Len(b) - 1 : r[i] = c[i + 1]
  BY <1>2, <1>3, HeadTailProperties
<1>5. /\ l \in Seq(S) /\ Len(l) = Len(a) + Len(b) - 1
      /\ \A i \in 1 .. Len(a) + Len(b) - 1 : l[i] = IF i <= Len(a) - 1 THEN Tail(a)[i] ELSE b[i - (Len(a) - 1)]
  BY <1>1, ConcatProperties
<1> HIDE DEF c, l, r
<1>6. \A i \in 1 .. Len(a) + Len(b) - 1 : l[i] = r[i]
  BY <1>1, <1>2, <1>4, <1>5
<1>7. l = r
  BY <1>4, <1>5, <1>6, SeqEqual
<1>8. Head(c) = Head(a)
  BY <1>1, <1>2, <1>3
<1> QED
  BY <1>1, <1>3, <1>7, <1>8 DEF c, l, r

\* The bytes of a command after the first n.
Rest(n) == [k \in 1 .. CommandLength - n |-> n + k]

LEMMA RestOfCommand ==
  ASSUME NEW n \in 0 .. CommandLength
  PROVE  /\ Rest(n) \in Seq(Bytes) /\ Len(Rest(n)) = CommandLength - n
         /\ Rest(n) = <<>> <=> n = CommandLength
         /\ n < CommandLength => Head(Rest(n)) = n + 1 /\ Tail(Rest(n)) = Rest(n + 1)
<1>1. Rest(n) \in Seq(Bytes) /\ Len(Rest(n)) = CommandLength - n
  BY LengthAssumption DEF Rest, Bytes
<1>2. Rest(n) = <<>> <=> n = CommandLength
  BY <1>1, LengthAssumption, EmptySeq
<1>3. ASSUME n < CommandLength
      PROVE  Head(Rest(n)) = n + 1 /\ Tail(Rest(n)) = Rest(n + 1)
  <2>1. /\ Tail(Rest(n)) \in Seq(Bytes) /\ Len(Tail(Rest(n))) = CommandLength - (n + 1)
        /\ \A i \in 1 .. CommandLength - (n + 1) : Tail(Rest(n))[i] = Rest(n)[i + 1]
    BY <1>1, <1>2, <1>3, LengthAssumption, HeadTailProperties
  <2>2. Rest(n + 1) \in Seq(Bytes) /\ Len(Rest(n + 1)) = CommandLength - (n + 1)
    BY <1>3, LengthAssumption DEF Rest, Bytes
  <2>3. \A i \in 1 .. CommandLength - (n + 1) : Rest(n)[i + 1] = Rest(n + 1)[i]
    BY <1>3, LengthAssumption DEF Rest
  <2>4. Tail(Rest(n)) = Rest(n + 1)
    BY <2>1, <2>2, <2>3, SeqEqual
  <2>5. Head(Rest(n)) = n + 1
    BY <1>1, <1>3, LengthAssumption DEF Rest
  <2> QED
    BY <2>4, <2>5
<1> QED
  BY <1>1, <1>2, <1>3

\* The byte that the stub reads is a Ctrl-C, or the next byte of a command that it
\* has not read completely.
LEMMA NextByte ==
  ASSUME TypeOK, CommandKept, fifo # <<>>
  PROVE  /\ Tail(fifo) \in Seq(Bytes) /\ Len(Tail(fifo)) = Len(fifo) - 1
         /\ Head(fifo) = CtrlC => Tail(fifo) \o uart \o out = Rest(got)
         /\ Head(fifo) # CtrlC =>
              /\ got < CommandLength
              /\ Tail(fifo) \o uart \o out = Rest(got + 1)
<1> DEFINE pipe == fifo \o uart \o out
<1>1. fifo \in Seq(Bytes) /\ uart \in Seq(Bytes) /\ out \in Seq(Bytes) /\ got \in 0 .. CommandLength
  BY DEF TypeOK
<1>2. /\ Tail(fifo) \in Seq(Bytes) /\ Len(Tail(fifo)) = Len(fifo) - 1
      /\ fifo \o uart # <<>> /\ Head(fifo) = Head(fifo \o uart)
      /\ Tail(fifo) \o uart = Tail(fifo \o uart)
  BY <1>1, Reading
<1>3. fifo \o uart \in Seq(Bytes)
  BY <1>1, ConcatProperties
<1>4. pipe # <<>> /\ Head(fifo) = Head(pipe) /\ Tail(fifo) \o uart \o out = Tail(pipe)
  BY <1>1, <1>2, <1>3, Reading
<1>5. Rest(got) \in Seq(Bytes) /\ <<CtrlC>> \in Seq(Bytes) /\ <<>> \in Seq(Bytes)
  BY <1>1, RestOfCommand, LengthAssumption DEF Bytes, CtrlC
<1>6. pipe = <<>> \o Rest(got) \/ pipe = <<CtrlC>> \o Rest(got)
  BY DEF CommandKept, Remaining, Rest
<1>7. <<>> \o Rest(got) = Rest(got)
  BY <1>5, ConcatEmptySeq
<1>8. Head(<<CtrlC>> \o Rest(got)) = CtrlC /\ Tail(<<CtrlC>> \o Rest(got)) = Rest(got)
  <2>1. Tail(<<CtrlC>>) = <<>> /\ Head(<<CtrlC>>) = CtrlC /\ <<CtrlC>> # <<>>
    OBVIOUS
  <2> QED
    BY <1>5, <1>7, <2>1, Reading
<1>9. CASE pipe = Rest(got)
  <2>1. got < CommandLength
    BY <1>1, <1>4, <1>9, RestOfCommand, LengthAssumption
  <2>2. Head(fifo) = got + 1 /\ Tail(fifo) \o uart \o out = Rest(got + 1)
    BY <1>1, <1>4, <1>9, <2>1, RestOfCommand
  <2>3. Head(fifo) # CtrlC
    BY <1>1, <2>2 DEF CtrlC
  <2> QED
    BY <1>2, <2>1, <2>2, <2>3
<1>10. CASE pipe = <<CtrlC>> \o Rest(got)
  BY <1>2, <1>4, <1>8, <1>10
<1> QED
  BY <1>6, <1>7, <1>9, <1>10

LEMMA BytesUnderWay ==
  ASSUME TypeOK, CommandKept
  PROVE  /\ Len(fifo) + Len(uart) + Len(out) >= CommandLength - got
         /\ Len(fifo) + Len(uart) + Len(out) <= CommandLength - got + 1
<1>1. /\ fifo \in Seq(Bytes) /\ uart \in Seq(Bytes) /\ out \in Seq(Bytes) /\ got \in 0 .. CommandLength
      /\ Len(fifo) \in Nat /\ Len(uart) \in Nat /\ Len(out) \in Nat
  BY DEF TypeOK
<1>2. Len(fifo \o uart \o out) = Len(fifo) + Len(uart) + Len(out)
  <2>1. fifo \o uart \in Seq(Bytes) /\ Len(fifo \o uart) = Len(fifo) + Len(uart)
    BY <1>1, ConcatProperties
  <2> QED
    BY <1>1, <2>1, ConcatProperties
<1>3. PICK before \in {<<>>, <<CtrlC>>} : fifo \o uart \o out = before \o Rest(got)
  BY DEF CommandKept, Remaining, Rest
<1>4. before \in Seq(Bytes) /\ Len(before) \in 0 .. 1
  <2>1. CASE before = <<>>
    BY <2>1, EmptySeq
  <2>2. CASE before = <<CtrlC>>
    BY <2>2, LengthAssumption DEF Bytes, CtrlC
  <2> QED
    BY <2>1, <2>2
<1>5. Len(before \o Rest(got)) = Len(before) + (CommandLength - got)
  <2>1. Rest(got) \in Seq(Bytes) /\ Len(Rest(got)) = CommandLength - got
    BY <1>1, RestOfCommand
  <2> QED
    BY <1>4, <2>1, ConcatProperties
<1>6. Len(fifo) + Len(uart) + Len(out) = Len(before) + (CommandLength - got)
  BY <1>2, <1>3, <1>5
<1>7. \E n \in 0 .. 1 : Len(fifo) + Len(uart) + Len(out) = n + (CommandLength - got)
  BY <1>4, <1>6
<1>8. Len(fifo) \in Nat /\ Len(uart) \in Nat /\ Len(out) \in Nat /\ got \in Nat /\ CommandLength \in Nat
  BY <1>1, LengthAssumption
<1> QED
  BY <1>7, <1>8

\* Between commands nothing but a Ctrl-C is under way.
LEMMA OnlyCtrlC ==
  ASSUME TypeOK, CommandKept, got = CommandLength
  PROVE  fifo \o uart \o out \in {<<>>, <<CtrlC>>}
<1>1. PICK before \in {<<>>, <<CtrlC>>} : fifo \o uart \o out = before \o Rest(got)
  BY DEF CommandKept, Remaining, Rest
<1>2. before \in Seq(Bytes)
  <2>1. CASE before = <<>>
    BY <2>1, EmptySeq
  <2>2. CASE before = <<CtrlC>>
    BY <2>2, LengthAssumption DEF Bytes, CtrlC
  <2> QED
    BY <2>1, <2>2
<1>3. Rest(got) = <<>>
  BY LengthAssumption, RestOfCommand
<1> QED
  BY <1>1, <1>2, <1>3, ConcatEmptySeq

\* What a command or a Ctrl-C adds to the bytes under way.
LEMMA Added ==
  ASSUME TypeOK, NEW more \in Seq(Bytes)
  PROVE  fifo \o uart \o (out \o more) = (fifo \o uart \o out) \o more
<1>1. fifo \in Seq(Bytes) /\ uart \in Seq(Bytes) /\ out \in Seq(Bytes)
  BY DEF TypeOK
<1>2. fifo \o uart \in Seq(Bytes)
  BY <1>1, ConcatProperties
<1>3. \A s \in Seq(Bytes), t \in Seq(Bytes), u \in Seq(Bytes) : (s \o t) \o u = s \o (t \o u)
  BY ConcatAssociative
<1> QED
  BY <1>1, <1>2, <1>3

\* While a command is not answered the host waits for bytes.
LEMMA NothingAwaited ==
  ASSUME TypeOK, AnswerKept, Turns, awaited = 0
  PROVE  /\ answer = 0 /\ sending = 0 /\ unread = 0 /\ got = CommandLength
         /\ ~resumes /\ at \in Polling \union {"read"}
<1>1. /\ awaited = answer + sending + unread + ToCommand + ToStop
      /\ answer \in Nat /\ sending \in Nat /\ unread \in Nat /\ got \in 0 .. CommandLength
      /\ ReplyLength \in Nat \ {0} /\ CommandLength \in Nat \ {0}
      /\ ToCommand \in {0, ReplyLength} /\ ToStop \in {0, ReplyLength}
  BY LengthAssumption, HostAssumption DEF AnswerKept, TypeOK, Transmit, ToCommand, ToStop
<1>2. answer = 0 /\ sending = 0 /\ unread = 0 /\ got = CommandLength /\ ~resumes /\ at \notin Elsewhere
  <2>1. answer = 0 /\ sending = 0 /\ unread = 0 /\ ToCommand = 0 /\ ToStop = 0
    BY <1>1
  <2> QED
    BY <1>1, <2>1 DEF ToCommand, ToStop
<1>3. at \in Polling \union {"read"}
  BY <1>2 DEF TypeOK, Turns
<1> QED
  BY <1>2, <1>3

-----------------------------------------------------------------------------
(* Every step keeps the invariant. *)

LEMMA Start == Init => IInv
<1> SUFFICES ASSUME Init PROVE IInv
  OBVIOUS
<1> USE DEF Init
<1>1. TypeOK
  <2>1. <<>> \in Seq(Bytes) /\ Len(<<>>) = 0
    BY EmptySeq
  <2>2. at \in Polling \union {"read"} \union Sending \union Elsewhere
    BY DEF Elsewhere
  <2>3. /\ carry \in BOOLEAN /\ dtr \in BOOLEAN /\ came \in BOOLEAN /\ rts \in BOOLEAN
        /\ resumes \in BOOLEAN /\ running \in BOOLEAN
    OBVIOUS
  <2> QED
    BY <2>1, <2>2, <2>3, LengthAssumption, HostAssumption DEF TypeOK, FIFO, Transmit
<1>2. CommandKept
  <2>1. fifo \o uart \o out = <<>> /\ <<>> \o Rest(got) = <<>>
    <3>1. got \in 0 .. CommandLength
      BY LengthAssumption
    <3>2. Rest(got) = <<>>
      BY <3>1, LengthAssumption, RestOfCommand
    <3> QED
      BY <3>2, ConcatEmptySeq, EmptySeq
  <2> QED
    BY <2>1 DEF CommandKept, Remaining, Rest
<1>3. AnswerKept
  BY LengthAssumption DEF AnswerKept, ToCommand, ToStop, Elsewhere
<1>4. Turns /\ Room
  BY LengthAssumption, EmptySeq DEF Turns, Room, held, handed, Sending, FIFO
<1>5. Flow /\ Heeded
  BY HostAssumption DEF Flow, Heeded
<1> QED
  BY <1>1, <1>2, <1>3, <1>4, <1>5 DEF IInv

LEMMA Kept ==
  ASSUME Modest, IInv, [Next]_vars
  PROVE  IInv'
<1> USE LengthAssumption, HostAssumption
<1>1. TypeOK /\ CommandKept /\ AnswerKept /\ Turns /\ Room /\ Flow /\ Heeded
  BY DEF IInv
<1>2. /\ at \in {"test", "raise", "drop", "read", "cts", "sent", "out", "program", "breaking"}
      /\ carry \in BOOLEAN /\ dtr \in BOOLEAN /\ came \in BOOLEAN /\ rts \in BOOLEAN
      /\ resumes \in BOOLEAN /\ running \in BOOLEAN
  BY <1>1 DEF TypeOK, Polling, Sending, Elsewhere
<1>3. /\ held \in Nat /\ handed \in Nat /\ handed <= Depth
      /\ sending \in Nat /\ got \in 0 .. CommandLength /\ answer \in 0 .. ReplyLength
      /\ unread \in Nat /\ awaited \in Nat
  BY <1>1, EmptySeq DEF TypeOK, Transmit, held, handed
<1>8. fifo # <<>> <=> held > 0
  BY <1>1, EmptySeq DEF TypeOK, held
<1>4. (rts => unread < HighWater) /\ (unread < HighWater => rts)
  BY <1>1 DEF Heeded
<1>5. /\ at \in {"cts", "sent", "out"} => answer > 0
      /\ at \in {"test", "raise", "drop", "read", "program", "breaking"} => answer = 0
  BY <1>1, <1>2, <1>3 DEF Turns, Sending
<1>6. /\ got < CommandLength => at \in {"test", "raise", "drop", "read"}
      /\ running /\ got < CommandLength => resumes
  BY <1>1 DEF Turns, Polling
<1>7. /\ awaited = answer + sending + unread + ToCommand + ToStop
      /\ ToCommand \in Nat /\ ToStop \in Nat
  BY <1>1 DEF AnswerKept, ToCommand, ToStop
<1>9. CASE _FWAITREC
  <2>0. held' = held /\ handed' = handed
    BY <1>9 DEF _FWAITREC, stub, chip, host, held, handed
  <2>1. TypeOK'
    BY <1>1, <1>2, <1>3, <1>9 DEF _FWAITREC, TypeOK, Polling, Sending, Elsewhere, FIFO, Transmit, Flow, Turns, Room, Modest, stub, chip, host
  <2>2. CommandKept'
    BY <1>1, <1>9 DEF _FWAITREC, CommandKept, Remaining, stub, chip, host
  <2>3. AnswerKept'
    BY <1>2, <1>3, <1>7, <1>9 DEF _FWAITREC, AnswerKept, ToCommand, ToStop, Polling, Sending, Elsewhere, stub, chip, host
  <2>4. Turns'
    BY <1>1, <1>2, <1>3, <1>9 DEF _FWAITREC, Turns, Polling, Sending, Elsewhere, stub, chip, host
  <2>5. Room'
    BY <1>1, <1>2, <1>3, <1>8, <2>0, <1>9 DEF _FWAITREC, Room, Modest, FIFO, Polling, Sending, Elsewhere, stub, chip, host
  <2>6. Flow'
    BY <1>1, <1>2, <1>3, <1>4, <1>9 DEF _FWAITREC, Flow, Turns, Polling, Sending, Elsewhere, stub, chip, host
  <2>7. Heeded'
    BY <1>4, <1>9 DEF _FWAITREC, Heeded, stub, chip, host
  <2> QED
    BY <2>1, <2>2, <2>3, <2>4, <2>5, <2>6, <2>7 DEF IInv
<1>10. CASE _FASTSETDTR
  <2>0. held' = held /\ handed' = handed
    BY <1>10 DEF _FASTSETDTR, stub, chip, host, held, handed
  <2>1. TypeOK'
    BY <1>1, <1>2, <1>3, <1>10 DEF _FASTSETDTR, TypeOK, Polling, Sending, Elsewhere, FIFO, Transmit, Flow, Turns, Room, Modest, stub, chip, host
  <2>2. CommandKept'
    BY <1>1, <1>10 DEF _FASTSETDTR, CommandKept, Remaining, stub, chip, host
  <2>3. AnswerKept'
    BY <1>2, <1>3, <1>7, <1>10 DEF _FASTSETDTR, AnswerKept, ToCommand, ToStop, Polling, Sending, Elsewhere, stub, chip, host
  <2>4. Turns'
    BY <1>1, <1>2, <1>3, <1>10 DEF _FASTSETDTR, Turns, Polling, Sending, Elsewhere, stub, chip, host
  <2>5. Room'
    BY <1>1, <1>2, <1>3, <1>8, <2>0, <1>10 DEF _FASTSETDTR, Room, Modest, FIFO, Polling, Sending, Elsewhere, stub, chip, host
  <2>6. Flow'
    BY <1>1, <1>2, <1>3, <1>4, <1>10 DEF _FASTSETDTR, Flow, Turns, Polling, Sending, Elsewhere, stub, chip, host
  <2>7. Heeded'
    BY <1>4, <1>10 DEF _FASTSETDTR, Heeded, stub, chip, host
  <2> QED
    BY <2>1, <2>2, <2>3, <2>4, <2>5, <2>6, <2>7 DEF IInv
<1>11. CASE CLEAR_DTR
  <2>0. held' = held /\ handed' = handed
    BY <1>11 DEF CLEAR_DTR, DTROff, stub, chip, host, held, handed
  <2>1. TypeOK'
    BY <1>1, <1>2, <1>3, <1>11 DEF CLEAR_DTR, DTROff, TypeOK, Polling, Sending, Elsewhere, FIFO, Transmit, Flow, Turns, Room, Modest, stub, chip, host
  <2>2. CommandKept'
    BY <1>1, <1>11 DEF CLEAR_DTR, DTROff, CommandKept, Remaining, stub, chip, host
  <2>3. AnswerKept'
    BY <1>2, <1>3, <1>7, <1>11 DEF CLEAR_DTR, DTROff, AnswerKept, ToCommand, ToStop, Polling, Sending, Elsewhere, stub, chip, host
  <2>4. Turns'
    BY <1>1, <1>2, <1>3, <1>11 DEF CLEAR_DTR, DTROff, Turns, Polling, Sending, Elsewhere, stub, chip, host
  <2>5. Room'
    <3>1. at = "drop" /\ at' = "read" /\ dtr' = FALSE /\ came' = FALSE /\ held' = held /\ handed' = handed
      BY <1>11 DEF CLEAR_DTR, DTROff, host, held, handed
    <3>2. held + handed <= FIFO /\ held > 0
      <4>1. CASE dtr
        BY <1>1, <1>2, <1>3, <3>1, <4>1 DEF Room, Modest, FIFO
      <4>2. CASE ~dtr
        BY <1>1, <1>2, <1>3, <3>1, <4>2 DEF Room, FIFO
      <4> QED
        BY <4>1, <4>2
    <3> QED
      BY <3>1, <3>2 DEF Room
  <2>6. Flow'
    BY <1>1, <1>2, <1>3, <1>4, <1>11 DEF CLEAR_DTR, DTROff, Flow, Turns, Polling, Sending, Elsewhere, stub, chip, host
  <2>7. Heeded'
    BY <1>4, <1>11 DEF CLEAR_DTR, DTROff, Heeded, stub, chip, host
  <2> QED
    BY <2>1, <2>2, <2>3, <2>4, <2>5, <2>6, <2>7 DEF IInv
<1>12. CASE RECIEVEBYTE
  <2>0. /\ fifo' \in Seq(Bytes) /\ held' = held - 1 /\ fifo' \o uart' \o out' = Rest(got')
        /\ got' = got \/ (got < CommandLength /\ got' = got + 1)
        /\ \/ got < CommandLength /\ got' = CommandLength /\ at' = "cts" /\ answer' = ReplyLength /\ carry' = carry
           \/ ~ (got < CommandLength /\ got' = CommandLength) /\ at' = "test" /\ carry' = FALSE /\ answer' = answer
        /\ at = "read" /\ ~dtr /\ answer = 0 /\ dtr' = dtr
        /\ UNCHANGED <<handed, sending, came, out, uart, rts, unread, awaited, resumes, running>>
    <3>1. at = "read" /\ fifo # <<>> /\ answer = 0
      BY <1>1, <1>2, <1>3, <1>8, <1>12 DEF RECIEVEBYTE, Room, Turns, Sending
    <3>2. /\ fifo' = Tail(fifo) /\ uart' = uart /\ out' = out
          /\ got' = IF Head(fifo) = CtrlC THEN got ELSE got + 1
      BY <1>12 DEF RECIEVEBYTE, host, handed
    <3>3. /\ fifo' \in Seq(Bytes) /\ held' = held - 1 /\ fifo' \o uart' \o out' = Rest(got')
          /\ got' = got \/ (got < CommandLength /\ got' = got + 1)
      BY <1>1, <3>1, <3>2, NextByte DEF held
    <3>4. \/ got < CommandLength /\ got' = CommandLength /\ at' = "cts" /\ answer' = ReplyLength /\ carry' = carry
          \/ ~ (got < CommandLength /\ got' = CommandLength) /\ at' = "test" /\ carry' = FALSE /\ answer' = answer
      BY <1>12 DEF RECIEVEBYTE, FWAITAVAIL, CarryCleared
    <3>5. ~dtr
      BY <1>1, <3>1 DEF Room
    <3>6. dtr' = dtr /\ UNCHANGED <<handed, sending, came, out, uart, rts, unread, awaited, resumes, running>>
      BY <1>12 DEF RECIEVEBYTE, host, handed
    <3> QED
      BY <3>1, <3>3, <3>4, <3>5, <3>6
  <2>1. TypeOK'
    <3>1. at' \in Polling \union {"read"} \union Sending \union Elsewhere
      BY <1>2, <2>0 DEF Polling, Sending, Elsewhere
    <3>2. /\ carry' \in BOOLEAN /\ dtr' \in BOOLEAN /\ came' \in BOOLEAN /\ rts' \in BOOLEAN
          /\ resumes' \in BOOLEAN /\ running' \in BOOLEAN
      BY <1>2, <2>0
    <3>3. /\ fifo' \in Seq(Bytes) /\ held' <= FIFO
          /\ out' \in Seq(Bytes) /\ Len(out') <= CommandLength + 1
          /\ uart' \in Seq(Bytes) /\ handed' <= Depth
      BY <1>1, <1>3, <2>0 DEF TypeOK, FIFO, held, handed
    <3>4. /\ sending' \in 0 .. Transmit /\ got' \in 0 .. CommandLength /\ answer' \in 0 .. ReplyLength
          /\ unread' \in 0 .. HighWater + Slack /\ awaited' \in 0 .. 2 * ReplyLength
      BY <1>1, <1>3, <2>0 DEF TypeOK, Transmit
    <3> QED
      BY <3>1, <3>2, <3>3, <3>4 DEF TypeOK, held, handed
  <2>2. CommandKept'
    <3>1. fifo' \o uart' \o out' = Rest(got')
      BY <2>0
    <3>2. got' \in 0 .. CommandLength
      BY <2>1 DEF TypeOK
    <3>3. fifo' \o uart' \o out' = <<>> \o Rest(got')
      BY <3>1, <3>2, RestOfCommand, ConcatEmptySeq
    <3> QED
      BY <3>3 DEF CommandKept, Remaining, Rest
  <2>3. AnswerKept'
    <3>1. /\ awaited' = awaited /\ sending' = sending /\ unread' = unread /\ resumes' = resumes
          /\ at \notin {"program", "breaking"} /\ at' \notin {"program", "breaking"}
      BY <2>0
    <3>2. ToStop' = ToStop
      BY <3>1 DEF ToStop, Elsewhere
    <3>3. /\ got' = got \/ (got < CommandLength /\ got' = got + 1)
          /\ \/ got < CommandLength /\ got' = CommandLength /\ answer = 0 /\ answer' = ReplyLength
             \/ ~ (got < CommandLength /\ got' = CommandLength) /\ answer' = answer
      BY <2>0
    <3>4. \/ answer = 0 /\ answer' = ReplyLength /\ ToCommand = ReplyLength /\ ToCommand' = 0
          \/ answer' = answer /\ ToCommand' = ToCommand
      BY <1>3, <3>3 DEF ToCommand
    <3>5. CASE answer = 0 /\ answer' = ReplyLength /\ ToCommand = ReplyLength /\ ToCommand' = 0
      <4>1. awaited = ReplyLength + sending + unread + 0 + ToStop
        BY <1>3, <1>7, <3>5
      <4> QED
        BY <3>1, <3>2, <3>5, <4>1 DEF AnswerKept
    <3>6. CASE answer' = answer /\ ToCommand' = ToCommand
      BY <1>7, <3>1, <3>2, <3>6 DEF AnswerKept
    <3> QED
      BY <3>4, <3>5, <3>6
  <2>4. Turns'
    <3>0. \/ at' = "cts" /\ answer' = ReplyLength /\ got' = CommandLength
          \/ at' = "test" /\ answer' = 0
      BY <2>0
    <3>1. IF at' \in Sending THEN answer' > 0 ELSE answer' = 0
      BY <3>0 DEF Sending
    <3>2. got' < CommandLength => at' \in Polling \union {"read"}
      BY <3>0 DEF Polling
    <3>3. running' /\ got' < CommandLength => resumes'
      BY <1>3, <1>6, <2>0
    <3> QED
      BY <3>1, <3>2, <3>3 DEF Turns
  <2>5. Room'
    BY <1>1, <1>2, <1>3, <2>0 DEF Room, Polling, FIFO
  <2>6. Flow'
    BY <1>1, <1>2, <1>3, <1>4, <2>0 DEF Flow
  <2>7. Heeded'
    BY <1>4, <2>0 DEF Heeded
  <2> QED
    BY <2>1, <2>2, <2>3, <2>4, <2>5, <2>6, <2>7 DEF IInv
<1>13. CASE _FWAITSEND
  <2>0. held' = held /\ handed' = handed
    BY <1>13 DEF _FWAITSEND, ClearToSend, stub, chip, host, held, handed
  <2>1. TypeOK'
    BY <1>1, <1>2, <1>3, <1>13 DEF _FWAITSEND, ClearToSend, TypeOK, Polling, Sending, Elsewhere, FIFO, Transmit, Flow, Turns, Room, Modest, stub, chip, host
  <2>2. CommandKept'
    BY <1>1, <1>13 DEF _FWAITSEND, ClearToSend, CommandKept, Remaining, stub, chip, host
  <2>3. AnswerKept'
    BY <1>2, <1>3, <1>7, <1>13 DEF _FWAITSEND, ClearToSend, AnswerKept, ToCommand, ToStop, Polling, Sending, Elsewhere, stub, chip, host
  <2>4. Turns'
    BY <1>1, <1>2, <1>3, <1>13 DEF _FWAITSEND, ClearToSend, Turns, Polling, Sending, Elsewhere, stub, chip, host
  <2>5. Room'
    BY <1>1, <1>2, <1>3, <1>8, <2>0, <1>13 DEF _FWAITSEND, ClearToSend, Room, Modest, FIFO, Polling, Sending, Elsewhere, stub, chip, host
  <2>6. Flow'
    <3>1. at' = "sent" /\ sending' = sending /\ unread' = unread /\ unread < HighWater
      BY <1>4, <1>13 DEF _FWAITSEND, ClearToSend, chip, host
    <3> QED
      BY <1>1, <1>3, <3>1 DEF Flow
  <2>7. Heeded'
    BY <1>4, <1>13 DEF _FWAITSEND, ClearToSend, Heeded, stub, chip, host
  <2> QED
    BY <2>1, <2>2, <2>3, <2>4, <2>5, <2>6, <2>7 DEF IInv
<1>14. CASE _FCHECKSENT
  <2>0. held' = held /\ handed' = handed
    BY <1>14 DEF _FCHECKSENT, AllSent, stub, chip, host, held, handed
  <2>1. TypeOK'
    BY <1>1, <1>2, <1>3, <1>14 DEF _FCHECKSENT, AllSent, TypeOK, Polling, Sending, Elsewhere, FIFO, Transmit, Flow, Turns, Room, Modest, stub, chip, host
  <2>2. CommandKept'
    BY <1>1, <1>14 DEF _FCHECKSENT, AllSent, CommandKept, Remaining, stub, chip, host
  <2>3. AnswerKept'
    BY <1>2, <1>3, <1>7, <1>14 DEF _FCHECKSENT, AllSent, AnswerKept, ToCommand, ToStop, Polling, Sending, Elsewhere, stub, chip, host
  <2>4. Turns'
    BY <1>1, <1>2, <1>3, <1>14 DEF _FCHECKSENT, AllSent, Turns, Polling, Sending, Elsewhere, stub, chip, host
  <2>5. Room'
    BY <1>1, <1>2, <1>3, <1>8, <2>0, <1>14 DEF _FCHECKSENT, AllSent, Room, Modest, FIFO, Polling, Sending, Elsewhere, stub, chip, host
  <2>6. Flow'
    BY <1>1, <1>2, <1>3, <1>4, <1>14 DEF _FCHECKSENT, AllSent, Flow, Turns, Polling, Sending, Elsewhere, stub, chip, host
  <2>7. Heeded'
    BY <1>4, <1>14 DEF _FCHECKSENT, AllSent, Heeded, stub, chip, host
  <2> QED
    BY <2>1, <2>2, <2>3, <2>4, <2>5, <2>6, <2>7 DEF IInv
<1>15. CASE SENDBYTE
  <2>0. /\ at = "out" /\ sending = 0 /\ sending' = 1 /\ answer > 0 /\ answer' = answer - 1 /\ got = CommandLength
        /\ \/ answer' > 0 /\ at' = "cts" /\ carry' = carry /\ dtr' = dtr
           \/ answer' = 0 /\ resumes /\ at' = "program" /\ dtr' = TRUE /\ carry' = carry
           \/ answer' = 0 /\ ~resumes /\ at' = "test" /\ carry' = FALSE /\ dtr' = dtr
        /\ ~dtr /\ ~came
        /\ UNCHANGED <<got, fifo, held, handed, came, out, uart, rts, unread, awaited, resumes, running>>
    <3>1. at = "out" /\ sending = 0 /\ answer > 0
      BY <1>1, <1>15 DEF SENDBYTE, Turns, Flow, Sending
    <3>2. ~dtr /\ ~came /\ got = CommandLength
      BY <1>1, <1>3, <3>1 DEF Room, Turns, Polling
    <3>3. sending' = 1 /\ answer' = answer - 1
      BY <3>1, <1>15 DEF SENDBYTE, Transmit
    <3>4. \/ answer' > 0 /\ at' = "cts" /\ carry' = carry /\ dtr' = dtr
          \/ ~ (answer' > 0) /\ resumes /\ at' = "program" /\ dtr' = TRUE /\ carry' = carry
          \/ ~ (answer' > 0) /\ ~resumes /\ at' = "test" /\ carry' = FALSE /\ dtr' = dtr
      BY <1>15 DEF SENDBYTE, FWAITAVAIL, CarryCleared, ENABLEINTS
    <3>5. UNCHANGED <<got, fifo, held, handed, came, out, uart, rts, unread, awaited, resumes, running>>
      BY <1>15 DEF SENDBYTE, host, held, handed
    <3>6. ~ (answer' > 0) => answer' = 0
      BY <1>3, <3>1, <3>3
    <3> QED
      BY <3>1, <3>2, <3>3, <3>4, <3>5, <3>6
  <2>1. TypeOK'
    <3>1. at' \in Polling \union {"read"} \union Sending \union Elsewhere
      BY <1>2, <2>0 DEF Polling, Sending, Elsewhere
    <3>2. /\ carry' \in BOOLEAN /\ dtr' \in BOOLEAN /\ came' \in BOOLEAN /\ rts' \in BOOLEAN
          /\ resumes' \in BOOLEAN /\ running' \in BOOLEAN
      BY <1>2, <2>0
    <3>3. /\ fifo' \in Seq(Bytes) /\ held' <= FIFO
          /\ out' \in Seq(Bytes) /\ Len(out') <= CommandLength + 1
          /\ uart' \in Seq(Bytes) /\ handed' <= Depth
      BY <1>1, <1>3, <2>0 DEF TypeOK, FIFO, held, handed
    <3>4. /\ sending' \in 0 .. Transmit /\ got' \in 0 .. CommandLength /\ answer' \in 0 .. ReplyLength
          /\ unread' \in 0 .. HighWater + Slack /\ awaited' \in 0 .. 2 * ReplyLength
      BY <1>1, <1>3, <2>0 DEF TypeOK, Transmit
    <3> QED
      BY <3>1, <3>2, <3>3, <3>4 DEF TypeOK, held, handed
  <2>2. CommandKept'
    BY <1>1, <2>0 DEF CommandKept, Remaining
  <2>3. AnswerKept'
    <3>1. /\ awaited' = awaited /\ sending = 0 /\ sending' = 1 /\ unread' = unread /\ answer' = answer - 1
          /\ got' = got /\ resumes' = resumes /\ at = "out" /\ at' \in {"cts", "program", "test"}
          /\ at' = "program" => resumes
      BY <2>0
    <3>2. answer' + sending' = answer + sending
      BY <1>3, <3>1
    <3>3. ToStop' = ToStop /\ ToCommand' = ToCommand
      BY <1>2, <3>1 DEF ToStop, ToCommand, Elsewhere
    <3>4. answer' \in Nat /\ sending' \in Nat
      BY <2>1 DEF TypeOK, Transmit
    <3>5. answer \in Nat /\ sending \in Nat /\ unread \in Nat
      BY <1>3
    <3>6. answer + sending + unread + ToCommand + ToStop = answer' + sending' + unread + ToCommand + ToStop
      BY <1>7, <3>2, <3>4, <3>5
    <3> QED
      BY <1>7, <3>1, <3>3, <3>6 DEF AnswerKept
  <2>4. Turns'
    <3>0. got' = CommandLength /\ ((at' = "cts" /\ answer' > 0) \/ (at' \in {"program", "test"} /\ answer' = 0))
      BY <2>0
    <3>1. IF at' \in Sending THEN answer' > 0 ELSE answer' = 0
      BY <3>0 DEF Sending
    <3>2. got' < CommandLength => at' \in Polling \union {"read"}
      BY <3>0 DEF Polling
    <3>3. running' /\ got' < CommandLength => resumes'
      BY <1>3, <1>6, <2>0
    <3> QED
      BY <3>1, <3>2, <3>3 DEF Turns
  <2>5. Room'
    BY <1>1, <1>2, <1>3, <2>0 DEF Room, Polling, FIFO
  <2>6. Flow'
    <3>1. at = "out" /\ at' \in {"cts", "program", "test"} /\ sending = 0 /\ sending' = 1 /\ unread' = unread
      BY <2>0
    <3> QED
      BY <1>1, <1>3, <3>1 DEF Flow
  <2>7. Heeded'
    BY <1>4, <2>0 DEF Heeded
  <2> QED
    BY <2>1, <2>2, <2>3, <2>4, <2>5, <2>6, <2>7 DEF IInv
<1>16. CASE im1_entry
  <2>0. /\ fifo' \in Seq(Bytes) /\ held' = held - 1 /\ fifo' \o uart' \o out' = Rest(got')
        /\ at = "program" /\ at' = "breaking" /\ dtr' = FALSE /\ got = CommandLength /\ ~came
        /\ held + handed <= 1
        /\ UNCHANGED <<carry, got, answer, handed, sending, came, out, uart, rts, unread, awaited, resumes, running>>
    <3>1. at = "program" /\ fifo # <<>> /\ fifo' = Tail(fifo) /\ uart' = uart /\ out' = out
          /\ UNCHANGED <<carry, got, answer, handed, sending, came, out, uart, rts, unread, awaited, resumes, running>>
      BY <1>16 DEF im1_entry, host, handed
    <3>2. got = CommandLength /\ ~came
      BY <1>1, <1>3, <3>1 DEF Turns, Room, Polling
    <3>3. /\ fifo' \in Seq(Bytes) /\ held' = held - 1
          /\ Head(fifo) = CtrlC /\ fifo' \o uart' \o out' = Rest(got)
      BY <1>1, <1>3, <3>1, <3>2, NextByte DEF held
    <3>4. at' = "breaking" /\ dtr' = FALSE
      BY <3>3, <1>16 DEF im1_entry, DISABLEINTS
    <3>5. Len(out) \in Nat
      BY <1>1 DEF TypeOK
    <3>6. held + handed <= 1
      BY <1>1, <1>3, <3>2, <3>5, BytesUnderWay DEF held, handed
    <3> QED
      BY <3>1, <3>2, <3>3, <3>4, <3>6
  <2>1. TypeOK'
    <3>1. at' \in Polling \union {"read"} \union Sending \union Elsewhere
      BY <1>2, <2>0 DEF Polling, Sending, Elsewhere
    <3>2. /\ carry' \in BOOLEAN /\ dtr' \in BOOLEAN /\ came' \in BOOLEAN /\ rts' \in BOOLEAN
          /\ resumes' \in BOOLEAN /\ running' \in BOOLEAN
      BY <1>2, <2>0
    <3>3. /\ fifo' \in Seq(Bytes) /\ held' <= FIFO
          /\ out' \in Seq(Bytes) /\ Len(out') <= CommandLength + 1
          /\ uart' \in Seq(Bytes) /\ handed' <= Depth
      BY <1>1, <1>3, <2>0 DEF TypeOK, FIFO, held, handed
    <3>4. /\ sending' \in 0 .. Transmit /\ got' \in 0 .. CommandLength /\ answer' \in 0 .. ReplyLength
          /\ unread' \in 0 .. HighWater + Slack /\ awaited' \in 0 .. 2 * ReplyLength
      BY <1>1, <1>3, <2>0 DEF TypeOK, Transmit
    <3> QED
      BY <3>1, <3>2, <3>3, <3>4 DEF TypeOK, held, handed
  <2>2. CommandKept'
    <3>1. fifo' \o uart' \o out' = Rest(got')
      BY <2>0
    <3>2. got' \in 0 .. CommandLength
      BY <2>1 DEF TypeOK
    <3>3. fifo' \o uart' \o out' = <<>> \o Rest(got')
      BY <3>1, <3>2, RestOfCommand, ConcatEmptySeq
    <3> QED
      BY <3>3 DEF CommandKept, Remaining, Rest
  <2>3. AnswerKept'
    BY <1>2, <1>3, <1>7, <2>0 DEF AnswerKept, ToCommand, ToStop, Elsewhere
  <2>4. Turns'
    <3>1. IF at' \in Sending THEN answer' > 0 ELSE answer' = 0
      BY <1>2, <1>3, <1>5, <2>0 DEF Sending
    <3>2. got' < CommandLength => at' \in Polling \union {"read"}
      BY <1>3, <1>6, <2>0 DEF Polling
    <3>3. running' /\ got' < CommandLength => resumes'
      BY <1>3, <1>6, <2>0
    <3> QED
      BY <3>1, <3>2, <3>3 DEF Turns
  <2>5. Room'
    BY <1>1, <1>2, <1>3, <2>0 DEF Room, Polling, FIFO
  <2>6. Flow'
    BY <1>1, <1>2, <1>3, <1>4, <2>0 DEF Flow
  <2>7. Heeded'
    BY <1>4, <2>0 DEF Heeded
  <2> QED
    BY <2>1, <2>2, <2>3, <2>4, <2>5, <2>6, <2>7 DEF IInv
<1>17. CASE Trap
  <2>0. /\ at \in Elsewhere /\ dtr' = FALSE /\ answer' = ReplyLength /\ at' = "cts" /\ resumes' = FALSE
        /\ at \in {"program", "breaking"} /\ got = CommandLength /\ answer = 0 /\ ~came
        /\ held + handed <= 1
        /\ UNCHANGED <<carry, got, fifo, held, handed, sending, came, out, uart, rts, unread, awaited, running>>
    <3>1. at \in Elsewhere /\ dtr' = FALSE /\ answer' = ReplyLength /\ at' = "cts" /\ resumes' = FALSE
          /\ UNCHANGED <<carry, got, fifo, held, handed, sending, came, out, uart, rts, unread, awaited, running>>
      BY <1>17 DEF Trap, DISABLEINTS, held, handed
    <3>2. got = CommandLength /\ answer = 0 /\ ~came
      <4>1. got = CommandLength
        BY <1>3, <1>6, <3>1 DEF Elsewhere
      <4>2. answer = 0
        BY <1>5, <3>1 DEF Elsewhere
      <4>3. ~came
        BY <1>1, <1>2, <3>1 DEF Room, Polling, Elsewhere
      <4> QED
        BY <4>1, <4>2, <4>3
    <3>3. Len(out) \in Nat
      BY <1>1 DEF TypeOK
    <3>4. held + handed <= 1
      BY <1>1, <1>3, <3>2, <3>3, BytesUnderWay DEF held, handed
    <3> QED
      BY <3>1, <3>2, <3>4 DEF Elsewhere
  <2>1. TypeOK'
    <3>1. at' \in Polling \union {"read"} \union Sending \union Elsewhere
      BY <1>2, <2>0 DEF Polling, Sending, Elsewhere
    <3>2. /\ carry' \in BOOLEAN /\ dtr' \in BOOLEAN /\ came' \in BOOLEAN /\ rts' \in BOOLEAN
          /\ resumes' \in BOOLEAN /\ running' \in BOOLEAN
      BY <1>2, <2>0
    <3>3. /\ fifo' \in Seq(Bytes) /\ held' <= FIFO
          /\ out' \in Seq(Bytes) /\ Len(out') <= CommandLength + 1
          /\ uart' \in Seq(Bytes) /\ handed' <= Depth
      BY <1>1, <1>3, <2>0 DEF TypeOK, FIFO, held, handed
    <3>4. /\ sending' \in 0 .. Transmit /\ got' \in 0 .. CommandLength /\ answer' \in 0 .. ReplyLength
          /\ unread' \in 0 .. HighWater + Slack /\ awaited' \in 0 .. 2 * ReplyLength
      BY <1>1, <1>3, <2>0 DEF TypeOK, Transmit
    <3> QED
      BY <3>1, <3>2, <3>3, <3>4 DEF TypeOK, held, handed
  <2>2. CommandKept'
    BY <1>1, <2>0 DEF CommandKept, Remaining
  <2>3. AnswerKept'
    <3>1. /\ awaited' = awaited /\ sending' = sending /\ unread' = unread /\ ~resumes' /\ at' = "cts"
          /\ at \in {"program", "breaking"} /\ got = CommandLength /\ got' = got /\ answer = 0 /\ answer' = ReplyLength
      BY <2>0
    <3>2. ToCommand = 0 /\ ToCommand' = 0 /\ ToStop = ReplyLength /\ ToStop' = 0
      BY <3>1 DEF ToCommand, ToStop, Elsewhere
    <3> QED
      BY <1>3, <1>7, <3>1, <3>2 DEF AnswerKept
  <2>4. Turns'
    <3>0. at' = "cts" /\ answer' = ReplyLength /\ got' = CommandLength
      BY <2>0
    <3>1. IF at' \in Sending THEN answer' > 0 ELSE answer' = 0
      BY <3>0 DEF Sending
    <3>2. got' < CommandLength => at' \in Polling \union {"read"}
      BY <3>0 DEF Polling
    <3>3. running' /\ got' < CommandLength => resumes'
      BY <1>3, <1>6, <2>0
    <3> QED
      BY <3>1, <3>2, <3>3 DEF Turns
  <2>5. Room'
    BY <1>1, <1>2, <1>3, <2>0 DEF Room, Polling, FIFO
  <2>6. Flow'
    BY <1>1, <1>2, <1>3, <1>4, <2>0 DEF Flow
  <2>7. Heeded'
    BY <1>4, <2>0 DEF Heeded
  <2> QED
    BY <2>1, <2>2, <2>3, <2>4, <2>5, <2>6, <2>7 DEF IInv
<1>18. CASE SendCommand
  <2>0. /\ awaited = 0 /\ out' = out \o Rest(0) /\ got' = 0
        /\ resumes' \in BOOLEAN /\ running' = resumes'
        /\ awaited' = IF resumes' THEN 2 * ReplyLength ELSE ReplyLength
        /\ UNCHANGED <<at, carry, answer, dtr, fifo, held, sending, came, uart, handed, rts, unread>>
    BY <1>18 DEF SendCommand, chip, Rest, held, handed
  <2>00. /\ answer = 0 /\ sending = 0 /\ unread = 0 /\ got = CommandLength
         /\ ~resumes /\ at \in {"test", "raise", "drop", "read"}
    BY <1>1, <2>0, NothingAwaited DEF Polling
  <2>000. /\ Rest(0) \in Seq(Bytes) /\ Len(Rest(0)) = CommandLength
    BY RestOfCommand
  <2>1. TypeOK'
    <3>1. at' \in Polling \union {"read"} \union Sending \union Elsewhere
      BY <1>2, <2>0 DEF Polling, Sending, Elsewhere
    <3>2. /\ carry' \in BOOLEAN /\ dtr' \in BOOLEAN /\ came' \in BOOLEAN /\ rts' \in BOOLEAN
          /\ resumes' \in BOOLEAN /\ running' \in BOOLEAN
      BY <1>2, <2>0
    <3>3. /\ fifo' \in Seq(Bytes) /\ held' <= FIFO
          /\ out' \in Seq(Bytes) /\ Len(out') <= CommandLength + 1
          /\ uart' \in Seq(Bytes) /\ handed' <= Depth
      <4>1. Len(out) <= 1 /\ out \in Seq(Bytes)
        <5>1. out \in Seq(Bytes) /\ Len(out) \in Nat
          BY <1>1 DEF TypeOK
        <5>2. held + handed + Len(out) <= 1
          BY <1>1, <2>00, BytesUnderWay DEF held, handed
        <5> QED
          BY <1>3, <5>1, <5>2
      <4>2. out' \in Seq(Bytes) /\ Len(out') = Len(out) + CommandLength
        BY <2>0, <2>000, <4>1, ConcatProperties
      <4>3. Len(out) \in Nat
        BY <4>1
      <4>4. Len(out') <= CommandLength + 1
        BY <4>1, <4>2, <4>3
      <4> QED
        BY <1>1, <2>0, <4>2, <4>4 DEF TypeOK, FIFO, held, handed
    <3>4. /\ sending' \in 0 .. Transmit /\ got' \in 0 .. CommandLength /\ answer' \in 0 .. ReplyLength
          /\ unread' \in 0 .. HighWater + Slack /\ awaited' \in 0 .. 2 * ReplyLength
      BY <1>1, <1>3, <2>0 DEF TypeOK, Transmit
    <3> QED
      BY <3>1, <3>2, <3>3, <3>4 DEF TypeOK, held, handed
  <2>2. CommandKept'
    <3>1. PICK before \in {<<>>, <<CtrlC>>} : fifo \o uart \o out = before
      BY <1>1, <2>00, OnlyCtrlC
    <3>2. fifo' \o uart' \o out' = before \o Rest(0)
      BY <1>1, <2>0, <2>000, <3>1, Added
    <3> QED
      BY <2>0, <3>2 DEF CommandKept, Remaining, Rest
  <2>3. AnswerKept'
    <3>1. ToCommand' = ReplyLength /\ ToStop' = IF resumes' THEN ReplyLength ELSE 0
      BY <2>0, <2>00 DEF ToCommand, ToStop, Elsewhere
    <3>2. answer' = 0 /\ sending' = 0 /\ unread' = 0
      BY <2>0, <2>00
    <3> QED
      BY <2>0, <3>1, <3>2 DEF AnswerKept
  <2>4. Turns'
    <3>1. IF at' \in Sending THEN answer' > 0 ELSE answer' = 0
      BY <2>0, <2>00 DEF Sending
    <3>2. got' < CommandLength => at' \in Polling \union {"read"}
      BY <2>0, <2>00 DEF Polling
    <3>3. running' /\ got' < CommandLength => resumes'
      BY <2>0
    <3> QED
      BY <3>1, <3>2, <3>3 DEF Turns
  <2>5. Room'
    BY <1>1, <1>2, <1>3, <2>0 DEF Room
  <2>6. Flow'
    BY <1>1, <1>3, <2>0 DEF Flow
  <2>7. Heeded'
    BY <1>4, <2>0 DEF Heeded
  <2> QED
    BY <2>1, <2>2, <2>3, <2>4, <2>5, <2>6, <2>7 DEF IInv
<1>19. CASE SendCtrlC
  <2>0. /\ running /\ awaited \in 1 .. ReplyLength /\ ~Contains(fifo \o uart \o out, CtrlC)
        /\ out' = Append(out, CtrlC)
        /\ UNCHANGED <<at, carry, got, answer, dtr, fifo, held, sending, came, uart, handed, rts, unread, awaited, resumes, running>>
    BY <1>19 DEF SendCtrlC, stub, chip, held, handed
  <2>00. got = CommandLength
    <3>1. SUFFICES ASSUME got # CommandLength PROVE FALSE
      OBVIOUS
    <3>2. resumes /\ ToCommand = ReplyLength /\ ToStop = ReplyLength
      BY <1>3, <1>6, <2>0, <3>1 DEF ToCommand, ToStop
    <3> QED
      BY <1>3, <1>7, <2>0, <3>2
  <2>000. /\ CtrlC \in Bytes /\ out \in Seq(Bytes) /\ Append(out, CtrlC) = out \o <<CtrlC>>
          /\ <<CtrlC>> \in Seq(Bytes)
    <3>1. CtrlC \in Bytes /\ out \in Seq(Bytes)
      BY <1>1 DEF TypeOK, Bytes, CtrlC
    <3> QED
      BY <3>1, AppendIsConcat
  <2>1. TypeOK'
    <3>1. at' \in Polling \union {"read"} \union Sending \union Elsewhere
      BY <1>2, <2>0 DEF Polling, Sending, Elsewhere
    <3>2. /\ carry' \in BOOLEAN /\ dtr' \in BOOLEAN /\ came' \in BOOLEAN /\ rts' \in BOOLEAN
          /\ resumes' \in BOOLEAN /\ running' \in BOOLEAN
      BY <1>2, <2>0
    <3>3. /\ fifo' \in Seq(Bytes) /\ held' <= FIFO
          /\ out' \in Seq(Bytes) /\ Len(out') <= CommandLength + 1
          /\ uart' \in Seq(Bytes) /\ handed' <= Depth
      <4>1. Len(out) \in Nat
        BY <2>000
      <4>2. held + handed + Len(out) <= 1
        BY <1>1, <2>00, BytesUnderWay DEF held, handed
      <4>3. Len(out) <= 1
        BY <1>3, <4>1, <4>2
      <4>4. out' \in Seq(Bytes) /\ Len(out') = Len(out) + 1
        BY <2>0, <2>000
      <4> QED
        BY <1>1, <2>0, <4>1, <4>3, <4>4 DEF TypeOK, FIFO, held, handed
    <3>4. /\ sending' \in 0 .. Transmit /\ got' \in 0 .. CommandLength /\ answer' \in 0 .. ReplyLength
          /\ unread' \in 0 .. HighWater + Slack /\ awaited' \in 0 .. 2 * ReplyLength
      BY <1>1, <1>3, <2>0 DEF TypeOK, Transmit
    <3> QED
      BY <3>1, <3>2, <3>3, <3>4 DEF TypeOK, held, handed
  <2>2. CommandKept'
    <3>1. Rest(got) = <<>>
      BY <2>00, LengthAssumption, RestOfCommand
    <3>2. fifo \o uart \o out # <<CtrlC>>
      <4>1. Contains(<<CtrlC>>, CtrlC)
        BY DEF Contains
      <4> QED
        BY <2>0, <4>1
    <3>3. fifo \o uart \o out = <<>>
      BY <1>1, <2>00, <3>2, OnlyCtrlC
    <3>4. fifo' \o uart' \o out' = <<>> \o <<CtrlC>>
      BY <1>1, <2>0, <2>000, <3>3, Added
    <3>5. fifo' \o uart' \o out' = <<CtrlC>> \o Rest(got')
      BY <2>0, <2>000, <3>1, <3>4, ConcatEmptySeq
    <3> QED
      BY <3>5 DEF CommandKept, Remaining, Rest
  <2>3. AnswerKept'
    BY <1>7, <2>0 DEF AnswerKept, ToCommand, ToStop
  <2>4. Turns'
    BY <1>1, <2>0 DEF Turns
  <2>5. Room'
    BY <1>1, <1>2, <1>3, <2>0 DEF Room
  <2>6. Flow'
    BY <1>1, <1>3, <2>0 DEF Flow
  <2>7. Heeded'
    BY <1>4, <2>0 DEF Heeded
  <2> QED
    BY <2>1, <2>2, <2>3, <2>4, <2>5, <2>6, <2>7 DEF IInv
<1>20. CASE HandOver
  <2>0. /\ dtr /\ out # <<>> /\ handed < Depth /\ uart' = Append(uart, Head(out)) /\ out' = Tail(out)
        /\ UNCHANGED <<at, carry, got, answer, dtr, fifo, held, sending, came, rts, unread, awaited, resumes, running>>
    BY <1>20 DEF HandOver, stub, chip, held, handed
  <2>00. /\ uart' \in Seq(Bytes) /\ out' \in Seq(Bytes) /\ handed' = handed + 1 /\ Len(out') = Len(out) - 1
         /\ uart' \o out' = uart \o out
    <3>1. uart \in Seq(Bytes) /\ out \in Seq(Bytes)
      BY <1>1 DEF TypeOK
    <3>2. /\ Append(uart, Head(out)) \in Seq(Bytes) /\ Tail(out) \in Seq(Bytes)
          /\ Len(Append(uart, Head(out))) = Len(uart) + 1 /\ Len(Tail(out)) = Len(out) - 1
          /\ Append(uart, Head(out)) \o Tail(out) = uart \o out
      BY <2>0, <3>1, Handing
    <3> QED
      BY <2>0, <3>2 DEF handed
  <2>1. TypeOK'
    <3>1. at' \in Polling \union {"read"} \union Sending \union Elsewhere
      BY <1>2, <2>0 DEF Polling, Sending, Elsewhere
    <3>2. /\ carry' \in BOOLEAN /\ dtr' \in BOOLEAN /\ came' \in BOOLEAN /\ rts' \in BOOLEAN
          /\ resumes' \in BOOLEAN /\ running' \in BOOLEAN
      BY <1>2, <2>0
    <3>3. /\ fifo' \in Seq(Bytes) /\ held' <= FIFO
          /\ out' \in Seq(Bytes) /\ Len(out') <= CommandLength + 1
          /\ uart' \in Seq(Bytes) /\ handed' <= Depth
      <4>1. Len(out) \in Nat /\ Len(out) <= CommandLength + 1
        BY <1>1 DEF TypeOK
      <4>2. Len(out') <= CommandLength + 1 /\ handed' <= Depth
        BY <1>3, <2>0, <2>00, <4>1
      <4> QED
        BY <1>1, <2>0, <2>00, <4>2 DEF TypeOK, FIFO, held
    <3>4. /\ sending' \in 0 .. Transmit /\ got' \in 0 .. CommandLength /\ answer' \in 0 .. ReplyLength
          /\ unread' \in 0 .. HighWater + Slack /\ awaited' \in 0 .. 2 * ReplyLength
      BY <1>1, <1>3, <2>0 DEF TypeOK, Transmit
    <3> QED
      BY <3>1, <3>2, <3>3, <3>4 DEF TypeOK, held, handed
  <2>2. CommandKept'
    <3>1. \A a \in Seq(Bytes), b \in Seq(Bytes), c \in Seq(Bytes) : (a \o b) \o c = a \o (b \o c)
      BY ConcatAssociative
    <3>2. fifo \in Seq(Bytes) /\ uart \in Seq(Bytes) /\ out \in Seq(Bytes)
      BY <1>1 DEF TypeOK
    <3>3. (fifo \o uart') \o out' = fifo \o (uart' \o out') /\ (fifo \o uart) \o out = fifo \o (uart \o out)
      BY <2>00, <3>1, <3>2
    <3>4. (fifo \o uart') \o out' = (fifo \o uart) \o out
      BY <2>00, <3>3
    <3> QED
      BY <1>1, <2>0, <3>4 DEF CommandKept, Remaining
  <2>3. AnswerKept'
    BY <1>7, <2>0 DEF AnswerKept, ToCommand, ToStop
  <2>4. Turns'
    BY <1>1, <2>0 DEF Turns
  <2>5. Room'
    BY <1>1, <1>2, <1>3, <2>0 DEF Room
  <2>6. Flow'
    BY <1>1, <1>3, <2>0 DEF Flow
  <2>7. Heeded'
    BY <1>4, <2>0 DEF Heeded
  <2> QED
    BY <2>1, <2>2, <2>3, <2>4, <2>5, <2>6, <2>7 DEF IInv
<1>21. CASE Arrive
  <2>0. /\ uart # <<>> /\ (at \in Polling => ~came) /\ uart' = Tail(uart) /\ came' = (at \in Polling)
        /\ fifo' = IF Len(fifo) < FIFO THEN Append(fifo, Head(uart)) ELSE [fifo EXCEPT ![FIFO] = Head(uart)]
        /\ UNCHANGED <<at, carry, got, answer, dtr, sending, out, rts, unread, awaited, resumes, running>>
    BY <1>21 DEF Arrive, PollsPerByte, stub, held, handed
  <2>a. fifo \in Seq(Bytes) /\ uart \in Seq(Bytes) /\ out \in Seq(Bytes) /\ handed > 0
    BY <1>1, <2>0, EmptySeq DEF TypeOK, handed
  <2>b. held < FIFO
    <3>1. CASE ~dtr
      BY <1>1, <1>3, <2>a, <3>1 DEF Room, FIFO
    <3>2. CASE dtr /\ at # "program"
      <4>1. at \in Polling
        BY <1>1, <1>2, <3>2 DEF Room, Polling
      <4>2. held = 0
        BY <1>1, <1>2, <1>3, <2>0, <3>2, <4>1 DEF Room
      <4> QED
        BY <4>2 DEF FIFO
    <3>3. CASE dtr /\ at = "program"
      <4>1. got = CommandLength
        BY <1>3, <1>6, <3>3
      <4>2. Len(out) \in Nat
        BY <2>a
      <4>3. held + handed + Len(out) <= 1
        BY <1>1, <4>1, BytesUnderWay DEF held, handed
      <4> QED
        BY <1>3, <2>a, <4>2, <4>3 DEF FIFO
    <3> QED
      BY <3>1, <3>2, <3>3
  <2>c. /\ fifo' \in Seq(Bytes) /\ uart' \in Seq(Bytes) /\ held' = held + 1 /\ handed' = handed - 1
        /\ fifo' \o uart' = fifo \o uart
    <3>1. fifo' = Append(fifo, Head(uart))
      <4>1. Len(fifo) < FIFO
        BY <2>b DEF held
      <4> QED
        BY <2>0, <4>1
    <3>2. /\ Append(fifo, Head(uart)) \in Seq(Bytes) /\ Tail(uart) \in Seq(Bytes)
          /\ Len(Append(fifo, Head(uart))) = Len(fifo) + 1 /\ Len(Tail(uart)) = Len(uart) - 1
          /\ Append(fifo, Head(uart)) \o Tail(uart) = fifo \o uart
      BY <2>0, <2>a, Handing
    <3> QED
      BY <2>0, <3>1, <3>2 DEF held, handed
  <2>1. TypeOK'
    <3>1. at' \in Polling \union {"read"} \union Sending \union Elsewhere
      BY <1>2, <2>0 DEF Polling, Sending, Elsewhere
    <3>2. /\ carry' \in BOOLEAN /\ dtr' \in BOOLEAN /\ came' \in BOOLEAN /\ rts' \in BOOLEAN
          /\ resumes' \in BOOLEAN /\ running' \in BOOLEAN
      BY <1>2, <2>0
    <3>3. /\ fifo' \in Seq(Bytes) /\ held' <= FIFO
          /\ out' \in Seq(Bytes) /\ Len(out') <= CommandLength + 1
          /\ uart' \in Seq(Bytes) /\ handed' <= Depth
      <4>1. held' <= FIFO
        BY <1>3, <2>b, <2>c DEF FIFO
      <4>2. handed' <= Depth
        BY <1>3, <2>a, <2>c
      <4> QED
        BY <1>1, <2>0, <2>c, <4>1, <4>2 DEF TypeOK
    <3>4. /\ sending' \in 0 .. Transmit /\ got' \in 0 .. CommandLength /\ answer' \in 0 .. ReplyLength
          /\ unread' \in 0 .. HighWater + Slack /\ awaited' \in 0 .. 2 * ReplyLength
      BY <1>1, <1>3, <2>0 DEF TypeOK, Transmit
    <3> QED
      BY <3>1, <3>2, <3>3, <3>4 DEF TypeOK, held, handed
  <2>2. CommandKept'
    BY <1>1, <2>0, <2>c DEF CommandKept, Remaining
  <2>3. AnswerKept'
    BY <1>7, <2>0 DEF AnswerKept, ToCommand, ToStop
  <2>4. Turns'
    BY <1>1, <2>0 DEF Turns
  <2>5. Room'
    <3>1. held' + handed' = held + handed /\ held' > 0
      BY <1>3, <2>a, <2>c
    <3>2. ASSUME at = "raise" \/ (dtr /\ at # "program")
          PROVE  held' = 1 /\ came'
      <4>1. at \in Polling
        BY <1>1, <1>2, <3>2 DEF Room, Polling
      <4>2. held = 0
        BY <1>1, <1>2, <1>3, <2>0, <3>2, <4>1 DEF Room
      <4>3. came'
        BY <2>0, <4>1
      <4> QED
        BY <2>c, <4>2, <4>3
    <3>3. came' => at' \in Polling
      BY <2>0
    <3>4. /\ ~dtr' => held' + handed' <= FIFO
          /\ ~dtr' /\ at' # "read" => held' + handed' < FIFO
          /\ dtr' => at' \in {"drop", "program"} \/ (at' = "test" /\ carry')
      BY <1>1, <1>2, <2>0, <3>1 DEF Room
    <3>5. at' = "raise" \/ (dtr' /\ at' # "program") => IF came' THEN held' = 1 ELSE held' = 0
      BY <2>0, <3>2
    <3> QED
      BY <3>1, <3>3, <3>4, <3>5 DEF Room
  <2>6. Flow'
    BY <1>1, <1>3, <2>0 DEF Flow
  <2>7. Heeded'
    BY <1>4, <2>0 DEF Heeded
  <2> QED
    BY <2>1, <2>2, <2>3, <2>4, <2>5, <2>6, <2>7 DEF IInv
<1>22. CASE Depart
  <2>0. /\ sending = 1 /\ sending' = 0 /\ unread' = unread + 1 /\ rts' = (unread' < HighWater)
        /\ at # "out" /\ unread + 1 <= HighWater + 1
        /\ at = "sent" => unread + 1 <= HighWater
        /\ UNCHANGED <<at, carry, got, answer, dtr, fifo, held, came, out, uart, handed, awaited, resumes, running>>
    <3>1. /\ sending > 0 /\ sending' = sending - 1 /\ unread' = unread + 1 /\ rts' = (unread' < HighWater)
          /\ UNCHANGED <<at, carry, got, answer, dtr, fifo, held, came, out, uart, handed, awaited, resumes, running>>
      BY <1>22 DEF Depart, stub, held, handed
    <3>2. sending = 1
      BY <1>1, <1>3, <3>1 DEF Flow
    <3>3. /\ at # "out" /\ unread + 1 <= HighWater + 1
          /\ at = "sent" => unread + 1 <= HighWater
      BY <1>1, <1>3, <3>2 DEF Flow
    <3>4. sending' = 0
      BY <3>1, <3>2
    <3> QED
      BY <3>1, <3>2, <3>3, <3>4
  <2>1. TypeOK'
    <3>1. at' \in Polling \union {"read"} \union Sending \union Elsewhere
      BY <1>2, <2>0 DEF Polling, Sending, Elsewhere
    <3>2. /\ carry' \in BOOLEAN /\ dtr' \in BOOLEAN /\ came' \in BOOLEAN /\ rts' \in BOOLEAN
          /\ resumes' \in BOOLEAN /\ running' \in BOOLEAN
      BY <1>2, <2>0
    <3>3. /\ fifo' \in Seq(Bytes) /\ held' <= FIFO
          /\ out' \in Seq(Bytes) /\ Len(out') <= CommandLength + 1
          /\ uart' \in Seq(Bytes) /\ handed' <= Depth
      BY <1>1, <1>3, <2>0 DEF TypeOK, FIFO, held, handed
    <3>4. /\ sending' \in 0 .. Transmit /\ got' \in 0 .. CommandLength /\ answer' \in 0 .. ReplyLength
          /\ unread' \in 0 .. HighWater + Slack /\ awaited' \in 0 .. 2 * ReplyLength
      BY <1>1, <1>3, <2>0 DEF TypeOK, Transmit, Modest
    <3> QED
      BY <3>1, <3>2, <3>3, <3>4 DEF TypeOK, held, handed
  <2>2. CommandKept'
    BY <1>1, <2>0 DEF CommandKept, Remaining
  <2>3. AnswerKept'
    <3>1. ToCommand' = ToCommand /\ ToStop' = ToStop /\ answer' = answer /\ awaited' = awaited
      BY <2>0 DEF ToCommand, ToStop
    <3>2. answer + 1 + unread = answer + 0 + (unread + 1)
      BY <1>3
    <3> QED
      BY <1>7, <2>0, <3>1, <3>2 DEF AnswerKept
  <2>4. Turns'
    BY <1>1, <2>0 DEF Turns
  <2>5. Room'
    BY <1>1, <1>2, <1>3, <2>0 DEF Room
  <2>6. Flow'
    BY <1>1, <1>3, <2>0 DEF Flow
  <2>7. Heeded'
    BY <2>0 DEF Heeded
  <2> QED
    BY <2>1, <2>2, <2>3, <2>4, <2>5, <2>6, <2>7 DEF IInv
<1>23. CASE HostReads
  <2>0. /\ unread > 0 /\ awaited > 0 /\ unread' = unread - 1 /\ awaited' = awaited - 1
        /\ rts' = (unread' < HighWater)
        /\ UNCHANGED <<at, carry, got, answer, dtr, fifo, held, sending, came, out, uart, handed, resumes, running>>
    BY <1>23 DEF HostReads, stub, chip, held, handed
  <2>1. TypeOK'
    <3>1. at' \in Polling \union {"read"} \union Sending \union Elsewhere
      BY <1>2, <2>0 DEF Polling, Sending, Elsewhere
    <3>2. /\ carry' \in BOOLEAN /\ dtr' \in BOOLEAN /\ came' \in BOOLEAN /\ rts' \in BOOLEAN
          /\ resumes' \in BOOLEAN /\ running' \in BOOLEAN
      BY <1>2, <2>0
    <3>3. /\ fifo' \in Seq(Bytes) /\ held' <= FIFO
          /\ out' \in Seq(Bytes) /\ Len(out') <= CommandLength + 1
          /\ uart' \in Seq(Bytes) /\ handed' <= Depth
      BY <1>1, <1>3, <2>0 DEF TypeOK, FIFO, held, handed
    <3>4. /\ sending' \in 0 .. Transmit /\ got' \in 0 .. CommandLength /\ answer' \in 0 .. ReplyLength
          /\ unread' \in 0 .. HighWater + Slack /\ awaited' \in 0 .. 2 * ReplyLength
      BY <1>1, <1>3, <2>0 DEF TypeOK, Transmit
    <3> QED
      BY <3>1, <3>2, <3>3, <3>4 DEF TypeOK, held, handed
  <2>2. CommandKept'
    BY <1>1, <2>0 DEF CommandKept, Remaining
  <2>3. AnswerKept'
    <3>1. ToCommand' = ToCommand /\ ToStop' = ToStop /\ answer' = answer /\ sending' = sending
      BY <2>0 DEF ToCommand, ToStop
    <3>2. awaited - 1 = answer + sending + (unread - 1) + ToCommand + ToStop
      BY <1>3, <1>7
    <3> QED
      BY <2>0, <3>1, <3>2 DEF AnswerKept
  <2>4. Turns'
    BY <1>1, <2>0 DEF Turns
  <2>5. Room'
    BY <1>1, <1>2, <1>3, <2>0 DEF Room
  <2>6. Flow'
    BY <1>1, <1>3, <2>0 DEF Flow
  <2>7. Heeded'
    BY <2>0 DEF Heeded
  <2> QED
    BY <2>1, <2>2, <2>3, <2>4, <2>5, <2>6, <2>7 DEF IInv
<1>24. CASE UNCHANGED vars
  <2>1. UNCHANGED <<at, carry, got, answer, dtr, fifo, sending, came, out, uart, rts, unread, awaited, resumes, running>>
    BY <1>24 DEF vars, stub, chip, host
  <2>2. TypeOK'
    BY <1>1, <2>1 DEF TypeOK
  <2>3. CommandKept' /\ AnswerKept'
    BY <1>1, <2>1 DEF CommandKept, Remaining, AnswerKept, ToCommand, ToStop
  <2>4. Turns' /\ Room'
    BY <1>1, <2>1 DEF Turns, Room, held, handed
  <2>5. Flow' /\ Heeded'
    BY <1>1, <2>1 DEF Flow, Heeded
  <2> QED
    BY <2>2, <2>3, <2>4, <2>5 DEF IInv
<1> QED
  BY <1>9, <1>10, <1>11, <1>12, <1>13, <1>14, <1>15, <1>16, <1>17, <1>18, <1>19, <1>20, <1>21, <1>22, <1>23, <1>24 DEF Next, Driver, Poll, Line

-----------------------------------------------------------------------------
(* What the driver promises to a modest host. *)

\* The invariant: at every point of the driver the host and the DART have room for
\* what can still come, and every byte is accounted for.
THEOREM Invariance ==
  ASSUME Modest
  PROVE  Spec => []IInv
<1>1. Init => IInv
  BY Start
<1>2. IInv /\ [Next]_vars => IInv'
  BY Kept
<1> QED
  BY <1>1, <1>2, PTL DEF Spec

\* The state is well typed: in particular the host's receiver and the DART are never
\* asked to take a byte more than they hold.
THEOREM DriverTypeCorrect ==
  ASSUME Modest
  PROVE  Spec => []TypeOK
<1>1. IInv => TypeOK
  BY DEF IInv
<1> QED
  BY <1>1, Invariance, PTL

\* RECIEVEBYTE loses no byte of a command, whatever its length.
THEOREM CommandsArrive ==
  ASSUME Modest
  PROVE  Spec => []CommandKept
<1>1. IInv => CommandKept
  BY DEF IInv
<1> QED
  BY <1>1, Invariance, PTL

\* SENDBYTE loses no byte of an answer, whatever its length.
THEOREM AnswersArrive ==
  ASSUME Modest
  PROVE  Spec => []AnswerKept
<1>1. IInv => AnswerKept
  BY DEF IInv
<1> QED
  BY <1>1, Invariance, PTL
=============================================================================
