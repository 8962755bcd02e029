-------------------------------- MODULE Dart --------------------------------
(***************************************************************************)
(* The serial driver of the stub (pcw_dart_asm.asm): bytes are read and    *)
(* written by polling the DART, DTR tells the host when it may send, and   *)
(* CTS tells the stub.  The other end is a host with a transmitter that    *)
(* finishes what it has been handed and a receiver that takes RTS away     *)
(* when it is nearly full.                                                 *)
(*                                                                         *)
(* Who calls the driver is reduced to how many bytes it reads and writes:  *)
(* a command is CommandLength bytes, an answer ReplyLength; some commands  *)
(* resume the program, which ends in a trap and an answer of its own.      *)
(* What the bytes are is the module Session.                               *)
(***************************************************************************)
EXTENDS Naturals, SequencesExt

CONSTANTS
  CommandLength,
  ReplyLength,
  Depth,        \* the bytes that the host's transmitter is handed in advance
  HighWater,    \* the bytes unread at which the host takes RTS away
  Slack         \* what its receiver still takes then

ASSUME LengthAssumption == CommandLength \in Nat \ {0} /\ ReplyLength \in Nat \ {0}
ASSUME HostAssumption   == Depth \in Nat \ {0} /\ HighWater \in Nat \ {0} /\ Slack \in Nat

FIFO     == 3   \* the bytes the DART holds until they are read, and to be sent
Transmit == 2
CtrlC    == 0

VARIABLES
  at,         \* where the stub is in the driver, or who runs instead
  carry,      \* the carry flag: FWAITAVAIL has raised DTR
  dtr,
  fifo,       \* what the DART has received
  sending,    \* the bytes in its transmit buffer and shift register
  came,       \* a byte has come since FWAITAVAIL began to see one
  got,        \* bytes of the command that the stub has read
  answer,     \* bytes that it has still to send
  resumes,    \* the stub resumes the program after it
  out,        \* what the host has to send, and what its transmitter has been handed
  uart,
  rts,        \* the CTS input of the DART
  unread,     \* bytes in the host's receiver
  awaited,    \* bytes that the host waits for
  running     \* its last command lets the program run

chip == <<dtr, fifo, sending, came>>
stub == <<at, carry, got, answer>>
host == <<out, uart, rts, unread, awaited, resumes, running>>
vars == <<stub, chip, host>>

Bytes == 0 .. CommandLength
Polling   == {"test", "raise", "drop"}
Sending   == {"cts", "sent", "out"}
Elsewhere == {"program", "breaking"}

TypeOK ==
  /\ at \in Polling \union {"read"} \union Sending \union Elsewhere
  /\ carry \in BOOLEAN /\ dtr \in BOOLEAN /\ came \in BOOLEAN /\ rts \in BOOLEAN
  /\ resumes \in BOOLEAN /\ running \in BOOLEAN
  /\ fifo \in Seq(Bytes) /\ Len(fifo) <= FIFO
  /\ sending \in 0 .. Transmit
  /\ got \in 0 .. CommandLength
  /\ answer \in 0 .. ReplyLength
  /\ out \in Seq(Bytes) /\ Len(out) <= CommandLength + 1
  /\ uart \in Seq(Bytes) /\ Len(uart) <= Depth
  /\ unread \in 0 .. HighWater + Slack
  /\ awaited \in 0 .. 2 * ReplyLength

\* INITCOMS leaves DTR off and the interrupts of the DART too: the host waits until
\* the program has met its first RST 08.
Init ==
  /\ at = "program" /\ carry = FALSE
  /\ dtr = FALSE /\ fifo = <<>> /\ sending = 0 /\ came = FALSE
  /\ got = CommandLength /\ answer = 0 /\ resumes = FALSE
  /\ out = <<>> /\ uart = <<>>
  /\ rts = TRUE /\ unread = 0
  /\ awaited = ReplyLength /\ running = TRUE

-----------------------------------------------------------------------------
(* RECIEVEBYTE. *)

CarryKept == carry
CarryCleared == FALSE

\* FWAITAVAIL from its entry.
FWAITAVAIL == at' = "test" /\ carry' = CarryCleared

_FWAITREC ==
  /\ at = "test"
  /\ at' = IF fifo # <<>> THEN "drop" ELSE IF carry THEN "test" ELSE "raise"
  /\ UNCHANGED <<carry, got, answer, chip, host>>

_FASTSETDTR ==
  /\ at = "raise"
  /\ carry' = TRUE
  /\ dtr' = TRUE
  /\ at' = "test"
  /\ UNCHANGED <<got, answer, fifo, sending, came, host>>

DTRKept == dtr
DTROff == FALSE

CLEAR_DTR ==
  /\ at = "drop"
  /\ dtr' = DTROff
  /\ at' = "read"
  /\ came' = FALSE
  /\ UNCHANGED <<carry, got, answer, fifo, sending, host>>

\* The byte is read; the caller reads on, or answers what is now complete.
RECIEVEBYTE ==
  /\ at = "read"
  /\ fifo' = Tail(fifo)
  /\ got' = IF Head(fifo) = CtrlC THEN got ELSE got + 1
  /\ IF got' = CommandLength /\ got < CommandLength
       THEN at' = "cts" /\ answer' = ReplyLength /\ UNCHANGED carry
       ELSE FWAITAVAIL /\ UNCHANGED answer
  /\ UNCHANGED <<dtr, sending, came, host>>

-----------------------------------------------------------------------------
(* SENDBYTE. *)

Unheeded == TRUE
ClearToSend == rts

_FWAITSEND ==
  /\ at = "cts" /\ ClearToSend
  /\ at' = "sent"
  /\ UNCHANGED <<carry, got, answer, chip, host>>

AnyTime == TRUE
AllSent == sending = 0

_FCHECKSENT ==
  /\ at = "sent" /\ AllSent
  /\ at' = "out"
  /\ UNCHANGED <<carry, got, answer, chip, host>>

EnabledOnly == dtr' = dtr
ENABLEINTS == dtr' = TRUE
DISABLEINTS == dtr' = FALSE

\* The byte is written.  The caller writes the next one, or it goes back to reading
\* or to the program.  A byte too many takes the place of the one before.
SENDBYTE ==
  /\ at = "out"
  /\ sending' = IF sending < Transmit THEN sending + 1 ELSE Transmit
  /\ answer' = answer - 1
  /\ IF answer' > 0 THEN at' = "cts" /\ UNCHANGED <<carry, dtr>>
     ELSE IF resumes THEN at' = "program" /\ ENABLEINTS /\ UNCHANGED carry
     ELSE FWAITAVAIL /\ UNCHANGED dtr
  /\ UNCHANGED <<got, fifo, came, host>>

-----------------------------------------------------------------------------
(* The program runs. *)

im1_entry ==
  /\ at = "program" /\ fifo # <<>>
  /\ fifo' = Tail(fifo)
  /\ IF Head(fifo) = CtrlC THEN at' = "breaking" /\ DISABLEINTS ELSE UNCHANGED <<at, dtr>>
  /\ UNCHANGED <<carry, got, answer, sending, came, host>>

Trap ==
  /\ at \in Elsewhere
  /\ DISABLEINTS
  /\ answer' = ReplyLength
  /\ at' = "cts"
  /\ resumes' = FALSE
  /\ UNCHANGED <<carry, got, fifo, sending, came, out, uart, rts, unread, awaited, running>>

-----------------------------------------------------------------------------
(* The host. *)

SendCommand ==
  /\ awaited = 0
  /\ out' = out \o [k \in 1 .. CommandLength |-> k]
  /\ got' = 0
  /\ \E r \in BOOLEAN :
       resumes' = r /\ running' = r /\ awaited' = IF r THEN 2 * ReplyLength ELSE ReplyLength
  /\ UNCHANGED <<at, carry, answer, chip, uart, rts, unread>>

\* One at a time, while the host waits for the program to stop.
SendCtrlC ==
  /\ running /\ awaited \in 1 .. ReplyLength
  /\ ~Contains(fifo \o uart \o out, CtrlC)
  /\ out' = Append(out, CtrlC)
  /\ UNCHANGED <<stub, chip, uart, rts, unread, awaited, resumes, running>>

HandOver ==
  /\ dtr
  /\ out # <<>> /\ Len(uart) < Depth
  /\ uart' = Append(uart, Head(out))
  /\ out' = Tail(out)
  /\ UNCHANGED <<stub, chip, rts, unread, awaited, resumes, running>>

\* The stub polls several times while a byte is on the line: only one comes from when
\* there is something to see to the end of DTR.
PollsPerByte == at \in Polling => ~came

\* A byte that finds the DART full takes the place of the last one.
Arrive ==
  /\ uart # <<>> /\ PollsPerByte
  /\ fifo' = IF Len(fifo) < FIFO THEN Append(fifo, Head(uart)) ELSE [fifo EXCEPT ![FIFO] = Head(uart)]
  /\ uart' = Tail(uart)
  /\ came' = (at \in Polling)
  /\ UNCHANGED <<stub, dtr, sending, out, rts, unread, awaited, resumes, running>>

Depart ==
  /\ sending > 0
  /\ sending' = sending - 1
  /\ unread' = unread + 1
  /\ rts' = (unread' < HighWater)
  /\ UNCHANGED <<stub, dtr, fifo, came, out, uart, awaited, resumes, running>>

HostReads ==
  /\ unread > 0 /\ awaited > 0
  /\ unread' = unread - 1
  /\ awaited' = awaited - 1
  /\ rts' = (unread' < HighWater)
  /\ UNCHANGED <<stub, chip, out, uart, resumes, running>>

-----------------------------------------------------------------------------
Poll   == _FWAITREC \/ _FASTSETDTR \/ CLEAR_DTR \/ RECIEVEBYTE \/ _FWAITSEND \/ _FCHECKSENT \/ SENDBYTE
Driver == Poll \/ im1_entry
Line   == Arrive \/ Depart

Next == Driver \/ Trap \/ SendCommand \/ SendCtrlC \/ HandOver \/ HostReads \/ Line

Spec == Init /\ [][Next]_vars

\* The stub does nothing but poll and lets an interrupt in when the program runs; a
\* program that is to stop reaches the RST 08; bytes on the line arrive; the host
\* sends what it may and reads.
Fairness ==
  /\ WF_vars(Poll) /\ WF_vars(im1_entry) /\ WF_vars(at = "breaking" /\ Trap)
  /\ WF_vars(Arrive) /\ WF_vars(Depart)
  /\ WF_vars(HandOver) /\ WF_vars(HostReads)

FairSpec == Spec /\ Fairness

-----------------------------------------------------------------------------
(* Properties. *)

\* The bytes of the command that the stub has not read.
Remaining == [k \in 1 .. CommandLength - got |-> got + k]

\* What the stub has not read of a command is in the DART, in the host's transmitter
\* or still to be sent, in order and complete, and nothing else is but a Ctrl-C ahead
\* of it: although DTR falls only when the first byte has come, the DART takes all
\* that comes after.
CommandKept ==
  \E before \in {<<>>, <<CtrlC>>} : fifo \o uart \o out = before \o Remaining

\* The answer to the command the stub is reading, and the one for the next stop of the
\* program.
ToCommand == IF got < CommandLength THEN ReplyLength ELSE 0
ToStop    == IF resumes \/ at \in Elsewhere THEN ReplyLength ELSE 0

\* Each byte the host waits for is still to be written, is sent, or is in the host's
\* receiver, which the stub does not run over although it looks at CTS first and
\* then waits for the byte before to be gone.
AnswerKept == awaited = answer + sending + unread + ToCommand + ToStop

\* A command that does not resume the program is read and answered.
Answered == awaited > 0 /\ ~resumes /\ at \notin Elsewhere ~> awaited = 0

\* A Ctrl-C stops a program that a command has resumed, if it lets interrupts in.
BreakTaken == at = "program" /\ resumes /\ Contains(fifo \o uart \o out, CtrlC) ~> at # "program"
=============================================================================
