------------------------------ MODULE Session ------------------------------
(***************************************************************************)
(* The conversation of the stub and the host over the serial line:         *)
(* server_read_data and process_packet in server.c called by the GDB loop  *)
(* of rst8_c_trap, and what becomes of bytes that arrive while the program *)
(* runs (im1_entry in pcw_rst8.asm).  The host follows the remote protocol *)
(* of gdb: it sends a packet again until the packet is acknowledged.       *)
(*                                                                         *)
(* The line carries tokens: $, one for the whole payload of a command, #,  *)
(* the two digits of its checksum, the acknowledgements and Ctrl-C.  A     *)
(* checksum is taken to tell a damaged payload from the one it belongs to. *)
(* What the commands do to the program is the module TrapHandler.          *)
(***************************************************************************)
EXTENDS Naturals, Sequences

CONSTANTS
  Capacity,      \* payload tokens that the buffer cannot take any more
  MaxFaults,     \* bound: tokens that are lost or damaged
  Noise,         \* what a damaged token may arrive as
  BadReplies,    \* packets of the stub may be damaged too
  Hasty          \* the host may send again while an answer is on its way

ASSUME CapacityAssumption == Capacity \in Nat \ {0, 1}
ASSUME FaultsAssumption   == MaxFaults \in Nat
ASSUME NoiseAssumption    == Noise \subseteq {"$", "#", "junk"}
ASSUME LibertyAssumption  == BadReplies \in BOOLEAN /\ Hasty \in BOOLEAN

Twice   == 2     \* bound: executions of one command that are counted
MaxLine == 5     \* bound: tokens on the line when a hasty host sends again

\* Commands are told apart from the two before.  The host asks for something, resumes
\* the program with c, s or i, or sends what process_packet does not know.
Kinds     == {"ask", "resume", "unknown"}
Command   == [id : 0 .. 2, kind : Kinds]
NoCommand == [id |-> 0, kind |-> "none"]
Token(t, c) == [t |-> t, of |-> c]
Mark(t)     == Token(t, NoCommand)
CtrlC       == Mark("^C")

ToStub == [t : {"payload", "digit1", "digit2"}, of : Command]
            \union {Mark(t) : t \in {"$", "#", "+", "-", "^C", "junk"}}
ToHost == [t : {"reply"}, of : Command]
            \union {Mark(t) : t \in {"+", "-", "error", "stop", "junk"}}

VARIABLES
  host,        \* what the host waits for, or "idle": its user decides
  command,     \* the host's last command
  to_stub,     \* the tokens on their way to the stub, and to the host
  to_host,
  stub,        \* in the GDB loop, or the program runs, or it is to stop
  readState,
  payload,     \* what came between $ and #
  checksum,    \* the first digit that came
  executed,    \* how often process_packet has executed the host's last command
  faults

vars == <<host, command, to_stub, to_host, stub, readState, payload, checksum, executed, faults>>
line   == <<to_stub, to_host>>
reader == <<readState, payload, checksum>>

TypeOK ==
  /\ host \in {"idle", "acknowledgement", "reply", "stop"}
  /\ command \in Command \union {NoCommand}
  /\ to_stub \in Seq(ToStub)
  /\ to_host \in Seq(ToHost)
  /\ stub \in {"reading", "running", "breaking"}
  /\ readState \in {"JUNK", "PACKET_INPROGRESS", "CHECKSUM_B1", "CHECKSUM_B2"}
  /\ payload \in Seq(ToStub) /\ Len(payload) < Capacity
  /\ checksum \in ToStub
  /\ executed \in 0 .. Twice
  /\ faults \in 0 .. MaxFaults

\* The host is connected and the program runs.
Init ==
  /\ host = "stop"
  /\ command = NoCommand
  /\ to_stub = <<>> /\ to_host = <<>>
  /\ stub = "running"
  /\ readState = "JUNK" /\ payload = <<>> /\ checksum = Mark("junk")
  /\ executed = 0
  /\ faults = 0

-----------------------------------------------------------------------------
(* The host. *)

Packet(c) == <<Mark("$"), Token("payload", c), Mark("#"), Token("digit1", c), Token("digit2", c)>>

SendCommand(kind) ==
  /\ host = "idle"
  /\ command' = [id |-> (command.id + 1) % 3, kind |-> kind]
  /\ to_stub' = to_stub \o Packet(command')
  /\ host' = "acknowledgement"
  /\ executed' = 0
  /\ UNCHANGED <<to_host, stub, reader, faults>>

\* The host has waited long enough for an acknowledgement.
SendAgain ==
  /\ host = "acknowledgement"
  /\ Hasty \/ (to_stub = <<>> /\ to_host = <<>>)
  /\ Len(to_stub) + Len(to_host) <= MaxLine
  /\ to_stub' = to_stub \o Packet(command)
  /\ UNCHANGED <<host, command, to_host, stub, reader, executed, faults>>

SendCtrlC ==
  /\ host = "stop" /\ to_stub = <<>>
  /\ to_stub' = <<CtrlC>>
  /\ UNCHANGED <<host, command, to_host, stub, reader, executed, faults>>

\* A packet is acknowledged.  One that comes where an acknowledgement should is
\* read and forgotten.
HostReads ==
  /\ to_host # <<>>
  /\ to_host' = Tail(to_host)
  /\ LET t == Head(to_host).t
     IN \/ /\ host = "acknowledgement" /\ t = "+"
           /\ host' = IF command.kind = "resume" THEN "stop" ELSE "reply"
           /\ UNCHANGED to_stub
        \/ /\ host = "acknowledgement" /\ t = "-"
           /\ to_stub' = to_stub \o Packet(command)
           /\ UNCHANGED host
        \/ /\ host \in {"reply", "stop"} /\ t \in {"reply", "error", "stop"}
           /\ host' = "idle"
           /\ to_stub' = Append(to_stub, Mark("+"))
        \/ /\ host \in {"reply", "stop"} /\ t = "junk"
           /\ to_stub' = Append(to_stub, Mark("-"))
           /\ UNCHANGED host
        \/ /\ CASE host = "idle"            -> TRUE
                [] host = "acknowledgement" -> t \notin {"+", "-"}
                [] OTHER                    -> t \in {"+", "-"}
           /\ UNCHANGED <<host, to_stub>>
  /\ UNCHANGED <<command, stub, reader, executed, faults>>

-----------------------------------------------------------------------------
(* The line. *)

\* A token to the stub is lost or arrives as something else, or a packet of the stub
\* is damaged.
Lose ==
  /\ faults < MaxFaults
  /\ faults' = faults + 1
  /\ \/ /\ to_stub # <<>>
        /\ \/ to_stub' = Tail(to_stub)
           \/ \E t \in Noise : to_stub' = <<Mark(t)>> \o Tail(to_stub)
        /\ UNCHANGED to_host
     \/ /\ BadReplies
        /\ to_host # <<>> /\ Head(to_host).t \in {"reply", "error", "stop"}
        /\ to_host' = <<Mark("junk")>> \o Tail(to_host)
        /\ UNCHANGED to_stub
  /\ UNCHANGED <<host, command, stub, reader, executed>>

-----------------------------------------------------------------------------
(* The stub in the GDB loop. *)

Receives(t) ==
  /\ stub = "reading"
  /\ to_stub # <<>> /\ Head(to_stub).t = t
  /\ to_stub' = Tail(to_stub)
in == Head(to_stub)

\* A $ starts a packet, wherever it comes.
ReadDollar ==
  /\ Receives("$")
  /\ readState' = "PACKET_INPROGRESS"
  /\ payload' = <<>>
  /\ UNCHANGED <<host, command, to_host, stub, checksum, executed, faults>>

ReadOther(t) == t # "$" /\ Receives(t)

SkipJunk(t) ==
  /\ ReadOther(t) /\ readState = "JUNK"
  /\ UNCHANGED <<host, command, to_host, stub, reader, executed, faults>>

\* The payload token that fills the buffer ends the call with an error packet.
Full == Len(payload) + 1 = Capacity

ReadPayload(t) ==
  /\ ReadOther(t) /\ readState = "PACKET_INPROGRESS" /\ t # "#"
  /\ IF Full
       THEN /\ readState' = "JUNK" /\ payload' = <<>>
            /\ to_host' = Append(to_host, Mark("error"))
       ELSE /\ payload' = Append(payload, in)
            /\ UNCHANGED <<readState, to_host>>
  /\ UNCHANGED <<host, command, stub, checksum, executed, faults>>

ReadHash ==
  /\ Receives("#") /\ readState = "PACKET_INPROGRESS"
  /\ readState' = "CHECKSUM_B1"
  /\ UNCHANGED <<host, command, to_host, stub, payload, checksum, executed, faults>>

ReadDigit1(t) ==
  /\ ReadOther(t) /\ readState = "CHECKSUM_B1"
  /\ checksum' = in
  /\ readState' = "CHECKSUM_B2"
  /\ UNCHANGED <<host, command, to_host, stub, payload, executed, faults>>

MatchesSecondDigit == in.t = "digit2"
Matches ==
  /\ checksum.t = "digit1" /\ in.t = "digit2" /\ checksum.of = in.of
  /\ payload = <<Token("payload", in.of)>>

\* process_packet: what it writes after the acknowledgement.
Answer(c) ==
  CASE c.of.kind = "resume" -> <<>>
    [] c.of.kind = "ask"    -> <<Token("reply", c.of)>>
    [] OTHER                -> <<Mark("error")>>

Received == IF Len(payload) = 1 THEN payload[1] ELSE Mark("junk")
Unacknowledged(c) == Answer(c)
OkToResume(c) == <<Mark("+")>> \o IF Answer(c) = <<>> THEN <<Token("reply", c.of)>> ELSE Answer(c)
Acknowledged(c) == <<Mark("+")>> \o Answer(c)

\* A good packet is acknowledged and executed, and server_read_data returns to the
\* GDB loop, which calls it again or resumes the program.  A bad one is refused.
ReadDigit2(t) ==
  /\ ReadOther(t) /\ readState = "CHECKSUM_B2"
  /\ readState' = "JUNK"
  /\ IF Matches
       THEN /\ payload' = <<>>
            /\ to_host' = to_host \o Acknowledged(Received)
            /\ stub' = IF Received.of.kind = "resume" THEN "running" ELSE "reading"
            /\ executed' = IF Received = Token("payload", command) /\ executed < Twice
                             THEN executed + 1 ELSE executed
       ELSE /\ to_host' = Append(to_host, Mark("-"))
            /\ UNCHANGED <<payload, stub, executed>>
  /\ UNCHANGED <<host, command, checksum, faults>>

StubReads ==
  \/ ReadDollar \/ ReadHash
  \/ \E t \in {"payload", "#", "digit1", "digit2", "+", "-", "^C", "junk"} :
       SkipJunk(t) \/ ReadPayload(t) \/ ReadDigit1(t) \/ ReadDigit2(t)

-----------------------------------------------------------------------------
(* The program runs. *)

\* An interrupt takes the byte from the line and has no use for it unless it is
\* Ctrl-C: then nothing more is read, and the trap comes.
Swallow ==
  /\ stub = "running"
  /\ to_stub # <<>>
  /\ to_stub' = Tail(to_stub)
  /\ stub' = IF in = CtrlC THEN "breaking" ELSE "running"
  /\ UNCHANGED <<host, command, to_host, reader, executed, faults>>

\* A breakpoint, the end of a step or of the break-in: the stub says so and reads.
Trap ==
  /\ stub \in {"running", "breaking"}
  /\ stub' = "reading"
  /\ to_host' = Append(to_host, Mark("stop"))
  /\ readState' = "JUNK" /\ payload' = <<>>
  /\ UNCHANGED <<host, command, to_stub, checksum, executed, faults>>

-----------------------------------------------------------------------------
Stub == StubReads \/ Swallow \/ Trap
Host == SendAgain \/ SendCtrlC \/ HostReads \/ \E kind \in Kinds : SendCommand(kind)

Next == Stub \/ Host \/ Lose

Spec == Init /\ [][Next]_vars

\* The stub in the GDB loop does nothing but read; a running program lets the
\* interrupts of the line in; the host reads, and its patience ends.
Fairness == WF_vars(StubReads) /\ WF_vars(Swallow) /\ WF_vars(HostReads) /\ WF_vars(SendAgain)

FairSpec == Spec /\ Fairness

-----------------------------------------------------------------------------
(* Properties. *)

\* However the line damages what the host sends, process_packet executes a command
\* once for its acknowledgement: no retransmission is executed again.
ExecutedOnce ==
  executed = IF host = "acknowledgement" /\ \A k \in 1 .. Len(to_host) : to_host[k].t # "+"
               THEN 0
               ELSE IF command = NoCommand THEN 0 ELSE 1

\* The host believes that the program runs exactly when it does: each resumption is
\* followed by one stop, and each stop by a GDB loop that reads.
InStep ==
  LET says(t) == \E k \in 1 .. Len(to_host) : to_host[k].t = t
  IN /\ stub = "reading" /\ host = "stop" => says("stop")
     /\ stub # "reading" /\ host # "stop" =>
          host = "acknowledgement" /\ command.kind = "resume" /\ says("+")

\* What the host takes for the answer to a command is the answer to that command.
OwnReply ==
  [][HostReads /\ host = "reply" /\ host' = "idle"
        => <<Head(to_host)>> = Answer(Token("payload", command))]_vars

\* Every command is answered, or resumes the program, once the line lets it pass.
Answered == host \in {"acknowledgement", "reply"} ~> host \in {"idle", "stop"}
=============================================================================
