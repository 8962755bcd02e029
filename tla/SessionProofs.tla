---------------------------- MODULE SessionProofs ----------------------------
(***************************************************************************)
(* The conversation with the host, for any number of lost and damaged      *)
(* tokens and any buffer: a command is executed once for its               *)
(* acknowledgement, stub and host agree whether the program runs, and what *)
(* the host takes for an answer is the answer to its command.              *)
(***************************************************************************)
EXTENDS Session, SequenceTheorems, TLAPS

\* A host that waits for the line to fall silent before it sends again, replies that
\* arrive as they were sent, and damage that makes no $ or #.
Regular == ~Hasty /\ ~BadReplies /\ Noise \subseteq {"junk"}

-----------------------------------------------------------------------------
(* The inductive invariant: what is under way in each state of the host. *)

Frame == Packet(command)

\* Nothing that the stub could take for the beginning of a packet is on the line.
Harmless == \A k \in 1 .. Len(to_stub) : to_stub[k].t # "$"

\* The user of the host decides, or its last command has been executed and answered.
Done ==
  /\ executed = IF command = NoCommand THEN 0 ELSE 1
  /\ Harmless

Idle ==
  /\ Done
  /\ to_host = <<>>
  /\ stub = "reading" /\ readState = "JUNK"

\* What the stub says of a command it has executed, behind the acknowledgement.
Said ==
  CASE command.kind = "resume" -> Mark("stop")
    [] command.kind = "ask"    -> Token("reply", command)
    [] OTHER                   -> Mark("error")

Replied ==
  /\ command \in Command /\ command.kind # "resume"
  /\ executed = 1
  /\ to_stub = <<>> /\ to_host = <<Said>>
  /\ stub = "reading" /\ readState = "JUNK"

Runs ==
  /\ Done
  /\ \/ stub # "reading" /\ to_host = <<>>
     \/ stub = "reading" /\ to_host = <<Mark("stop")>> /\ readState = "JUNK"

\* The last five tokens on the line are those of the last packet, or what became of them;
\* what is left of the packets before is read as junk.
Latest ==
  LET n == Len(to_stub)
  IN \A k \in 1 .. n :
       IF k + 5 > n THEN to_stub[k] \in {Frame[k + 5 - n], Mark("junk")} ELSE to_stub[k].t # "$"

\* The command has not been executed.  A refusal is the last thing the stub says before
\* the host sends again.
Awaiting ==
  /\ command \in Command
  /\ executed = 0
  /\ stub = "reading"
  /\ Latest
  /\ Len(to_stub) > 5 => readState = "JUNK"
  /\ \A k \in 1 .. Len(to_host) :
       \/ to_host[k].t = "error"
       \/ /\ to_host[k].t = "-" /\ k = Len(to_host)
          /\ readState = "JUNK" /\ Harmless

\* The command has been executed, and the host has not read the acknowledgement.
Taken ==
  /\ command \in Command
  /\ executed = 1
  /\ to_stub = <<>>
  /\ IF stub = "reading" THEN readState = "JUNK" ELSE command.kind = "resume"
  /\ \E p \in 1 .. Len(to_host) :
       /\ \A k \in 1 .. p - 1 : to_host[k].t = "error"
       /\ to_host[p] = Mark("+")
       /\ Len(to_host) = p + IF stub = "reading" THEN 1 ELSE 0
       /\ stub = "reading" => to_host[p + 1] = Said

IInv ==
  /\ TypeOK
  /\ host = "idle"            => Idle
  /\ host = "reply"           => Replied
  /\ host = "stop"            => Runs
  /\ host = "acknowledgement" => Awaiting \/ Taken

-----------------------------------------------------------------------------
(* Tokens and lines. *)

LEMMA Tokens ==
  /\ \A t \in {"$", "#", "+", "-", "^C", "junk"} : Mark(t) \in ToStub /\ Mark(t).t = t
  /\ \A t \in {"+", "-", "error", "stop", "junk"} : Mark(t) \in ToHost /\ Mark(t).t = t
  /\ CtrlC \in ToStub /\ CtrlC.t = "^C"
BY DEF Mark, Token, ToStub, ToHost, CtrlC

LEMMA PacketTyped ==
  ASSUME NEW c \in Command
  PROVE  /\ Packet(c) \in Seq(ToStub) /\ Len(Packet(c)) = 5
         /\ Packet(c)[1] = Mark("$")
         /\ Packet(c)[2] = Token("payload", c)
         /\ Packet(c)[3] = Mark("#")
         /\ Packet(c)[4] = Token("digit1", c)
         /\ Packet(c)[5] = Token("digit2", c)
<1>1. /\ Mark("$") \in ToStub /\ Mark("#") \in ToStub
      /\ Token("payload", c) \in ToStub /\ Token("digit1", c) \in ToStub
      /\ Token("digit2", c) \in ToStub
  BY DEF Mark, Token, ToStub
<1> QED
  BY <1>1 DEF Packet

LEMMA TailFacts ==
  ASSUME NEW S, NEW s \in Seq(S), s # <<>>
  PROVE  /\ Tail(s) \in Seq(S) /\ Len(s) \in Nat \ {0} /\ Len(Tail(s)) = Len(s) - 1
         /\ \A k \in 1 .. Len(s) - 1 : Tail(s)[k] = s[k + 1]
         /\ Head(s) = s[1] /\ s[1] \in S
<1>1. Len(s) \in Nat \ {0} /\ Head(s) = s[1]
  OBVIOUS
<1>2. s[1] \in S
  BY <1>1, ElementOfSeq
<1> QED
  BY <1>1, <1>2, HeadTailProperties

LEMMA FrameMarks ==
  ASSUME command \in Command
  PROVE  /\ Frame[1].t = "$" /\ Frame[2].t = "payload" /\ Frame[3].t = "#"
         /\ Frame[4].t = "digit1" /\ Frame[5].t = "digit2"
         /\ Frame \in Seq(ToStub) /\ Len(Frame) = 5
         /\ Frame[2] = Token("payload", command)
         /\ Frame[4].of = command /\ Frame[5].of = command
<1>1. /\ Frame \in Seq(ToStub) /\ Len(Frame) = 5
      /\ Frame[1] = Mark("$") /\ Frame[2] = Token("payload", command) /\ Frame[3] = Mark("#")
      /\ Frame[4] = Token("digit1", command) /\ Frame[5] = Token("digit2", command)
  BY PacketTyped DEF Frame
<1> QED
  BY <1>1 DEF Mark, Token

LEMMA AppendFacts ==
  ASSUME NEW S, NEW s \in Seq(S), NEW e \in S
  PROVE  /\ Append(s, e) \in Seq(S) /\ Len(Append(s, e)) = Len(s) + 1
         /\ \A k \in 1 .. Len(s) : Append(s, e)[k] = s[k]
         /\ Append(s, e)[Len(s) + 1] = e
BY AppendProperties

LEMMA ConcatFacts ==
  ASSUME NEW S, NEW s \in Seq(S), NEW r \in Seq(S)
  PROVE  /\ s \o r \in Seq(S) /\ Len(s \o r) = Len(s) + Len(r)
         /\ \A k \in 1 .. Len(s) : (s \o r)[k] = s[k]
         /\ \A k \in 1 .. Len(r) : (s \o r)[Len(s) + k] = r[k]
BY ConcatProperties

LEMMA OneFacts ==
  ASSUME NEW S, NEW e \in S
  PROVE  <<e>> \in Seq(S) /\ Len(<<e>>) = 1 /\ <<e>>[1] = e
OBVIOUS

LEMMA Single ==
  ASSUME NEW S, NEW s \in Seq(S), Len(s) = 1
  PROVE  s = <<s[1]>>
OBVIOUS

LEMMA PairFacts ==
  ASSUME NEW S, NEW a \in S, NEW b \in S
  PROVE  /\ <<a>> \o <<b>> \in Seq(S) /\ Len(<<a>> \o <<b>>) = 2
         /\ (<<a>> \o <<b>>)[1] = a /\ (<<a>> \o <<b>>)[2] = b
OBVIOUS

\* A token that arrives as another.
LEMMA DamageFacts ==
  ASSUME NEW S, NEW s \in Seq(S), s # <<>>, NEW e \in S
  PROVE  /\ <<e>> \o Tail(s) \in Seq(S) /\ Len(<<e>> \o Tail(s)) = Len(s)
         /\ (<<e>> \o Tail(s))[1] = e
         /\ \A k \in 2 .. Len(s) : (<<e>> \o Tail(s))[k] = s[k]
<1> DEFINE one == <<e>>
           rest == Tail(s)
           all == one \o rest
<1>1. one \in Seq(S) /\ Len(one) = 1 /\ one[1] = e
  OBVIOUS
<1>2. rest \in Seq(S) /\ Len(rest) = Len(s) - 1 /\ Len(s) \in Nat \ {0}
      /\ \A k \in 1 .. Len(s) - 1 : rest[k] = s[k + 1]
  BY TailFacts
<1> HIDE DEF one, rest
<1>3. /\ all \in Seq(S) /\ Len(all) = Len(one) + Len(rest)
      /\ \A k \in 1 .. Len(one) : all[k] = one[k]
      /\ \A k \in 1 .. Len(rest) : all[Len(one) + k] = rest[k]
  <2>1. one \in Seq(S) /\ rest \in Seq(S)
    BY <1>1, <1>2
  <2> QED
    BY <2>1, ConcatFacts
<1> HIDE DEF all
<1>4. Len(all) = Len(s) /\ all[1] = e
  BY <1>1, <1>2, <1>3
<1>5. ASSUME NEW k \in 2 .. Len(s) PROVE all[k] = s[k]
  <2>1. k - 1 \in 1 .. Len(rest) /\ k - 1 \in 1 .. Len(s) - 1 /\ 1 + (k - 1) = k /\ (k - 1) + 1 = k
    BY <1>2
  <2> QED
    BY <1>1, <1>2, <1>3, <2>1
<1> QED
  BY <1>3, <1>4, <1>5 DEF all, one, rest

-----------------------------------------------------------------------------
(* Types. *)

LEMMA ReplyTyped ==
  ASSUME NEW c \in Command
  PROVE  /\ Acknowledged(Token("payload", c)) \in Seq(ToHost)
         /\ c.kind = "resume" => /\ Len(Acknowledged(Token("payload", c))) = 1
                                 /\ Acknowledged(Token("payload", c))[1] = Mark("+")
         /\ c.kind = "ask" => /\ Len(Acknowledged(Token("payload", c))) = 2
                              /\ Acknowledged(Token("payload", c))[1] = Mark("+")
                              /\ Acknowledged(Token("payload", c))[2] = Token("reply", c)
         /\ c.kind \notin {"ask", "resume"} =>
                              /\ Len(Acknowledged(Token("payload", c))) = 2
                              /\ Acknowledged(Token("payload", c))[1] = Mark("+")
                              /\ Acknowledged(Token("payload", c))[2] = Mark("error")
<1> DEFINE token == Token("payload", c)
<1>1. token.of = c
  BY DEF Token
<1>2. Mark("+") \in ToHost /\ Mark("error") \in ToHost /\ Token("reply", c) \in ToHost
  BY DEF Mark, Token, ToHost
<1>3. /\ c.kind = "resume" => Answer(token) = <<>>
      /\ c.kind = "ask" => Answer(token) = <<Token("reply", c)>>
      /\ c.kind \notin {"ask", "resume"} => Answer(token) = <<Mark("error")>>
  BY <1>1 DEF Answer
<1>4. Acknowledged(token) = <<Mark("+")>> \o Answer(token)
  BY DEF Acknowledged
<1> HIDE DEF token
<1>5. /\ <<Mark("+")>> \o <<>> \in Seq(ToHost) /\ Len(<<Mark("+")>> \o <<>>) = 1
      /\ (<<Mark("+")>> \o <<>>)[1] = Mark("+")
  BY <1>2
<1>6. \A e \in ToHost : /\ <<Mark("+")>> \o <<e>> \in Seq(ToHost)
                         /\ Len(<<Mark("+")>> \o <<e>>) = 2
                         /\ (<<Mark("+")>> \o <<e>>)[1] = Mark("+")
                         /\ (<<Mark("+")>> \o <<e>>)[2] = e
  <2> SUFFICES ASSUME NEW e \in ToHost
               PROVE  /\ <<Mark("+")>> \o <<e>> \in Seq(ToHost)
                      /\ Len(<<Mark("+")>> \o <<e>>) = 2
                      /\ (<<Mark("+")>> \o <<e>>)[1] = Mark("+")
                      /\ (<<Mark("+")>> \o <<e>>)[2] = e
    OBVIOUS
  <2> DEFINE plus == Mark("+")
  <2>1. plus \in ToHost
    BY <1>2
  <2> HIDE DEF plus
  <2>2. /\ <<plus>> \o <<e>> \in Seq(ToHost) /\ Len(<<plus>> \o <<e>>) = 2
        /\ (<<plus>> \o <<e>>)[1] = plus /\ (<<plus>> \o <<e>>)[2] = e
    BY <2>1
  <2> QED
    BY <2>2 DEF plus
<1>7. CASE c.kind = "resume"
  BY <1>3, <1>4, <1>5, <1>7 DEF token
<1>8. CASE c.kind = "ask"
  BY <1>2, <1>3, <1>4, <1>6, <1>8 DEF token
<1>9. CASE c.kind \notin {"ask", "resume"}
  BY <1>2, <1>3, <1>4, <1>6, <1>9 DEF token
<1> QED
  BY <1>7, <1>8, <1>9

LEMMA CurrentPacket ==
  ASSUME TypeOK, host # "idle", host # "stop", command # NoCommand
  PROVE  command \in Command
BY DEF TypeOK

LEMMA TypeInit == Init => TypeOK
BY FaultsAssumption, CapacityAssumption, Tokens DEF Init, TypeOK, Command, Twice

\* The tokens that the two of them put on the line.
LEMMA LineTyped ==
  ASSUME TypeOK
  PROVE  /\ to_stub # <<>> => Tail(to_stub) \in Seq(ToStub) /\ Head(to_stub) \in ToStub
         /\ to_host # <<>> => Tail(to_host) \in Seq(ToHost) /\ Head(to_host) \in ToHost
         /\ \A t \in {"+", "-"} : Append(to_stub, Mark(t)) \in Seq(ToStub)
         /\ \A t \in {"-", "error", "stop"} : Append(to_host, Mark(t)) \in Seq(ToHost)
         /\ \A c \in Command : to_stub \o Packet(c) \in Seq(ToStub)
<1>1. to_stub \in Seq(ToStub) /\ to_host \in Seq(ToHost)
  BY DEF TypeOK
<1>2. to_stub # <<>> => Tail(to_stub) \in Seq(ToStub) /\ Head(to_stub) \in ToStub
  BY <1>1, HeadTailProperties
<1>3. to_host # <<>> => Tail(to_host) \in Seq(ToHost) /\ Head(to_host) \in ToHost
  BY <1>1, HeadTailProperties
<1>4. \A t \in {"+", "-"} : Append(to_stub, Mark(t)) \in Seq(ToStub)
  BY <1>1, Tokens, AppendFacts
<1>5. \A t \in {"-", "error", "stop"} : Append(to_host, Mark(t)) \in Seq(ToHost)
  BY <1>1, Tokens, AppendFacts
<1>6. \A c \in Command : to_stub \o Packet(c) \in Seq(ToStub)
  BY <1>1, PacketTyped, ConcatFacts
<1> QED
  BY <1>2, <1>3, <1>4, <1>5, <1>6

LEMMA NewCommand ==
  ASSUME TypeOK, NEW kind \in Kinds
  PROVE  /\ [id |-> (command.id + 1) % 3, kind |-> kind] \in Command
         /\ [id |-> (command.id + 1) % 3, kind |-> kind] # NoCommand
<1>1. command.id \in 0 .. 2
  BY DEF TypeOK, Command, NoCommand
<1>2. (command.id + 1) % 3 \in 0 .. 2
  BY <1>1
<1> QED
  BY <1>2 DEF Command, Kinds, NoCommand

LEMMA TypeHost ==
  ASSUME TypeOK, Host, host = "acknowledgement" => command \in Command PROVE TypeOK'
<1>1. CASE \E kind \in Kinds : SendCommand(kind)
  <2>1. PICK kind \in Kinds : SendCommand(kind)
    BY <1>1
  <2>2. command' \in Command
    BY <2>1, NewCommand DEF SendCommand
  <2>3. to_stub' \in Seq(ToStub)
    BY <2>1, <2>2, LineTyped DEF SendCommand
  <2> QED
    BY <2>1, <2>2, <2>3 DEF SendCommand, reader, TypeOK, Twice
<1>2. CASE SendAgain
  <2>1. to_stub' \in Seq(ToStub)
    BY <1>2, LineTyped DEF SendAgain
  <2> QED
    BY <1>2, <2>1 DEF SendAgain, reader, TypeOK
<1>3. CASE SendCtrlC
  <2>1. to_stub' \in Seq(ToStub)
    BY <1>3, Tokens DEF SendCtrlC
  <2> QED
    BY <1>3, <2>1 DEF SendCtrlC, reader, TypeOK
<1>4. CASE HostReads
  <2>1. to_host' \in Seq(ToHost)
    BY <1>4, LineTyped DEF HostReads
  <2>2. to_stub' \in Seq(ToStub) /\ host' \in {"idle", "acknowledgement", "reply", "stop"}
    <3>1. /\ to_stub \in Seq(ToStub)
          /\ host \in {"idle", "acknowledgement", "reply", "stop"}
      BY DEF TypeOK
    <3> QED
      BY <1>4, <3>1, LineTyped DEF HostReads
  <2> QED
    BY <1>4, <2>1, <2>2 DEF HostReads, reader, TypeOK
<1> QED
  BY <1>1, <1>2, <1>3, <1>4 DEF Host

LEMMA TypeLose == ASSUME TypeOK, Lose PROVE TypeOK'
<1>1. faults' \in 0 .. MaxFaults
  BY FaultsAssumption DEF Lose, TypeOK
<1>2. to_stub' \in Seq(ToStub) /\ to_host' \in Seq(ToHost)
  <2>1. CASE to_stub' = Tail(to_stub) /\ to_stub # <<>> /\ UNCHANGED to_host
    BY <2>1, LineTyped DEF TypeOK
  <2>2. ASSUME NEW t \in Noise, to_stub # <<>>, to_stub' = <<Mark(t)>> \o Tail(to_stub), UNCHANGED to_host
        PROVE  to_stub' \in Seq(ToStub) /\ to_host' \in Seq(ToHost)
    <3>1. Mark(t) \in ToStub /\ to_stub \in Seq(ToStub)
      BY NoiseAssumption, Tokens DEF TypeOK
    <3>2. <<Mark(t)>> \o Tail(to_stub) \in Seq(ToStub)
      BY <2>2, <3>1, DamageFacts
    <3> QED
      BY <2>2, <3>2 DEF TypeOK
  <2>3. CASE /\ to_host # <<>> /\ to_host' = <<Mark("junk")>> \o Tail(to_host)
             /\ UNCHANGED to_stub
    <3>1. Mark("junk") \in ToHost /\ to_host \in Seq(ToHost)
      BY Tokens DEF TypeOK
    <3>2. <<Mark("junk")>> \o Tail(to_host) \in Seq(ToHost)
      BY <2>3, <3>1, DamageFacts
    <3> QED
      BY <2>3, <3>2 DEF TypeOK
  <2> QED
    BY <2>1, <2>2, <2>3 DEF Lose
<1> QED
  BY <1>1, <1>2 DEF Lose, reader, TypeOK

\* What has the checksum's two digits behind it is the payload of one command.
LEMMA MatchGives ==
  ASSUME TypeOK, to_stub # <<>>, Matches
  PROVE  in.of \in Command /\ Received = Token("payload", in.of) /\ in.t = "digit2"
<1>1. in \in ToStub /\ in.t = "digit2" /\ payload = <<Token("payload", in.of)>>
  BY LineTyped DEF Matches, in
<1>2. in.of \in Command
  BY <1>1 DEF ToStub, Mark, Token
<1>3. Received = Token("payload", in.of)
  BY <1>1 DEF Received
<1> QED
  BY <1>1, <1>2, <1>3

LEMMA TypeStub == ASSUME TypeOK, Stub PROVE TypeOK'
<1>1. CASE ReadDollar
  <2>1. to_stub' \in Seq(ToStub) /\ payload' \in Seq(ToStub) /\ Len(payload') < Capacity
    BY <1>1, LineTyped, CapacityAssumption DEF ReadDollar, Receives
  <2> QED
    BY <1>1, <2>1 DEF ReadDollar, TypeOK
<1>2. ASSUME NEW t, SkipJunk(t) PROVE TypeOK'
  <2>1. to_stub' \in Seq(ToStub)
    BY <1>2, LineTyped DEF SkipJunk, ReadOther, Receives
  <2> QED
    BY <1>2, <2>1 DEF SkipJunk, reader, TypeOK
<1>3. ASSUME NEW t, ReadPayload(t) PROVE TypeOK'
  <2>1. /\ to_stub' \in Seq(ToStub) /\ in \in ToStub /\ payload \in Seq(ToStub)
        /\ Len(payload) < Capacity
    BY <1>3, LineTyped DEF ReadPayload, ReadOther, Receives, in, TypeOK
  <2>2. CASE Full
    <3>1. to_host' \in Seq(ToHost) /\ payload' = <<>> /\ readState' = "JUNK"
      BY <1>3, <2>2, LineTyped DEF ReadPayload
    <3> QED
      BY <1>3, <2>1, <3>1, CapacityAssumption DEF ReadPayload, TypeOK
  <2>3. CASE ~Full
    <3>1. payload' = Append(payload, in) /\ UNCHANGED <<readState, to_host>>
      BY <1>3, <2>3 DEF ReadPayload
    <3>2. payload' \in Seq(ToStub) /\ Len(payload') = Len(payload) + 1
      BY <2>1, <3>1, AppendFacts
    <3>3. Len(payload') < Capacity
      BY <2>1, <2>3, <3>2, CapacityAssumption DEF Full
    <3> QED
      BY <1>3, <2>1, <3>1, <3>2, <3>3 DEF ReadPayload, TypeOK
  <2> QED
    BY <2>2, <2>3
<1>4. CASE ReadHash
  <2>1. to_stub' \in Seq(ToStub)
    BY <1>4, LineTyped DEF ReadHash, Receives
  <2> QED
    BY <1>4, <2>1 DEF ReadHash, TypeOK
<1>5. ASSUME NEW t, ReadDigit1(t) PROVE TypeOK'
  <2>1. to_stub' \in Seq(ToStub) /\ in \in ToStub
    BY <1>5, LineTyped DEF ReadDigit1, ReadOther, Receives, in
  <2> QED
    BY <1>5, <2>1 DEF ReadDigit1, TypeOK
<1>6. ASSUME NEW t, ReadDigit2(t) PROVE TypeOK'
  <2>1. to_stub # <<>> /\ to_stub' \in Seq(ToStub)
    BY <1>6, LineTyped DEF ReadDigit2, ReadOther, Receives
  <2>2. CASE Matches
    <3>1. in.of \in Command /\ Received = Token("payload", in.of)
      BY <2>1, <2>2, MatchGives
    <3>2. Acknowledged(Received) \in Seq(ToHost)
      BY <3>1, ReplyTyped
    <3>3. to_host' \in Seq(ToHost)
      BY <1>6, <2>2, <3>2, ConcatProperties DEF ReadDigit2, TypeOK
    <3>4. payload' = <<>> /\ readState' = "JUNK" /\ stub' \in {"reading", "running"}
      BY <1>6, <2>2 DEF ReadDigit2
    <3>5. executed' \in 0 .. Twice
      BY <1>6, <2>2 DEF ReadDigit2, TypeOK, Twice
    <3>6. payload' \in Seq(ToStub) /\ Len(payload') < Capacity
      BY <3>4, CapacityAssumption
    <3> QED
      BY <1>6, <2>1, <3>3, <3>4, <3>5, <3>6 DEF ReadDigit2, TypeOK
  <2>3. CASE ~Matches
    <3>1. to_host' \in Seq(ToHost) /\ readState' = "JUNK" /\ UNCHANGED <<payload, stub, executed>>
      BY <1>6, <2>3, LineTyped DEF ReadDigit2
    <3> QED
      BY <1>6, <2>1, <3>1 DEF ReadDigit2, TypeOK
  <2> QED
    BY <2>2, <2>3
<1>7. CASE Swallow
  <2>1. to_stub' \in Seq(ToStub) /\ stub' \in {"running", "breaking"}
    BY <1>7, LineTyped DEF Swallow
  <2> QED
    BY <1>7, <2>1 DEF Swallow, reader, TypeOK
<1>8. CASE Trap
  <2>1. /\ to_host' \in Seq(ToHost) /\ payload' \in Seq(ToStub) /\ Len(payload') < Capacity
    BY <1>8, LineTyped, CapacityAssumption DEF Trap
  <2> QED
    BY <1>8, <2>1 DEF Trap, TypeOK
<1> QED
  BY <1>1, <1>2, <1>3, <1>4, <1>5, <1>6, <1>7, <1>8 DEF Stub, StubReads

-----------------------------------------------------------------------------
(* What happens to the line from its end: a token less, a token damaged, a token or *)
(* a packet more.                                                                   *)

LEMMA TakenOff ==
  ASSUME TypeOK, to_stub # <<>>, to_stub' = Tail(to_stub), command' = command
  PROVE  /\ Len(to_stub) \in Nat \ {0} /\ Len(to_stub') = Len(to_stub) - 1
         /\ Harmless => Harmless'
         /\ Latest => Latest'
<1>1. to_stub \in Seq(ToStub)
  BY DEF TypeOK
<1>2. /\ Len(to_stub) \in Nat \ {0} /\ Len(to_stub') = Len(to_stub) - 1
      /\ \A k \in 1 .. Len(to_stub) - 1 : to_stub'[k] = to_stub[k + 1]
  BY <1>1, TailFacts
<1>3. Harmless => Harmless'
  BY <1>2 DEF Harmless
<1>4. Latest => Latest'
  <2> SUFFICES ASSUME Latest, NEW k \in 1 .. Len(to_stub')
               PROVE  IF k + 5 > Len(to_stub')
                        THEN to_stub'[k] \in {Frame[k + 5 - Len(to_stub')], Mark("junk")}
                        ELSE to_stub'[k].t # "$"
    BY DEF Latest, Frame
  <2> DEFINE n == Len(to_stub)
  <2>1. k + 1 \in 1 .. n /\ to_stub'[k] = to_stub[k + 1]
    BY <1>2
  <2>2. IF (k + 1) + 5 > n THEN to_stub[k + 1] \in {Frame[(k + 1) + 5 - n], Mark("junk")}
                           ELSE to_stub[k + 1].t # "$"
    BY <2>1 DEF Latest
  <2>3. (k + 1) + 5 > n <=> k + 5 > Len(to_stub')
    BY <1>2
  <2>4. (k + 1) + 5 - n = k + 5 - Len(to_stub')
    BY <1>2
  <2> QED
    BY <2>1, <2>2, <2>3, <2>4
<1> QED
  BY <1>2, <1>3, <1>4

LEMMA Damaged ==
  ASSUME TypeOK, to_stub # <<>>, to_stub' = <<Mark("junk")>> \o Tail(to_stub), command' = command
  PROVE  /\ Len(to_stub') = Len(to_stub)
         /\ Harmless => Harmless'
         /\ Latest => Latest'
<1>1. to_stub \in Seq(ToStub) /\ Mark("junk") \in ToStub /\ Mark("junk").t # "$"
  BY Tokens DEF TypeOK
<1>2. /\ Len(to_stub') = Len(to_stub) /\ Len(to_stub) \in Nat
      /\ to_stub'[1] = Mark("junk")
      /\ \A k \in 2 .. Len(to_stub) : to_stub'[k] = to_stub[k]
  BY <1>1, DamageFacts
<1>3. Harmless => Harmless'
  <2> SUFFICES ASSUME Harmless, NEW k \in 1 .. Len(to_stub') PROVE to_stub'[k].t # "$"
    BY DEF Harmless
  <2>1. k = 1 \/ k \in 2 .. Len(to_stub)
    BY <1>2
  <2> QED
    BY <1>1, <1>2, <2>1 DEF Harmless
<1>4. Latest => Latest'
  <2> SUFFICES ASSUME Latest, NEW k \in 1 .. Len(to_stub')
               PROVE  IF k + 5 > Len(to_stub')
                        THEN to_stub'[k] \in {Frame[k + 5 - Len(to_stub')], Mark("junk")}
                        ELSE to_stub'[k].t # "$"
    BY DEF Latest, Frame
  <2>1. k = 1 \/ k \in 2 .. Len(to_stub)
    BY <1>2
  <2> QED
    BY <1>1, <1>2, <2>1 DEF Latest
<1> QED
  BY <1>2, <1>3, <1>4

\* A packet follows what the stub cannot take for one.
LEMMA PacketSent ==
  ASSUME TypeOK, Harmless, command' \in Command, to_stub' = to_stub \o Packet(command')
  PROVE  Latest' /\ Len(to_stub') = Len(to_stub) + 5 /\ Len(to_stub) \in Nat
<1>1. PICK n \in Nat : n = Len(to_stub)
  BY DEF TypeOK
<1>2. to_stub \in Seq(ToStub) /\ Packet(command') \in Seq(ToStub) /\ Len(Packet(command')) = 5
  BY PacketTyped DEF TypeOK
<1>3. /\ Len(to_stub') = n + 5
      /\ \A k \in 1 .. n : to_stub'[k] = to_stub[k]
      /\ \A k \in 1 .. 5 : to_stub'[n + k] = Packet(command')[k]
  <2> DEFINE sent == Packet(command')
  <2>1. to_stub \in Seq(ToStub) /\ sent \in Seq(ToStub)
    BY <1>2
  <2>0. Len(sent) = 5
    BY <1>2
  <2> HIDE DEF sent
  <2>2. /\ Len(to_stub \o sent) = Len(to_stub) + Len(sent)
        /\ \A k \in 1 .. Len(to_stub) : (to_stub \o sent)[k] = to_stub[k]
        /\ \A k \in 1 .. Len(sent) : (to_stub \o sent)[Len(to_stub) + k] = sent[k]
    BY <2>1, ConcatFacts
  <2>3. to_stub' = to_stub \o sent
    BY DEF sent
  <2>4. /\ Len(to_stub') = n + 5
        /\ \A k \in 1 .. n : to_stub'[k] = to_stub[k]
        /\ \A k \in 1 .. 5 : to_stub'[n + k] = sent[k]
    BY <1>1, <2>0, <2>2, <2>3
  <2> QED
    BY <2>4 DEF sent
<1>4. Latest'
  <2> SUFFICES ASSUME NEW k \in 1 .. n + 5
               PROVE  IF k + 5 > n + 5
                        THEN to_stub'[k] \in {Packet(command')[k + 5 - (n + 5)], Mark("junk")}
                        ELSE to_stub'[k].t # "$"
    BY <1>3 DEF Latest, Frame
  <2>1. CASE k \in 1 .. n
    <3>1. to_stub[k].t # "$" /\ to_stub'[k] = to_stub[k] /\ ~(k + 5 > n + 5)
      BY <1>1, <1>3, <2>1 DEF Harmless
    <3> QED
      BY <3>1
  <2>2. CASE k \notin 1 .. n
    <3>1. k - n \in 1 .. 5 /\ n + (k - n) = k /\ k + 5 > n + 5 /\ k + 5 - (n + 5) = k - n
      BY <2>2
    <3>2. to_stub'[k] = Packet(command')[k - n]
      BY <1>3, <3>1
    <3> QED
      BY <3>1, <3>2
  <2> QED
    BY <2>1, <2>2
<1> QED
  BY <1>1, <1>3, <1>4

-----------------------------------------------------------------------------
(* The steps. *)

\* Where no packet begins, the stub that waits for one reads on.
LEMMA ReadsJunk ==
  ASSUME TypeOK, StubReads, readState = "JUNK", Harmless
  PROVE  /\ to_stub # <<>> /\ to_stub' = Tail(to_stub)
         /\ UNCHANGED <<host, command, to_host, stub, readState, payload, checksum, executed, faults>>
<1>1. CASE ReadDollar
  <2>1. to_stub # <<>> /\ Head(to_stub).t = "$" /\ to_stub \in Seq(ToStub)
    BY <1>1 DEF ReadDollar, Receives, TypeOK
  <2>2. Len(to_stub) \in Nat \ {0} /\ Head(to_stub) = to_stub[1]
    BY <2>1, TailFacts
  <2> QED
    BY <2>1, <2>2 DEF Harmless
<1>2. CASE ReadHash
  BY <1>2 DEF ReadHash
<1>3. ASSUME NEW t, SkipJunk(t)
      PROVE  /\ to_stub # <<>> /\ to_stub' = Tail(to_stub)
             /\ UNCHANGED <<host, command, to_host, stub, readState, payload, checksum, executed, faults>>
  BY <1>3 DEF SkipJunk, ReadOther, Receives, reader
<1>4. ASSUME NEW t, ReadPayload(t) \/ ReadDigit1(t) \/ ReadDigit2(t) PROVE FALSE
  BY <1>4 DEF ReadPayload, ReadDigit1, ReadDigit2
<1> QED
  BY <1>1, <1>2, <1>3, <1>4 DEF StubReads

LEMMA SendStep == ASSUME Regular, IInv, \E kind \in Kinds : SendCommand(kind) PROVE IInv'
<1>1. PICK kind \in Kinds : SendCommand(kind)
  OBVIOUS
<1>2. TypeOK /\ Idle /\ host = "idle"
  BY <1>1 DEF IInv, SendCommand
<1>3. command' \in Command
  BY <1>1, <1>2, NewCommand DEF SendCommand
<1>4. Latest'
  BY <1>1, <1>2, <1>3, PacketSent DEF SendCommand, Idle, Done
<1>5. TypeOK'
  BY <1>1, <1>2, TypeHost DEF Host
<1>6. /\ host' = "acknowledgement" /\ executed' = 0
      /\ stub' = "reading" /\ readState' = "JUNK" /\ to_host' = <<>>
  BY <1>1, <1>2 DEF SendCommand, Idle, reader
<1>7. \A k \in 1 .. Len(to_host') : FALSE
  BY <1>6
<1>8. Awaiting'
  BY <1>3, <1>4, <1>6, <1>7 DEF Awaiting
<1> QED
  BY <1>5, <1>6, <1>8 DEF IInv

LEMMA AgainStep == ASSUME Regular, IInv, SendAgain PROVE IInv'
<1>1. TypeOK /\ host = "acknowledgement" /\ to_stub = <<>> /\ to_host = <<>>
  BY DEF IInv, SendAgain, Regular
<1>2. \A k \in 1 .. Len(to_host) : FALSE
  BY <1>1
<1>3. Awaiting
  BY <1>1, <1>2 DEF IInv, Taken
<1>4. Harmless /\ Len(to_stub) = 0
  BY <1>1 DEF Harmless
<1>5. /\ command' = command /\ command \in Command /\ to_stub' = to_stub \o Packet(command')
      /\ UNCHANGED <<host, to_host, stub, executed, readState>>
  BY <1>3 DEF SendAgain, Awaiting, reader
<1>6. Latest' /\ Len(to_stub') = 5
  BY <1>1, <1>4, <1>5, PacketSent
<1>7. TypeOK'
  BY <1>1, <1>5, TypeHost DEF Host
<1>8. Awaiting'
  BY <1>2, <1>3, <1>5, <1>6 DEF Awaiting
<1> QED
  BY <1>1, <1>5, <1>7, <1>8 DEF IInv

LEMMA CtrlCStep == ASSUME Regular, IInv, SendCtrlC PROVE IInv'
<1>1. TypeOK /\ host = "stop" /\ Runs
  BY DEF IInv, SendCtrlC
<1>2. /\ UNCHANGED <<host, command, to_host, stub, readState, executed>>
      /\ to_stub' = <<CtrlC>>
  BY DEF SendCtrlC, reader
<1>3. Harmless'
  <2>1. Len(to_stub') = 1 /\ to_stub'[1] = CtrlC
    BY <1>2
  <2> QED
    BY <2>1, Tokens DEF Harmless
<1>4. TypeOK'
  BY <1>1, TypeHost DEF Host
<1>5. Runs'
  BY <1>1, <1>2, <1>3 DEF Runs, Done
<1> QED
  BY <1>1, <1>2, <1>4, <1>5 DEF IInv

LEMMA SwallowStep == ASSUME Regular, IInv, Swallow PROVE IInv'
<1>1. TypeOK /\ stub = "running" /\ to_stub # <<>>
  BY DEF IInv, Swallow
<1>2. host = "stop" /\ Runs
  BY <1>1 DEF IInv, TypeOK, Idle, Replied, Awaiting, Taken
<1>3. /\ UNCHANGED <<host, command, to_host, readState, executed>>
      /\ to_stub' = Tail(to_stub) /\ stub' # "reading"
  BY DEF Swallow, reader
<1>4. Harmless'
  BY <1>1, <1>2, <1>3, TakenOff DEF Runs, Done
<1>5. TypeOK'
  BY <1>1, TypeStub DEF Stub
<1>6. Runs'
  BY <1>1, <1>2, <1>3, <1>4 DEF Runs, Done
<1> QED
  BY <1>2, <1>3, <1>5, <1>6 DEF IInv

LEMMA LoseStep == ASSUME Regular, IInv, Lose PROVE IInv'
<1>1. /\ TypeOK /\ to_stub # <<>>
      /\ to_stub' = Tail(to_stub) \/ to_stub' = <<Mark("junk")>> \o Tail(to_stub)
      /\ UNCHANGED <<host, command, to_host, stub, readState, payload, checksum, executed>>
  BY DEF IInv, Lose, Regular, reader
<1>2. /\ Harmless => Harmless'
      /\ Latest => Latest'
      /\ Len(to_stub) \in Nat /\ Len(to_stub') \in Nat /\ Len(to_stub') <= Len(to_stub)
  <2>1. Len(to_stub) \in Nat
    BY <1>1 DEF TypeOK
  <2> QED
    BY <1>1, <2>1, TakenOff, Damaged
<1>3. TypeOK'
  BY <1>1, TypeLose
<1>4. Idle => Idle'
  BY <1>1, <1>2 DEF Idle, Done
<1>5. Runs => Runs'
  BY <1>1, <1>2 DEF Runs, Done
<1>6. ~Replied /\ ~Taken
  BY <1>1 DEF Replied, Taken
<1>7. Awaiting => Awaiting'
  BY <1>1, <1>2 DEF Awaiting
<1> QED
  BY <1>1, <1>3, <1>4, <1>5, <1>6, <1>7 DEF IInv

LEMMA SaidFacts ==
  ASSUME command \in Command
  PROVE  /\ command.kind = "resume" => Said.t = "stop" /\ Said = Mark("stop")
         /\ command.kind # "resume" => Said.t \in {"reply", "error"}
BY DEF Said, Mark, Token

\* An acknowledgement is read as nothing by the stub.
LEMMA Confirmed ==
  ASSUME TypeOK, Harmless, to_stub' = Append(to_stub, Mark("+"))
  PROVE  Harmless'
<1>1. to_stub \in Seq(ToStub) /\ Mark("+") \in ToStub /\ Mark("+").t = "+"
  BY Tokens DEF TypeOK
<1>2. PICK n \in Nat : n = Len(to_stub)
  BY <1>1
<1>3. /\ Len(to_stub') = n + 1
      /\ \A k \in 1 .. n : to_stub'[k] = to_stub[k]
      /\ to_stub'[n + 1] = Mark("+")
  BY <1>1, <1>2, AppendFacts
<1>4. ASSUME NEW k \in 1 .. n + 1 PROVE to_stub'[k].t # "$"
  <2>1. k \in 1 .. n \/ k = n + 1
    OBVIOUS
  <2>2. \A j \in 1 .. n : to_stub[j].t # "$"
    BY <1>2 DEF Harmless
  <2> QED
    BY <1>1, <1>3, <2>1, <2>2
<1> QED
  BY <1>3, <1>4 DEF Harmless

\* The answer, or the stop, is read.
LEMMA AnswerRead ==
  ASSUME IInv, HostReads, host \in {"reply", "stop"} PROVE IInv'
<1>1. TypeOK /\ to_host # <<>> /\ (host = "reply" => Replied) /\ (host = "stop" => Runs)
  BY DEF IInv, HostReads
<1>2. /\ Harmless /\ executed = IF command = NoCommand THEN 0 ELSE 1
      /\ stub = "reading" /\ readState = "JUNK"
      /\ to_host \in {<<Said>>, <<Mark("stop")>>} /\ to_host = <<Head(to_host)>>
      /\ Head(to_host).t \in {"reply", "error", "stop"}
  <2>1. CASE host = "reply"
    <3>1. Replied /\ command # NoCommand
      BY <1>1, <2>1 DEF Replied, Command, NoCommand, Kinds
    <3>2. Len(to_stub) = 0
      BY <3>1 DEF Replied
    <3> QED
      BY <3>1, <3>2, SaidFacts DEF Replied, Harmless
  <2>2. CASE host = "stop"
    <3>1. Runs /\ Mark("stop").t = "stop"
      BY <1>1, <2>2 DEF Mark, Token
    <3> QED
      BY <1>1, <3>1 DEF Runs, Done
  <2> QED
    BY <2>1, <2>2
<1>3. /\ host' = "idle" /\ to_stub' = Append(to_stub, Mark("+")) /\ to_host' = <<>>
      /\ UNCHANGED <<command, stub, readState, executed>>
  <2>1. to_host' = <<>>
    BY <1>2 DEF HostReads
  <2> QED
    BY <1>2, <2>1 DEF HostReads, reader
<1>4. Harmless'
  BY <1>1, <1>2, <1>3, Confirmed
<1>5. Idle'
  BY <1>2, <1>3, <1>4 DEF Idle, Done
<1>6. TypeOK'
  BY <1>1, <1>2, TypeHost DEF Host
<1> QED
  BY <1>3, <1>5, <1>6 DEF IInv

\* What comes before the acknowledgement is read and forgotten, or a refusal.
LEMMA AwaitingRead ==
  ASSUME IInv, HostReads, host = "acknowledgement", Awaiting PROVE IInv'
<1>1. TypeOK /\ to_host # <<>> /\ to_host \in Seq(ToHost)
  BY DEF IInv, HostReads, TypeOK
<1>2. TypeOK'
  BY <1>1, TypeHost DEF Host, Awaiting
<1>3. /\ Len(to_host) \in Nat \ {0} /\ Len(to_host') = Len(to_host) - 1
      /\ \A k \in 1 .. Len(to_host) - 1 : to_host'[k] = to_host[k + 1]
      /\ Head(to_host) = to_host[1]
  BY <1>1, TailFacts DEF HostReads
<1>4. /\ UNCHANGED <<command, stub, readState, executed>>
      /\ host' = host
      /\ \/ to_host[1].t = "error" /\ UNCHANGED to_stub
         \/ /\ to_host[1].t = "-" /\ to_stub' = to_stub \o Packet(command)
            /\ Len(to_host) = 1 /\ readState = "JUNK" /\ Harmless
  <2>1. \/ to_host[1].t = "error"
        \/ to_host[1].t = "-" /\ Len(to_host) = 1 /\ readState = "JUNK" /\ Harmless
    BY <1>3 DEF Awaiting
  <2> QED
    BY <1>3, <2>1 DEF HostReads, reader
<1>5. CASE to_host[1].t = "error" /\ UNCHANGED to_stub
  <2>1. \A k \in 1 .. Len(to_host') :
          \/ to_host'[k].t = "error"
          \/ /\ to_host'[k].t = "-" /\ k = Len(to_host')
             /\ readState = "JUNK" /\ Harmless
    <3> TAKE k \in 1 .. Len(to_host')
    <3>1. k + 1 \in 1 .. Len(to_host) /\ to_host'[k] = to_host[k + 1]
      BY <1>3
    <3>2. \/ to_host[k + 1].t = "error"
          \/ /\ to_host[k + 1].t = "-" /\ k + 1 = Len(to_host)
             /\ readState = "JUNK" /\ Harmless
      BY <3>1 DEF Awaiting
    <3> QED
      BY <1>3, <3>1, <3>2
  <2>2. (Harmless <=> Harmless') /\ Latest'
    BY <1>4, <1>5 DEF Harmless, Latest, Awaiting, Frame
  <2>3. Awaiting'
    BY <1>4, <1>5, <2>1, <2>2 DEF Awaiting
  <2> QED
    BY <1>2, <1>4, <2>3 DEF IInv
<1>6. CASE /\ to_host[1].t = "-" /\ to_stub' = to_stub \o Packet(command)
           /\ Len(to_host) = 1 /\ readState = "JUNK" /\ Harmless
  <2>1. Latest'
    BY <1>1, <1>4, <1>6, PacketSent DEF Awaiting
  <2>2. \A k \in 1 .. Len(to_host') : FALSE
    BY <1>3, <1>6
  <2>3. Awaiting'
    BY <1>4, <1>6, <2>1, <2>2 DEF Awaiting
  <2> QED
    BY <1>2, <1>4, <2>3 DEF IInv
<1> QED
  BY <1>4, <1>5, <1>6

\* The acknowledgement of what has been executed.
LEMMA TakenRead ==
  ASSUME IInv, HostReads, host = "acknowledgement", Taken PROVE IInv'
<1>1. TypeOK /\ to_host # <<>> /\ to_host \in Seq(ToHost) /\ command \in Command
  BY DEF IInv, HostReads, TypeOK, Taken
<1>2. TypeOK'
  BY <1>1, TypeHost DEF Host
<1>3. /\ Len(to_host) \in Nat \ {0} /\ Len(to_host') = Len(to_host) - 1
      /\ \A k \in 1 .. Len(to_host) - 1 : to_host'[k] = to_host[k + 1]
      /\ Head(to_host) = to_host[1] /\ to_host' \in Seq(ToHost)
  BY <1>1, TailFacts DEF HostReads
<1>4. PICK p \in 1 .. Len(to_host) :
        /\ \A k \in 1 .. p - 1 : to_host[k].t = "error"
        /\ to_host[p] = Mark("+")
        /\ Len(to_host) = p + IF stub = "reading" THEN 1 ELSE 0
        /\ stub = "reading" => to_host[p + 1] = Said
  BY DEF Taken
<1>5. /\ UNCHANGED <<command, stub, readState, executed>>
      /\ to_stub = <<>>
  BY DEF HostReads, reader, Taken
<1>6. CASE p = 1
  <2>1. /\ host' = IF command.kind = "resume" THEN "stop" ELSE "reply"
        /\ to_stub' = to_stub
    BY <1>3, <1>4, <1>6 DEF HostReads, Mark, Token
  <2>2. stub = "reading" => Len(to_host') = 1 /\ to_host'[1] = Said
    BY <1>3, <1>4, <1>6
  <2>3. stub # "reading" => Len(to_host') = 0
    BY <1>3, <1>4, <1>6
  <2>4. /\ stub = "reading" => to_host' = <<Said>>
        /\ stub # "reading" => to_host' = <<>>
    <3>1. to_host' \in Seq(ToHost)
      BY <1>3
    <3>2. stub = "reading" => to_host' = <<Said>>
      BY <2>2, <3>1, Single
    <3>3. stub # "reading" => to_host' = <<>>
      BY <2>3, <3>1, EmptySeq
    <3> QED
      BY <3>2, <3>3
  <2>5. Said' = Said
    BY <1>5 DEF Said
  <2>6. CASE command.kind = "resume"
    <3>1. Harmless' /\ command # NoCommand
      BY <1>1, <1>5, <2>1 DEF Harmless, Command, NoCommand, Kinds
    <3>2. Runs'
      BY <1>1, <1>5, <2>1, <2>4, <2>6, <3>1, SaidFacts DEF Runs, Done, Taken
    <3> QED
      BY <1>2, <2>1, <2>6, <3>2 DEF IInv
  <2>7. CASE command.kind # "resume"
    <3>1. Replied'
      BY <1>1, <1>5, <2>1, <2>4, <2>5, <2>7 DEF Replied, Taken
    <3> QED
      BY <1>2, <2>1, <2>7, <3>1 DEF IInv
  <2> QED
    BY <2>6, <2>7
<1>7. CASE p # 1
  <2>1. to_host[1].t = "error"
    BY <1>4, <1>7
  <2>2. host' = host /\ to_stub' = to_stub
    BY <1>3, <2>1 DEF HostReads
  <2>3. /\ p - 1 \in 1 .. Len(to_host')
        /\ \A k \in 1 .. (p - 1) - 1 : to_host'[k].t = "error"
        /\ to_host'[p - 1] = Mark("+")
        /\ Len(to_host') = (p - 1) + IF stub = "reading" THEN 1 ELSE 0
        /\ stub = "reading" => to_host'[(p - 1) + 1] = Said
    <3>1. /\ p - 1 \in 1 .. Len(to_host') /\ p - 1 \in 1 .. Len(to_host) - 1 /\ (p - 1) + 1 = p
          /\ Len(to_host') = (p - 1) + IF stub = "reading" THEN 1 ELSE 0
      BY <1>3, <1>4, <1>7
    <3>2. to_host'[p - 1] = Mark("+")
      BY <1>3, <1>4, <3>1
    <3>3. \A k \in 1 .. (p - 1) - 1 : to_host'[k].t = "error"
      <4> TAKE k \in 1 .. (p - 1) - 1
      <4>1. k \in 1 .. Len(to_host) - 1 /\ k + 1 \in 1 .. p - 1
        BY <1>3, <3>1
      <4> QED
        BY <1>3, <1>4, <4>1
    <3>4. stub = "reading" => to_host'[(p - 1) + 1] = Said
      <4>1. stub = "reading" => p \in 1 .. Len(to_host) - 1
        BY <1>3, <1>4
      <4> QED
        BY <1>3, <1>4, <3>1, <4>1
    <3> QED
      BY <3>1, <3>2, <3>3, <3>4
  <2>4. Said' = Said
    BY <1>5 DEF Said
  <2>5. Taken'
    BY <1>1, <1>5, <2>2, <2>3, <2>4 DEF Taken
  <2> QED
    BY <1>2, <2>2, <2>5 DEF IInv
<1> QED
  BY <1>6, <1>7

LEMMA HostReadsStep == ASSUME Regular, IInv, HostReads PROVE IInv'
<1>1. host # "idle"
  BY DEF IInv, HostReads, Idle
<1>2. host \in {"reply", "stop", "acknowledgement"}
  BY <1>1 DEF IInv, TypeOK
<1>3. host = "acknowledgement" => Awaiting \/ Taken
  BY DEF IInv
<1> QED
  BY <1>2, <1>3, AnswerRead, AwaitingRead, TakenRead

LEMMA TrapStep == ASSUME Regular, IInv, Trap PROVE IInv'
<1>1. /\ TypeOK /\ stub # "reading" /\ stub' = "reading" /\ readState' = "JUNK"
      /\ to_host' = Append(to_host, Mark("stop"))
      /\ UNCHANGED <<host, command, to_stub, executed>>
  BY DEF IInv, Trap
<1>2. TypeOK'
  BY <1>1, TypeStub DEF Stub
<1>3. (host = "stop" /\ Runs) \/ (host = "acknowledgement" /\ Taken)
  <2>1. ~Idle /\ ~Replied /\ ~Awaiting
    BY <1>1 DEF Idle, Replied, Awaiting
  <2>2. host \in {"idle", "acknowledgement", "reply", "stop"}
    BY <1>1 DEF TypeOK
  <2> QED
    BY <2>1, <2>2 DEF IInv
<1>4. CASE host = "stop" /\ Runs
  <2>1. to_host = <<>> /\ Harmless'
    BY <1>1, <1>4 DEF Runs, Done, Harmless
  <2>2. to_host' = <<Mark("stop")>>
    BY <1>1, <2>1
  <2>3. Runs'
    BY <1>1, <1>4, <2>1, <2>2 DEF Runs, Done
  <2> QED
    BY <1>1, <1>2, <1>4, <2>3 DEF IInv
<1>5. CASE host = "acknowledgement" /\ Taken
  <2>1. /\ command \in Command /\ command.kind = "resume" /\ executed = 1 /\ to_stub = <<>>
    BY <1>1, <1>5 DEF Taken
  <2>2. Said' = Mark("stop")
    BY <1>1, <2>1 DEF Said
  <2>3. PICK p \in 1 .. Len(to_host) :
          /\ \A k \in 1 .. p - 1 : to_host[k].t = "error"
          /\ to_host[p] = Mark("+")
          /\ Len(to_host) = p
    BY <1>1, <1>5 DEF Taken
  <2>4. to_host \in Seq(ToHost) /\ Mark("stop") \in ToHost
    BY <1>1, Tokens DEF TypeOK
  <2>5. /\ Len(to_host') = p + 1
        /\ \A k \in 1 .. p : to_host'[k] = to_host[k]
        /\ to_host'[p + 1] = Mark("stop")
    BY <1>1, <2>3, <2>4, AppendFacts
  <2>6. p \in 1 .. Len(to_host') /\ \A k \in 1 .. p - 1 : to_host'[k].t = "error"
    BY <2>3, <2>5
  <2>7. to_host'[p] = Mark("+")
    BY <2>3, <2>5
  <2>8. Taken'
    BY <1>1, <2>1, <2>2, <2>5, <2>6, <2>7 DEF Taken
  <2> QED
    BY <1>1, <1>2, <1>5, <2>8 DEF IInv
<1> QED
  BY <1>3, <1>4, <1>5

\* Where the host waits for nothing that it has sent, the stub waits for a $.
LEMMA QuietRead ==
  ASSUME Regular, IInv, StubReads, host \in {"idle", "stop"} PROVE IInv'
<1>1. TypeOK /\ stub = "reading"
  BY DEF IInv, StubReads, ReadDollar, ReadHash, SkipJunk, ReadPayload, ReadDigit1, ReadDigit2, ReadOther,
         Receives
<1>2. readState = "JUNK" /\ Harmless
  BY <1>1 DEF IInv, Idle, Runs, Done
<1>3. /\ to_stub # <<>> /\ to_stub' = Tail(to_stub)
      /\ UNCHANGED <<host, command, to_host, stub, readState, payload, checksum, executed, faults>>
  BY <1>1, <1>2, ReadsJunk
<1>4. TypeOK' /\ Harmless'
  BY <1>1, <1>2, <1>3, TypeStub, TakenOff DEF Stub
<1>5. Idle => Idle'
  BY <1>3, <1>4 DEF Idle, Done
<1>6. Runs => Runs'
  BY <1>3, <1>4 DEF Runs, Done
<1> QED
  BY <1>3, <1>4, <1>5, <1>6 DEF IInv

\* What the first token on the line may be while a command is awaited.
LEMMA FirstToken ==
  ASSUME TypeOK, Awaiting, to_stub # <<>>
  PROVE  /\ to_stub[1] = in /\ Len(to_stub) \in Nat \ {0}
         /\ Len(to_stub) > 5 => in.t # "$" /\ readState = "JUNK"
         /\ Len(to_stub) <= 5 => in \in {Frame[6 - Len(to_stub)], Mark("junk")}
         /\ readState # "JUNK" \/ in.t = "$" => \A k \in 1 .. Len(to_host) : to_host[k].t = "error"
<1>1. Len(to_stub) \in Nat \ {0} /\ in = to_stub[1]
  BY TailFacts DEF TypeOK, in
<1>2. PICK n \in Nat \ {0} : n = Len(to_stub)
  BY <1>1
<1>3. IF 1 + 5 > n THEN in \in {Frame[1 + 5 - n], Mark("junk")} ELSE in.t # "$"
  BY <1>1, <1>2 DEF Awaiting, Latest
<1>4. n > 5 => readState = "JUNK"
  BY <1>2 DEF Awaiting
<1>5. in.t = "$" => ~Harmless
  BY <1>1 DEF Harmless
<1>6. readState # "JUNK" \/ in.t = "$" => \A k \in 1 .. Len(to_host) : to_host[k].t = "error"
  BY <1>5 DEF Awaiting
<1>7. /\ n > 5 => in.t # "$"
      /\ n <= 5 => in \in {Frame[6 - n], Mark("junk")}
  BY <1>2, <1>3
<1> QED
  BY <1>1, <1>2, <1>4, <1>6, <1>7

\* A $, or a token of a packet that has begun, is of the last packet.
LEMMA ReadsOn ==
  ASSUME TypeOK, Awaiting, to_stub # <<>>, to_stub' = Tail(to_stub),
         readState # "JUNK" \/ in.t = "$",
         UNCHANGED <<command, stub, executed>>,
         to_host' = to_host \/ to_host' = Append(to_host, Mark("error"))
  PROVE  Awaiting'
<1>1. Latest' /\ Len(to_stub') = Len(to_stub) - 1 /\ Len(to_stub) \in Nat \ {0}
  BY TakenOff DEF Awaiting
<1>2. ~(Len(to_stub') > 5)
  <2>1. ~(Len(to_stub) > 5)
    BY FirstToken
  <2> QED
    BY <1>1, <2>1
<1>3. \A k \in 1 .. Len(to_host) : to_host[k].t = "error"
  BY FirstToken
<1>4. \A k \in 1 .. Len(to_host') : to_host'[k].t = "error"
  <2>1. CASE to_host' = to_host
    BY <1>3, <2>1
  <2>2. CASE to_host' = Append(to_host, Mark("error"))
    <3>1. to_host \in Seq(ToHost) /\ Mark("error") \in ToHost /\ Mark("error").t = "error"
      BY Tokens DEF TypeOK
    <3>2. PICK n \in Nat : n = Len(to_host)
      BY <3>1
    <3>3. /\ Len(to_host') = n + 1
          /\ \A k \in 1 .. n : to_host'[k] = to_host[k]
          /\ to_host'[n + 1] = Mark("error")
      BY <2>2, <3>1, <3>2, AppendFacts
    <3>4. ASSUME NEW k \in 1 .. n + 1 PROVE to_host'[k].t = "error"
      <4>1. k \in 1 .. n \/ k = n + 1
        OBVIOUS
      <4>2. \A j \in 1 .. n : to_host[j].t = "error"
        BY <1>3, <3>2
      <4> QED
        BY <3>1, <3>3, <4>1, <4>2
    <3> QED
      BY <3>3, <3>4
  <2> QED
    BY <2>1, <2>2
<1> QED
  BY <1>1, <1>2, <1>4 DEF Awaiting

\* Behind the first token the last packet has no $.
LEMMA BehindTheDollar ==
  ASSUME TypeOK, Awaiting, to_stub # <<>>, to_stub' = Tail(to_stub), Len(to_stub) <= 5,
         command' = command
  PROVE  Harmless'
<1>1. Latest' /\ Len(to_stub') = Len(to_stub) - 1 /\ Len(to_stub) \in Nat \ {0}
  BY TakenOff DEF Awaiting
<1>2. PICK n \in 0 .. 4 : n = Len(to_stub')
  BY <1>1
<1>3. command \in Command /\ Frame' = Frame
  BY DEF Awaiting, Frame
<1>4. ASSUME NEW k \in 1 .. n PROVE to_stub'[k].t # "$"
  <2>1. to_stub'[k] \in {Frame'[k + 5 - n], Mark("junk")}
    BY <1>1, <1>2 DEF Latest
  <2>2. k + 5 - n \in 2 .. 5
    BY <1>2
  <2>3. \A j \in 2 .. 5 : Frame[j].t # "$"
    BY <1>3, FrameMarks
  <2> QED
    BY <1>3, <2>1, <2>2, <2>3, Tokens
<1> QED
  BY <1>2, <1>4 DEF Harmless

\* The second digit of a good packet is the last token on the line, and its payload is the
\* host's last command.
LEMMA MatchIsLast ==
  ASSUME TypeOK, Awaiting, to_stub # <<>>, readState # "JUNK", Matches
  PROVE  Len(to_stub) = 1 /\ Received = Token("payload", command)
<1>1. Received = Token("payload", in.of) /\ in.t = "digit2"
  BY MatchGives
<1>2. PICK m \in Nat \ {0} : m = Len(to_stub)
  BY FirstToken
<1>3. ~(m > 5) /\ (m <= 5 => in \in {Frame[6 - m], Mark("junk")})
  BY <1>2, FirstToken
<1>4. command \in Command
  BY DEF Awaiting
<1>5. in # Mark("junk")
  BY <1>1, Tokens
<1>6. m \in 1 .. 5 /\ in = Frame[6 - m]
  <2>1. m \in 1 .. 5
    BY <1>3
  <2> QED
    BY <1>3, <1>5, <2>1
<1>7. \A j \in 1 .. 4 : Frame[j].t # "digit2"
  BY <1>4, FrameMarks
<1>8. m = 1
  <2>1. CASE m # 1
    <3>1. 6 - m \in 1 .. 4
      BY <1>6, <2>1
    <3> QED
      BY <1>1, <1>6, <1>7, <3>1
  <2> QED
    BY <2>1
<1>9. in.of = command
  BY <1>4, <1>6, <1>8, FrameMarks
<1> QED
  BY <1>1, <1>2, <1>8, <1>9

\* A good packet.
LEMMA Executes ==
  ASSUME TypeOK, Awaiting, to_stub # <<>>, NEW t, ReadDigit2(t), Matches
  PROVE  Taken'
<1>1. /\ to_stub' = Tail(to_stub) /\ readState # "JUNK" /\ readState' = "JUNK"
      /\ UNCHANGED <<host, command>>
      /\ to_host' = to_host \o Acknowledged(Received)
      /\ stub' = IF Received.of.kind = "resume" THEN "running" ELSE "reading"
      /\ executed' = IF Received = Token("payload", command) /\ executed < Twice
                       THEN executed + 1 ELSE executed
  BY DEF ReadDigit2, ReadOther, Receives
<1>2. Len(to_stub) = 1 /\ Received = Token("payload", command)
  BY <1>1, MatchIsLast
<1>3. command \in Command /\ executed = 0 /\ command.kind \in Kinds /\ Received.of = command
  BY <1>2 DEF Awaiting, Command, Token
<1>4. to_stub' = <<>>
  <2>1. Tail(to_stub) \in Seq(ToStub) /\ Len(Tail(to_stub)) = 0
    BY <1>2, TailFacts DEF TypeOK
  <2> QED
    BY <1>1, <2>1, EmptySeq
<1>5. executed' = 1 /\ stub' = IF command.kind = "resume" THEN "running" ELSE "reading"
  BY <1>1, <1>2, <1>3 DEF Twice
<1>6. \A k \in 1 .. Len(to_host) : to_host[k].t = "error"
  BY <1>1, FirstToken
<1>7. PICK n \in Nat : n = Len(to_host)
  BY DEF TypeOK
<1> DEFINE answer == Acknowledged(Received)
<1>8. /\ answer \in Seq(ToHost) /\ Len(answer) = (IF command.kind = "resume" THEN 1 ELSE 2)
      /\ answer[1] = Mark("+")
      /\ command.kind # "resume" => answer[2] = Said
  BY <1>2, <1>3, ReplyTyped DEF Said, Kinds
<1>9. to_host \in Seq(ToHost) /\ to_host' = to_host \o answer
  BY <1>1 DEF TypeOK
<1> HIDE DEF answer
<1>10. answer \in Seq(ToHost)
  BY <1>8
<1>11. /\ Len(to_host') = Len(to_host) + Len(answer)
       /\ \A k \in 1 .. Len(to_host) : to_host'[k] = to_host[k]
       /\ \A k \in 1 .. Len(answer) : to_host'[Len(to_host) + k] = answer[k]
  BY <1>9, <1>10, ConcatFacts
<1>12. /\ Len(to_host') = n + (IF command.kind = "resume" THEN 1 ELSE 2)
       /\ \A k \in 1 .. n : to_host'[k].t = "error"
       /\ to_host'[n + 1] = Mark("+")
       /\ command.kind # "resume" => to_host'[n + 2] = Said
  BY <1>6, <1>7, <1>8, <1>11
<1>13. Said' = Said
  BY <1>1 DEF Said
<1>14. /\ n + 1 \in 1 .. Len(to_host')
       /\ \A k \in 1 .. (n + 1) - 1 : to_host'[k].t = "error"
       /\ Len(to_host') = (n + 1) + IF stub' = "reading" THEN 1 ELSE 0
       /\ stub' = "reading" => to_host'[(n + 1) + 1] = Said'
  <2>1. command.kind = "resume" <=> stub' # "reading"
    BY <1>5
  <2>2. n + 1 \in 1 .. Len(to_host') /\ (n + 1) - 1 = n /\ (n + 1) + 1 = n + 2
        /\ Len(to_host') = (n + 1) + IF stub' = "reading" THEN 1 ELSE 0
    BY <1>12, <2>1
  <2> QED
    BY <1>12, <1>13, <2>1, <2>2
<1> QED
  BY <1>1, <1>3, <1>4, <1>5, <1>12, <1>14 DEF Taken

\* A bad packet.
LEMMA Refuses ==
  ASSUME TypeOK, Awaiting, to_stub # <<>>, NEW t, ReadDigit2(t), ~Matches
  PROVE  Awaiting'
<1>1. /\ to_stub' = Tail(to_stub) /\ readState # "JUNK" /\ readState' = "JUNK"
      /\ UNCHANGED <<host, command, stub, executed>>
      /\ to_host' = Append(to_host, Mark("-"))
  BY DEF ReadDigit2, ReadOther, Receives
<1>2. Len(to_stub) <= 5 /\ \A k \in 1 .. Len(to_host) : to_host[k].t = "error"
  BY <1>1, FirstToken
<1>3. Latest' /\ Harmless'
  BY <1>1, <1>2, TakenOff, BehindTheDollar DEF Awaiting
<1>4. to_host \in Seq(ToHost) /\ Mark("-") \in ToHost /\ Mark("-").t = "-"
  BY Tokens DEF TypeOK
<1>5. PICK n \in Nat : n = Len(to_host)
  BY <1>4
<1>6. /\ Len(to_host') = n + 1
      /\ \A k \in 1 .. n : to_host'[k] = to_host[k]
      /\ to_host'[n + 1] = Mark("-")
  BY <1>1, <1>4, <1>5, AppendFacts
<1>7. \A k \in 1 .. Len(to_host') :
        \/ to_host'[k].t = "error"
        \/ /\ to_host'[k].t = "-" /\ k = Len(to_host')
           /\ readState' = "JUNK" /\ Harmless'
  <2> TAKE k \in 1 .. Len(to_host')
  <2>1. k \in 1 .. n \/ k = n + 1
    BY <1>6
  <2>2. \A j \in 1 .. n : to_host[j].t = "error"
    BY <1>2, <1>5
  <2> QED
    BY <1>1, <1>3, <1>4, <1>6, <2>1, <2>2
<1> QED
  BY <1>1, <1>3, <1>7 DEF Awaiting

\* The stub reads while a command is awaited.
LEMMA AwaitingReads == ASSUME TypeOK, Awaiting, StubReads PROVE (Awaiting \/ Taken)' /\ host' = host
<1>1. CASE ReadDollar
  <2>1. /\ to_stub # <<>> /\ to_stub' = Tail(to_stub) /\ in.t = "$"
        /\ UNCHANGED <<host, command, stub, executed, to_host>>
    BY <1>1 DEF ReadDollar, Receives, in
  <2> QED
    BY <2>1, ReadsOn
<1>2. ASSUME NEW t, SkipJunk(t) PROVE Awaiting' /\ host' = host
  <2>1. /\ to_stub # <<>> /\ to_stub' = Tail(to_stub)
        /\ UNCHANGED <<host, command, stub, executed, to_host, readState>>
    BY <1>2 DEF SkipJunk, ReadOther, Receives, reader
  <2>2. /\ Len(to_stub) \in Nat \ {0} /\ Len(to_stub') = Len(to_stub) - 1
        /\ Harmless => Harmless'
        /\ Latest'
    BY <2>1, TakenOff DEF Awaiting
  <2>3. Len(to_stub') > 5 => readState' = "JUNK"
    BY <1>2, <2>1 DEF SkipJunk
  <2> QED
    BY <2>1, <2>2, <2>3 DEF Awaiting
<1>3. ASSUME NEW t, ReadPayload(t) PROVE Awaiting' /\ host' = host
  <2>1. /\ to_stub # <<>> /\ to_stub' = Tail(to_stub) /\ readState # "JUNK"
        /\ UNCHANGED <<host, command, stub, executed>>
        /\ to_host' = to_host \/ to_host' = Append(to_host, Mark("error"))
    BY <1>3 DEF ReadPayload, ReadOther, Receives
  <2> QED
    BY <2>1, ReadsOn
<1>4. CASE ReadHash
  <2>1. /\ to_stub # <<>> /\ to_stub' = Tail(to_stub) /\ readState # "JUNK"
        /\ UNCHANGED <<host, command, stub, executed, to_host>>
    BY <1>4 DEF ReadHash, Receives
  <2> QED
    BY <2>1, ReadsOn
<1>5. ASSUME NEW t, ReadDigit1(t) PROVE Awaiting' /\ host' = host
  <2>1. /\ to_stub # <<>> /\ to_stub' = Tail(to_stub) /\ readState # "JUNK"
        /\ UNCHANGED <<host, command, stub, executed, to_host>>
    BY <1>5 DEF ReadDigit1, ReadOther, Receives
  <2> QED
    BY <2>1, ReadsOn
<1>6. ASSUME NEW t, ReadDigit2(t) PROVE (Awaiting \/ Taken)' /\ host' = host
  <2>1. to_stub # <<>> /\ host' = host
    BY <1>6 DEF ReadDigit2, ReadOther, Receives
  <2> QED
    BY <1>6, <2>1, Executes, Refuses
<1> QED
  BY <1>1, <1>2, <1>3, <1>4, <1>5, <1>6 DEF StubReads

LEMMA ReadsStep == ASSUME Regular, IInv, StubReads PROVE IInv'
<1>1. TypeOK /\ TypeOK' /\ to_stub # <<>>
  <2>1. to_stub # <<>>
    BY DEF StubReads, ReadDollar, ReadHash, SkipJunk, ReadPayload, ReadDigit1, ReadDigit2, ReadOther,
           Receives
  <2> QED
    BY <2>1, TypeStub DEF IInv, Stub
<1>2. ~Replied /\ ~Taken
  BY <1>1 DEF Replied, Taken
<1>3. CASE host \in {"idle", "stop"}
  BY <1>3, QuietRead
<1>4. CASE host = "acknowledgement"
  <2>1. Awaiting
    BY <1>2, <1>4 DEF IInv
  <2>2. (Awaiting \/ Taken)' /\ host' = host
    BY <1>1, <2>1, AwaitingReads
  <2> QED
    BY <1>1, <1>4, <2>2 DEF IInv
<1>5. CASE host = "reply"
  BY <1>2, <1>5 DEF IInv
<1>6. host \in {"idle", "acknowledgement", "reply", "stop"}
  BY <1>1 DEF TypeOK
<1> QED
  BY <1>3, <1>4, <1>5, <1>6

-----------------------------------------------------------------------------
(* The theorems. *)

\* What is under way in each state of the host is the invariant of the conversation.
THEOREM Invariance == ASSUME Regular PROVE Spec => []IInv
<1>1. Init => IInv
  <2> SUFFICES ASSUME Init PROVE IInv
    OBVIOUS
  <2>1. TypeOK
    BY TypeInit
  <2>2. Len(to_stub) = 0
    BY DEF Init
  <2>3. Runs /\ host = "stop"
    BY <2>2 DEF Init, Runs, Done, Harmless
  <2> QED
    BY <2>1, <2>3 DEF IInv
<1>2. IInv /\ [Next]_vars => IInv'
  <2> SUFFICES ASSUME IInv, [Next]_vars PROVE IInv'
    OBVIOUS
  <2>1. CASE Stub
    BY <2>1, ReadsStep, SwallowStep, TrapStep DEF Stub
  <2>2. CASE Host
    BY <2>2, AgainStep, CtrlCStep, HostReadsStep, SendStep DEF Host
  <2>3. CASE Lose
    BY <2>3, LoseStep
  <2>4. CASE UNCHANGED vars
    BY <2>4 DEF vars, IInv, TypeOK, Idle, Done, Harmless, Replied, Said, Runs, Awaiting, Latest,
                Frame, Taken
  <2> QED
    BY <2>1, <2>2, <2>3, <2>4 DEF Next
<1> QED
  BY <1>1, <1>2, PTL DEF Spec

\* The state of the conversation is well typed: the payload fits the buffer, and the line
\* carries what the two of them say.
THEOREM SessionTypeCorrect == ASSUME Regular PROVE Spec => []TypeOK
<1>1. IInv => TypeOK
  BY DEF IInv
<1> QED
  BY <1>1, Invariance, PTL

\* process_packet executes a command once for its acknowledgement, whatever is lost.
THEOREM CommandsExecuteOnce == ASSUME Regular PROVE Spec => []ExecutedOnce
<1>1. IInv => ExecutedOnce
  <2> SUFFICES ASSUME IInv PROVE ExecutedOnce
    OBVIOUS
  <2> DEFINE silent == \A k \in 1 .. Len(to_host) : to_host[k].t # "+"
  <2>1. CASE host = "acknowledgement" /\ Awaiting
    <3>1. silent /\ executed = 0
      BY <2>1 DEF Awaiting
    <3> QED
      BY <2>1, <3>1 DEF ExecutedOnce
  <2>2. CASE host = "acknowledgement" /\ Taken
    <3>1. ~silent /\ executed = 1 /\ command # NoCommand
      BY <2>2 DEF Taken, Mark, Token, Command, NoCommand, Kinds
    <3> QED
      BY <3>1 DEF ExecutedOnce
  <2>3. CASE host \in {"idle", "stop"}
    BY <2>3 DEF IInv, Idle, Runs, Done, ExecutedOnce
  <2>4. CASE host = "reply"
    <3>1. executed = 1 /\ command # NoCommand
      BY <2>4 DEF IInv, Replied, Command, NoCommand, Kinds
    <3> QED
      BY <2>4, <3>1 DEF ExecutedOnce
  <2>5. host \in {"idle", "acknowledgement", "reply", "stop"}
    BY DEF IInv, TypeOK
  <2> QED
    BY <2>1, <2>2, <2>3, <2>4, <2>5 DEF IInv
<1> QED
  BY <1>1, Invariance, PTL

\* Stub and host agree whether the program runs.
THEOREM StaysInStep == ASSUME Regular PROVE Spec => []InStep
<1>1. IInv => InStep
  <2> SUFFICES ASSUME IInv PROVE InStep
    OBVIOUS
  <2>1. ASSUME stub = "reading", host = "stop"
        PROVE  \E k \in 1 .. Len(to_host) : to_host[k].t = "stop"
    <3>1. to_host = <<Mark("stop")>>
      BY <2>1 DEF IInv, Runs
    <3>2. 1 \in 1 .. Len(to_host) /\ to_host[1].t = "stop"
      BY <3>1, Tokens
    <3> QED
      BY <3>2
  <2>2. ASSUME stub # "reading", host # "stop"
        PROVE  /\ host = "acknowledgement" /\ command.kind = "resume"
               /\ \E k \in 1 .. Len(to_host) : to_host[k].t = "+"
    <3>1. ~Idle /\ ~Replied /\ ~Awaiting
      BY <2>2 DEF Idle, Replied, Awaiting
    <3>2. host \in {"idle", "acknowledgement", "reply", "stop"}
      BY DEF IInv, TypeOK
    <3>3. host = "acknowledgement" /\ Taken
      BY <2>2, <3>1, <3>2 DEF IInv
    <3> QED
      BY <2>2, <3>3, Tokens DEF Taken
  <2> QED
    BY <2>1, <2>2 DEF InStep
<1> QED
  BY <1>1, Invariance, PTL

\* What the host takes for the answer to a command is the answer to that command.
THEOREM AnswersBelong == ASSUME Regular PROVE Spec => OwnReply
<1>1. IInv /\ [Next]_vars
      => [HostReads /\ host = "reply" /\ host' = "idle"
            => <<Head(to_host)>> = Answer(Token("payload", command))]_vars
  <2> SUFFICES ASSUME IInv, host = "reply" PROVE <<Head(to_host)>> = Answer(Token("payload", command))
    OBVIOUS
  <2>1. to_host = <<Said>> /\ command.kind # "resume"
    BY DEF IInv, Replied
  <2>2. <<Said>> = Answer(Token("payload", command))
    BY <2>1 DEF Said, Answer, Token
  <2> QED
    BY <2>1, <2>2
<1> QED
  BY <1>1, Invariance, PTL DEF Spec, OwnReply
=============================================================================
