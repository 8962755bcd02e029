------------------------------ MODULE Commands ------------------------------
(***************************************************************************)
(* What the host reads and writes: process_packet in server.c over the hex *)
(* helpers of utils.c, between the two ends of rst8_c_trap that take the   *)
(* registers from the stack and put them back.  A register passes through  *)
(* four layouts (the processor, the stack of rst8_entry, registers[] and   *)
(* digits in a packet), and two byte orders.                               *)
(*                                                                         *)
(* A payload is its command letter and the digits of its fields, split     *)
(* where __strchr looks for a separator; one with too few separators has   *)
(* too few fields.  Which bytes of memory are the stub's own RST 08 is the *)
(* subject of TrapHandler; here memory is the program's.                   *)
(***************************************************************************)
EXTENDS Naturals, Sequences, FiniteSets

CONSTANTS
  Requests,        \* what the host asks for
  Cells,           \* the addresses of memory that matter
  Pages,           \* what updateMappedPages finds, for SLOT_0 to SLOT_3
  Files,           \* the registers the program may have
  OwnTraps,        \* where the program has an RST 08 of its own
  MaxBreakpoints,  \* MAX_BREAKPOINTS_COUNT
  Liberties        \* what the host may do beyond the regular use

MoveSP         == "the host writes another SP"
ProtocolOrder  == "the host sends the value of P low byte first"
ZeroBreakpoint == "a breakpoint at address 0"
EveryLiberty   == {MoveSP, ProtocolOrder, ZeroBreakpoint}
Allowed(liberty) == liberty \in Liberties

Byte == 0 .. 255
Word == 0 .. 65535
Digit == 0 .. 15

\* register_index_t
SP == 0
PC == 1
HL == 2
DE == 3
BC == 4
AF == 5
IX == 6
IY == 7
SLOT_0 == 8
SLOT_3 == 11
REGISTERS_COUNT == 12
Register   == 0 .. REGISTERS_COUNT - 1
OfProgram  == SP .. IY
BufferSize == 128
Slots      == 0 .. MaxBreakpoints - 1

ASSUME CellsAssumption == Cells \subseteq Word
ASSUME PagesAssumption == Pages \in [SLOT_0 .. SLOT_3 -> Word] /\ Pages[SLOT_3] = 7
ASSUME FilesAssumption == Files # {} /\ Files \subseteq [OfProgram -> Word]
\* The return address, which lies in the two bytes below SP, is kept apart from memory.
ASSUME ReturnAssumption == \A f \in Files : {(f[SP] + 65534) % 65536, (f[SP] + 65535) % 65536} \cap Cells = {}
ASSUME TrapsAssumption == OwnTraps \subseteq Word
ASSUME SlotsAssumption == MaxBreakpoints \in Nat \ {0}
ASSUME LibertiesAssumption == Liberties \subseteq EveryLiberty

VARIABLES
  at,                \* the program, the GDB loop, or the end of rst8_c_trap
  cpu,               \* the registers of the program while it runs
  memory,
  saved_registers,   \* what rst8_entry pushes, IY at the lowest address
  rst8_sp_copy,      \* SP at the trap
  return_address,    \* the word that lies there
  hit,               \* TRAP_FLAG_BREAK_HIT
  registers,
  breakpoints,       \* the addresses in the slots
  reply,
  request            \* what was asked last (history)

vars == <<at, cpu, memory, saved_registers, rst8_sp_copy, return_address, hit,
          registers, breakpoints, reply, request>>
stack == <<saved_registers, rst8_sp_copy, return_address>>

\* What is fixed in a reply is left out; the digits are those of its data.
Reply == [is : {"none", "OK", "E01", "T05", "features"}]
             \union [is : {"T05_PC", "registers", "memory"}, digits : Seq(Digit)]

NoRequest == [name |-> "none"]

TypeOK ==
  /\ at \in {"program", "loop", "leaving"}
  /\ cpu \in [OfProgram -> Word]
  /\ memory \in [Cells -> Byte]
  /\ saved_registers \in [0 .. 5 -> Word]
  /\ rst8_sp_copy \in Word /\ return_address \in Word
  /\ hit \in BOOLEAN
  /\ registers \in [Register -> Word]
  /\ breakpoints \in [Slots -> Word]
  /\ reply \in Reply
  /\ request \in Requests \union {NoRequest}

Init ==
  /\ at = "program"
  /\ cpu \in Files
  /\ memory = [a \in Cells |-> a % 251]
  /\ saved_registers = [k \in 0 .. 5 |-> 0]
  /\ rst8_sp_copy = 0 /\ return_address = 0
  /\ hit = FALSE
  /\ registers = [k \in Register |-> 0]
  /\ breakpoints = [k \in Slots |-> 0]
  /\ reply = [is |-> "none"]
  /\ request = NoRequest

-----------------------------------------------------------------------------
(* utils.c, on the digits of a buffer and the bytes they stand for. *)

Low(w)  == w % 256
High(w) == w \div 256

to_hex(bytes) ==
  [n \in 1 .. 2 * Len(bytes) |->
     LET byte == bytes[(n + 1) \div 2] IN IF n % 2 = 1 THEN byte \div 16 ELSE byte % 16]

from_hex(digits, len) == [n \in 1 .. len \div 2 |-> 16 * digits[2 * n - 1] + digits[2 * n]]

\* Up to four digits, right-aligned among zeros, the high byte first.
from_hex_str(digits) ==
  LET b == [n \in 1 .. 4 - Len(digits) |-> 0] \o digits
      result == from_hex(b, 4)
  IN result[2] + 256 * result[1]

\* The words w[0], w[1] ... as they lie in memory, and back.
Bytes(w, count) == [n \in 1 .. 2 * count |-> LET word == w[(n - 1) \div 2] IN IF n % 2 = 1 THEN Low(word) ELSE High(word)]
Words(bytes) == [k \in 0 .. Len(bytes) \div 2 - 1 |-> bytes[2 * k + 1] + 256 * bytes[2 * k + 2]]

\* write_packet_bytes, and write_error for what does not fit.
Packet(what, digits) ==
  IF Len(digits) + 4 > BufferSize THEN [is |-> "E01"] ELSE [is |-> what, digits |-> digits]

-----------------------------------------------------------------------------
(* The program, the trap and the way back. *)

Run ==
  /\ at = "program"
  /\ cpu' \in Files
  /\ UNCHANGED <<at, memory, stack, hit, registers, breakpoints, reply, request>>

\* The order of the pairs on the stack, from the lowest address: as rst8_entry pushes
\* them, as rst8_c_trap takes them and puts them back, and as rst8_entry pops them.
PushOrder == <<IY, IX, HL, DE, BC, AF>>
ReadSwapped == <<IX, IY, HL, DE, BC, AF>>
ReadOrder == <<IY, IX, HL, DE, BC, AF>>
WriteOrder == <<IY, IX, HL, DE, BC, AF>>
PopOrder == <<IY, IX, HL, DE, BC, AF>>
Place(order, r) == CHOOSE k \in 0 .. 5 : order[k + 1] = r

\* Four bytes are converted, PC and the HL behind it, and the first two are sent.
StopReply(r) == [is |-> "T05_PC", digits |-> SubSeq(to_hex(Bytes([k \in 0 .. 1 |-> r[PC + k]], 2)), 1, 4)]

\* SP without the return address.
SPBeforeTheWrap(copy) == copy + 2
SPBefore(copy) == (copy + 2) % 65536

\* A breakpoint whose RST 08 the program has overwritten is given up.
GiveUp ==
  \E given_up \in SUBSET Slots :
    breakpoints' = [k \in Slots |-> IF k \in given_up THEN 0 ELSE breakpoints[k]]

\* A trap at a breakpoint or a temporary one of the stub, or at the program's own
\* RST 08; at a temporary one that only sets a breakpoint again, the host is not asked.
Trap(breakpoint, enter) ==
  /\ at = "program"
  /\ breakpoint \/ (enter /\ cpu[PC] \in OwnTraps)
  /\ return_address' = (cpu[PC] + 1) % 65536
  /\ rst8_sp_copy' = (cpu[SP] + 65534) % 65536
  /\ saved_registers' = [k \in 0 .. 5 |-> cpu[PushOrder[k + 1]]]
  /\ hit' = breakpoint
  /\ registers' = [r \in Register |->
       CASE r = PC           -> (return_address' + 65535) % 65536
         [] r = SP           -> SPBefore(rst8_sp_copy')
         [] r \in HL .. IY   -> saved_registers'[Place(ReadOrder, r)]
         [] OTHER            -> registers[r]]
  /\ IF enter
       THEN /\ at' = "loop"
            /\ GiveUp
            /\ reply' = StopReply(registers')
       ELSE /\ at' = "leaving"
            /\ UNCHANGED <<breakpoints, reply>>
  /\ UNCHANGED <<cpu, memory, request>>

rst08_address == (return_address + 65535) % 65536

resume_addr ==
  IF registers[PC] # rst08_address THEN registers[PC]
  ELSE IF hit THEN rst08_address ELSE return_address

\* The end of rst8_c_trap and of rst8_entry, after c, s or i; where a step is to stop is
\* in TrapHandler.  SP is not put back, and neither are the slots.
Leave ==
  /\ at \in {"loop", "leaving"}
  /\ at' = "program"
  /\ saved_registers' = [k \in 0 .. 5 |-> registers[WriteOrder[k + 1]]]
  /\ return_address' = resume_addr
  /\ cpu' = [r \in OfProgram |->
       CASE r = PC -> return_address'
         [] r = SP -> SPBefore(rst8_sp_copy)
         [] OTHER  -> saved_registers'[Place(PopOrder, r)]]
  /\ reply' = [is |-> "none"]
  /\ request' = NoRequest
  /\ UNCHANGED <<memory, rst8_sp_copy, hit, registers, breakpoints>>

-----------------------------------------------------------------------------
(* The requests of the host as payloads. *)

\* A number as gdb writes it, without leading zeros; a word as it lies in memory, and
\* as the value that P takes.
Number(n) ==
  LET digits == <<n \div 4096, (n \div 256) % 16, (n \div 16) % 16, n % 16>>
      Leads(k) == (k = 4 \/ digits[k] # 0) /\ \A j \in 1 .. k - 1 : digits[j] = 0
  IN SubSeq(digits, CHOOSE k \in 1 .. 4 : Leads(k), 4)
Value(w) == IF Allowed(ProtocolOrder) THEN to_hex(<<Low(w), High(w)>>) ELSE to_hex(<<High(w), Low(w)>>)

Payload(command, fields) == [command |-> command, fields |-> fields]

Encoded(r) ==
  Payload(IF r.name = "torn" THEN r.of ELSE r.name,
    CASE r.name = "G"          -> <<to_hex(Bytes(r.words, REGISTERS_COUNT))>>
      [] r.name = "P"          -> <<Number(r.register), Value(r.word)>>
      [] r.name = "m"          -> <<Number(r.at), Number(r.length)>>
      [] r.name = "M"          -> <<Number(r.at), Number(Len(r.bytes)), to_hex(r.bytes)>>
      [] r.name \in {"Z", "z"} -> <<Number(r.at)>>
      [] r.name = "q"          -> <<r.known>>
      [] OTHER                 -> <<>>)

\* What a regular host does not ask for; a second Z of one address is in TrapHandler.
Regular(r) ==
  /\ r.name = "G" => r.words[SP] = registers[SP] \/ Allowed(MoveSP)
  /\ r.name = "P" => r.register # SP \/ r.word = registers[SP] \/ Allowed(MoveSP)
  /\ r.name = "Z" => r.at \notin {breakpoints[k] : k \in Slots} \ {0}
  /\ r.name \in {"Z", "z"} => r.at # 0 \/ Allowed(ZeroBreakpoint)

-----------------------------------------------------------------------------
(* process_packet. *)

Command(p, names) == at = "loop" /\ p.command \in names
Answer(r) == reply' = r /\ UNCHANGED at
OK    == [is |-> "OK"]
Error == [is |-> "E01"]

AnswerOnly(r) == Answer(r) /\ UNCHANGED <<cpu, memory, stack, hit, registers, breakpoints>>
SetRegisters(f) == Answer(OK) /\ registers' = f /\ UNCHANGED <<cpu, memory, stack, hit, breakpoints>>
SetBreakpoint(k, a) ==
  /\ Answer(OK)
  /\ breakpoints' = [breakpoints EXCEPT ![k] = a]
  /\ UNCHANGED <<cpu, memory, stack, hit, registers>>

Known == {"k", "?", "q", "g", "G", "P", "m", "M", "Z", "z"}

Fixed(p) ==
  \/ Command(p, {"k"}) /\ AnswerOnly(OK)
  \/ Command(p, {"?"}) /\ AnswerOnly([is |-> "T05"])
  \/ Command(p, {"q"}) /\ AnswerOnly(IF p.fields[1] THEN [is |-> "features"] ELSE Error)
  \/ at = "loop" /\ p.command \notin Known /\ AnswerOnly(Error)

ReadRegisters(p) ==
  /\ Command(p, {"g"})
  /\ registers' = [r \in Register |-> IF r \in SLOT_0 .. SLOT_3 THEN Pages[r] ELSE registers[r]]
  /\ Answer(Packet("registers", to_hex(Bytes(registers', REGISTERS_COUNT))))
  /\ UNCHANGED <<cpu, memory, stack, hit, breakpoints>>

WriteRegisters(p) ==
  /\ Command(p, {"G"})
  /\ SetRegisters(Words(from_hex(p.fields[1], 4 * REGISTERS_COUNT)))

\* The index has one or two digits, the value four.
WriteRegister(p) ==
  /\ Command(p, {"P"})
  /\ IF Len(p.fields) = 2 /\ Len(p.fields[1]) \in 1 .. 2 /\ from_hex_str(p.fields[1]) < REGISTERS_COUNT
       THEN SetRegisters([registers EXCEPT ![from_hex_str(p.fields[1])] = from_hex_str(p.fields[2])])
       ELSE AnswerOnly(Error)

TooLong(mem_size) == mem_size > (BufferSize - 4) \div 2

ReadMemory(p) ==
  /\ Command(p, {"m"})
  /\ AnswerOnly(
       IF Len(p.fields) # 2 \/ TooLong(from_hex_str(p.fields[2]))
         THEN Error
         ELSE LET mem_offset == from_hex_str(p.fields[1])
              IN Packet("memory", to_hex([n \in 1 .. from_hex_str(p.fields[2]) |-> memory[(mem_offset + n - 1) % 65536]])))

\* The digits are decoded into the front of the buffer and copied from there.
WriteMemory(p) ==
  /\ Command(p, {"M"})
  /\ IF Len(p.fields) = 3
       THEN LET mem_offset == from_hex_str(p.fields[1])
                mem_size   == from_hex_str(p.fields[2])
                buffer     == from_hex(p.fields[3], (2 * mem_size) % 256)
                index(a)   == (a + 65536 - mem_offset) % 65536
            IN /\ memory' = [a \in Cells |-> IF index(a) < mem_size THEN buffer[index(a) + 1] ELSE memory[a]]
               /\ Answer(OK)
               /\ UNCHANGED <<cpu, stack, hit, registers, breakpoints>>
       ELSE AnswerOnly(Error)

\* The first slot with that address; 0 is the address of a slot in no use.
First(k, a) == breakpoints[k] = a /\ \A j \in 0 .. k - 1 : breakpoints[j] # a

Breakpoint(p) ==
  /\ Command(p, {"Z", "z"})
  /\ LET address == from_hex_str(p.fields[1])
         found   == IF p.command = "Z" THEN 0 ELSE address
         left    == IF p.command = "Z" THEN address ELSE 0
     IN IF p.fields # <<>> /\ \E k \in Slots : breakpoints[k] = found
          THEN \E k \in Slots : First(k, found) /\ SetBreakpoint(k, left)
          ELSE AnswerOnly(Error)

process_packet(p) ==
  \/ Fixed(p) \/ ReadRegisters(p) \/ WriteRegisters(p) \/ WriteRegister(p)
  \/ ReadMemory(p) \/ WriteMemory(p) \/ Breakpoint(p)

-----------------------------------------------------------------------------
Next ==
  \/ Run \/ Leave
  \/ \E breakpoint, enter \in BOOLEAN : Trap(breakpoint, enter)
  \/ \E r \in Requests : Regular(r) /\ process_packet(Encoded(r)) /\ request' = r

Spec == Init /\ [][Next]_vars

-----------------------------------------------------------------------------
(* Properties. *)

\* A reply as the host reads it: words with the low byte first.
Heard(r) ==
  CASE r.is = "none"        -> [is |-> "nothing"]
    [] r.is = "OK"          -> [is |-> "OK"]
    [] r.is = "E01"         -> [is |-> "error"]
    [] r.is = "T05"         -> [is |-> "signal"]
    [] r.is = "features"    -> [is |-> "text"]
    [] r.is = "T05_PC" -> [is |-> "stop", at |-> Words(from_hex(r.digits, 4))[0]]
    [] r.is = "registers"   -> [is |-> "registers", words |-> Words(from_hex(r.digits, Len(r.digits)))]
    [] r.is = "memory"      -> [is |-> "bytes", bytes |-> from_hex(r.digits, Len(r.digits))]

\* The registers the host reads and writes, the breakpoints that are set, and where the
\* program stopped if at an RST 08 of its own.
SeenRegisters == [r \in OfProgram |-> IF at = "program" THEN cpu[r] ELSE registers[r]]
SetAddresses  == {breakpoints[k] : k \in Slots} \ {0}
OwnTrap       == IF at # "program" /\ ~hit THEN rst08_address ELSE 65536

T == INSTANCE Target WITH
       Longest <- 62,
       state   <- IF at = "program" THEN "running" ELSE "stopped",
       reg     <- SeenRegisters,
       mem     <- memory,
       bset    <- SetAddresses,
       own     <- OwnTrap,
       answer  <- Heard(reply)

\* The digits and copies of process_packet and rst8_c_trap keep what Target promises:
\* registers and memory read as they were written, what is written reaches the program
\* when it goes on, an error changes nothing, and OK changes what was named.
ImplementsTarget == T!Spec
=============================================================================
