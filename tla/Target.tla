------------------------------- MODULE Target -------------------------------
(***************************************************************************)
(* What the host believes of the machine it debugs: a stopped program has  *)
(* registers and memory that read as they were written, go with it when it *)
(* runs on, and change by nothing but a request that is answered OK.       *)
(* There are no digits, no byte orders, no copies and no stacks.           *)
(***************************************************************************)
EXTENDS Naturals, Sequences, FiniteSets

CONSTANTS
  Requests,        \* what the host may ask for
  Cells,           \* the addresses of memory that matter
  Pages,           \* what the machine has mapped: the words of SLOT_0 to SLOT_3
  MaxBreakpoints,
  Longest          \* the bytes that one answer can carry

Byte == 0 .. 255
Word == 0 .. 65535
SP == 0
PC == 1
Nowhere == 65536
OfProgram == 0 .. 7          \* SP PC HL DE BC AF IX IY
Mapped    == 8 .. 11         \* SLOT_0 to SLOT_3, which only the machine changes

VARIABLES
  state,      \* running or stopped
  reg,        \* the registers of the program
  mem,
  bset,       \* the addresses with a breakpoint
  own,        \* where it stopped if at an RST 08 of its own, or Nowhere
  request,    \* the last request since the program ran
  answer      \* the last word of the stub

vars == <<state, reg, mem, bset, own, request, answer>>

OK      == [is |-> "OK"]
Error   == [is |-> "error"]
Nothing == [is |-> "nothing"]
NoRequest == [name |-> "none"]

Init ==
  /\ state = "running"
  /\ reg \in [OfProgram -> Word]
  /\ mem \in [Cells -> Byte]
  /\ bset = {}
  /\ own = Nowhere
  /\ request = NoRequest
  /\ answer = Nothing

Run ==
  /\ state = "running"
  /\ reg' \in [OfProgram -> Word]
  /\ mem' \in [Cells -> Byte]
  /\ UNCHANGED <<state, bset, own, request, answer>>

\* The host is told where, or the program goes on before the host hears of it.
\* Breakpoints under which the program has changed its code are gone.
Stop ==
  /\ state = "running"
  /\ state' = "stopped"
  /\ own' \in {reg[PC], Nowhere}
  /\ bset' \subseteq bset
  /\ answer' \in {[is |-> "stop", at |-> reg[PC]], answer}
  /\ UNCHANGED <<reg, mem, request>>

\* The program goes on with the registers and the memory the host sees, behind its
\* own RST 08 if it is still there.
Resume ==
  /\ state = "stopped"
  /\ state' = "running"
  /\ reg' = IF reg[PC] = own THEN [reg EXCEPT ![PC] = (@ + 1) % 65536] ELSE reg
  /\ own' = Nowhere
  /\ request' = NoRequest
  /\ answer' = Nothing
  /\ UNCHANGED <<mem, bset>>

Unchanged == UNCHANGED <<reg, mem, bset>>

ReadRegisters(r) ==
  /\ r.name = "g"
  /\ answer' = [is |-> "registers",
                words |-> [k \in OfProgram \union Mapped |-> IF k \in OfProgram THEN reg[k] ELSE Pages[k]]]
  /\ Unchanged

WriteRegisters(r) ==
  /\ r.name = "G"
  /\ reg' = [k \in OfProgram |-> r.words[k]]
  /\ answer' = OK
  /\ UNCHANGED <<mem, bset>>

WriteRegister(r) ==
  /\ r.name = "P"
  /\ IF r.register \in OfProgram THEN reg' = [reg EXCEPT ![r.register] = r.word] ELSE UNCHANGED reg
  /\ answer' = IF r.register \in OfProgram \union Mapped THEN OK ELSE Error
  /\ UNCHANGED <<mem, bset>>

ReadMemory(r) ==
  /\ r.name = "m"
  /\ answer' = IF r.length <= Longest
                 THEN [is |-> "bytes", bytes |-> [k \in 1 .. r.length |-> mem[(r.at + k - 1) % 65536]]]
                 ELSE Error
  /\ Unchanged

Index(a, first) == (a + 65536 - first) % 65536

WriteMemory(r) ==
  /\ r.name = "M"
  /\ mem' = [a \in Cells |-> IF Index(a, r.at) < Len(r.bytes) THEN r.bytes[Index(a, r.at) + 1] ELSE mem[a]]
  /\ answer' = OK
  /\ UNCHANGED <<reg, bset>>

PlaceBreakpoint(r) ==
  /\ r.name = "Z"
  /\ IF Cardinality(bset) < MaxBreakpoints
       THEN bset' = bset \union {r.at} /\ answer' = OK
       ELSE UNCHANGED bset /\ answer' = Error
  /\ UNCHANGED <<reg, mem>>

DeleteBreakpoint(r) ==
  /\ r.name = "z"
  /\ bset' = bset \ {r.at}
  /\ answer' = IF r.at \in bset THEN OK ELSE Error
  /\ UNCHANGED <<reg, mem>>

\* A question about the stub itself, or one that the stub does not understand.
Other(r) ==
  /\ \/ r.name = "k" /\ answer' = OK
     \/ r.name = "?" /\ answer' = [is |-> "signal"]
     \/ r.name = "q" /\ answer' = IF r.known THEN [is |-> "text"] ELSE Error
     \/ r.name = "torn" /\ answer' = Error
  /\ Unchanged

Serve(r) ==
  /\ state = "stopped"
  /\ request' = r
  /\ UNCHANGED <<state, own>>
  /\ \/ ReadRegisters(r) \/ WriteRegisters(r) \/ WriteRegister(r)
     \/ ReadMemory(r) \/ WriteMemory(r)
     \/ PlaceBreakpoint(r) \/ DeleteBreakpoint(r) \/ Other(r)

Next == Run \/ Stop \/ Resume \/ \E r \in Requests : Serve(r)

Spec == Init /\ [][Next]_vars
=============================================================================
