---------------------------- MODULE TrapHandler ----------------------------
(***************************************************************************)
(* The RST 08 trap handler (rst8_c_trap in pcw_rst8.c) with the commands   *)
(* of server.c that change its state and the Ctrl-C path of im1_entry in   *)
(* pcw_rst8.asm.  The stub has no debug hardware: a breakpoint, the target *)
(* of a step and a break-in are all the opcode RST 08 written over the     *)
(* program, so the question is always which bytes of memory are whose.     *)
(*                                                                         *)
(* The program is known by its control flow: Flow[a] is the set of         *)
(* addresses the instruction at a may go to next.  Which one the registers *)
(* select is decided when the processor arrives at a and kept in goto, so  *)
(* that what calculateStep predicts can be compared with it; what the real *)
(* one predicts is in Z80Decode, and that it is wrong for some of the      *)
(* instructions is one of the liberties.  An instruction is one address    *)
(* wide.                                                                   *)
(***************************************************************************)
EXTENDS Naturals

CONSTANTS
  Code,            \* addresses of the program's instructions
  Flow,            \* Flow[a]: where the instruction at a may go
  After,           \* After[a]: the address one byte past a
  Skip,            \* Skip[a]: the targets the host's 'i' command may name at a
  Own,             \* Own[a]: the opcodes the program or the user puts at a
  Stores,          \* the addresses the program itself stores to
  Patches,         \* the addresses the user writes to with M
  Programs,        \* the memory images the program may start from
  MaxBreakpoints,  \* MAX_BREAKPOINTS_COUNT
  Liberties        \* what the host or the program may do beyond the regular use

Zero  == 0         \* the address that marks an unused breakpoint
Hook  == 8         \* where RST 08 goes
RST08 == 207       \* 0xCF
JP    == 195       \* 0xC3, the first byte of the installed hook
Byte  == 0 .. 255

Address == Code \union {Zero, Hook}
Slots   == 0 .. MaxBreakpoints - 1

NestedTrap     == "a trap inside a step over"
StepAtRST      == "a step from an RST 08"
BusyBreakIn    == "a Ctrl-C while a temporary breakpoint is set"
SecondZ        == "a second Z of one address"
OverwriteStep  == "the program writes over a temporary breakpoint"
Misread        == "an instruction that the step decoder misreads"
EveryLiberty   == {NestedTrap, StepAtRST, BusyBreakIn, SecondZ, OverwriteStep, Misread}

ASSUME CodeAssumption  == Code \subseteq Nat \ {Hook}
ASSUME FlowAssumption  == Flow \in [Code -> (SUBSET Code) \ {{}}]
ASSUME AfterAssumption == After \in [Address -> Code]
ASSUME SkipAssumption  == Skip \in [Code -> SUBSET Code]
ASSUME OwnAssumption   == Own \in [Address -> SUBSET (Byte \ {RST08})]
ASSUME StoresAssumption == Stores \subseteq Code /\ Patches \subseteq Code
ASSUME ProgramsAssumption ==
  Programs \subseteq {m \in [Address -> Byte] : m[Hook] = JP /\ m[Zero] \in Own[Zero]
                        /\ \A a \in Code : m[a] \in Own[a] \union {RST08}}
ASSUME HookAssumption  == JP \in Own[Hook]
ASSUME SlotsAssumption == MaxBreakpoints \in Nat \ {0}
ASSUME LibertiesAssumption == Liberties \subseteq EveryLiberty

VARIABLES
  mem,                       \* the bytes of memory
  image,                     \* the bytes the program and the user put there
  pc,                        \* next instruction; in the handler, rst08_address
  goto,                      \* where the instruction at PC goes next
  phase,                     \* run, or which part of rst8_c_trap is executing
  i,                         \* the loop counter of that part
  trap_flags,                \* the TRAP_FLAG_ bits that are set
  temporary_breakpoint,
  breakpoints,
  trap_restore_idx,
  registers_PC,              \* registers[REGISTERS_PC]
  enable_serial_interrupt,
  due                        \* the instruction resumed at has not executed yet

vars == <<mem, image, pc, goto, phase, i, trap_flags, temporary_breakpoint,
          breakpoints, trap_restore_idx, registers_PC, enable_serial_interrupt, due>>

Flags      == {"RESTORE", "STEP", "HIT", "FORCE"}
Breakpoint == [address : Address, original_instruction : Byte]
Active     == {breakpoints[k].address : k \in Slots} \ {Zero}
Allowed(liberty) == liberty \in Liberties

TypeOK ==
  /\ mem \in [Address -> Byte]
  /\ image \in [Address -> Byte]
  /\ pc \in Code
  /\ goto \in Code
  /\ phase \in {"run", "unplant", "stopped", "plant", "resume"}
  /\ i \in Slots
  /\ trap_flags \subseteq Flags
  /\ temporary_breakpoint \in Breakpoint
  /\ breakpoints \in [Slots -> Breakpoint]
  /\ trap_restore_idx \in Slots
  /\ registers_PC \in Code
  /\ enable_serial_interrupt \in BOOLEAN
  /\ due \in BOOLEAN

NoBreakpoint == [address |-> Zero, original_instruction |-> 0]

Init ==
  /\ image \in Programs
  /\ mem = image
  /\ pc \in Code
  /\ goto \in Flow[pc]
  /\ phase = "run"
  /\ i = 0
  /\ trap_flags = {}
  /\ temporary_breakpoint = NoBreakpoint
  /\ breakpoints = [k \in Slots |-> NoBreakpoint]
  /\ trap_restore_idx = 0
  /\ registers_PC = pc
  /\ enable_serial_interrupt = FALSE
  /\ due = FALSE

-----------------------------------------------------------------------------
(* The processor outside the handler. *)

\* One instruction of the program, which may store a byte in the program.
Execute ==
  /\ phase = "run"
  /\ mem[pc] # RST08
  /\ pc' = goto
  /\ goto' \in Flow[goto]
  /\ due' = FALSE
  /\ \/ UNCHANGED <<mem, image>>
     \/ \E a \in Stores : \E byte \in Own[a] :
          /\ a # temporary_breakpoint.address \/ Allowed(OverwriteStep)
          /\ mem' = [mem EXCEPT ![a] = byte]
          /\ image' = [image EXCEPT ![a] = byte]
  /\ UNCHANGED <<phase, i, trap_flags, temporary_breakpoint, breakpoints,
                 trap_restore_idx, registers_PC, enable_serial_interrupt>>

\* The im1_entry interrupt reads a Ctrl-C and plants RST 08 at the address the
\* interrupt returns to.
BreakIn ==
  /\ phase = "run"
  /\ enable_serial_interrupt
  /\ temporary_breakpoint.address = Zero \/ Allowed(BusyBreakIn)
  /\ enable_serial_interrupt' = FALSE
  /\ temporary_breakpoint' = [address |-> pc, original_instruction |-> mem[pc]]
  /\ mem' = [mem EXCEPT ![pc] = RST08]
  /\ trap_flags' = trap_flags \union {"STEP"}
  /\ due' = FALSE
  /\ UNCHANGED <<image, pc, goto, phase, i, breakpoints, trap_restore_idx, registers_PC>>

-----------------------------------------------------------------------------
(* rst8_c_trap up to the GDB loop. *)

\* An RST 08 whose hook has itself been overwritten calls itself for ever, and nothing
\* of the handler runs any more.
Trapped ==
  /\ phase = "run"
  /\ mem[pc] = RST08
  /\ mem[Hook] = JP

AtTemporary == temporary_breakpoint.address = pc /\ pc # Zero

\* The byte under the temporary breakpoint goes back.
PutBackForgotten == mem
PutBack == [mem EXCEPT ![pc] = temporary_breakpoint.original_instruction]

\* A step stops, whether or not a breakpoint was deferred as well.
SteppingUnlessDeferred == {"STEP", "RESTORE"} \intersect trap_flags = {"STEP"}
Stepping == "STEP" \in trap_flags

\* The deferred breakpoint goes back, whether the program runs on or the host steps.
RearmingUnlessStepping == {"STEP", "RESTORE"} \intersect trap_flags = {"RESTORE"}
Rearming == "RESTORE" \in trap_flags

FlagsAfterHit == (trap_flags \ {"RESTORE", "STEP"}) \union {"HIT"}

\* The trap is the temporary breakpoint: put its byte back, set again the
\* breakpoint that was deferred, and stop only if this was a step.
TemporaryHit ==
  /\ Trapped /\ AtTemporary
  /\ LET deferred == breakpoints[trap_restore_idx].address
     IN IF Rearming
          THEN /\ mem' = [PutBack EXCEPT ![deferred] = RST08]
               /\ breakpoints' = [breakpoints EXCEPT
                    ![trap_restore_idx].original_instruction = PutBack[deferred]]
          ELSE mem' = PutBack /\ UNCHANGED breakpoints
  /\ trap_flags' = FlagsAfterHit
  /\ phase' = IF Stepping THEN "unplant" ELSE "run"
  /\ enable_serial_interrupt' = ~Stepping
  /\ temporary_breakpoint' = [temporary_breakpoint EXCEPT !.address = Zero]
  /\ registers_PC' = pc
  /\ i' = 0
  /\ UNCHANGED <<image, pc, goto, trap_restore_idx, due>>

\* Any other RST 08: a breakpoint, or one in the program's own code.
BreakpointHit ==
  /\ Trapped /\ ~AtTemporary
  /\ trap_flags' = trap_flags \ {"HIT"}
  /\ phase' = "unplant"
  /\ i' = 0
  /\ enable_serial_interrupt' = FALSE
  /\ registers_PC' = pc
  /\ UNCHANGED <<mem, image, pc, goto, temporary_breakpoint, breakpoints, trap_restore_idx, due>>

\* The end of one round of a loop over the slots, before the phase next.
LoopTo(last, next) ==
  IF i = last
    THEN phase' = next /\ i' = 0
    ELSE i' = i + 1 /\ UNCHANGED phase

NextSlotTooFar(next)   == LoopTo(MaxBreakpoints, next)
NextSlotTooShort(next) == LoopTo(MaxBreakpoints - 2, next)
NextSlot(next) == LoopTo(MaxBreakpoints - 1, next)

\* The RST 08 of a breakpoint is still there.
InPlaceElsewhere(a) == mem[a] = RST08 /\ a # pc
InPlace(a) == mem[a] = RST08

\* One round of the loop that takes the breakpoints out of memory.
Unplant ==
  /\ phase = "unplant"
  /\ LET a == breakpoints[i].address
     IN \/ /\ a = Zero
           /\ UNCHANGED <<mem, breakpoints, trap_flags>>
        \/ /\ a # Zero /\ InPlace(a)
           /\ mem' = [mem EXCEPT ![a] = breakpoints[i].original_instruction]
           /\ trap_flags' = IF a = pc THEN trap_flags \union {"HIT"} ELSE trap_flags
           /\ UNCHANGED breakpoints
        \/ /\ a # Zero /\ ~InPlace(a)
           /\ breakpoints' = [breakpoints EXCEPT ![i].address = Zero]
           /\ UNCHANGED <<mem, trap_flags>>
  /\ NextSlot("stopped")
  /\ UNCHANGED <<image, pc, goto, temporary_breakpoint, trap_restore_idx, registers_PC,
                 enable_serial_interrupt, due>>

-----------------------------------------------------------------------------
(* The commands of the GDB loop, process_packet in server.c. *)

\* Z: the first free slot; an error, and no change, when there is none.
PlaceBreakpoint(a) ==
  /\ phase = "stopped"
  /\ a \notin Active \/ Allowed(SecondZ)
  /\ \E k \in Slots :
       /\ breakpoints[k].address = Zero
       /\ \A j \in Slots : j < k => breakpoints[j].address # Zero
       /\ breakpoints' = [breakpoints EXCEPT ![k].address = a]
  /\ UNCHANGED <<mem, image, pc, goto, phase, i, trap_flags, temporary_breakpoint,
                 trap_restore_idx, registers_PC, enable_serial_interrupt, due>>

\* z: the first slot with the address.
DeleteBreakpoint(a) ==
  /\ phase = "stopped"
  /\ \E k \in Slots :
       /\ breakpoints[k].address = a
       /\ \A j \in Slots : j < k => breakpoints[j].address # a
       /\ breakpoints' = [breakpoints EXCEPT ![k].address = Zero]
  /\ UNCHANGED <<mem, image, pc, goto, phase, i, trap_flags, temporary_breakpoint,
                 trap_restore_idx, registers_PC, enable_serial_interrupt, due>>

\* M: the user's byte becomes the program's.
WriteMemory(a, byte) ==
  /\ phase = "stopped"
  /\ mem' = [mem EXCEPT ![a] = byte]
  /\ image' = [image EXCEPT ![a] = byte]
  /\ UNCHANGED <<pc, goto, phase, i, trap_flags, temporary_breakpoint, breakpoints,
                 trap_restore_idx, registers_PC, enable_serial_interrupt, due>>

\* G or P: the program counter, or a register the next instruction depends on.
WriteRegister(a) ==
  /\ phase = "stopped"
  /\ registers_PC' = a
  /\ goto' \in Flow[a]
  /\ UNCHANGED <<mem, image, pc, phase, i, trap_flags, temporary_breakpoint, breakpoints,
                 trap_restore_idx, enable_serial_interrupt, due>>

\* Resuming at registers_PC executes the instruction calculateStep looked at.
Predictable ==
  /\ mem[registers_PC] # RST08
  /\ registers_PC # pc \/ "HIT" \in trap_flags

LeaveLoop ==
  /\ phase' = "plant"
  /\ i' = 0
  /\ UNCHANGED <<mem, image, pc, goto, breakpoints, trap_restore_idx, registers_PC,
                 enable_serial_interrupt, due>>

Continue ==
  /\ phase = "stopped"
  /\ registers_PC \in Active => Predictable \/ Allowed(StepAtRST)
  /\ UNCHANGED <<trap_flags, temporary_breakpoint>>
  /\ LeaveLoop

Step ==
  /\ phase = "stopped"
  /\ Predictable \/ Allowed(StepAtRST)
  /\ trap_flags' = trap_flags \union {"STEP"}
  /\ UNCHANGED temporary_breakpoint
  /\ LeaveLoop

\* i: the host names the address to run to, past a call.
StepOver(target) ==
  /\ phase = "stopped"
  /\ Allowed(NestedTrap) \/ /\ Active \subseteq {registers_PC}
                            /\ \A a \in Code : mem[a] # RST08
  /\ temporary_breakpoint' = [temporary_breakpoint EXCEPT !.address = target]
  /\ trap_flags' = trap_flags \union {"STEP", "FORCE"}
  /\ LeaveLoop

-----------------------------------------------------------------------------
(* rst8_c_trap from the GDB loop to its return. *)

\* The breakpoint at PC is deferred: the instruction under it is to run.
NeverDeferred(k) == FALSE
Deferring(k) == breakpoints[k].address = registers_PC

\* The byte to hold for a breakpoint is what memory has now.
OriginalAsBefore(k) == breakpoints[k].original_instruction
Original(k) == mem[breakpoints[k].address]

\* One round of the loop that plants the breakpoints.
Plant ==
  /\ phase = "plant"
  /\ LET a == breakpoints[i].address
     IN \/ /\ a = Zero
           /\ UNCHANGED <<mem, breakpoints, trap_flags, trap_restore_idx>>
        \/ /\ a # Zero /\ Deferring(i)
           /\ trap_restore_idx' = i
           /\ trap_flags' = trap_flags \union {"RESTORE"}
           /\ UNCHANGED <<mem, breakpoints>>
        \/ /\ a # Zero /\ ~Deferring(i)
           /\ breakpoints' = [breakpoints EXCEPT ![i].original_instruction = Original(i)]
           /\ mem' = [mem EXCEPT ![a] = RST08]
           /\ UNCHANGED <<trap_flags, trap_restore_idx>>
  /\ NextSlot("resume")
  /\ UNCHANGED <<image, pc, goto, temporary_breakpoint, registers_PC,
                 enable_serial_interrupt, due>>

\* What the step decoder may return: the stub's own hook at an RST 08, where the
\* instruction goes, or another address where it misreads the instruction (JP (IX),
\* JP (IY) and the relative jumps backwards, see Z80Decode).
calculateStep ==
  IF mem[registers_PC] = RST08 THEN {Hook}
  ELSE IF Allowed(Misread) THEN Code ELSE {goto}

NextAddresses == IF "FORCE" \in trap_flags THEN {temporary_breakpoint.address} ELSE calculateStep

NeedsTemporary == trap_flags \intersect {"STEP", "RESTORE"} # {}

\* The program asked for the trap itself and PC was left alone.
PastRSTWhereverPCIs == "HIT" \notin trap_flags
PastRST == registers_PC = pc /\ "HIT" \notin trap_flags

\* Plant the temporary breakpoint if one is needed and return to the program.
Resume ==
  /\ phase = "resume"
  /\ IF NeedsTemporary
       THEN /\ \E next_addr \in NextAddresses :
                 /\ temporary_breakpoint' = [address |-> next_addr,
                                             original_instruction |-> mem[next_addr]]
                 /\ mem' = [mem EXCEPT ![next_addr] = RST08]
            /\ trap_flags' = trap_flags \ {"FORCE"}
       ELSE UNCHANGED <<temporary_breakpoint, mem, trap_flags>>
  /\ IF PastRST
       THEN pc' = After[pc] /\ goto' \in Flow[pc']
       ELSE pc' = registers_PC /\ UNCHANGED goto
  /\ due' = (NeedsTemporary /\ ~PastRST)
  /\ phase' = "run"
  /\ enable_serial_interrupt' = TRUE
  /\ UNCHANGED <<image, i, breakpoints, trap_restore_idx, registers_PC>>

-----------------------------------------------------------------------------
Handler == TemporaryHit \/ BreakpointHit \/ Unplant \/ Plant \/ Resume

Processor == Execute \/ Handler

Host ==
  \/ BreakIn
  \/ \E a \in Code : PlaceBreakpoint(a) \/ DeleteBreakpoint(a) \/ WriteRegister(a)
  \/ \E a \in Patches : \E byte \in Own[a] \union {RST08} : WriteMemory(a, byte)
  \/ Continue \/ Step
  \/ \E target \in Skip[registers_PC] : StepOver(target)

Next == Processor \/ Host

Spec == Init /\ [][Next]_vars

\* The processor never pauses; what the host sends is its own business.
FairSpec == Spec /\ WF_vars(Processor)

-----------------------------------------------------------------------------
(* Properties. *)

\* A program with no jump to address 0 and no instruction that may jump to
\* itself, used without any of the liberties.
Regular ==
  /\ Liberties = {}
  /\ \A a \in Code : a # Zero /\ a \notin Flow[a] /\ a \notin Skip[a]

\* While the host examines the program it sees the program's own bytes: the loop
\* before the GDB loop takes every RST 08 of the stub out of memory.
StoppedTransparent == phase = "stopped" => mem = image

\* No byte of one address is ever written to another: the handler puts back
\* what was there, or RST 08.
Unmixed == \A a \in Address : mem[a] \in Own[a] \union {RST08}

\* No breakpoint, temporary or not, is planted over the stub's own hook.
HookIntact == mem[Hook] = JP

\* The instruction a continue or a step starts from is there to be executed: the
\* resumed program does not trap again at once on an RST 08 of the stub.
ResumeExecutes == phase = "run" /\ due => mem[pc] # RST08

\* The program never runs past an enabled breakpoint, except for the one it was
\* resumed from and those whose byte it may have overwritten.
Guarded ==
  \A k \in Slots :
    /\ phase = "run"
    /\ breakpoints[k].address = pc
    /\ pc \notin Stores \union {Zero}
    => mem[pc] = RST08 \/ ("RESTORE" \in trap_flags /\ trap_restore_idx = k)

\* A temporary breakpoint is pending exactly while the handler has a reason to
\* be called back.
Pending ==
  phase = "run" => (temporary_breakpoint.address # Zero
                      <=> trap_flags \intersect {"STEP", "RESTORE"} # {})

\* The loop that takes breakpoints out drops one only where the program may have
\* changed the byte.
Kept ==
  [][\A k \in Slots : phase = "unplant" /\ breakpoints[k].address \notin Stores
        => breakpoints'[k].address = breakpoints[k].address]_vars

\* The byte the handler leaves behind when it returns for good is the program's
\* own or RST 08 at a breakpoint: nothing else of a step survives it.
NoResidue ==
  phase = "run" /\ temporary_breakpoint.address = Zero
    => \A a \in Address \ Active : mem[a] = image[a]

\* A step, or a break-in, ends in the GDB loop.
StepStops ==
  (phase = "run" /\ "STEP" \in trap_flags /\ temporary_breakpoint.address \in {pc, goto})
    ~> phase = "stopped"

\* The RST 08 of a breakpoint lifted to execute the instruction under it comes back.
Rearmed ==
  \A a \in Code :
    (/\ phase = "run" /\ "RESTORE" \in trap_flags
     /\ breakpoints[trap_restore_idx].address = a
     /\ temporary_breakpoint.address = goto)
      ~> mem[a] = RST08
=============================================================================
