------------------------------ MODULE Rst8Entry ------------------------------
(***************************************************************************)
(* The way into the trap handler and out of it in pcw_rst8.asm, with the   *)
(* interrupts that can come between two of its instructions: rst8_entry,   *)
(* handleInterruptState, the im1_entry hook and the isr_epilogue it leaves *)
(* on the stack.  The state the entry code keeps is in single cells        *)
(* (_rst8_sp_copy, ints_enabled_flag, the private stack), so an activation *)
(* that starts before the last one has ended shares them with it.          *)
(*                                                                         *)
(* pc is the place of the next instruction.  Instructions that run with    *)
(* interrupts disabled are taken together; where interrupts may be enabled *)
(* every instruction is a step.  rst8_c_trap, one step here, is the module *)
(* TrapHandler.                                                            *)
(***************************************************************************)
EXTENDS Naturals, Sequences, FiniteSets

CONSTANTS
  Traps,          \* the places outside the stub where a breakpoint may be hit
  BreakIns,       \* the places where an interrupt may find a Ctrl-C
  ParityLost,     \* an interrupt after LD A,I clears the parity it has set
  MaxInterrupts   \* bound: interrupts in progress at a time

InEntry    == {"hook", "rst8_entry", "handleInterruptState", "ld_a_i", "di"}
InTrap     == {"disabled", "rst8_c_trap"}
InExit     == {"ei", "pop_af", "ld_sp", "ret"}
InISR      == {"orig_rst38", "orig_ret"}
InEpilogue == {"isr_epilogue", "load", "store", "epilogue_ret"}
Place      == {"program"} \union InEntry \union InTrap \union InExit
                          \union InISR \union InEpilogue
None == "none"

ASSUME PlacesAssumption ==
  /\ Traps \subseteq {"program"} \union InISR
  /\ BreakIns \subseteq Place
ASSUME ParityAssumption == ParityLost \in BOOLEAN
ASSUME BoundAssumption  == MaxInterrupts \in Nat

\* Every trap but one interrupts an interrupt, or the stub goes round in circles.
MaxFrames == 2 * MaxInterrupts + 2

VARIABLES
  pc,                     \* the next instruction, or "lost" with a wild stack
  stack,                  \* what traps and interrupts pushed on the program's stack
  private,                \* the same on safe_stack
  sp,                     \* the stack that SP is in
  iff,                    \* interrupts are enabled
  shadow,                 \* the instruction before was EI
  parity,                 \* the flag that LD A,I set
  ints_enabled_flag,
  rst8_sp_copy,
  interrupt_depth,
  enable_serial_interrupt,
  temporary_breakpoint,   \* where im1_entry planted its RST 08
  ctrl_c                  \* the DART has received a Ctrl-C

vars == <<pc, stack, private, sp, iff, shadow, parity, ints_enabled_flag, rst8_sp_copy,
          interrupt_depth, enable_serial_interrupt, temporary_breakpoint, ctrl_c>>

\* The place to return to.  A trap's frame also has the flags at the trap, which
\* rst8_entry saves, and the interrupt enable it should restore; an interrupt's has
\* the register A of its epilogue.
Frame ==
  [by : {"trap"}, to : Place, parity : BOOLEAN, iff : BOOLEAN]
    \union [by : {"interrupt"}, to : Place, a : 0 .. MaxInterrupts]

TypeOK ==
  /\ pc \in Place \union {"lost"}
  /\ stack \in Seq(Frame) /\ Len(stack) <= MaxFrames
  /\ private \in Seq(Frame) /\ Len(private) <= MaxFrames
  /\ sp \in {"program", "private"}
  /\ iff \in BOOLEAN /\ shadow \in BOOLEAN /\ parity \in BOOLEAN
  /\ ints_enabled_flag \in BOOLEAN
  /\ rst8_sp_copy \in [on : {"program", "private"}, frames : 0 .. MaxFrames]
  /\ interrupt_depth \in 0 .. MaxInterrupts
  /\ enable_serial_interrupt \in BOOLEAN
  /\ temporary_breakpoint \in Place \union {None}
  /\ ctrl_c \in BOOLEAN

Init ==
  /\ pc = "program"
  /\ stack = <<>> /\ private = <<>>
  /\ sp = "program"
  /\ iff = TRUE /\ shadow = FALSE /\ parity = FALSE
  /\ ints_enabled_flag = FALSE
  /\ rst8_sp_copy = [on |-> "program", frames |-> 0]
  /\ interrupt_depth = 0
  /\ enable_serial_interrupt = FALSE
  /\ temporary_breakpoint = None
  /\ ctrl_c = FALSE

stacks == <<stack, private, sp>>
saved  == <<ints_enabled_flag, rst8_sp_copy>>
serial == <<enable_serial_interrupt, temporary_breakpoint, ctrl_c>>

Current == IF sp = "program" THEN stack ELSE private
Top     == Current[Len(Current)]
SetCurrent(frames) ==
  IF sp = "program" THEN stack' = frames /\ UNCHANGED <<private, sp>>
                    ELSE private' = frames /\ UNCHANGED <<stack, sp>>
Pop     == SetCurrent(SubSeq(Current, 1, Len(Current) - 1))

\* The instruction at a place, unless an RST 08 has been planted over it.
At(place) == pc = place /\ temporary_breakpoint # place /\ shadow' = FALSE

-----------------------------------------------------------------------------
(* The program, and RST 08. *)

\* One instruction of the program, DI and EI among them.
Execute ==
  /\ pc = "program" /\ temporary_breakpoint # "program"
  /\ \E enabled \in BOOLEAN : \E isEI \in BOOLEAN :
       /\ isEI => enabled
       /\ enabled /\ ~isEI => iff
       /\ iff' = enabled
       /\ shadow' = isEI
  /\ UNCHANGED <<pc, stacks, parity, saved, interrupt_depth, serial>>

\* An RST 08, planted by im1_entry or as a breakpoint, goes to the hook at 0008h.
RST ==
  /\ pc # "lost"
  /\ pc = temporary_breakpoint \/ pc \in Traps
  /\ shadow' = FALSE
  /\ IF Len(Current) < MaxFrames
       THEN /\ pc' = "hook"
            /\ SetCurrent(Append(Current,
                 [by |-> "trap", to |-> pc, parity |-> parity, iff |-> iff]))
       ELSE pc' = "lost" /\ UNCHANGED stacks
  /\ UNCHANGED <<iff, parity, saved, interrupt_depth, serial>>

-----------------------------------------------------------------------------
(* rst8_entry. *)

\* JP rst8_entry, CALL handleInterruptState and PUSH AF.
Enter ==
  /\ \E move \in {<<"hook", "rst8_entry">>,
                  <<"rst8_entry", "handleInterruptState">>,
                  <<"handleInterruptState", "ld_a_i">>} :
       At(move[1]) /\ pc' = move[2]
  /\ UNCHANGED <<stacks, iff, parity, saved, interrupt_depth, serial>>

LoadParity ==
  /\ At("ld_a_i")
  /\ pc' = "di"
  /\ parity' = iff
  /\ UNCHANGED <<stacks, iff, saved, interrupt_depth, serial>>

DisableInterrupts ==
  /\ At("di")
  /\ pc' = "disabled"
  /\ iff' = FALSE
  /\ UNCHANGED <<stacks, parity, saved, interrupt_depth, serial>>

\* Interrupts inside an interrupt are taken to be disabled.
EnabledAlways == TRUE
Enabled == parity /\ interrupt_depth = 0

\* Keep what is needed on the way out and switch to the private stack, from its top.
SPAfterTheSwitch == [on |-> "private", frames |-> 0]
SPAtTheTrap == [on |-> sp, frames |-> Len(Current)]

Save ==
  /\ At("disabled")
  /\ pc' = "rst8_c_trap"
  /\ ints_enabled_flag' = Enabled
  /\ rst8_sp_copy' = SPAtTheTrap
  /\ sp' = "private"
  /\ private' = <<>>
  /\ enable_serial_interrupt' = FALSE
  /\ UNCHANGED <<stack, iff, parity, interrupt_depth, temporary_breakpoint, ctrl_c>>

\* rst8_c_trap takes the RST 08 out if it is the one that was hit.  A Ctrl-C that
\* is there may be read by the GDB loop or come too late for it.
TrappedAt ==
  LET on == IF rst8_sp_copy.on = "program" THEN stack ELSE private
  IN IF rst8_sp_copy.frames \in 1 .. Len(on) THEN on[rst8_sp_copy.frames].to ELSE "lost"

Handle ==
  /\ At("rst8_c_trap")
  /\ pc' = IF ints_enabled_flag THEN "ei" ELSE "pop_af"
  /\ temporary_breakpoint' =
       IF temporary_breakpoint = TrappedAt THEN None ELSE temporary_breakpoint
  /\ enable_serial_interrupt' = TRUE
  /\ \E unread \in BOOLEAN : ctrl_c' = (ctrl_c /\ unread)
  /\ UNCHANGED <<stacks, iff, parity, saved, interrupt_depth>>

EnableInterrupts ==
  /\ pc = "ei" /\ temporary_breakpoint # "ei"
  /\ pc' = "pop_af"
  /\ iff' = TRUE
  /\ shadow' = TRUE
  /\ UNCHANGED <<stacks, parity, saved, interrupt_depth, serial>>

PopAF ==
  /\ At("pop_af")
  /\ pc' = "ld_sp"
  /\ UNCHANGED <<stacks, iff, parity, saved, interrupt_depth, serial>>

LoadSP ==
  /\ At("ld_sp")
  /\ pc' = "ret"
  /\ sp' = rst8_sp_copy.on
  /\ IF rst8_sp_copy.on = "program"
       THEN stack' = SubSeq(stack, 1, rst8_sp_copy.frames) /\ UNCHANGED private
       ELSE UNCHANGED <<stack, private>>
  /\ UNCHANGED <<iff, parity, saved, interrupt_depth, serial>>

\* The private stack of an activation that began on it has been written over.
Return ==
  /\ At("ret")
  /\ \/ Current # <<>> /\ pc' = Top.to /\ parity' = Top.parity /\ Pop
     \/ Current = <<>> /\ pc' = "lost" /\ UNCHANGED <<stacks, parity>>
  /\ UNCHANGED <<iff, saved, interrupt_depth, serial>>

-----------------------------------------------------------------------------
(* Interrupts. *)

Interrupts(frames) == Cardinality({k \in DOMAIN frames : frames[k].by = "interrupt"})
Level == Interrupts(stack) + Interrupts(private)

BreaksIn == enable_serial_interrupt /\ ctrl_c

\* im1_entry up to the jump to the original handler.  The first Ctrl-C since the
\* last trap plants RST 08 at the place the interrupt returns to.
StaleReturnAddress == "ei"
ReturnAddress == pc

Interrupt ==
  /\ pc # "lost" /\ iff /\ ~shadow
  /\ Level < MaxInterrupts /\ Len(Current) < MaxFrames
  /\ BreaksIn => pc \in BreakIns /\ temporary_breakpoint = None
  /\ pc' = "orig_rst38"
  /\ iff' = FALSE
  /\ SetCurrent(Append(Current, [by |-> "interrupt", to |-> pc, a |-> 0]))
  /\ parity' = (parity /\ ~(ParityLost /\ pc = "di"))
  /\ interrupt_depth' = interrupt_depth + 1
  /\ enable_serial_interrupt' = (enable_serial_interrupt /\ ~BreaksIn)
  /\ temporary_breakpoint' = IF BreaksIn THEN ReturnAddress ELSE temporary_breakpoint
  /\ ctrl_c' = (ctrl_c /\ ~BreaksIn)
  /\ UNCHANGED <<shadow, saved>>

\* The original handler runs with interrupts disabled and ends in EI and RET, to
\* isr_epilogue.
ServiceEnds ==
  /\ pc = "orig_rst38" /\ temporary_breakpoint # "orig_rst38"
  /\ pc' = "orig_ret"
  /\ iff' = TRUE
  /\ shadow' = TRUE
  /\ UNCHANGED <<stacks, parity, saved, interrupt_depth, serial>>

\* The RET of the original handler, and PUSH AF.
Leave ==
  /\ \E move \in {<<"orig_ret", "isr_epilogue">>, <<"isr_epilogue", "load">>} :
       At(move[1]) /\ pc' = move[2]
  /\ UNCHANGED <<stacks, iff, parity, saved, interrupt_depth, serial>>

LoadDepth ==
  /\ At("load")
  /\ pc' = "store"
  /\ SetCurrent([Current EXCEPT ![Len(Current)].a = interrupt_depth])
  /\ UNCHANGED <<iff, parity, saved, interrupt_depth, serial>>

DepthCleared == 0
DepthLess == Top.a - 1

StoreDepth ==
  /\ At("store")
  /\ pc' = "epilogue_ret"
  /\ interrupt_depth' = DepthLess
  /\ UNCHANGED <<stacks, iff, parity, saved, serial>>

ReturnFromInterrupt ==
  /\ At("epilogue_ret")
  /\ pc' = Top.to
  /\ Pop
  /\ UNCHANGED <<iff, parity, saved, interrupt_depth, serial>>

\* The host sends a Ctrl-C.
SendCtrlC ==
  /\ ~ctrl_c
  /\ ctrl_c' = TRUE
  /\ UNCHANGED <<pc, stacks, iff, shadow, parity, saved, interrupt_depth,
                 enable_serial_interrupt, temporary_breakpoint>>

-----------------------------------------------------------------------------
Entry    == Enter \/ LoadParity \/ DisableInterrupts \/ Save
Exit     == Handle \/ EnableInterrupts \/ PopAF \/ LoadSP \/ Return
Epilogue == Leave \/ LoadDepth \/ StoreDepth \/ ReturnFromInterrupt

Next == Execute \/ RST \/ Entry \/ Exit
          \/ Interrupt \/ ServiceEnds \/ Epilogue \/ SendCtrlC

Spec == Init /\ [][Next]_vars

\* Interrupts are short and far enough apart not to starve the code they interrupt,
\* at any depth of nesting: what is about to execute again and again is executed.
Processor == Execute \/ RST \/ Entry \/ Exit \/ ServiceEnds \/ Epilogue
Fairness ==
  \A level \in 0 .. MaxInterrupts : SF_vars(Level = level /\ Processor)

LiveSpec == Spec /\ Fairness

-----------------------------------------------------------------------------
(* Properties. *)

\* rst8_entry knows where it came from and finds its way back: rst8_c_trap can read
\* the trap's return address, and when the RET executes SP is in the program's
\* stack and at the frame of a trap, although the cell SP was kept in and the
\* private stack are the same for every activation (lines 199-202, 229-230).
StackKept ==
  /\ pc # "lost"
  /\ pc = "rst8_c_trap" => TrappedAt # "lost"
  /\ pc = "ret" => sp = "program" /\ stack # <<>> /\ Top.by = "trap"

\* The interrupted code gets its interrupt enable back as it was when the RST 08
\* executed, whether it was in the program or an interrupt came on the way in
\* ("so we can restore them later", line 167).
InterruptsKept == [][Return /\ Current # <<>> => iff = Top.iff]_vars

\* interrupt_depth counts the interrupts whose isr_epilogue has not stored its
\* count yet, although the epilogue loads it, decrements it and stores it with
\* interrupts enabled (lines 303-312).
Stored(frames)     == Cardinality({k \in DOMAIN frames : frames[k].to = "epilogue_ret"})

DepthCounts ==
  interrupt_depth + Stored(stack) + Stored(private) + (IF pc = "epilogue_ret" THEN 1 ELSE 0)
    = Level

\* A Ctrl-C that im1_entry has taken from the DART ends in the GDB loop.
BreakInStops == temporary_breakpoint # None ~> pc = "rst8_c_trap"
=============================================================================
