------------------------------ MODULE Rst8Proofs ------------------------------
(***************************************************************************)
(* The way into the trap handler and out of it, for any number of          *)
(* interrupts in progress: every trap finds its way back with the          *)
(* interrupt enable it came with, and the epilogues keep the count right.  *)
(*                                                                         *)
(* The argument is about who is interrupted by whom.  Every frame on a     *)
(* stack has code of its own above it, and only the program, at the        *)
(* bottom, can trap; so the single cells of rst8_entry are used by one     *)
(* activation at a time, and an epilogue that was interrupted between its  *)
(* load and its store finds the count as it left it.                       *)
(***************************************************************************)
EXTENDS Rst8Entry, FiniteSetTheorems, SequenceTheorems, TLAPS

\* Breakpoints and break-ins in the program only, and a processor that keeps the
\* parity of LD A,I.
Regular ==
  /\ Traps \subseteq {"program"} /\ BreakIns \subseteq {"program"}
  /\ ~ParityLost

-----------------------------------------------------------------------------
(* The inductive invariant. *)

OnPrivate == {"rst8_c_trap", "ei", "pop_af", "ld_sp"}
OnProgram == InEntry \union {"disabled", "ret"}

\* Where the code above a frame may stand: what the frame's own trap or interrupt
\* started.  Below the first frame of the private stack it is the trap handler.
Floor == IF sp = "program" THEN {"program"} ELSE OnPrivate
Started(frame) == IF frame.by = "trap" THEN OnProgram ELSE InISR \union InEpilogue
Region(k) == IF k = 0 THEN Floor ELSE Started(Current[k])

\* Where it stands.
Standing(k) == IF k = Len(Current) THEN pc ELSE Current[k + 1].to

Nested ==
  /\ \A k \in 0 .. Len(Current) : Standing(k) \in Region(k)
  /\ \A k \in 1 .. Len(Current) : Current[k].by = "trap" => k = 1 /\ sp = "program"
  /\ sp = "program" => private = <<>>
  /\ temporary_breakpoint \in {None, "program"}

\* The cells of rst8_entry belong to the one trap there is.
Kept ==
  sp = "private" =>
    /\ Len(stack) = 1 /\ stack[1].by = "trap" /\ stack[1].to = "program"
    /\ rst8_sp_copy = [on |-> "program", frames |-> 1]

\* The interrupt enable at the trap is in the processor, in the parity, or in the
\* flag, and in the processor again; whoever is interrupted had interrupts enabled.
Uncovered == Current = <<>> \/ (sp = "program" /\ Len(stack) = 1)
TrapStands == IF sp = "program" THEN Standing(1) ELSE Standing(0)
Quiet   == {"disabled", "rst8_c_trap", "ei"}

EnableKept ==
  stack # <<>> /\ stack[1].by = "trap" =>
    /\ TrapStands \notin Quiet /\ Uncovered => iff = stack[1].iff
    /\ ~Uncovered => stack[1].iff /\ TrapStands \notin Quiet
    /\ TrapStands \in {"di", "disabled"} => parity = stack[1].iff
    /\ TrapStands \in {"rst8_c_trap", "ei"} => ints_enabled_flag = stack[1].iff
    /\ TrapStands = "ei" => stack[1].iff
    /\ TrapStands \in Quiet => ~iff

ServedEnabled == pc \in InEpilogue \union {"orig_ret"} => iff

\* The interrupts up to a frame, and those of them whose epilogue has stored its count.
Ints(frames, k)   == Cardinality({j \in 1 .. k : frames[j].by = "interrupt"})
Stores(frames, k) == Cardinality({j \in 1 .. k : frames[j].to = "epilogue_ret"})
Pending(k)        == Ints(Current, k) - Stores(Current, k)

\* Until then there is one to take off, and what an epilogue has loaded stays right
\* while it is interrupted.
Counted ==
  \A k \in 1 .. Len(Current) : Current[k].by = "interrupt" =>
    /\ Pending(k) > 0
    /\ Standing(k) = "store" => Current[k].a = Pending(k)

Leaving(place) == IF place = "epilogue_ret" THEN 1 ELSE 0
Depth == interrupt_depth + Leaving(pc) = Pending(Len(Current))

IInv == TypeOK /\ Nested /\ Kept /\ EnableKept /\ ServedEnabled /\ Depth /\ Counted

-----------------------------------------------------------------------------
(* Counting. *)

LEMMA CountEmpty ==
  ASSUME NEW frames
  PROVE  Ints(frames, 0) = 0 /\ Stores(frames, 0) = 0
<1>1. {j \in 1 .. 0 : frames[j].by = "interrupt"} = {} /\ {j \in 1 .. 0 : frames[j].to = "epilogue_ret"} = {}
  OBVIOUS
<1> QED
  BY <1>1, FS_EmptySet DEF Ints, Stores

LEMMA CountNat ==
  ASSUME NEW frames, NEW k \in Nat
  PROVE  Ints(frames, k) \in Nat /\ Stores(frames, k) \in Nat
<1>1. IsFiniteSet(1 .. k)
  BY FS_Interval
<1>2. ASSUME NEW S \in SUBSET (1 .. k)
      PROVE  Cardinality(S) \in Nat
  BY <1>1, FS_Subset, FS_CardinalityType
<1>3. /\ {j \in 1 .. k : frames[j].by = "interrupt"} \in SUBSET (1 .. k)
      /\ {j \in 1 .. k : frames[j].to = "epilogue_ret"} \in SUBSET (1 .. k)
  OBVIOUS
<1> QED
  BY <1>2, <1>3 DEF Ints, Stores

\* One frame more.
LEMMA CountStep ==
  ASSUME NEW frames, NEW k \in Nat
  PROVE  /\ Ints(frames, k + 1) = Ints(frames, k) + (IF frames[k + 1].by = "interrupt" THEN 1 ELSE 0)
         /\ Stores(frames, k + 1) = Stores(frames, k) + Leaving(frames[k + 1].to)
<1> DEFINE I(n) == {j \in 1 .. n : frames[j].by = "interrupt"}
           S(n) == {j \in 1 .. n : frames[j].to = "epilogue_ret"}
<1>1. IsFiniteSet(1 .. k)
  BY FS_Interval
<1>2. IsFiniteSet(I(k)) /\ IsFiniteSet(S(k))
  BY <1>1, FS_Subset
<1>3. I(k + 1) = IF frames[k + 1].by = "interrupt" THEN I(k) \union {k + 1} ELSE I(k)
  OBVIOUS
<1>4. S(k + 1) = IF frames[k + 1].to = "epilogue_ret" THEN S(k) \union {k + 1} ELSE S(k)
  OBVIOUS
<1>5. k + 1 \notin I(k) /\ k + 1 \notin S(k)
  OBVIOUS
<1>6. Cardinality(I(k)) \in Nat /\ Cardinality(S(k)) \in Nat
  BY <1>2, FS_CardinalityType
<1> HIDE DEF I, S
<1>a. Cardinality(I(k) \union {k + 1}) = Cardinality(I(k)) + 1
  BY <1>2, <1>5, FS_AddElement
<1>b. Cardinality(S(k) \union {k + 1}) = Cardinality(S(k)) + 1
  BY <1>2, <1>5, FS_AddElement
<1>7. Cardinality(I(k + 1)) = Cardinality(I(k)) + (IF frames[k + 1].by = "interrupt" THEN 1 ELSE 0)
  BY <1>3, <1>6, <1>a
<1>8. Cardinality(S(k + 1)) = Cardinality(S(k)) + Leaving(frames[k + 1].to)
  BY <1>4, <1>6, <1>b DEF Leaving
<1> USE DEF I, S
<1> QED
  BY <1>7, <1>8 DEF Ints, Stores

\* A trap of the program counts for nothing.
LEMMA CountTrap ==
  ASSUME NEW frames, frames[1].by = "trap", frames[1].to = "program"
  PROVE  Ints(frames, 1) = 0 /\ Stores(frames, 1) = 0
<1>1. /\ Ints(frames, 0 + 1) = Ints(frames, 0) + (IF frames[0 + 1].by = "interrupt" THEN 1 ELSE 0)
      /\ Stores(frames, 0 + 1) = Stores(frames, 0) + Leaving(frames[0 + 1].to)
  BY CountStep
<1>2. Ints(frames, 0) = 0 /\ Stores(frames, 0) = 0
  BY CountEmpty
<1>3. 0 + 1 = 1
  OBVIOUS
<1>4. Ints(frames, 1) = 0 + (IF frames[1].by = "interrupt" THEN 1 ELSE 0) /\ Stores(frames, 1) = 0 + Leaving(frames[1].to)
  BY <1>1, <1>2, <1>3
<1> QED
  BY <1>4 DEF Leaving

\* Frames that agree up to one count the same up to it.
LEMMA CountSame ==
  ASSUME NEW f, NEW g, NEW k \in Nat,
         \A j \in 1 .. k : f[j].by = g[j].by /\ f[j].to = g[j].to
  PROVE  Ints(f, k) = Ints(g, k) /\ Stores(f, k) = Stores(g, k)
<1>1. {j \in 1 .. k : f[j].by = "interrupt"} = {j \in 1 .. k : g[j].by = "interrupt"}
  OBVIOUS
<1>2. {j \in 1 .. k : f[j].to = "epilogue_ret"} = {j \in 1 .. k : g[j].to = "epilogue_ret"}
  OBVIOUS
<1> QED
  BY <1>1, <1>2 DEF Ints, Stores

-----------------------------------------------------------------------------
(* The two stacks. *)

\* Only the stack in use matters: the other one is empty, or holds the trap's frame.
LEMMA CurrentTyped ==
  ASSUME TypeOK
  PROVE  Current \in Seq(Frame) /\ Len(Current) \in Nat /\ Len(Current) <= MaxFrames
BY DEF TypeOK, Current

LEMMA OneStack ==
  ASSUME TypeOK, Nested, Kept
  PROVE  /\ Level = Ints(Current, Len(Current))
         /\ Stored(stack) + Stored(private) = Stores(Current, Len(Current))
<1>1. stack \in Seq(Frame) /\ private \in Seq(Frame)
  BY DEF TypeOK
<1>2. DOMAIN stack = 1 .. Len(stack) /\ DOMAIN private = 1 .. Len(private)
  BY <1>1
<1>3. /\ Interrupts(stack) = Ints(stack, Len(stack)) /\ Stored(stack) = Stores(stack, Len(stack))
      /\ Interrupts(private) = Ints(private, Len(private)) /\ Stored(private) = Stores(private, Len(private))
  BY <1>2 DEF Interrupts, Stored, Ints, Stores
<1>4. Len(stack) \in Nat /\ Len(private) \in Nat
  BY <1>1
<1>5. CASE sp = "program"
  <2>1. private = <<>> /\ Current = stack
    BY <1>5 DEF Nested, Current
  <2>2. Len(private) = 0
    BY <2>1
  <2>3. Interrupts(private) = 0 /\ Stored(private) = 0
    BY <1>3, <2>2, CountEmpty
  <2>4. Ints(stack, Len(stack)) \in Nat /\ Stores(stack, Len(stack)) \in Nat
    BY <1>4, CountNat
  <2> QED
    BY <1>3, <2>1, <2>3, <2>4 DEF Level
<1>6. CASE sp = "private"
  <2>1. Current = private
    BY <1>6 DEF Current
  <2>2. Len(stack) = 1 /\ stack[1].by = "trap" /\ stack[1].to = "program"
    BY <1>6 DEF Kept
  <2>3. Ints(stack, 1) = 0 /\ Stores(stack, 1) = 0
    BY <2>2, CountTrap
  <2>4. Interrupts(stack) = 0 /\ Stored(stack) = 0
    BY <1>3, <2>2, <2>3
  <2>5. Ints(private, Len(private)) \in Nat /\ Stores(private, Len(private)) \in Nat
    BY <1>4, CountNat
  <2> QED
    BY <1>3, <2>1, <2>4, <2>5 DEF Level
<1> QED
  BY <1>5, <1>6 DEF TypeOK

\* What the place of the next instruction tells.
LEMMA Where ==
  ASSUME TypeOK, Nested, Kept
  PROVE  /\ pc # "lost" /\ pc \in Region(Len(Current))
         /\ pc = "program" => sp = "program" /\ Current = <<>> /\ stack = <<>>
         /\ pc \in OnProgram => /\ sp = "program" /\ Len(stack) = 1 /\ Len(Current) = 1
                                /\ stack[1].by = "trap" /\ stack[1].to = "program"
         /\ pc \in OnPrivate => sp = "private" /\ Current = <<>> /\ private = <<>>
         /\ pc \in InISR \union InEpilogue => Len(Current) > 0 /\ Top.by = "interrupt"
<1> DEFINE n == Len(Current)
<1>1. Current \in Seq(Frame) /\ n \in Nat /\ sp \in {"program", "private"}
  BY CurrentTyped DEF TypeOK
<1>2. pc \in Region(n)
  <2>1. Standing(n) \in Region(n)
    BY <1>1 DEF Nested
  <2> QED
    BY <2>1 DEF Standing
<1>3. CASE n = 0
  <2>1. Current = <<>> /\ pc \in Floor
    BY <1>1, <1>2, <1>3 DEF Region
  <2>2. sp = "program" => stack = <<>>
    BY <2>1 DEF Current
  <2>3. sp = "private" => private = <<>>
    BY <2>1 DEF Current
  <2> QED
    BY <1>1, <1>2, <2>1, <2>2, <2>3 DEF Floor, OnProgram, OnPrivate, InEntry, InISR, InEpilogue
<1>4. CASE n > 0 /\ Current[n].by = "trap"
  <2>1. pc \in OnProgram
    BY <1>1, <1>2, <1>4 DEF Region, Started
  <2>2. n = 1 /\ sp = "program"
    <3>1. n \in 1 .. n
      BY <1>1, <1>4
    <3> QED
      BY <1>4, <3>1 DEF Nested
  <2>3. stack = Current
    BY <2>2 DEF Current
  <2>4. Standing(0) \in Region(0)
    BY <1>1 DEF Nested
  <2>5. stack[1].to = "program"
    BY <2>2, <2>3, <2>4 DEF Standing, Region, Floor
  <2> QED
    BY <1>1, <1>2, <1>4, <2>1, <2>2, <2>3, <2>5 DEF OnProgram, OnPrivate, InEntry, InISR, InEpilogue
<1>5. CASE n > 0 /\ Current[n].by # "trap"
  <2>1. Current[n] \in Frame
    BY <1>1, <1>5
  <2>2. Current[n].by = "interrupt"
    BY <1>5, <2>1 DEF Frame
  <2>3. pc \in InISR \union InEpilogue
    BY <1>1, <1>2, <1>5 DEF Region, Started
  <2> QED
    BY <1>1, <1>2, <1>5, <2>2, <2>3 DEF OnProgram, OnPrivate, InEntry, InISR, InEpilogue, Top
<1> QED
  BY <1>1, <1>3, <1>4, <1>5

\* The trap handler, while it executes, has nothing but the trap beneath it.
LEMMA TrapExecutes ==
  ASSUME TypeOK, Nested, Kept, pc \in OnProgram \union OnPrivate
  PROVE  /\ Uncovered /\ TrapStands = pc
         /\ Len(stack) = 1 /\ stack # <<>> /\ stack[1].by = "trap" /\ stack[1].to = "program"
         /\ stack[1].iff \in BOOLEAN /\ stack[1] \in Frame
<1>1. sp = "program" => Len(stack) = 1 /\ Current = stack /\ stack[1].by = "trap" /\ stack[1].to = "program"
  BY Where DEF OnProgram, OnPrivate, InEntry, Current
<1>2. sp = "private" => Len(stack) = 1 /\ Current = <<>> /\ stack[1].by = "trap" /\ stack[1].to = "program"
  BY Where DEF OnProgram, OnPrivate, InEntry, Current, Kept
<1>3. sp \in {"program", "private"} /\ stack \in Seq(Frame)
  BY DEF TypeOK
<1>4. Len(stack) = 1 /\ stack[1].by = "trap" /\ stack[1].to = "program"
  BY <1>1, <1>2, <1>3
<1>5. stack[1] \in Frame /\ stack # <<>>
  <2>1. 1 \in 1 .. Len(stack)
    BY <1>4
  <2>2. stack[1] \in Frame
    BY <1>3, <2>1, ElementOfSeq
  <2>3. stack # <<>>
    BY <1>4
  <2> QED
    BY <2>2, <2>3
<1>6. stack[1].iff \in BOOLEAN
  BY <1>4, <1>5 DEF Frame
<1>7. Uncovered
  BY <1>1, <1>2, <1>3, <1>4 DEF Uncovered
<1>8. sp = "program" => Standing(1) = pc
  BY <1>1 DEF Standing
<1>9. sp = "private" => Standing(0) = pc
  BY <1>2 DEF Standing
<1>a. TrapStands = pc
  BY <1>3, <1>8, <1>9 DEF TrapStands
<1> QED
  BY <1>4, <1>5, <1>6, <1>7, <1>a

LEMMA TrapGoesOn ==
  ASSUME TypeOK, Nested, Kept, pc \in OnProgram \union OnPrivate,
         stack' = stack,
         sp' = "program" \/ (sp' = "private" /\ private' = <<>>)
  PROVE  Uncovered' /\ TrapStands' = pc'
<1>1. Len(stack') = 1
  BY TrapExecutes
<1>2. CASE sp' = "program"
  <2>1. Current' = stack'
    BY <1>2 DEF Current
  <2>2. Standing(1)' = pc'
    BY <1>1, <2>1 DEF Standing
  <2> QED
    BY <1>1, <1>2, <2>2 DEF Uncovered, TrapStands
<1>3. CASE sp' = "private" /\ private' = <<>>
  <2>1. Current' = <<>>
    BY <1>3 DEF Current
  <2>2. Standing(0)' = pc'
    BY <2>1 DEF Standing
  <2> QED
    BY <1>3, <2>1, <2>2 DEF Uncovered, TrapStands
<1> QED
  BY <1>2, <1>3

\* While something lies above the trap, the trap stands where it stood.
LEMMA CoveredStays ==
  ASSUME TypeOK, UNCHANGED <<stacks, parity, ints_enabled_flag>>,
         EnableKept, ~Uncovered \/ stack = <<>> \/ stack[1].by # "trap"
  PROVE  EnableKept'
<1>1. stack' = stack /\ private' = private /\ sp' = sp /\ parity' = parity
      /\ ints_enabled_flag' = ints_enabled_flag /\ Current' = Current
  BY DEF stacks, Current
<1> SUFFICES ASSUME stack # <<>>, stack[1].by = "trap"
             PROVE  EnableKept'
  BY <1>1 DEF EnableKept
<1>2. ~Uncovered /\ ~Uncovered'
  BY <1>1 DEF Uncovered
<1>3. stack \in Seq(Frame) /\ private \in Seq(Frame) /\ sp \in {"program", "private"}
  BY DEF TypeOK
<1>4. TrapStands' = TrapStands
  <2>1. CASE sp = "program"
    <3>1. Current = stack /\ Len(stack) # 1
      BY <1>2, <2>1 DEF Current, Uncovered
    <3>2. Standing(1) = stack[2].to /\ Standing(1)' = stack[2].to
      BY <1>1, <3>1 DEF Standing
    <3> QED
      BY <1>1, <2>1, <3>2 DEF TrapStands
  <2>2. CASE sp = "private"
    <3>1. Current = private /\ private # <<>>
      BY <1>2, <2>2 DEF Current, Uncovered
    <3>2. 0 # Len(Current)
      BY <1>3, <3>1
    <3>3. Standing(0) = private[1].to /\ Standing(0)' = private[1].to
      BY <1>1, <3>1, <3>2 DEF Standing
    <3> QED
      BY <1>1, <2>2, <3>3 DEF TrapStands
  <2> QED
    BY <1>3, <2>1, <2>2
<1>5. TrapStands \notin Quiet /\ stack[1].iff
  BY <1>2 DEF EnableKept
<1> QED
  BY <1>1, <1>2, <1>4, <1>5 DEF EnableKept, Quiet

-----------------------------------------------------------------------------
(* Steps that leave the stacks alone. *)

LEMMA Stays ==
  ASSUME TypeOK, Nested, Kept, UNCHANGED <<stacks, rst8_sp_copy>>,
         pc' \in Region(Len(Current)), temporary_breakpoint' \in {None, "program"}
  PROVE  Nested' /\ Kept'
<1>1. stack' = stack /\ private' = private /\ sp' = sp /\ Current' = Current
  BY DEF stacks, Current
<1>2. Current \in Seq(Frame) /\ Len(Current) \in Nat
  BY CurrentTyped
<1>3. ASSUME NEW k \in 0 .. Len(Current)
      PROVE  Standing(k)' \in Region(k)'
  <2>1. Region(k)' = Region(k)
    BY <1>1 DEF Region, Floor, Started
  <2>2. k # Len(Current) => Standing(k)' = Standing(k)
    BY <1>1 DEF Standing
  <2>3. k = Len(Current) => Standing(k)' = pc'
    BY <1>1 DEF Standing
  <2>4. Standing(k) \in Region(k)
    BY DEF Nested
  <2> QED
    BY <2>1, <2>2, <2>3, <2>4
<1>4. Nested'
  BY <1>1, <1>3 DEF Nested
<1>5. Kept'
  BY <1>1 DEF Kept
<1> QED
  BY <1>4, <1>5

LEMMA CountsStay ==
  ASSUME TypeOK, Counted, UNCHANGED stacks, pc' # "store"
  PROVE  Counted'
<1>1. Current' = Current
  BY DEF stacks, Current
<1> SUFFICES ASSUME NEW k \in 1 .. Len(Current), Current[k].by = "interrupt"
             PROVE  /\ Pending(k)' > 0
                    /\ Standing(k)' = "store" => Current[k].a = Pending(k)'
  BY <1>1 DEF Counted
<1>2. Pending(k)' = Pending(k)
  BY <1>1 DEF Pending
<1>3. Standing(k)' = "store" => Standing(k) = "store"
  BY <1>1 DEF Standing
<1>4. Pending(k) > 0 /\ (Standing(k) = "store" => Current[k].a = Pending(k))
  BY DEF Counted
<1> QED
  BY <1>2, <1>3, <1>4

LEMMA LocalStep ==
  ASSUME IInv, TypeOK', UNCHANGED <<stacks, rst8_sp_copy>>,
         pc' \in Region(Len(Current)), temporary_breakpoint' \in {None, "program"},
         pc' # "store",
         interrupt_depth' + Leaving(pc') = interrupt_depth + Leaving(pc),
         EnableKept', ServedEnabled'
  PROVE  IInv'
<1>1. Nested' /\ Kept'
  BY Stays DEF IInv
<1>2. Counted'
  BY CountsStay DEF IInv
<1>3. Current' = Current
  BY DEF stacks, Current
<1>4. Pending(Len(Current))' = Pending(Len(Current))
  BY <1>3 DEF Pending
<1>5. Depth'
  BY <1>3, <1>4 DEF IInv, Depth
<1> QED
  BY <1>1, <1>2, <1>5 DEF IInv

-----------------------------------------------------------------------------
(* The steps of the program and of the trap handler. *)

LEMMA Initially == Regular /\ Init => IInv
<1> SUFFICES ASSUME Regular, Init PROVE IInv
  OBVIOUS
<1> USE DEF Init
<1>1. TypeOK
  <2>1. MaxFrames \in Nat /\ MaxInterrupts \in Nat /\ "program" \in Place
    BY BoundAssumption DEF MaxFrames, Place
  <2>2. <<>> \in Seq(Frame) /\ Len(<<>>) = 0
    OBVIOUS
  <2>3. rst8_sp_copy \in [on : {"program", "private"}, frames : 0 .. MaxFrames]
    BY <2>1
  <2>4. stack \in Seq(Frame) /\ Len(stack) <= MaxFrames /\ private \in Seq(Frame) /\ Len(private) <= MaxFrames
    BY <2>1, <2>2
  <2>5. /\ pc \in Place \union {"lost"} /\ sp \in {"program", "private"}
        /\ interrupt_depth \in 0 .. MaxInterrupts
        /\ temporary_breakpoint \in Place \union {None}
    BY <2>1
  <2>6. /\ iff \in BOOLEAN /\ shadow \in BOOLEAN /\ parity \in BOOLEAN /\ ints_enabled_flag \in BOOLEAN
        /\ enable_serial_interrupt \in BOOLEAN /\ ctrl_c \in BOOLEAN
    OBVIOUS
  <2> QED
    BY <2>3, <2>4, <2>5, <2>6, Zenon DEF TypeOK
<1>2. Current = <<>> /\ Len(Current) = 0
  BY DEF Current
<1>3. Nested
  BY <1>2 DEF Nested, Standing, Region, Floor
<1>4. Kept /\ EnableKept /\ ServedEnabled /\ Counted
  BY <1>2 DEF Kept, EnableKept, ServedEnabled, Counted, InEpilogue
<1>5. Depth
  BY <1>2, CountEmpty DEF Depth, Pending, Leaving
<1> QED
  BY <1>1, <1>3, <1>4, <1>5 DEF IInv

LEMMA ProgramStep == ASSUME Regular, IInv, Execute PROVE IInv'
<1>1. pc' = pc /\ pc = "program" /\ UNCHANGED <<stacks, rst8_sp_copy, interrupt_depth, temporary_breakpoint>>
  BY DEF Execute, saved, serial
<1>2. stack = <<>>
  BY <1>1, Where DEF IInv
<1>3. TypeOK'
  BY DEF IInv, TypeOK, Execute, saved, serial, stacks
<1>4. EnableKept'
  BY <1>1, <1>2 DEF EnableKept, stacks
<1>5. ServedEnabled'
  BY <1>1 DEF ServedEnabled, InEpilogue
<1>6. pc' \in Region(Len(Current)) /\ temporary_breakpoint' \in {None, "program"}
  BY <1>1, Where DEF IInv, Nested
<1> QED
  BY <1>1, <1>3, <1>4, <1>5, <1>6, LocalStep

LEMMA HostStep == ASSUME Regular, IInv, SendCtrlC PROVE IInv'
<1>1. UNCHANGED <<pc, stacks, rst8_sp_copy, interrupt_depth, temporary_breakpoint, iff, parity, ints_enabled_flag>>
  BY DEF SendCtrlC, saved
<1>2. TypeOK'
  BY DEF IInv, TypeOK, SendCtrlC, saved, stacks
<1>3. Nested' /\ Kept'
  BY <1>1, Where, Stays DEF IInv, Nested
<1>4. stack' = stack /\ private' = private /\ sp' = sp /\ Current' = Current
  BY <1>1 DEF stacks, Current
<1>5. EnableKept'
  BY <1>1, <1>4 DEF IInv, EnableKept, TrapStands, Standing, Uncovered
<1>6. ServedEnabled' /\ Depth' /\ Counted'
  BY <1>1, <1>4 DEF IInv, ServedEnabled, Depth, Counted, Pending, Standing
<1> QED
  BY <1>2, <1>3, <1>5, <1>6 DEF IInv

\* A step of the handler's code before the switch of stacks.
LEMMA EntryStep ==
  ASSUME Regular, IInv, Enter \/ LoadParity \/ DisableInterrupts
  PROVE  IInv'
<1>1. /\ UNCHANGED <<stacks, rst8_sp_copy, interrupt_depth, temporary_breakpoint, ints_enabled_flag>>
      /\ pc \in InEntry /\ pc' \in InEntry \union {"disabled"}
  BY DEF Enter, LoadParity, DisableInterrupts, At, saved, serial, InEntry
<1>2. TypeOK /\ Nested /\ Kept /\ EnableKept /\ pc \in OnProgram /\ pc' \in OnProgram
  BY <1>1 DEF IInv, OnProgram
<1>3. TypeOK'
  <2>1. CASE Enter
    <3>1. pc' \in Place
      BY <1>1 DEF Place, InTrap
    <3> QED
      BY <2>1, <3>1, <1>2 DEF TypeOK, Enter, At, saved, serial, stacks
  <2>2. CASE LoadParity
    BY <2>2, <1>2 DEF TypeOK, LoadParity, At, saved, serial, stacks, Place, InEntry
  <2>3. CASE DisableInterrupts
    BY <2>3, <1>2 DEF TypeOK, DisableInterrupts, At, saved, serial, stacks, Place, InTrap
  <2> QED
    BY <2>1, <2>2, <2>3
<1>4. /\ Uncovered /\ TrapStands = pc /\ stack[1].iff \in BOOLEAN
      /\ sp = "program" /\ Len(Current) = 1 /\ Current = stack /\ stack[1].by = "trap" /\ stack # <<>>
  BY <1>2, Where, TrapExecutes DEF Current
<1>5. Uncovered' /\ TrapStands' = pc' /\ stack' = stack
  <2>1. stack' = stack /\ sp' = "program"
    BY <1>1, <1>4 DEF stacks
  <2> QED
    BY <1>2, <2>1, TrapGoesOn
<1>6. iff = stack[1].iff /\ (pc = "di" => parity = stack[1].iff)
  BY <1>1, <1>2, <1>4 DEF EnableKept, Quiet, InEntry
<1>7. /\ pc' # "disabled" => iff' = stack[1].iff
      /\ pc' \in {"di", "disabled"} => parity' = stack[1].iff
      /\ pc' = "disabled" => iff' = FALSE
  <2>1. CASE Enter
    BY <1>6, <2>1 DEF Enter
  <2>2. CASE LoadParity
    BY <1>6, <2>2 DEF LoadParity
  <2>3. CASE DisableInterrupts
    BY <1>6, <2>3 DEF DisableInterrupts, At
  <2> QED
    BY <2>1, <2>2, <2>3
<1>8. EnableKept'
  BY <1>1, <1>5, <1>7 DEF EnableKept, Quiet, InEntry
<1>9. ServedEnabled'
  BY <1>1 DEF ServedEnabled, InEpilogue, InEntry
<1>a. pc' \in Region(Len(Current))
  BY <1>2, <1>4 DEF Region, Started
<1>b. temporary_breakpoint' \in {None, "program"}
  BY <1>1, <1>2 DEF Nested
<1>c. pc' # "store" /\ interrupt_depth' + Leaving(pc') = interrupt_depth + Leaving(pc)
  BY <1>1 DEF InEntry, Leaving
<1> QED
  BY <1>1, <1>3, <1>8, <1>9, <1>a, <1>b, <1>c, LocalStep

\* A step on the private stack.
LEMMA PrivateStep ==
  ASSUME Regular, IInv, Handle \/ EnableInterrupts \/ PopAF
  PROVE  IInv'
<1>1. /\ UNCHANGED <<stacks, rst8_sp_copy, interrupt_depth, ints_enabled_flag, parity>>
      /\ pc \in OnPrivate /\ pc' \in {"ei", "pop_af", "ld_sp"}
      /\ temporary_breakpoint' \in {temporary_breakpoint, None}
  BY DEF Handle, EnableInterrupts, PopAF, At, saved, serial, OnPrivate
<1>2. TypeOK /\ Nested /\ Kept /\ EnableKept
  BY DEF IInv
<1>3. TypeOK'
  <2>1. CASE Handle
    <3>1. temporary_breakpoint' \in Place \union {None} /\ ctrl_c' \in BOOLEAN /\ pc' \in Place
      BY <1>1, <1>2, <2>1 DEF TypeOK, Handle, Place, InExit
    <3> QED
      BY <2>1, <1>2, <3>1 DEF TypeOK, Handle, At, saved, stacks
  <2>2. CASE EnableInterrupts
    BY <2>2, <1>2 DEF TypeOK, EnableInterrupts, saved, serial, stacks, Place, InExit
  <2>3. CASE PopAF
    BY <2>3, <1>2 DEF TypeOK, PopAF, At, saved, serial, stacks, Place, InExit
  <2> QED
    BY <2>1, <2>2, <2>3
<1>4. /\ Uncovered /\ TrapStands = pc /\ stack[1].iff \in BOOLEAN
      /\ sp = "private" /\ Current = <<>> /\ private = <<>> /\ stack[1].by = "trap" /\ stack # <<>>
  BY <1>1, <1>2, Where, TrapExecutes
<1>5. Uncovered' /\ TrapStands' = pc' /\ stack' = stack
  <2>1. stack' = stack /\ sp' = "private" /\ private' = <<>>
    BY <1>1, <1>4 DEF stacks
  <2> QED
    BY <1>1, <1>2, <2>1, TrapGoesOn
<1>6. /\ pc \notin Quiet => iff = stack[1].iff
      /\ pc \in {"rst8_c_trap", "ei"} => ints_enabled_flag = stack[1].iff
      /\ pc = "ei" => stack[1].iff
      /\ pc \in Quiet => iff = FALSE
  BY <1>2, <1>4 DEF EnableKept, TypeOK
<1>7. /\ pc' # "ei" => iff' = stack[1].iff
      /\ pc' = "ei" => ints_enabled_flag' = stack[1].iff /\ stack[1].iff /\ ~iff'
  <2>1. CASE Handle
    BY <1>1, <1>4, <1>6, <2>1 DEF Handle, At, Quiet
  <2>2. CASE EnableInterrupts
    BY <1>4, <1>6, <2>2 DEF EnableInterrupts
  <2>3. CASE PopAF
    BY <1>6, <2>3 DEF PopAF, At, Quiet
  <2> QED
    BY <2>1, <2>2, <2>3
<1>8. EnableKept'
  BY <1>1, <1>5, <1>7 DEF EnableKept, Quiet
<1>9. ServedEnabled'
  BY <1>1 DEF ServedEnabled, InEpilogue
<1>a. pc' \in Region(Len(Current))
  BY <1>1, <1>4 DEF Region, Floor, OnPrivate
<1>b. temporary_breakpoint' \in {None, "program"}
  BY <1>1, <1>2 DEF Nested
<1>c. pc' # "store" /\ interrupt_depth' + Leaving(pc') = interrupt_depth + Leaving(pc)
  BY <1>1 DEF OnPrivate, Leaving
<1> QED
  BY <1>1, <1>3, <1>8, <1>9, <1>a, <1>b, <1>c, LocalStep

-----------------------------------------------------------------------------
(* The steps that change the stacks. *)

LEMMA SetIs ==
  ASSUME TypeOK, NEW frames, SetCurrent(frames)
  PROVE  /\ Current' = frames /\ sp' = sp
         /\ sp = "program" => stack' = frames /\ private' = private
         /\ sp = "private" => private' = frames /\ stack' = stack
BY DEF SetCurrent, Current, TypeOK

\* Both stacks stay sequences of frames when the one in use does.
LEMMA StacksTyped ==
  ASSUME TypeOK, NEW frames \in Seq(Frame), Len(frames) <= MaxFrames, SetCurrent(frames)
  PROVE  /\ stack' \in Seq(Frame) /\ Len(stack') <= MaxFrames
         /\ private' \in Seq(Frame) /\ Len(private') <= MaxFrames
         /\ sp' \in {"program", "private"}
BY SetIs DEF TypeOK

\* A frame goes on, or the topmost comes off: what lies below stands where it stood,
\* and is counted as before.
LEMMA BelowStays ==
  ASSUME TypeOK, NEW frames, NEW m \in Nat, m <= Len(Current), SetCurrent(frames),
         \A j \in 1 .. m : frames[j] = Current[j],
         \A k \in 0 .. m : Standing(k)' = Standing(k),
         Nested, Counted
  PROVE  /\ \A k \in 0 .. m : Standing(k)' \in Region(k)'
         /\ \A k \in 1 .. m : frames[k].by = "trap" => k = 1 /\ sp' = "program"
         /\ \A k \in 0 .. m : Pending(k)' = Pending(k)
         /\ \A k \in 1 .. m : frames[k].by = "interrupt" =>
              Pending(k)' > 0 /\ (Standing(k)' = "store" => frames[k].a = Pending(k)')
<1>1. Current' = frames /\ sp' = sp
  BY SetIs
<1>2. Len(Current) \in Nat
  BY CurrentTyped
<1>3. ASSUME NEW k \in 0 .. m
      PROVE  Pending(k)' = Pending(k)
  <2>1. \A j \in 1 .. k : frames[j].by = Current[j].by /\ frames[j].to = Current[j].to
    OBVIOUS
  <2>2. Ints(frames, k) = Ints(Current, k) /\ Stores(frames, k) = Stores(Current, k)
    BY <2>1, CountSame
  <2>3. Ints(frames, k)' = Ints(frames', k) /\ Stores(frames, k)' = Stores(frames', k)
    BY DEF Ints, Stores
  <2> QED
    BY <1>1, <2>2 DEF Pending
<1>4. ASSUME NEW k \in 0 .. m
      PROVE  Region(k)' = Region(k)
  BY <1>1, k = 0 \/ frames[k] = Current[k] DEF Region, Floor, Started
<1>5. ASSUME NEW k \in 0 .. m
      PROVE  Standing(k)' \in Region(k)'
  <2>1. Standing(k) \in Region(k)
    BY <1>2 DEF Nested
  <2> QED
    BY <1>4, <2>1
<1>6. ASSUME NEW k \in 1 .. m, frames[k].by = "trap"
      PROVE  k = 1 /\ sp' = "program"
  <2>1. Current[k].by = "trap" /\ k \in 1 .. Len(Current)
    BY <1>2, <1>6
  <2> QED
    BY <1>1, <2>1 DEF Nested
<1>7. ASSUME NEW k \in 1 .. m, frames[k].by = "interrupt"
      PROVE  Pending(k)' > 0 /\ (Standing(k)' = "store" => frames[k].a = Pending(k)')
  <2>1. Current[k].by = "interrupt" /\ k \in 1 .. Len(Current) /\ Standing(k)' = Standing(k)
    BY <1>2, <1>7
  <2>2. Pending(k)' = Pending(k)
    BY <1>3
  <2>3. Pending(k) > 0 /\ (Standing(k) = "store" => Current[k].a = Pending(k))
    BY <2>1 DEF Counted
  <2> QED
    BY <2>1, <2>2, <2>3
<1> QED
  BY <1>3, <1>5, <1>6, <1>7

\* RST 08 in the program.
LEMMA TrapStep == ASSUME Regular, IInv, RST PROVE IInv'
<1> DEFINE frame == [by |-> "trap", to |-> pc, parity |-> parity, iff |-> iff]
<1>1. TypeOK /\ Nested /\ Kept /\ Depth
  BY DEF IInv
<1>2. pc = "program"
  <2>1. pc \in {temporary_breakpoint} \union Traps /\ pc # "lost"
    BY DEF RST
  <2>2. pc # None
    BY <1>1, <2>1 DEF TypeOK, Place, None, InEntry, InTrap, InExit, InISR, InEpilogue
  <2> QED
    BY <1>1, <2>1, <2>2 DEF Regular, Nested
<1>3. sp = "program" /\ Current = <<>> /\ stack = <<>> /\ private = <<>> /\ Len(Current) = 0
  <2>1. sp = "program" /\ Current = <<>> /\ stack = <<>>
    BY <1>1, <1>2, Where
  <2> QED
    BY <1>1, <2>1 DEF Nested
<1>4. frame \in Frame
  BY <1>1, <1>2 DEF Frame, TypeOK, Place
<1>5. MaxFrames \in Nat /\ 0 < MaxFrames /\ 1 <= MaxFrames
  BY BoundAssumption DEF MaxFrames
<1>6. /\ pc' = "hook" /\ SetCurrent(<<frame>>)
      /\ UNCHANGED <<iff, parity, saved, interrupt_depth, serial>> /\ shadow' = FALSE
  <2>1. Append(Current, frame) = <<frame>>
    BY <1>3
  <2> QED
    BY <1>3, <1>5, <2>1 DEF RST
<1>7. Current' = <<frame>> /\ sp' = "program" /\ stack' = <<frame>> /\ private' = <<>>
  BY <1>1, <1>3, <1>6, SetIs
<1>8. <<frame>> \in Seq(Frame) /\ Len(<<frame>>) = 1 /\ <<frame>>[1] = frame
  BY <1>4
<1> HIDE DEF frame
<1>9. TypeOK'
  <2>1. pc' \in Place
    BY <1>6 DEF Place, InEntry
  <2>2. /\ stack' \in Seq(Frame) /\ Len(stack') <= MaxFrames
        /\ private' \in Seq(Frame) /\ Len(private') <= MaxFrames
    BY <1>1, <1>5, <1>7, <1>8, <1>3 DEF TypeOK
  <2> QED
    BY <1>1, <1>6, <1>7, <2>1, <2>2 DEF TypeOK, saved, serial
<1>a. frame.by = "trap" /\ frame.to = "program" /\ frame.iff = iff
  BY <1>2 DEF frame
<1>b. Standing(0)' = "program" /\ Standing(1)' = "hook"
  BY <1>6, <1>7, <1>8, <1>a DEF Standing
<1>c. Region(0)' = {"program"} /\ Region(1)' = OnProgram
  BY <1>7, <1>8, <1>a DEF Region, Floor, Started
<1>d. Nested'
  <2>1. Len(Current') = 1
    BY <1>7, <1>8
  <2>2. \A k \in 0 .. Len(Current') : Standing(k)' \in Region(k)'
    <3>1. Standing(0)' \in Region(0)' /\ Standing(1)' \in Region(1)'
      BY <1>b, <1>c DEF OnProgram, InEntry
    <3>2. \A k \in 0 .. Len(Current') : k = 0 \/ k = 1
      BY <2>1
    <3> QED
      BY <3>1, <3>2
  <2> QED
    BY <1>1, <1>6, <1>7, <2>1, <2>2 DEF Nested, serial
<1>e. Kept' /\ ServedEnabled'
  BY <1>6, <1>7 DEF Kept, ServedEnabled, InEpilogue
<1>f. Uncovered' /\ TrapStands' = "hook"
  BY <1>7, <1>8, <1>b DEF Uncovered, TrapStands
<1>g. EnableKept'
  BY <1>6, <1>7, <1>8, <1>a, <1>f DEF EnableKept, Quiet
<1>h. Pending(1)' = 0 /\ Pending(0) = 0
  <2>1. Ints(<<frame>>, 1) = 0 /\ Stores(<<frame>>, 1) = 0
    BY <1>8, <1>a, CountTrap
  <2> QED
    BY <1>7, <2>1, CountEmpty DEF Pending
<1>i. Depth'
  <2>1. interrupt_depth = 0
    BY <1>1, <1>2, <1>3, <1>h DEF Depth, Leaving, TypeOK
  <2> QED
    BY <1>6, <1>7, <1>8, <1>h, <2>1 DEF Depth, Leaving
<1>j. Counted'
  BY <1>7, <1>8, <1>a DEF Counted
<1> QED
  BY <1>9, <1>d, <1>e, <1>g, <1>i, <1>j DEF IInv

\* The switch to the private stack.
LEMMA SwitchStep == ASSUME Regular, IInv, Save PROVE IInv'
<1>1. TypeOK /\ Nested /\ Kept /\ EnableKept /\ Depth /\ pc = "disabled" /\ pc \in OnProgram
  BY DEF IInv, Save, At, OnProgram
<1>2. /\ pc' = "rst8_c_trap" /\ ints_enabled_flag' = Enabled /\ rst8_sp_copy' = SPAtTheTrap
      /\ sp' = "private" /\ private' = <<>> /\ stack' = stack
      /\ UNCHANGED <<iff, parity, interrupt_depth, temporary_breakpoint, ctrl_c>>
      /\ enable_serial_interrupt' = FALSE /\ shadow' = FALSE
  BY DEF Save, At
<1>3. /\ Uncovered /\ TrapStands = pc /\ sp = "program" /\ Current = stack /\ Len(Current) = 1
      /\ Len(stack) = 1 /\ stack # <<>>
      /\ stack[1].by = "trap" /\ stack[1].to = "program" /\ stack[1].iff \in BOOLEAN
  BY <1>1, Where, TrapExecutes DEF Current
<1>4. Uncovered' /\ TrapStands' = "rst8_c_trap"
  BY <1>1, <1>2, TrapGoesOn
<1>5. Current' = <<>> /\ Len(Current') = 0
  BY <1>2 DEF Current
<1>6. Pending(1) = 0 /\ Pending(0)' = 0
  <2>1. Ints(Current, 1) = 0 /\ Stores(Current, 1) = 0
    BY <1>3, CountTrap
  <2> QED
    BY <2>1, CountEmpty DEF Pending
<1>7. interrupt_depth = 0
  BY <1>1, <1>3, <1>6 DEF Depth, Leaving, TypeOK
<1>8. TypeOK'
  <2>1. rst8_sp_copy' \in [on : {"program", "private"}, frames : 0 .. MaxFrames]
    <3>1. Len(Current) \in 0 .. MaxFrames /\ sp \in {"program", "private"}
      BY <1>1, CurrentTyped, BoundAssumption DEF TypeOK, MaxFrames
    <3> QED
      BY <1>2, <3>1 DEF SPAtTheTrap
  <2>2. ints_enabled_flag' \in BOOLEAN /\ enable_serial_interrupt' \in BOOLEAN /\ shadow' \in BOOLEAN
    BY <1>2 DEF Enabled
  <2>3. private' \in Seq(Frame) /\ Len(private') <= MaxFrames
    BY <1>2, BoundAssumption DEF MaxFrames
  <2>4. pc' \in Place /\ sp' \in {"program", "private"}
    BY <1>2 DEF Place, InTrap
  <2> QED
    BY <1>1, <1>2, <2>1, <2>2, <2>3, <2>4 DEF TypeOK
<1>9. Nested'
  <2>1. Standing(0)' \in Region(0)'
    BY <1>2, <1>5 DEF Standing, Region, Floor, OnPrivate
  <2> QED
    BY <1>1, <1>2, <1>5, <2>1 DEF Nested
<1>a. Kept' /\ ServedEnabled'
  BY <1>2, <1>3 DEF Kept, ServedEnabled, SPAtTheTrap, InEpilogue
<1>b. ints_enabled_flag' = stack[1].iff /\ ~iff
  <2>1. parity = stack[1].iff /\ ~iff
    BY <1>1, <1>3 DEF EnableKept, Quiet
  <2> QED
    BY <1>2, <1>3, <1>7, <2>1 DEF Enabled
<1>c. EnableKept'
  BY <1>2, <1>4, <1>b DEF EnableKept, Quiet
<1>d. Depth' /\ Counted'
  BY <1>2, <1>5, <1>6, <1>7 DEF Depth, Counted, Leaving
<1> QED
  BY <1>8, <1>9, <1>a, <1>c, <1>d DEF IInv

\* And back.
LEMMA SwitchBackStep == ASSUME Regular, IInv, LoadSP PROVE IInv'
<1>1. TypeOK /\ Nested /\ Kept /\ EnableKept /\ Depth /\ pc = "ld_sp" /\ pc \in OnPrivate
  BY DEF IInv, LoadSP, At, OnPrivate
<1>2. /\ Uncovered /\ TrapStands = pc /\ sp = "private" /\ Current = <<>> /\ private = <<>> /\ stack # <<>>
      /\ Len(stack) = 1 /\ stack[1].by = "trap" /\ stack[1].to = "program" /\ stack[1].iff \in BOOLEAN
  BY <1>1, Where, TrapExecutes
<1>3. rst8_sp_copy.on = "program" /\ rst8_sp_copy.frames = 1
  BY <1>1, <1>2 DEF Kept
<1>4. /\ pc' = "ret" /\ sp' = "program" /\ stack' = stack /\ private' = <<>> /\ shadow' = FALSE
      /\ UNCHANGED <<iff, parity, saved, interrupt_depth, serial>>
  <2>1. SubSeq(stack, 1, 1) = stack
    BY <1>1, <1>2 DEF TypeOK
  <2> QED
    BY <1>2, <1>3, <2>1 DEF LoadSP, At
<1>5. Uncovered' /\ TrapStands' = "ret"
  BY <1>1, <1>4, TrapGoesOn
<1>6. Current' = stack /\ Len(Current') = 1 /\ Len(Current) = 0
  BY <1>2, <1>4 DEF Current
<1>7. Pending(1)' = 0 /\ Pending(0) = 0
  <2>1. Ints(stack, 1) = 0 /\ Stores(stack, 1) = 0
    BY <1>2, CountTrap
  <2>2. Pending(1)' = Ints(stack, 1) - Stores(stack, 1)
    BY <1>6 DEF Pending
  <2> QED
    BY <2>1, <2>2, CountEmpty DEF Pending
<1>8. TypeOK'
  <2>1. pc' \in Place /\ sp' \in {"program", "private"}
    BY <1>4 DEF Place, InExit
  <2>2. private' \in Seq(Frame) /\ Len(private') <= MaxFrames
    BY <1>4, BoundAssumption DEF MaxFrames
  <2> QED
    BY <1>1, <1>4, <2>1, <2>2 DEF TypeOK, saved, serial
<1>9. Nested'
  <2>1. Standing(0)' = "program" /\ Standing(1)' = "ret"
    BY <1>2, <1>4, <1>6 DEF Standing
  <2>2. Region(0)' = {"program"} /\ Region(1)' = OnProgram
    BY <1>2, <1>4, <1>6 DEF Region, Floor, Started
  <2>3. \A k \in 0 .. Len(Current') : k = 0 \/ k = 1
    BY <1>6
  <2>4. \A k \in 0 .. Len(Current') : Standing(k)' \in Region(k)'
    BY <2>1, <2>2, <2>3 DEF OnProgram
  <2> QED
    BY <1>1, <1>4, <1>6, <2>3, <2>4 DEF Nested, serial
<1>a. Kept' /\ ServedEnabled'
  BY <1>4 DEF Kept, ServedEnabled, InEpilogue
<1>b. iff = stack[1].iff
  BY <1>1, <1>2 DEF EnableKept, Quiet
<1>c. EnableKept'
  BY <1>4, <1>5, <1>b DEF EnableKept, Quiet
<1>d. interrupt_depth = 0
  BY <1>1, <1>6, <1>7 DEF Depth, Leaving, TypeOK
<1>e. Depth'
  BY <1>4, <1>6, <1>7, <1>d DEF Depth, Leaving
<1>f. Counted'
  <2>1. \A k \in 1 .. Len(Current') : k = 1
    BY <1>6
  <2>2. Current'[1].by # "interrupt"
    BY <1>2, <1>6
  <2> QED
    BY <2>1, <2>2 DEF Counted
<1> QED
  BY <1>8, <1>9, <1>a, <1>c, <1>e, <1>f DEF IInv

\* RET to the program.
LEMMA ReturnStep == ASSUME Regular, IInv, Return PROVE IInv'
<1>1. TypeOK /\ Nested /\ Kept /\ Depth /\ pc = "ret" /\ pc \in OnProgram
  BY DEF IInv, Return, At, OnProgram
<1>2. /\ sp = "program" /\ Current = stack /\ Len(Current) = 1 /\ Current # <<>> /\ private = <<>>
      /\ Top.by = "trap" /\ Top.to = "program" /\ Top \in Frame /\ Top.parity \in BOOLEAN
  <2>1. /\ sp = "program" /\ Current = stack /\ Len(Current) = 1 /\ stack # <<>>
        /\ stack[1].by = "trap" /\ stack[1].to = "program" /\ stack[1] \in Frame
    BY <1>1, Where, TrapExecutes DEF Current
  <2>2. Top = stack[1]
    BY <2>1 DEF Top
  <2>3. stack[1].parity \in BOOLEAN
    BY <2>1 DEF Frame
  <2> QED
    BY <1>1, <2>1, <2>2, <2>3 DEF Nested
<1>3. /\ pc' = "program" /\ parity' = Top.parity /\ SetCurrent(<<>>) /\ shadow' = FALSE
      /\ UNCHANGED <<iff, saved, interrupt_depth, serial>>
  <2>1. SubSeq(Current, 1, Len(Current) - 1) = <<>>
    BY <1>1, <1>2, CurrentTyped
  <2> QED
    BY <1>2, <2>1 DEF Return, Pop, At
<1>4. Current' = <<>> /\ Len(Current') = 0 /\ sp' = "program" /\ stack' = <<>> /\ private' = <<>>
  BY <1>1, <1>2, <1>3, SetIs
<1>5. TypeOK'
  <2>1. pc' \in Place /\ MaxFrames \in Nat
    BY <1>3, BoundAssumption DEF Place, MaxFrames
  <2>2. /\ stack' \in Seq(Frame) /\ Len(stack') <= MaxFrames
        /\ private' \in Seq(Frame) /\ Len(private') <= MaxFrames
    BY <1>4, <2>1
  <2> QED
    BY <1>1, <1>2, <1>3, <1>4, <2>1, <2>2 DEF TypeOK, saved, serial
<1>6. Nested'
  <2>1. Standing(0)' \in Region(0)'
    BY <1>3, <1>4 DEF Standing, Region, Floor
  <2> QED
    BY <1>1, <1>3, <1>4, <2>1 DEF Nested, serial
<1>7. Kept' /\ EnableKept' /\ ServedEnabled' /\ Counted'
  BY <1>3, <1>4 DEF Kept, EnableKept, ServedEnabled, Counted, InEpilogue
<1>8. Depth'
  <2>1. Ints(Current, 1) = 0 /\ Stores(Current, 1) = 0
    BY <1>2, CountTrap DEF Top
  <2>2. interrupt_depth = 0
    BY <1>1, <1>2, <2>1 DEF Depth, Pending, Leaving, TypeOK
  <2> QED
    BY <1>3, <1>4, <2>2, CountEmpty DEF Depth, Pending, Leaving
<1> QED
  BY <1>5, <1>6, <1>7, <1>8 DEF IInv

\* An interrupt, of whatever is not yet or no longer under DI.
LEMMA InterruptStep == ASSUME Regular, IInv, Interrupt PROVE IInv'
<1>1. TypeOK /\ Nested /\ Kept /\ EnableKept /\ Depth /\ Counted
  BY DEF IInv
<1>0. PICK n \in Nat : n = Len(Current)
  BY <1>1, CurrentTyped
<1> DEFINE frame == [by |-> "interrupt", to |-> pc, a |-> 0]
           fs    == Append(Current, frame)
<1>2. /\ iff /\ Level < MaxInterrupts /\ n < MaxFrames /\ pc # "lost"
      /\ pc' = "orig_rst38" /\ iff' = FALSE /\ SetCurrent(fs)
      /\ interrupt_depth' = interrupt_depth + 1
      /\ UNCHANGED <<shadow, saved>>
  BY <1>0 DEF Interrupt
<1>3. parity' = parity
  BY <1>1 DEF Interrupt, Regular, TypeOK
<1>4. temporary_breakpoint' \in {None, "program"}
  BY <1>1 DEF Interrupt, Regular, Nested, ReturnAddress
<1>5. Current \in Seq(Frame) /\ n \in Nat /\ MaxFrames \in Nat
  BY <1>0, <1>1, CurrentTyped, BoundAssumption DEF MaxFrames
<1>6. frame \in Frame /\ frame.by = "interrupt" /\ frame.to = pc
  BY <1>1, <1>2, BoundAssumption DEF Frame, TypeOK
<1> HIDE DEF frame
<1>7. /\ fs \in Seq(Frame) /\ Len(fs) = n + 1 /\ fs[n + 1] = frame
      /\ \A j \in 1 .. n : fs[j] = Current[j]
  BY <1>0, <1>5, <1>6
<1> HIDE DEF fs
<1>8. /\ Current' = fs /\ sp' = sp
      /\ sp = "program" => stack = Current /\ stack' = fs /\ private' = private
      /\ sp = "private" => private = Current /\ private' = fs /\ stack' = stack
  BY <1>1, <1>2, SetIs DEF Current
<1>9. \A k \in 0 .. n : Standing(k)' = Standing(k)
  <2>1. ASSUME NEW k \in 0 .. n, k # n
        PROVE  Standing(k)' = Standing(k)
    <3>1. k + 1 \in 1 .. n /\ k # n + 1
      BY <1>5, <2>1
    <3> QED
      BY <1>0, <1>7, <1>8, <2>1, <3>1 DEF Standing
  <2>2. Standing(n)' = pc
    BY <1>5, <1>6, <1>7, <1>8 DEF Standing
  <2>3. Standing(n) = pc
    BY <1>0 DEF Standing
  <2> QED
    BY <2>1, <2>2, <2>3
<1>a. /\ \A k \in 0 .. n : Standing(k)' \in Region(k)'
      /\ \A k \in 1 .. n : fs[k].by = "trap" => k = 1 /\ sp' = "program"
      /\ \A k \in 0 .. n : Pending(k)' = Pending(k)
      /\ \A k \in 1 .. n : fs[k].by = "interrupt" =>
           Pending(k)' > 0 /\ (Standing(k)' = "store" => fs[k].a = Pending(k)')
  BY <1>0, <1>1, <1>2, <1>5, <1>7, <1>9, BelowStays
<1>b. Standing(n + 1)' = "orig_rst38"
  BY <1>2, <1>7, <1>8 DEF Standing
<1>c. Region(n + 1)' = InISR \union InEpilogue
  BY <1>5, <1>6, <1>7, <1>8 DEF Region, Started
<1>d. \A k \in 0 .. n + 1 : k \in 0 .. n \/ k = n + 1
  BY <1>5
<1>e. \A k \in 1 .. n + 1 : k \in 1 .. n \/ k = n + 1
  BY <1>5
<1>f. Nested'
  <2>1. \A k \in 0 .. n + 1 : Standing(k)' \in Region(k)'
    BY <1>a, <1>b, <1>c, <1>d DEF InISR
  <2>2. \A k \in 1 .. n + 1 : fs[k].by = "trap" => k = 1 /\ sp' = "program"
    BY <1>6, <1>7, <1>a, <1>e
  <2>3. sp' = "program" => private' = <<>>
    BY <1>1, <1>8 DEF Nested
  <2> QED
    BY <1>4, <1>7, <1>8, <2>1, <2>2, <2>3 DEF Nested
<1>g. Kept'
  BY <1>1, <1>2, <1>8 DEF Kept, saved
<1>h. Pending(n + 1)' = Pending(n) + 1 - Leaving(pc)
  <2>1. /\ Ints(fs, n + 1) = Ints(fs, n) + (IF fs[n + 1].by = "interrupt" THEN 1 ELSE 0)
        /\ Stores(fs, n + 1) = Stores(fs, n) + Leaving(fs[n + 1].to)
    BY <1>5, CountStep
  <2>2. Ints(fs, n) = Ints(Current, n) /\ Stores(fs, n) = Stores(Current, n)
    BY <1>5, <1>7, CountSame
  <2>3. Ints(Current, n) \in Nat /\ Stores(Current, n) \in Nat
    BY <1>5, CountNat
  <2>4. Ints(fs, n + 1) = Ints(Current, n) + 1 /\ Stores(fs, n + 1) = Stores(Current, n) + Leaving(pc)
    BY <1>6, <1>7, <2>1, <2>2
  <2>5. Pending(n + 1)' = Ints(fs, n + 1) - Stores(fs, n + 1)
    BY <1>8 DEF Pending
  <2>6. Leaving(pc) \in Nat
    BY DEF Leaving
  <2> QED
    BY <2>3, <2>4, <2>5, <2>6 DEF Pending
<1>i. Pending(n + 1)' = interrupt_depth + 1
  <2>1. Leaving(pc) \in Nat /\ interrupt_depth \in Nat
    BY <1>1 DEF Leaving, TypeOK
  <2> QED
    BY <1>0, <1>1, <1>h, <2>1 DEF Depth
<1>j. Depth'
  <2>1. Leaving(pc') = 0 /\ interrupt_depth' = interrupt_depth + 1 /\ interrupt_depth \in Nat
    BY <1>1, <1>2 DEF Leaving, TypeOK
  <2> QED
    BY <1>7, <1>8, <1>i, <2>1 DEF Depth
<1>k. Counted'
  <2>1. Pending(n + 1)' > 0 /\ Standing(n + 1)' # "store"
    BY <1>1, <1>b, <1>i DEF TypeOK
  <2>2. \A k \in 1 .. n + 1 : fs[k].by = "interrupt" =>
           Pending(k)' > 0 /\ (Standing(k)' = "store" => fs[k].a = Pending(k)')
    BY <1>a, <1>e, <2>1
  <2> QED
    BY <1>7, <1>8, <2>2 DEF Counted
<1>l. ServedEnabled'
  BY <1>2 DEF ServedEnabled, InEpilogue
<1>m. EnableKept'
  <2> SUFFICES ASSUME stack' # <<>>, stack'[1].by = "trap"
               PROVE  EnableKept'
    BY DEF EnableKept
  <2>1. sp \in {"program", "private"}
    BY <1>1 DEF TypeOK
  <2>2. stack # <<>> /\ stack'[1] = stack[1]
    <3>1. CASE sp = "program"
      <4>1. n # 0
        BY <1>0, <1>1, <1>6, <1>7, <1>8, <3>1
      <4>2. 1 \in 1 .. n
        BY <1>5, <4>1
      <4>3. stack # <<>>
        BY <1>0, <1>8, <3>1, <4>1
      <4> QED
        BY <1>7, <1>8, <3>1, <4>2, <4>3
    <3>2. CASE sp = "private"
      BY <1>8, <3>2
    <3> QED
      BY <2>1, <3>1, <3>2
  <2>3. TrapStands' = TrapStands
    <3>1. CASE sp = "program"
      <4>1. n # 0
        BY <1>0, <1>5, <1>8, <2>2, <3>1
      <4>2. 1 \in 0 .. n
        BY <1>5, <4>1
      <4> QED
        BY <1>8, <1>9, <3>1, <4>2 DEF TrapStands
    <3>2. CASE sp = "private"
      <4>1. 0 \in 0 .. n
        BY <1>5
      <4> QED
        BY <1>8, <1>9, <3>2, <4>1 DEF TrapStands
    <3> QED
      BY <2>1, <3>1, <3>2
  <2>4. ~Uncovered'
    <3>1. Len(Current') # 0
      BY <1>5, <1>7, <1>8
    <3>2. sp = "program" => Len(stack') # 1
      BY <1>0, <1>5, <1>7, <1>8, <2>2
    <3> QED
      BY <1>8, <3>1, <3>2 DEF Uncovered
  <2>5. /\ TrapStands \notin Quiet /\ Uncovered => iff = stack[1].iff
        /\ ~Uncovered => stack[1].iff /\ TrapStands \notin Quiet
        /\ TrapStands \in {"di", "disabled"} => parity = stack[1].iff
        /\ TrapStands \in Quiet => ~iff
    BY <1>1, <2>2 DEF EnableKept
  <2>6. TrapStands \notin Quiet /\ stack[1].iff
    BY <1>2, <2>5
  <2> QED
    BY <1>3, <2>2, <2>3, <2>4, <2>5, <2>6 DEF EnableKept, Quiet
<1>n. TypeOK'
  <2>1. interrupt_depth' \in 0 .. MaxInterrupts
    <3>1. Level = Ints(Current, n) /\ Ints(Current, n) \in Nat /\ Stores(Current, n) \in Nat
      BY <1>0, <1>1, <1>5, OneStack, CountNat
    <3>2. interrupt_depth + Leaving(pc) = Ints(Current, n) - Stores(Current, n)
      BY <1>0, <1>1 DEF Depth, Pending
    <3>3. interrupt_depth \in Nat /\ Leaving(pc) \in Nat /\ MaxInterrupts \in Nat
      BY <1>1, BoundAssumption DEF TypeOK, Leaving
    <3> QED
      BY <1>2, <3>1, <3>2, <3>3
  <2>2. /\ stack' \in Seq(Frame) /\ Len(stack') <= MaxFrames
        /\ private' \in Seq(Frame) /\ Len(private') <= MaxFrames
        /\ sp' \in {"program", "private"}
    <3>1. Len(fs) <= MaxFrames
      BY <1>2, <1>5, <1>7
    <3> QED
      BY <1>1, <1>2, <1>7, <3>1, StacksTyped
  <2>3. pc' \in Place
    BY <1>2 DEF Place, InISR
  <2>4. temporary_breakpoint' \in Place \union {None}
    BY <1>4 DEF Place
  <2>5. enable_serial_interrupt' \in BOOLEAN /\ ctrl_c' \in BOOLEAN
    BY <1>1 DEF TypeOK, Interrupt, BreaksIn
  <2> QED
    BY <1>1, <1>2, <1>3, <2>1, <2>2, <2>3, <2>4, <2>5 DEF TypeOK, saved
<1> QED
  BY <1>f, <1>g, <1>j, <1>k, <1>l, <1>m, <1>n DEF IInv

-----------------------------------------------------------------------------
(* The end of an interrupt. *)

\* The original handler, and what isr_epilogue does to no stack.
LEMMA ServiceStep == ASSUME Regular, IInv, ServiceEnds \/ Leave \/ StoreDepth PROVE IInv'
<1>1. /\ UNCHANGED <<stacks, rst8_sp_copy, temporary_breakpoint, ints_enabled_flag, parity>>
      /\ pc \in InISR \union InEpilogue /\ pc' \in {"orig_ret"} \union InEpilogue
      /\ pc # "epilogue_ret" /\ pc' # "store"
  BY DEF ServiceEnds, Leave, StoreDepth, At, saved, serial, InISR, InEpilogue
<1>2. TypeOK /\ Nested /\ Kept /\ EnableKept /\ Depth /\ Counted /\ ServedEnabled
  BY DEF IInv
<1>3. PICK n \in Nat : n = Len(Current)
  BY <1>2, CurrentTyped
<1>4. n > 0 /\ Top = Current[n] /\ Current[n].by = "interrupt"
  BY <1>1, <1>2, <1>3, Where DEF Top
<1>5. n \in 1 .. Len(Current) /\ Standing(n) = pc
  BY <1>3, <1>4 DEF Standing
<1>6. Pending(n) > 0 /\ (pc = "store" => Current[n].a = Pending(n))
  BY <1>4, <1>5, <1>2 DEF Counted
<1>7. interrupt_depth = Pending(n) /\ interrupt_depth > 0
  BY <1>1, <1>2, <1>3, <1>6 DEF Depth, Leaving, TypeOK
<1>8. interrupt_depth' + Leaving(pc') = interrupt_depth + Leaving(pc)
  <2>1. CASE ServiceEnds
    BY <2>1, <1>1 DEF ServiceEnds, Leaving
  <2>2. CASE Leave
    BY <2>2, <1>1 DEF Leave, Leaving
  <2>3. CASE StoreDepth
    <3>1. pc = "store" /\ pc' = "epilogue_ret" /\ interrupt_depth' = Current[n].a - 1
      BY <2>3, <1>4 DEF StoreDepth, At, DepthLess
    <3>2. interrupt_depth' = interrupt_depth - 1 /\ interrupt_depth \in Nat
      BY <1>2, <1>6, <1>7, <3>1 DEF TypeOK
    <3> QED
      BY <3>1, <3>2 DEF Leaving
  <2> QED
    BY <1>1, <2>1, <2>2, <2>3
<1>9. interrupt_depth' \in 0 .. MaxInterrupts
  <2>1. Leaving(pc') \in {0, 1} /\ Leaving(pc) = 0
    BY <1>1 DEF Leaving
  <2>2. interrupt_depth' = interrupt_depth \/ interrupt_depth' = Current[n].a - 1
    BY <1>4 DEF ServiceEnds, Leave, StoreDepth, DepthLess
  <2>3. interrupt_depth' = Current[n].a - 1 => interrupt_depth' \in 0 .. MaxInterrupts
    <3>1. CASE StoreDepth
      <4>1. pc = "store"
        BY <3>1 DEF StoreDepth, At
      <4> QED
        BY <1>2, <1>6, <1>7, <4>1, BoundAssumption DEF TypeOK
    <3>2. CASE ~StoreDepth
      <4>1. interrupt_depth' = interrupt_depth
        BY <3>2 DEF ServiceEnds, Leave
      <4> QED
        BY <1>2, <4>1 DEF TypeOK
    <3> QED
      BY <3>1, <3>2
  <2> QED
    BY <1>2, <2>2, <2>3 DEF TypeOK
<1>a. TypeOK'
  <2>1. pc' \in Place
    BY <1>1 DEF Place, InISR
  <2>2. iff' \in BOOLEAN /\ shadow' \in BOOLEAN
    BY <1>2 DEF ServiceEnds, Leave, StoreDepth, At, TypeOK
  <2>3. UNCHANGED <<stack, private, sp, rst8_sp_copy, temporary_breakpoint, ints_enabled_flag, parity,
                    enable_serial_interrupt, ctrl_c>>
    BY <1>1 DEF ServiceEnds, Leave, StoreDepth, stacks, serial
  <2> QED
    BY <1>2, <1>9, <2>1, <2>2, <2>3 DEF TypeOK
<1>b. ServedEnabled'
  <2>1. CASE ServiceEnds
    BY <2>1 DEF ServiceEnds, ServedEnabled
  <2>2. CASE Leave \/ StoreDepth
    BY <2>2, <1>2 DEF Leave, StoreDepth, At, ServedEnabled, InEpilogue
  <2> QED
    BY <2>1, <2>2
<1>c. ~Uncovered \/ stack = <<>> \/ stack[1].by # "trap"
  <2>1. CASE sp = "program"
    <3>1. Len(stack) = 1 => stack[1].by = "interrupt"
      BY <1>3, <1>4, <2>1 DEF Current
    <3>2. Current # <<>>
      BY <1>3, <1>4
    <3> QED
      BY <2>1, <3>1, <3>2 DEF Uncovered
  <2>2. CASE sp # "program"
    BY <1>3, <1>4, <2>2 DEF Uncovered
  <2> QED
    BY <2>1, <2>2
<1>d. EnableKept'
  BY <1>1, <1>2, <1>c, CoveredStays
<1>e. pc' \in Region(Len(Current))
  <2>1. Region(n) = InISR \union InEpilogue
    BY <1>4 DEF Region, Started
  <2> QED
    BY <1>1, <1>3, <2>1 DEF InISR
<1>f. temporary_breakpoint' \in {None, "program"}
  BY <1>1, <1>2 DEF Nested
<1> QED
  BY <1>1, <1>8, <1>a, <1>b, <1>d, <1>e, <1>f, LocalStep

\* The epilogue loads the count.
LEMMA LoadStep == ASSUME Regular, IInv, LoadDepth PROVE IInv'
<1>1. TypeOK /\ Nested /\ Kept /\ EnableKept /\ Depth /\ Counted /\ ServedEnabled
  BY DEF IInv
<1>2. PICK n \in Nat : n = Len(Current)
  BY <1>1, CurrentTyped
<1> DEFINE fs == [Current EXCEPT ![n].a = interrupt_depth]
<1>3. /\ pc = "load" /\ pc' = "store" /\ SetCurrent(fs) /\ shadow' = FALSE
      /\ UNCHANGED <<iff, parity, saved, interrupt_depth, serial>>
  BY <1>2 DEF LoadDepth, At
<1>4. n > 0 /\ Current \in Seq(Frame) /\ Current[n].by = "interrupt" /\ n \in 1 .. n /\ n \in 1 .. Len(Current)
  <2>1. pc \in InISR \union InEpilogue
    BY <1>3 DEF InEpilogue
  <2> QED
    BY <1>1, <1>2, <2>1, Where, CurrentTyped DEF Top
<1>5. Current[n] \in Frame /\ interrupt_depth \in 0 .. MaxInterrupts
  BY <1>1, <1>4, ElementOfSeq DEF TypeOK
<1>6. /\ fs[n].by = "interrupt" /\ fs[n].to = Current[n].to /\ fs[n].a = interrupt_depth
      /\ fs[n] \in Frame
  <2>1. fs[n] = [Current[n] EXCEPT !.a = interrupt_depth]
    BY <1>4
  <2>2. Current[n] \in [by : {"interrupt"}, to : Place, a : 0 .. MaxInterrupts]
    BY <1>4, <1>5 DEF Frame
  <2>3. fs[n] \in [by : {"interrupt"}, to : Place, a : 0 .. MaxInterrupts]
    BY <1>5, <2>1, <2>2
  <2> QED
    BY <2>1, <2>2, <2>3 DEF Frame
<1>7. /\ Len(fs) = n
      /\ \A j \in 1 .. n : j # n => fs[j] = Current[j]
  BY <1>2, <1>4
<1>8. fs \in Seq(Frame)
  <2>1. DOMAIN fs = 1 .. n /\ \A j \in 1 .. n : fs[j] \in Frame
    BY <1>2, <1>4, <1>6, <1>7, ElementOfSeq
  <2>2. fs \in [1 .. n -> Frame]
    BY <2>1 DEF fs
  <2> QED
    BY <2>2, SeqDef
<1> HIDE DEF fs
<1>9. /\ Current' = fs /\ sp' = sp
      /\ sp = "program" => stack = Current /\ stack' = fs /\ private' = private
      /\ sp = "private" => private = Current /\ private' = fs /\ stack' = stack
  BY <1>1, <1>3, SetIs DEF Current
<1>a. \A j \in 1 .. n : fs[j].by = Current[j].by /\ fs[j].to = Current[j].to
  BY <1>4, <1>6, <1>7
<1>b. ASSUME NEW k \in 0 .. n
      PROVE  /\ k # n => Standing(k)' = Standing(k)
             /\ Region(k)' = Region(k) /\ Pending(k)' = Pending(k)
  <2>1. k # n => Standing(k)' = Standing(k)
    BY <1>2, <1>7, <1>9, <1>a DEF Standing
  <2>2. Region(k)' = Region(k)
    BY <1>9, <1>a, k = 0 \/ k \in 1 .. n DEF Region, Floor, Started
  <2>3. Ints(fs, k) = Ints(Current, k) /\ Stores(fs, k) = Stores(Current, k)
    BY <1>a, CountSame
  <2>4. Pending(k)' = Ints(fs, k) - Stores(fs, k)
    BY <1>9 DEF Pending
  <2> QED
    BY <2>1, <2>2, <2>3, <2>4 DEF Pending
<1>c. Standing(n)' = "store" /\ Standing(n) = "load"
  BY <1>2, <1>3, <1>7, <1>9 DEF Standing
<1>d. Nested'
  <2>1. ASSUME NEW k \in 0 .. n PROVE Standing(k)' \in Region(k)'
    <3>1. Standing(k) \in Region(k)
      BY <1>1, <1>2 DEF Nested
    <3>2. Region(n) = InISR \union InEpilogue
      BY <1>4 DEF Region, Started
    <3> QED
      BY <1>b, <1>c, <3>1, <3>2 DEF InEpilogue
  <2>2. \A k \in 1 .. n : fs[k].by = "trap" => k = 1 /\ sp' = "program"
    BY <1>1, <1>2, <1>9, <1>a DEF Nested
  <2>3. (sp' = "program" => private' = <<>>) /\ temporary_breakpoint' \in {None, "program"}
    BY <1>1, <1>3, <1>9 DEF Nested, serial
  <2> QED
    BY <1>7, <1>9, <2>1, <2>2, <2>3 DEF Nested
<1>e. Kept'
  BY <1>1, <1>3, <1>9 DEF Kept, saved
<1>f. ServedEnabled'
  BY <1>1, <1>3 DEF ServedEnabled, InEpilogue
<1>g. interrupt_depth = Pending(n)
  BY <1>1, <1>2, <1>3 DEF Depth, Leaving, TypeOK
<1>h. Depth'
  <2>1. Pending(n)' = Pending(n)
    BY <1>b, <1>4
  <2> QED
    BY <1>1, <1>3, <1>7, <1>9, <1>g, <2>1 DEF Depth, Leaving, TypeOK
<1>i. Counted'
  <2>1. ASSUME NEW k \in 1 .. n, fs[k].by = "interrupt"
        PROVE  Pending(k)' > 0 /\ (Standing(k)' = "store" => fs[k].a = Pending(k)')
    <3>1. Pending(k)' = Pending(k)
      BY <1>b
    <3>2. Pending(k) > 0 /\ (Standing(k) = "store" => Current[k].a = Pending(k))
      BY <1>1, <1>2, <1>a, <2>1 DEF Counted
    <3>3. k # n => Standing(k)' = Standing(k) /\ fs[k] = Current[k]
      BY <1>7, <1>b
    <3> QED
      BY <1>6, <1>g, <3>1, <3>2, <3>3
  <2> QED
    BY <1>7, <1>9, <2>1 DEF Counted
<1>j. EnableKept'
  <2> SUFFICES ASSUME stack' # <<>>, stack'[1].by = "trap"
               PROVE  EnableKept'
    BY DEF EnableKept
  <2>1. sp \in {"program", "private"}
    BY <1>1 DEF TypeOK
  <2>2. stack # <<>> /\ stack'[1] = stack[1] /\ Len(stack') = Len(stack) /\ (sp = "program" => n # 1)
    <3>1. CASE sp = "program"
      <4>1. n # 1
        BY <1>6, <1>9, <2>1, <3>1
      <4>2. 1 \in 1 .. n
        BY <1>4
      <4>3. stack # <<>> /\ Len(stack') = Len(stack)
        BY <1>2, <1>4, <1>7, <1>9, <3>1
      <4> QED
        BY <1>7, <1>9, <3>1, <4>1, <4>2, <4>3
    <3>2. CASE sp = "private"
      BY <1>9, <3>2
    <3> QED
      BY <2>1, <3>1, <3>2
  <2>3. TrapStands' = TrapStands
    <3>1. CASE sp = "program"
      <4>1. 1 \in 0 .. n /\ 1 # n
        BY <1>4, <2>2, <3>1
      <4> QED
        BY <1>9, <1>b, <3>1, <4>1 DEF TrapStands
    <3>2. CASE sp = "private"
      <4>1. 0 \in 0 .. n /\ 0 # n
        BY <1>4
      <4> QED
        BY <1>9, <1>b, <3>2, <4>1 DEF TrapStands
    <3> QED
      BY <2>1, <3>1, <3>2
  <2>4. ~Uncovered' /\ ~Uncovered
    <3>1. Current # <<>> /\ Current' # <<>>
      BY <1>2, <1>4, <1>7, <1>9
    <3>2. sp = "program" => Len(stack) # 1
      BY <1>2, <1>9, <2>2
    <3> QED
      BY <1>9, <2>2, <3>1, <3>2 DEF Uncovered
  <2>5. stack[1].iff /\ TrapStands \notin Quiet /\ (TrapStands \in {"di", "disabled"} => parity = stack[1].iff)
    BY <1>1, <2>2, <2>4 DEF EnableKept
  <2> QED
    BY <1>3, <2>2, <2>3, <2>4, <2>5 DEF EnableKept, Quiet
<1>k. TypeOK'
  <2>1. /\ stack' \in Seq(Frame) /\ Len(stack') <= MaxFrames
        /\ private' \in Seq(Frame) /\ Len(private') <= MaxFrames
        /\ sp' \in {"program", "private"}
    <3>1. Len(fs) <= MaxFrames
      BY <1>1, <1>2, <1>7, CurrentTyped
    <3> QED
      BY <1>1, <1>3, <1>8, <3>1, StacksTyped
  <2>2. pc' \in Place
    BY <1>3 DEF Place, InEpilogue
  <2> QED
    BY <1>1, <1>3, <2>1, <2>2 DEF TypeOK, saved, serial
<1> QED
  BY <1>d, <1>e, <1>f, <1>h, <1>i, <1>j, <1>k DEF IInv

\* Back to what was interrupted.
LEMMA BackStep == ASSUME Regular, IInv, ReturnFromInterrupt PROVE IInv'
<1>1. TypeOK /\ Nested /\ Kept /\ EnableKept /\ Depth /\ Counted /\ ServedEnabled
  BY DEF IInv
<1>2. Len(Current) \in Nat /\ Len(Current) > 0 /\ Current[Len(Current)].by = "interrupt" /\ Current \in Seq(Frame)
  <2>1. pc \in InISR \union InEpilogue
    BY DEF ReturnFromInterrupt, At, InEpilogue
  <2> QED
    BY <1>1, <2>1, Where, CurrentTyped DEF Top
<1>3. PICK m \in Nat : m = Len(Current) - 1
  BY <1>2
<1>4. Len(Current) = m + 1 /\ m + 1 \in 1 .. Len(Current) /\ m <= Len(Current) /\ m # Len(Current)
      /\ Current[m + 1].by = "interrupt"
  BY <1>2, <1>3
<1> DEFINE fs == SubSeq(Current, 1, m)
<1>5. /\ pc = "epilogue_ret" /\ pc' = Current[m + 1].to /\ SetCurrent(fs) /\ shadow' = FALSE
      /\ UNCHANGED <<iff, parity, saved, interrupt_depth, serial>>
  BY <1>3, <1>4 DEF ReturnFromInterrupt, At, Pop, Top
<1>6. fs \in Seq(Frame) /\ Len(fs) = m /\ \A j \in 1 .. m : fs[j] = Current[j]
  BY <1>2, <1>4
<1> HIDE DEF fs
<1>7. /\ Current' = fs /\ sp' = sp
      /\ sp = "program" => stack = Current /\ stack' = fs /\ private' = private
      /\ sp = "private" => private = Current /\ private' = fs /\ stack' = stack
  BY <1>1, <1>5, SetIs DEF Current
<1>8. \A k \in 0 .. m : Standing(k)' = Standing(k)
  <2>1. ASSUME NEW k \in 0 .. m, k # m
        PROVE  Standing(k)' = Standing(k)
    <3>1. k + 1 \in 1 .. m /\ k # m + 1
      BY <2>1
    <3> QED
      BY <1>4, <1>6, <1>7, <2>1, <3>1 DEF Standing
  <2>2. Standing(m)' = pc'
    BY <1>6, <1>7 DEF Standing
  <2>3. Standing(m) = Current[m + 1].to
    BY <1>4 DEF Standing
  <2> QED
    BY <1>5, <2>1, <2>2, <2>3
<1>9. /\ \A k \in 0 .. m : Standing(k)' \in Region(k)'
      /\ \A k \in 1 .. m : fs[k].by = "trap" => k = 1 /\ sp' = "program"
      /\ \A k \in 0 .. m : Pending(k)' = Pending(k)
      /\ \A k \in 1 .. m : fs[k].by = "interrupt" =>
           Pending(k)' > 0 /\ (Standing(k)' = "store" => fs[k].a = Pending(k)')
  BY <1>1, <1>4, <1>5, <1>6, <1>8, BelowStays
<1>a. Nested'
  <2>1. (sp' = "program" => private' = <<>>) /\ temporary_breakpoint' \in {None, "program"}
    BY <1>1, <1>5, <1>7 DEF Nested, serial
  <2> QED
    BY <1>6, <1>7, <1>9, <2>1 DEF Nested
<1>b. Kept' /\ Counted'
  BY <1>1, <1>5, <1>6, <1>7, <1>9 DEF Kept, Counted, saved
<1>c. iff /\ iff'
  BY <1>1, <1>5 DEF ServedEnabled, InEpilogue
<1>d. ServedEnabled'
  BY <1>c DEF ServedEnabled
<1>e. Depth'
  <2>1. Pending(m + 1) = Pending(m) + 1 - Leaving(pc')
    <3>1. /\ Ints(Current, m + 1) = Ints(Current, m) + 1
          /\ Stores(Current, m + 1) = Stores(Current, m) + Leaving(pc')
      BY <1>4, <1>5, CountStep
    <3>2. Ints(Current, m) \in Nat /\ Stores(Current, m) \in Nat /\ Leaving(pc') \in Nat
      BY CountNat DEF Leaving
    <3> QED
      BY <3>1, <3>2 DEF Pending
  <2>2. interrupt_depth + 1 = Pending(m + 1) /\ interrupt_depth \in Nat /\ Leaving(pc') \in Nat
    BY <1>1, <1>4, <1>5 DEF Depth, Leaving, TypeOK
  <2>3. Pending(m)' = Pending(m) /\ Pending(m) \in Int
    <3>1. Ints(Current, m) \in Nat /\ Stores(Current, m) \in Nat
      BY CountNat
    <3> QED
      BY <1>9, <3>1 DEF Pending
  <2>4. interrupt_depth + Leaving(pc') = Pending(m)
    BY <2>1, <2>2, <2>3
  <2> QED
    BY <1>5, <1>6, <1>7, <2>3, <2>4 DEF Depth
<1>f. EnableKept'
  <2> SUFFICES ASSUME stack' # <<>>, stack'[1].by = "trap"
               PROVE  EnableKept'
    BY DEF EnableKept
  <2>1. sp \in {"program", "private"}
    BY <1>1 DEF TypeOK
  <2>2. stack # <<>> /\ stack'[1] = stack[1] /\ (sp = "program" => m # 0)
    <3>1. CASE sp = "program"
      <4>1. m # 0
        BY <1>6, <1>7, <3>1
      <4>2. 1 \in 1 .. m
        BY <4>1
      <4>3. stack # <<>>
        BY <1>2, <1>7, <3>1
      <4> QED
        BY <1>6, <1>7, <3>1, <4>1, <4>2, <4>3
    <3>2. CASE sp = "private"
      BY <1>7, <3>2
    <3> QED
      BY <2>1, <3>1, <3>2
  <2>3. TrapStands' = TrapStands
    <3>1. CASE sp = "program"
      <4>1. 1 \in 0 .. m
        BY <2>2, <3>1
      <4> QED
        BY <1>7, <1>8, <3>1, <4>1 DEF TrapStands
    <3>2. CASE sp = "private"
      <4>1. 0 \in 0 .. m
        OBVIOUS
      <4> QED
        BY <1>7, <1>8, <3>2, <4>1 DEF TrapStands
    <3> QED
      BY <2>1, <3>1, <3>2
  <2>4. ~Uncovered
    <3>1. Current # <<>>
      BY <1>2
    <3>2. sp = "program" => Len(stack) # 1
      BY <1>4, <1>7, <2>2
    <3> QED
      BY <3>1, <3>2 DEF Uncovered
  <2>5. stack[1].iff /\ TrapStands \notin Quiet /\ (TrapStands \in {"di", "disabled"} => parity = stack[1].iff)
    BY <1>1, <2>2, <2>4 DEF EnableKept
  <2>6. stack[1].iff = iff'
    <3>1. stack[1].iff \in BOOLEAN /\ iff' \in BOOLEAN
      <4>1. stack \in Seq(Frame) /\ Len(stack) \in Nat
        BY <1>1 DEF TypeOK
      <4>2. 1 \in 1 .. Len(stack)
        BY <2>2, <4>1
      <4>3. stack[1] \in Frame /\ stack[1].by = "trap"
        BY <2>2, <4>1, <4>2, ElementOfSeq
      <4> QED
        BY <1>1, <1>5, <4>3 DEF Frame, TypeOK
    <3> QED
      BY <1>c, <2>5, <3>1
  <2> QED
    BY <1>5, <2>2, <2>3, <2>5, <2>6 DEF EnableKept, Quiet
<1>g. TypeOK'
  <2>1. /\ stack' \in Seq(Frame) /\ Len(stack') <= MaxFrames
        /\ private' \in Seq(Frame) /\ Len(private') <= MaxFrames
        /\ sp' \in {"program", "private"}
    <3>1. Len(fs) <= MaxFrames
      BY <1>1, <1>2, <1>3, <1>6, CurrentTyped, BoundAssumption DEF MaxFrames
    <3> QED
      BY <1>1, <1>5, <1>6, <3>1, StacksTyped
  <2>2. pc' \in Place
    <3>1. Current[m + 1] \in Frame
      BY <1>2, <1>4, ElementOfSeq
    <3> QED
      BY <1>5, <3>1 DEF Frame
  <2> QED
    BY <1>1, <1>5, <2>1, <2>2 DEF TypeOK, saved, serial
<1> QED
  BY <1>a, <1>b, <1>d, <1>e, <1>f, <1>g DEF IInv

LEMMA Unchanged == IInv /\ UNCHANGED vars => IInv'
<1> SUFFICES ASSUME IInv, UNCHANGED vars PROVE IInv'
  OBVIOUS
<1> USE DEF vars, stacks, saved, serial
<1>1. Current' = Current /\ UNCHANGED <<pc, stack, private, sp, iff, parity, interrupt_depth, ints_enabled_flag>>
  BY DEF Current
<1>2. TypeOK'
  BY DEF IInv, TypeOK
<1>3. Nested' /\ Kept' /\ ServedEnabled'
  BY <1>1 DEF IInv, Nested, Standing, Region, Floor, Started, Kept, ServedEnabled
<1>4. EnableKept'
  BY <1>1 DEF IInv, EnableKept, TrapStands, Standing, Uncovered
<1>5. Depth' /\ Counted'
  BY <1>1 DEF IInv, Depth, Counted, Pending, Standing
<1> QED
  BY <1>2, <1>3, <1>4, <1>5 DEF IInv

-----------------------------------------------------------------------------
(* Theorems. *)

\* Whoever traps or interrupts starts code that is done before what it interrupted
\* goes on, and the cells of rst8_entry and the counts are as that code left them.
THEOREM Invariance == ASSUME Regular PROVE Spec => []IInv
<1>1. Init => IInv
  BY Initially
<1>2. IInv /\ [Next]_vars => IInv'
  <2> SUFFICES ASSUME IInv, [Next]_vars PROVE IInv'
    OBVIOUS
  <2>1. CASE Execute \/ RST \/ SendCtrlC
    BY <2>1, ProgramStep, TrapStep, HostStep
  <2>2. CASE Entry
    BY <2>2, EntryStep, SwitchStep DEF Entry
  <2>3. CASE Exit
    BY <2>3, PrivateStep, SwitchBackStep, ReturnStep DEF Exit
  <2>4. CASE Interrupt
    BY <2>4, InterruptStep
  <2>5. CASE ServiceEnds \/ Epilogue
    BY <2>5, ServiceStep, LoadStep, BackStep DEF Epilogue
  <2>6. CASE UNCHANGED vars
    BY <2>6, Unchanged
  <2> QED
    BY <2>1, <2>2, <2>3, <2>4, <2>5, <2>6 DEF Next
<1> QED
  BY <1>1, <1>2, PTL DEF Spec

\* The state of the entry code is well typed: the stacks and the count stay in their
\* bounds.
THEOREM EntryTypeCorrect == ASSUME Regular PROVE Spec => []TypeOK
<1>1. IInv => TypeOK
  BY DEF IInv
<1> QED
  BY <1>1, Invariance, PTL

\* rst8_entry finds its way back: rst8_c_trap reads the return address of its own
\* trap, and the RET takes that address from the program's stack.
THEOREM FindsItsWayBack == ASSUME Regular PROVE Spec => []StackKept
<1>1. IInv => StackKept
  <2> SUFFICES ASSUME IInv PROVE StackKept
    OBVIOUS
  <2>1. TypeOK /\ Nested /\ Kept
    BY DEF IInv
  <2>2. ASSUME pc = "rst8_c_trap" PROVE TrappedAt # "lost"
    <3>1. pc \in OnPrivate
      BY <2>2 DEF OnPrivate
    <3>2. sp = "private"
      BY <2>1, <3>1, Where
    <3>3. /\ Len(stack) = 1 /\ stack[1].to = "program"
          /\ rst8_sp_copy.on = "program" /\ rst8_sp_copy.frames = 1
      BY <2>1, <3>2 DEF Kept
    <3>4. rst8_sp_copy.frames \in 1 .. Len(stack)
      BY <3>3
    <3> QED
      BY <3>3, <3>4 DEF TrappedAt
  <2>3. ASSUME pc = "ret" PROVE sp = "program" /\ stack # <<>> /\ Top.by = "trap"
    <3>1. pc \in OnProgram
      BY <2>3 DEF OnProgram
    <3>2. sp = "program" /\ Len(stack) = 1 /\ stack # <<>> /\ stack[1].by = "trap"
      BY <2>1, <3>1, Where, TrapExecutes
    <3> QED
      BY <3>2 DEF Top, Current
  <2> QED
    BY <2>1, <2>2, <2>3, Where DEF StackKept
<1> QED
  BY <1>1, Invariance, PTL

\* isr_epilogue's load, decrement and store of interrupt_depth lose no count.
THEOREM InterruptsCounted == ASSUME Regular PROVE Spec => []DepthCounts
<1>1. IInv => DepthCounts
  <2> SUFFICES ASSUME IInv PROVE DepthCounts
    OBVIOUS
  <2>1. PICK n \in Nat : n = Len(Current)
    BY CurrentTyped DEF IInv
  <2>2. Level = Ints(Current, n) /\ Stored(stack) + Stored(private) = Stores(Current, n)
    BY <2>1, OneStack DEF IInv
  <2>3. interrupt_depth + Leaving(pc) = Ints(Current, n) - Stores(Current, n)
    BY <2>1 DEF IInv, Depth, Pending
  <2>4. Ints(Current, n) \in Nat /\ Stores(Current, n) \in Nat /\ interrupt_depth \in Nat
    BY CountNat DEF IInv, TypeOK
  <2>5. Stored(stack) \in Nat /\ Stored(private) \in Nat
    <3>1. ASSUME NEW frames \in Seq(Frame) PROVE Stored(frames) \in Nat
      <4>1. DOMAIN frames = 1 .. Len(frames) /\ Len(frames) \in Nat
        OBVIOUS
      <4>2. Stored(frames) = Stores(frames, Len(frames))
        BY <4>1 DEF Stored, Stores
      <4> QED
        BY <4>1, <4>2, CountNat
    <3> QED
      BY <3>1 DEF IInv, TypeOK
  <2> QED
    BY <2>2, <2>3, <2>4, <2>5 DEF DepthCounts, Leaving
<1> QED
  BY <1>1, Invariance, PTL

\* The program gets its interrupt enable back as it was when the RST 08 executed.
THEOREM InterruptEnableReturns == ASSUME Regular PROVE Spec => InterruptsKept
<1>1. IInv /\ [Next]_vars => [Return /\ Current # <<>> => iff = Top.iff]_vars
  <2> SUFFICES ASSUME IInv, Return PROVE iff = Top.iff
    OBVIOUS
  <2>1. TypeOK /\ Nested /\ Kept /\ EnableKept /\ pc = "ret" /\ pc \in OnProgram
    BY DEF IInv, Return, At, OnProgram
  <2>2. /\ Uncovered /\ TrapStands = "ret" /\ sp = "program"
        /\ Len(stack) = 1 /\ stack # <<>> /\ stack[1].by = "trap"
    BY <2>1, Where, TrapExecutes
  <2>3. Top = stack[1]
    BY <2>2 DEF Top, Current
  <2> QED
    BY <2>1, <2>2, <2>3 DEF EnableKept, Quiet
<1> QED
  BY <1>1, Invariance, PTL DEF Spec, InterruptsKept
=============================================================================
