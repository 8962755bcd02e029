-------------------------- MODULE TrapHandlerProofs --------------------------
(***************************************************************************)
(* Proofs about the trap handler.  Type correctness holds whatever the     *)
(* host and the program do.  For the regular use it is proved that the     *)
(* host sees the program's own bytes, from the invariant Accounting; that  *)
(* breakpoints stay where the user put them; and that the handler          *)
(* implements Debugger.                                                    *)
(***************************************************************************)
EXTENDS TrapHandlerInvariant, TrapHandlerRefinement, TLAPS

-----------------------------------------------------------------------------
(* Type correctness. *)

\* The constants of the model as one set of facts.
LEMMA Constants ==
  /\ Zero \in Address /\ Hook \in Address /\ Code \subseteq Address
  /\ RST08 \in Byte /\ JP \in Byte /\ 0 \in Byte
  /\ 0 \in Slots /\ MaxBreakpoints - 1 \in Slots
  /\ Programs \subseteq [Address -> Byte]
  /\ \A a \in Address : Own[a] \subseteq Byte
  /\ \A a \in Code : Flow[a] \subseteq Code /\ Skip[a] \subseteq Code
  /\ \A a \in Address : After[a] \in Code
BY CodeAssumption, FlowAssumption, AfterAssumption, SkipAssumption, OwnAssumption,
   ProgramsAssumption, SlotsAssumption
   DEF Zero, Hook, Address, RST08, JP, Byte, Slots

\* The loop counter stays a slot whichever way a round of a loop ends.
LEMMA NextSlotType ==
  ASSUME TypeOK, NEW next \in {"stopped", "resume"}, NextSlot(next)
  PROVE  i' \in Slots /\ phase' \in {"run", "unplant", "stopped", "plant", "resume"}
BY SlotsAssumption, Constants DEF TypeOK, NextSlot, LoopTo, Slots

LEMMA TypeInit == Init => TypeOK
<1> SUFFICES ASSUME Init PROVE TypeOK
  OBVIOUS
<1>1. NoBreakpoint \in Breakpoint
  BY Constants DEF NoBreakpoint, Breakpoint
<1>2. image \in [Address -> Byte] /\ goto \in Code
  BY Constants DEF Init
<1> QED
  BY <1>1, <1>2, Constants DEF Init, TypeOK

LEMMA TypeStep == TypeOK /\ [Next]_vars => TypeOK'
<1> SUFFICES ASSUME TypeOK, [Next]_vars PROVE TypeOK'
  OBVIOUS
<1> USE Constants
<1>1. CASE Execute
  <2>1. pc' \in Code /\ goto' \in Code
    BY <1>1 DEF Execute, TypeOK
  <2>2. mem' \in [Address -> Byte] /\ image' \in [Address -> Byte]
    <3>1. ASSUME NEW a \in Stores, NEW byte \in Own[a]
          PROVE  [mem EXCEPT ![a] = byte] \in [Address -> Byte]
                 /\ [image EXCEPT ![a] = byte] \in [Address -> Byte]
      BY StoresAssumption DEF TypeOK
    <3> QED
      BY <1>1, <3>1 DEF Execute, TypeOK
  <2> QED
    BY <1>1, <2>1, <2>2 DEF Execute, TypeOK
<1>2. CASE TemporaryHit
  <2>1. /\ mem' \in [Address -> Byte]
        /\ breakpoints' \in [Slots -> Breakpoint]
    BY <1>2 DEF TemporaryHit, Rearming, PutBack, Stepping, FlagsAfterHit, TypeOK, Breakpoint
  <2>2. temporary_breakpoint' \in Breakpoint
    BY <1>2 DEF TemporaryHit, Rearming, PutBack, Stepping, FlagsAfterHit, TypeOK, Breakpoint
  <2>3. /\ trap_flags' \subseteq Flags
        /\ phase' \in {"run", "unplant"}
        /\ enable_serial_interrupt' \in BOOLEAN
    BY <1>2 DEF TemporaryHit, Rearming, PutBack, Stepping, FlagsAfterHit, TypeOK, Flags
  <2> QED
    BY <1>2, <2>1, <2>2, <2>3 DEF TemporaryHit, Rearming, PutBack, Stepping, FlagsAfterHit, TypeOK
<1>3. CASE BreakpointHit
  BY <1>3 DEF BreakpointHit, TypeOK
<1>4. CASE Unplant
  <2>1. i' \in Slots /\ phase' \in {"run", "unplant", "stopped", "plant", "resume"}
    BY <1>4, NextSlotType DEF Unplant, InPlace
  <2>2. /\ mem' \in [Address -> Byte]
        /\ trap_flags' \subseteq Flags
        /\ breakpoints' \in [Slots -> Breakpoint]
    BY <1>4 DEF Unplant, InPlace, TypeOK, Breakpoint, Flags
  <2> QED
    BY <1>4, <2>1, <2>2 DEF Unplant, InPlace, TypeOK
<1>5. CASE Plant
  <2>1. i' \in Slots /\ phase' \in {"run", "unplant", "stopped", "plant", "resume"}
    BY <1>5, NextSlotType DEF Plant, Deferring, Original
  <2>2. /\ mem' \in [Address -> Byte]
        /\ trap_flags' \subseteq Flags
        /\ breakpoints' \in [Slots -> Breakpoint]
        /\ trap_restore_idx' \in Slots
    BY <1>5 DEF Plant, Deferring, Original, TypeOK, Breakpoint, Flags
  <2> QED
    BY <1>5, <2>1, <2>2 DEF Plant, Deferring, Original, TypeOK
<1>6. CASE Resume
  <2>1. NextAddresses \subseteq Address
    BY DEF NextAddresses, calculateStep, TypeOK, Breakpoint
  <2>2. /\ mem' \in [Address -> Byte]
        /\ temporary_breakpoint' \in Breakpoint
        /\ trap_flags' \subseteq Flags
    <3>1. CASE NeedsTemporary
      <4>1. PICK next_addr \in Address :
              /\ temporary_breakpoint' = [address |-> next_addr,
                                          original_instruction |-> mem[next_addr]]
              /\ mem' = [mem EXCEPT ![next_addr] = RST08]
        BY <1>6, <2>1, <3>1 DEF Resume
      <4> QED
        BY <1>6, <3>1, <4>1 DEF Resume, TypeOK, Breakpoint
    <3>2. CASE ~NeedsTemporary
      BY <1>6, <3>2 DEF Resume, TypeOK
    <3> QED
      BY <3>1, <3>2
  <2>3. pc' \in Code /\ goto' \in Code
    BY <1>6 DEF Resume, TypeOK
  <2>4. due' \in BOOLEAN
    BY <1>6 DEF Resume
  <2> QED
    BY <1>6, <2>2, <2>3, <2>4 DEF Resume, TypeOK
<1>7. CASE BreakIn
  BY <1>7 DEF BreakIn, TypeOK, Breakpoint, Flags
<1>8. ASSUME NEW a \in Code, PlaceBreakpoint(a) \/ DeleteBreakpoint(a) PROVE TypeOK'
  <2>1. PICK k \in Slots, b \in {a, Zero} :
          breakpoints' = [breakpoints EXCEPT ![k].address = b]
    BY <1>8 DEF PlaceBreakpoint, DeleteBreakpoint
  <2>2. breakpoints' \in [Slots -> Breakpoint]
    BY <2>1 DEF TypeOK, Breakpoint
  <2> QED
    BY <1>8, <2>2 DEF PlaceBreakpoint, DeleteBreakpoint, TypeOK
<1>9. ASSUME NEW a \in Code, WriteRegister(a) PROVE TypeOK'
  BY <1>9 DEF WriteRegister, TypeOK
<1>10. ASSUME NEW a \in Patches, NEW byte \in Own[a] \union {RST08}, WriteMemory(a, byte)
       PROVE TypeOK'
  <2>1. a \in Address /\ byte \in Byte
    BY <1>10, StoresAssumption
  <2>2. mem' \in [Address -> Byte] /\ image' \in [Address -> Byte]
    BY <1>10, <2>1 DEF WriteMemory, TypeOK
  <2> QED
    BY <1>10, <2>2 DEF WriteMemory, TypeOK
<1>11. CASE Continue
  BY <1>11 DEF Continue, LeaveLoop, TypeOK
<1>12. CASE Step
  BY <1>12 DEF Step, LeaveLoop, TypeOK, Flags
<1>13. ASSUME NEW target \in Skip[registers_PC], StepOver(target) PROVE TypeOK'
  BY <1>13 DEF StepOver, LeaveLoop, TypeOK, Breakpoint, Flags
<1>14. CASE UNCHANGED vars
  BY <1>14 DEF vars, TypeOK
<1> QED
  BY <1>1, <1>2, <1>3, <1>4, <1>5, <1>6, <1>7, <1>8, <1>9, <1>10, <1>11, <1>12, <1>13,
     <1>14
     DEF Next, Processor, Handler, Host

\* Type correctness of the handler: every temporary breakpoint is an address of the
\* program or one of the two vectors, whatever the host asks for and whenever.
THEOREM TypeCorrect == Spec => []TypeOK
BY TypeInit, TypeStep, PTL DEF Spec

-----------------------------------------------------------------------------
(* The program's bytes come back. *)

\* What a regular program adds to the facts about the constants.
LEMMA RegularFacts ==
  ASSUME Regular
  PROVE  /\ Zero \notin Code /\ Hook \notin Code /\ Hook # Zero
         /\ \A a \in Code : a \notin Flow[a] /\ a \notin Skip[a]
         /\ \A liberty : ~Allowed(liberty)
         /\ \A a \in Address : RST08 \notin Own[a]
         /\ JP # RST08
BY CodeAssumption, OwnAssumption DEF Regular, Zero, Hook, Allowed, JP, RST08

LEMMA AccountingInit == ASSUME Regular, Init PROVE Accounting
<1> USE RegularFacts, Constants
<1>1. TypeOK
  BY TypeInit
<1>2. /\ \A k \in Slots : At(k) = Zero
      /\ Target = Zero /\ phase = "run" /\ trap_flags = {} /\ mem = image /\ due = FALSE
  BY DEF Init, NoBreakpoint, At, Target
<1>3. Layout
  <2>1. image \in Programs
    BY DEF Init
  <2>2. image[Hook] = JP /\ \A a \in Address : image[a] \in Own[a] \union {RST08}
    BY <2>1, ProgramsAssumption, HookAssumption DEF Address
  <2> QED
    BY <1>2, <2>2 DEF Init, Layout, Current
<1>4. RunInv
  BY <1>1, <1>2 DEF RunInv, Requests, Accounted, Beneath, Focused, TypeOK
<1>5. UnplantInv /\ StoppedInv /\ PlantInv /\ ResumeInv
  BY <1>2 DEF UnplantInv, StoppedInv, PlantInv, ResumeInv
<1> QED
  BY <1>1, <1>3, <1>4, <1>5 DEF Accounting

LEMMA AccountingExecute == ASSUME Regular, Accounting, TypeOK', Execute PROVE Accounting'
<1> USE RegularFacts, Constants
<1>1. /\ phase = "run" /\ phase' = "run" /\ mem[pc] # RST08
      /\ TypeOK /\ Layout /\ RunInv
  BY DEF Execute, Accounting
<1>2. /\ \A k \in Slots : At(k)' = At(k) /\ Held(k)' = Held(k)
      /\ \A k \in Slots : IsDeferred(k)' = IsDeferred(k)
      /\ Active' = Active /\ Target' = Target
  BY DEF Execute, At, Held, Active, Target, IsDeferred
<1>3. /\ pc' = goto /\ goto' \in Flow[goto] /\ goto \in Code
      /\ UNCHANGED <<trap_flags, temporary_breakpoint, trap_restore_idx>> /\ due' = FALSE
  BY <1>1 DEF Execute, TypeOK
<1>4. \/ UNCHANGED <<mem, image>>
      \/ \E a \in Code \ {Target} : \E byte \in Own[a] :
           mem' = [mem EXCEPT ![a] = byte] /\ image' = [image EXCEPT ![a] = byte]
  BY StoresAssumption DEF Execute, Target
<1>5. Layout'
  <2>1. /\ image'[Hook] = JP
        /\ mem'[Hook] = image'[Hook] /\ mem'[Zero] = image'[Zero]
        /\ \A a \in Address : image'[a] \in Own[a] \union {RST08}
    BY <1>1, <1>4 DEF Layout, TypeOK
  <2> QED
    BY <1>1, <1>2, <1>3, <2>1 DEF Layout, Current
<1>6. RunInv'
  <2>1. Requests'
    <3>1. Target # Zero => mem'[Target] = RST08
      BY <1>1, <1>4 DEF RunInv, Requests, Layout, TypeOK
    <3>2. At(trap_restore_idx)' = At(trap_restore_idx)
      BY <1>1, <1>2, <1>3 DEF TypeOK
    <3> QED
      BY <1>1, <1>2, <1>3, <3>1, <3>2 DEF RunInv, Requests
  <2>2. \A a \in Code :
          \/ mem'[a] = mem[a] /\ image'[a] = image[a]
          \/ a # Target /\ mem'[a] = image'[a] /\ image'[a] # RST08
    BY <1>1, <1>4 DEF TypeOK
  <2>3. \A a \in Code :
          \/ Beneath(a)' = Beneath(a) /\ image'[a] = image[a]
          \/ Beneath(a)' = image'[a] /\ image'[a] # RST08
    BY <1>2, <1>3, <2>2 DEF Beneath
  <2>4. Accounted'
    <3>1. \A a \in Code \ Active' : Beneath(a)' = image'[a]
      BY <1>1, <1>2, <2>3 DEF RunInv, Accounted
    <3>2. ASSUME NEW k \in Slots, At(k)' # Zero
          PROVE  IF IsDeferred(k)' THEN Beneath(At(k))' = image'[At(k)']
                                   ELSE Covered(k, Beneath(At(k)))'
      <4>1. At(k)' = At(k) /\ Held(k)' = Held(k) /\ At(k) \in Code
            /\ IsDeferred(k)' = IsDeferred(k)
        BY <1>1, <1>2, <3>2 DEF Layout
      <4> QED
        BY <1>1, <2>3, <4>1, <3>2 DEF RunInv, Accounted, Covered
    <3> QED
      BY <3>1, <3>2 DEF Accounted
  <2>6. Focused'
    <3> SUFFICES ASSUME Target # Zero PROVE Focused'
      BY <1>2 DEF Focused
    <3>1. mem[Target] = RST08 /\ Focused
      BY <1>1 DEF RunInv, Requests
    <3>2. goto = Target \/ \A a \in Code : mem[a] = RST08 => a = Target
      BY <1>1, <3>1 DEF Focused
    <3>3. CASE goto = Target
      BY <1>2, <1>3, <3>3 DEF Focused
    <3>4. CASE \A a \in Code : mem[a] = RST08 => a = Target
      <4>1. \A a \in Code : mem'[a] = RST08 => a = Target'
        BY <1>1, <1>2, <2>2, <3>4 DEF Layout
      <4> QED
        BY <4>1 DEF Focused
    <3> QED
      BY <3>2, <3>3, <3>4
  <2> QED
    BY <1>1, <1>3, <2>1, <2>4, <2>6 DEF RunInv
<1>7. UnplantInv' /\ StoppedInv' /\ PlantInv' /\ ResumeInv'
  BY <1>1 DEF UnplantInv, StoppedInv, PlantInv, ResumeInv
<1> QED
  BY <1>5, <1>6, <1>7 DEF Accounting

LEMMA AccountingBreakIn == ASSUME Regular, Accounting, TypeOK', BreakIn PROVE Accounting'
<1> USE RegularFacts, Constants
<1>1. /\ phase = "run" /\ phase' = "run" /\ Target = Zero
      /\ TypeOK /\ Layout /\ RunInv
  BY DEF BreakIn, Accounting, Target
<1>2. /\ \A k \in Slots : At(k)' = At(k) /\ Held(k)' = Held(k)
      /\ \A k \in Slots : ~IsDeferred(k) /\ ~IsDeferred(k)'
      /\ Active' = Active /\ Target' = pc /\ pc # Zero
      /\ temporary_breakpoint'.original_instruction = mem[pc]
  BY <1>1 DEF BreakIn, At, Held, Active, Target, IsDeferred, RunInv, Requests, TypeOK
<1>3. /\ UNCHANGED <<image, pc, goto, trap_restore_idx>>
      /\ mem' = [mem EXCEPT ![pc] = RST08]
      /\ trap_flags' = {"STEP"} \union trap_flags /\ due' = FALSE
  BY DEF BreakIn
<1>4. "FORCE" \notin trap_flags /\ "RESTORE" \notin trap_flags
  BY <1>1 DEF RunInv, Requests
<1>5. Layout'
  <2>1. mem'[Hook] = mem[Hook] /\ mem'[Zero] = mem[Zero]
    BY <1>1, <1>3 DEF TypeOK
  <2> QED
    BY <1>1, <1>2, <1>3, <2>1 DEF Layout, Current, TypeOK
<1>6. Requests'
  <2>1. mem'[pc] = RST08
    BY <1>1, <1>3 DEF TypeOK
  <2> QED
    BY <1>2, <1>3, <1>4, <2>1 DEF Requests
<1>7. \A a \in Code : Beneath(a)' = Beneath(a)
  BY <1>1, <1>2, <1>3 DEF Beneath, TypeOK
<1>8. Accounted'
  <2>1. \A a \in Code \ Active' : Beneath(a)' = image'[a]
    BY <1>1, <1>2, <1>3, <1>7 DEF RunInv, Accounted
  <2>2. ASSUME NEW k \in Slots, At(k)' # Zero
        PROVE  IF IsDeferred(k)' THEN Beneath(At(k))' = image'[At(k)']
                                 ELSE Covered(k, Beneath(At(k)))'
    <3>1. At(k)' = At(k) /\ Held(k)' = Held(k) /\ At(k) \in Code
          /\ ~IsDeferred(k)' /\ ~IsDeferred(k)
      BY <1>1, <1>2, <2>2 DEF Layout
    <3> QED
      BY <1>1, <1>3, <1>7, <3>1, <2>2 DEF RunInv, Accounted, Covered
  <2> QED
    BY <2>1, <2>2 DEF Accounted
<1>9. Focused'
  BY <1>2, <1>3 DEF Focused
<1>10. UnplantInv' /\ StoppedInv' /\ PlantInv' /\ ResumeInv'
  BY <1>1 DEF UnplantInv, StoppedInv, PlantInv, ResumeInv
<1> QED
  BY <1>1, <1>3, <1>5, <1>6, <1>8, <1>9, <1>10 DEF Accounting, RunInv

\* A trap that is not at the temporary breakpoint finds no temporary breakpoint set.
LEMMA FocusedTrap ==
  ASSUME Regular, TypeOK, RunInv, Trapped, Target # Zero
  PROVE  pc = Target
BY Constants, RegularFacts DEF TypeOK, RunInv, Focused, Trapped

LEMMA AccountingBreakpointHit == ASSUME Regular, Accounting, TypeOK', BreakpointHit PROVE Accounting'
<1> USE RegularFacts, Constants
<1>1. /\ phase = "run" /\ phase' = "unplant"
      /\ TypeOK /\ Layout /\ RunInv /\ Requests /\ Accounted
  BY DEF BreakpointHit, Trapped, Accounting, RunInv
<1>2. Target = Zero
  BY <1>1, FocusedTrap DEF BreakpointHit, AtTemporary, Target, TypeOK
<1>3. /\ \A k \in Slots : At(k)' = At(k) /\ Held(k)' = Held(k)
      /\ \A k \in Slots : ~IsDeferred(k)
      /\ Active' = Active /\ Target' = Zero
      /\ UNCHANGED <<mem, image, pc, goto>>
      /\ registers_PC' = pc /\ i' = 0
  BY <1>1, <1>2
     DEF BreakpointHit, At, Held, Active, Target, IsDeferred, Requests
<1>4. Layout'
  BY <1>1, <1>3 DEF Layout, Current
<1>5. trap_flags' \subseteq {"HIT"}
  BY <1>1, <1>2 DEF BreakpointHit, Requests, TypeOK, Flags
<1>6. UnplantInv'
  <2>1. \A a \in Code : Beneath(a) = mem[a]
    BY <1>2 DEF Beneath
  <2>2. \A a \in Code \ Active' : mem'[a] = image'[a]
    BY <1>1, <1>3, <2>1 DEF Accounted
  <2>3. ASSUME NEW k \in Slots, At(k)' # Zero
        PROVE  ~(k < i') /\ Covered(k, mem[At(k)])'
    <3>1. At(k)' = At(k) /\ At(k) \in Code /\ Held(k)' = Held(k) /\ ~IsDeferred(k)
      BY <1>1, <1>3, <2>3 DEF Layout
    <3>2. ~(k < i')
      BY <1>3, SlotsAssumption DEF Slots
    <3> QED
      BY <1>1, <1>3, <2>1, <2>3, <3>1, <3>2 DEF Accounted, Covered
  <2> QED
    BY <1>3, <1>5, <2>2, <2>3 DEF UnplantInv, Idle
<1>7. RunInv' /\ StoppedInv' /\ PlantInv' /\ ResumeInv'
  BY <1>1 DEF RunInv, StoppedInv, PlantInv, ResumeInv
<1> QED
  BY <1>4, <1>6, <1>7 DEF Accounting

LEMMA AccountingTemporaryHit == ASSUME Regular, Accounting, TypeOK', TemporaryHit PROVE Accounting'
<1> USE RegularFacts, Constants
<1> DEFINE d == At(trap_restore_idx)
           restored == [mem EXCEPT ![pc] = temporary_breakpoint.original_instruction]
<1>1. /\ phase = "run" /\ mem[pc] = RST08
      /\ TypeOK /\ Layout /\ RunInv /\ Requests /\ Accounted
      /\ Target = pc /\ pc # Zero
  BY DEF TemporaryHit, Rearming, PutBack, Stepping, FlagsAfterHit, Trapped, AtTemporary, Target, Accounting, RunInv
<1>2. /\ UNCHANGED <<image, pc, goto, due, trap_restore_idx>>
      /\ Target' = Zero /\ registers_PC' = pc /\ i' = 0
      /\ ~due
  BY <1>1 DEF TemporaryHit, Rearming, PutBack, Stepping, FlagsAfterHit, Target, RunInv, TypeOK, Breakpoint
<1>3. /\ phase' = IF "STEP" \in trap_flags THEN "unplant" ELSE "run"
      /\ trap_flags' = {"HIT"}
  BY <1>1 DEF TemporaryHit, Rearming, PutBack, Stepping, FlagsAfterHit, Requests, TypeOK, Flags
<1>4. \A k \in Slots : At(k)' = At(k) /\ (~IsDeferred(k) => Held(k)' = Held(k)) /\ ~IsDeferred(k)'
  BY <1>1, <1>3 DEF TemporaryHit, Rearming, PutBack, Stepping, FlagsAfterHit, At, Held, IsDeferred, TypeOK, Breakpoint
<1>5. Active' = Active
  BY <1>4 DEF Active, At
<1>6. \A a \in Address : restored[a] = Beneath(a)
  BY <1>1 DEF Beneath, TypeOK
<1>7. \A a \in Address : mem'[a] = IF "RESTORE" \in trap_flags /\ a = d THEN RST08 ELSE Beneath(a)
  <2>1. CASE "RESTORE" \in trap_flags
    <3>1. mem' = [restored EXCEPT ![d] = RST08]
      BY <2>1 DEF TemporaryHit, Rearming, PutBack, Stepping, FlagsAfterHit, At
    <3> QED
      BY <1>1, <1>6, <2>1, <3>1 DEF TypeOK
  <2>2. CASE "RESTORE" \notin trap_flags
    BY <1>6, <2>2 DEF TemporaryHit, Rearming, PutBack, Stepping, FlagsAfterHit
  <2> QED
    BY <2>1, <2>2
<1>8. "RESTORE" \in trap_flags => d \in Code /\ Held(trap_restore_idx)' = image[d]
  <2> SUFFICES ASSUME "RESTORE" \in trap_flags
               PROVE  d \in Code /\ Held(trap_restore_idx)' = image[d]
    OBVIOUS
  <2>1. trap_restore_idx \in Slots /\ d \in Code /\ IsDeferred(trap_restore_idx)
    BY <1>1 DEF TypeOK, Requests, Layout, IsDeferred
  <2>2. Beneath(d) = image[d]
    BY <1>1, <2>1 DEF Accounted
  <2>3. Held(trap_restore_idx)' = restored[d]
    BY <1>1, <2>1 DEF TemporaryHit, Rearming, PutBack, Stepping, FlagsAfterHit, Held, At, TypeOK, Breakpoint
  <2> QED
    BY <1>6, <2>1, <2>2, <2>3
<1>9. \A a \in Code \ Active' : mem'[a] = image'[a]
  <2>1. "RESTORE" \in trap_flags => d \in Active
    BY <1>1 DEF Active, At, Requests, TypeOK
  <2> QED
    BY <1>1, <1>2, <1>5, <1>7, <2>1 DEF Accounted
<1>10. ASSUME NEW k \in Slots, At(k)' # Zero PROVE Covered(k, mem[At(k)])'
  <2>1. At(k)' = At(k) /\ At(k) \in Code /\ At(k) \in Address
    BY <1>1, <1>4, <1>10 DEF Layout
  <2>2. CASE IsDeferred(k)
    BY <1>2, <1>7, <1>8, <2>1, <2>2 DEF IsDeferred, Covered
  <2>3. CASE ~IsDeferred(k)
    <3>1. "RESTORE" \in trap_flags => At(k) # d
      BY <1>1, <1>10, <2>1, <2>3 DEF Layout, IsDeferred, TypeOK
    <3>2. mem'[At(k)] = Beneath(At(k)) /\ Held(k)' = Held(k)
      BY <1>4, <1>7, <2>1, <2>3, <3>1
    <3>3. Covered(k, Beneath(At(k)))
      BY <1>1, <1>10, <2>1, <2>3 DEF Accounted
    <3> QED
      BY <1>2, <2>1, <3>2, <3>3 DEF Covered
  <2> QED
    BY <2>2, <2>3
<1>11. Layout'
  <2>1. mem'[Hook] = mem[Hook] /\ mem'[Zero] = mem[Zero]
    BY <1>1, <1>7, <1>8 DEF Beneath, TypeOK
  <2>2. Current' = pc
    BY <1>2 DEF Current
  <2>3. /\ \A k \in Slots : At(k)' \in Code \union {Zero}
        /\ \A j, k \in Slots : At(j)' = At(k)' /\ At(j)' # Zero => j = k
    BY <1>1, <1>4 DEF Layout
  <2>4. goto' \in Flow[Current']
    BY <1>1, <1>2, <1>3, <2>2 DEF Layout, Current
  <2> QED
    BY <1>1, <1>2, <2>1, <2>3, <2>4 DEF Layout
<1>12. CASE "STEP" \in trap_flags
  <2>1. UnplantInv'
    <3>1. \A k \in Slots : ~(k < i')
      BY <1>2, SlotsAssumption DEF Slots
    <3> QED
      BY <1>2, <1>3, <1>9, <1>10, <3>1 DEF UnplantInv, Idle
  <2> QED
    BY <1>3, <1>11, <1>12, <2>1 DEF Accounting, RunInv, StoppedInv, PlantInv, ResumeInv
<1>13. CASE "STEP" \notin trap_flags
  <2>1. \A a \in Code : Beneath(a)' = mem'[a]
    BY <1>2 DEF Beneath
  <2>2. Accounted'
    <3>1. \A a \in Code \ Active' : Beneath(a)' = image'[a]
      BY <1>9, <2>1
    <3>2. ASSUME NEW k \in Slots, At(k)' # Zero
          PROVE  ~IsDeferred(k)' /\ Covered(k, Beneath(At(k)))'
      <4>1. At(k)' \in Code
        BY <1>11, <3>2 DEF Layout
      <4> QED
        BY <1>4, <1>10, <2>1, <3>2, <4>1 DEF Covered
    <3> QED
      BY <3>1, <3>2 DEF Accounted
  <2>3. Requests' /\ Focused'
    BY <1>2, <1>3 DEF Requests, Focused
  <2>4. RunInv'
    BY <1>2, <2>2, <2>3 DEF RunInv
  <2> QED
    BY <1>3, <1>11, <1>13, <2>4 DEF Accounting, UnplantInv, StoppedInv, PlantInv, ResumeInv
<1> QED
  BY <1>12, <1>13

\* A loop over the slots looks at the last one in its last round.
LEMMA LastSlot ==
  ASSUME i \in Slots, NEW next \in {"stopped", "resume"}, NextSlot(next)
  PROVE  \/ /\ phase' = phase /\ i' = i + 1
            /\ \A k \in Slots : k < i' <=> k < i \/ k = i
         \/ /\ phase' = next
            /\ \A k \in Slots : k < i \/ k = i
            /\ \A k \in Slots : k < MaxBreakpoints
BY SlotsAssumption DEF NextSlot, LoopTo, Slots

LEMMA AccountingUnplant == ASSUME Regular, Accounting, TypeOK', Unplant PROVE Accounting'
<1> USE RegularFacts, Constants
<1>0. PICK n \in Slots : n = i
  BY DEF Accounting, TypeOK
<1>1. /\ phase = "unplant" /\ TypeOK /\ Layout /\ UnplantInv /\ i \in Slots
      /\ Idle /\ registers_PC = pc
  BY DEF Unplant, InPlace, Accounting, TypeOK, UnplantInv
<1>2. UNCHANGED <<image, pc, goto, temporary_breakpoint, trap_restore_idx, registers_PC, due>>
  BY DEF Unplant, InPlace
<1>3. /\ \A k \in Slots : k # n => At(k)' = At(k)
      /\ At(n)' \in {At(n), Zero}
      /\ \A k \in Slots : Held(k)' = Held(k)
      /\ Active' \subseteq Active
      /\ Active \ Active' \subseteq {At(n)}
  <2>1. breakpoints' = breakpoints \/ breakpoints' = [breakpoints EXCEPT ![n].address = Zero]
    BY <1>0 DEF Unplant, InPlace
  <2>2. /\ \A k \in Slots : k # n => At(k)' = At(k)
        /\ At(n)' \in {At(n), Zero}
        /\ \A k \in Slots : Held(k)' = Held(k)
    <3>1. CASE breakpoints' = breakpoints
      BY <3>1 DEF At, Held
    <3>2. CASE breakpoints' = [breakpoints EXCEPT ![n].address = Zero]
      <4>1. /\ breakpoints'[n] = [breakpoints[n] EXCEPT !.address = Zero]
            /\ \A k \in Slots : k # n => breakpoints'[k] = breakpoints[k]
        BY <1>1, <3>2 DEF TypeOK
      <4>2. breakpoints[n] \in Breakpoint
        BY <1>1 DEF TypeOK
      <4> QED
        BY <4>1, <4>2 DEF At, Held, Breakpoint
    <3> QED
      BY <2>1, <3>1, <3>2
  <2>3. Active = {At(k) : k \in Slots} \ {Zero} /\ Active' = {At(k)' : k \in Slots} \ {Zero}
    BY DEF Active, At
  <2> QED
    BY <1>1, <2>2, <2>3
<1>4. ~(n < i) /\ \A k \in Slots : k < i => k # n
  BY <1>0, <1>1, SlotsAssumption DEF Slots
<1>5. /\ \A a \in Address : a # At(n) => mem'[a] = mem[a]
      /\ At(n) # Zero => mem'[At(n)] = image[At(n)]
      /\ At(n) = Zero => mem' = mem
  <2>1. At(n) \in Address
    BY <1>1 DEF Layout
  <2>2. At(n) # Zero => Covered(n, mem[At(n)])
    BY <1>1, <1>4 DEF UnplantInv
  <2>3. CASE At(n) = Zero
    BY <1>0, <2>3 DEF Unplant, InPlace, At
  <2>4. CASE At(n) # Zero /\ mem[At(n)] = RST08
    <3>1. mem' = [mem EXCEPT ![At(n)] = Held(n)] /\ Held(n) = image[At(n)]
      BY <1>0, <2>2, <2>4 DEF Unplant, InPlace, Covered, At, Held
    <3> QED
      BY <1>1, <2>1, <2>4, <3>1 DEF TypeOK
  <2>5. CASE At(n) # Zero /\ mem[At(n)] # RST08
    BY <1>0, <2>2, <2>5 DEF Unplant, InPlace, Covered, At
  <2> QED
    BY <2>3, <2>4, <2>5
<1>6. trap_flags' \subseteq {"HIT"} /\ Target' = Zero
  BY <1>1, <1>2 DEF Unplant, InPlace, Idle, Target
<1>7. \A a \in Code \ Active' : mem'[a] = image'[a]
  BY <1>1, <1>2, <1>3, <1>5 DEF UnplantInv
<1>8. ASSUME NEW k \in Slots, At(k)' # Zero
      PROVE  IF k < i \/ k = n THEN mem'[At(k)'] = image'[At(k)'] ELSE Covered(k, mem[At(k)])'
  <2>1. At(k)' = At(k) /\ At(k) \in Code
    BY <1>1, <1>3, <1>8 DEF Layout
  <2>2. CASE k = n
    BY <1>2, <1>5, <1>8, <2>1, <2>2
  <2>3. CASE k # n
    <3>1. At(k) # At(n) /\ mem'[At(k)] = mem[At(k)]
      BY <1>1, <1>5, <1>8, <2>1, <2>3 DEF Layout
    <3> QED
      BY <1>1, <1>2, <1>3, <1>8, <2>1, <2>3, <3>1 DEF UnplantInv, Covered
  <2> QED
    BY <2>2, <2>3
<1>9. phase' \in {"unplant", "stopped"}
  BY <1>1, LastSlot DEF Unplant, InPlace
<1>10. Layout'
  <2>1. mem'[Hook] = mem[Hook] /\ mem'[Zero] = mem[Zero]
    <3>1. At(n) = Zero \/ (At(n) # Hook /\ At(n) # Zero)
      BY <1>1 DEF Layout
    <3> QED
      BY <1>5, <3>1
  <2>2. /\ \A k \in Slots : At(k)' \in Code \union {Zero}
        /\ \A j, k \in Slots : At(j)' = At(k)' /\ At(j)' # Zero => j = k
    BY <1>1, <1>3 DEF Layout
  <2>3. Current' = Current
    BY <1>1, <1>2, <1>9 DEF Current
  <2> QED
    BY <1>1, <1>2, <1>6, <1>9, <2>1, <2>2, <2>3 DEF Layout
<1>11. CASE phase' = "unplant"
  <2>1. \A k \in Slots : k < i' <=> k < i \/ k = n
    BY <1>0, <1>1, <1>11, LastSlot DEF Unplant, InPlace
  <2>2. UnplantInv'
    BY <1>1, <1>2, <1>6, <1>7, <1>8, <2>1 DEF UnplantInv, Idle
  <2> QED
    BY <1>10, <1>11, <2>2 DEF Accounting, RunInv, StoppedInv, PlantInv, ResumeInv
<1>12. CASE phase' = "stopped"
  <2>1. \A k \in Slots : k < i \/ k = n
    BY <1>0, <1>1, <1>12, LastSlot DEF Unplant, InPlace
  <2>2. \A a \in Active' : mem'[a] = image'[a]
    BY <1>8, <2>1 DEF Active, At
  <2>3. \A a \in Address : mem'[a] = image'[a]
    BY <1>7, <1>10, <2>2 DEF Layout, Address
  <2>4. mem' = image'
    BY <2>3 DEF TypeOK
  <2>5. StoppedInv'
    BY <1>6, <2>4 DEF StoppedInv, Idle
  <2> QED
    BY <1>10, <1>12, <2>5 DEF Accounting, RunInv, UnplantInv, PlantInv, ResumeInv
<1> QED
  BY <1>9, <1>11, <1>12

\* The commands that only change what the host may change.
LEMMA AccountingEdit ==
  ASSUME Regular, Accounting, TypeOK',
         \/ \E a \in Code : PlaceBreakpoint(a) \/ DeleteBreakpoint(a) \/ WriteRegister(a)
         \/ \E a \in Patches : \E byte \in Own[a] \union {RST08} : WriteMemory(a, byte)
  PROVE  Accounting'
<1> USE RegularFacts, Constants
<1>1. /\ phase = "stopped" /\ phase' = "stopped" /\ TypeOK /\ Layout /\ mem = image /\ Idle
      /\ UNCHANGED <<trap_flags, temporary_breakpoint>>
  BY DEF PlaceBreakpoint, DeleteBreakpoint, WriteRegister, WriteMemory, Accounting, StoppedInv
<1>2. Idle' /\ Target' = Zero
  BY <1>1 DEF Idle, Target
<1>3. \A k \in Slots : At(k)' \in Code \union {Zero}
      /\ \A j \in Slots : At(j)' = At(k)' /\ At(j)' # Zero => j = k
  <2>1. CASE UNCHANGED breakpoints
    BY <1>1, <2>1 DEF Layout, At
  <2>2. ASSUME NEW a \in Code, PlaceBreakpoint(a)
        PROVE  \E k \in Slots : /\ breakpoints' = [breakpoints EXCEPT ![k].address = a]
                                /\ \A j \in Slots : At(j) # a
    BY <2>2 DEF PlaceBreakpoint, At, Active
  <2>3. ASSUME NEW a \in Code, DeleteBreakpoint(a)
        PROVE  \E k \in Slots : breakpoints' = [breakpoints EXCEPT ![k].address = Zero]
    BY <2>3 DEF DeleteBreakpoint
  <2>4. ASSUME NEW n \in Slots, NEW a \in Code \union {Zero},
               a = Zero \/ \A j \in Slots : At(j) # a,
               breakpoints' = [breakpoints EXCEPT ![n].address = a]
        PROVE  \A k \in Slots : At(k)' \in Code \union {Zero}
                 /\ \A j \in Slots : At(j)' = At(k)' /\ At(j)' # Zero => j = k
    <3>1. /\ breakpoints'[n] = [breakpoints[n] EXCEPT !.address = a]
          /\ \A k \in Slots : k # n => breakpoints'[k] = breakpoints[k]
          /\ breakpoints[n] \in Breakpoint
      BY <1>1, <2>4 DEF TypeOK
    <3>2. At(n)' = a /\ \A k \in Slots : k # n => At(k)' = At(k)
      BY <3>1 DEF At, Breakpoint
    <3> QED
      BY <1>1, <2>4, <3>2 DEF Layout
  <2> QED
    BY <2>1, <2>2, <2>3, <2>4 DEF WriteRegister, WriteMemory
<1>4. goto' \in Flow[Current']
  BY <1>1 DEF Layout, Current, PlaceBreakpoint, DeleteBreakpoint, WriteRegister, WriteMemory
<1> DEFINE Whole == /\ mem = image /\ image[Hook] = JP
                    /\ \A a \in Address : image[a] \in Own[a] \union {RST08}
<1>5. Whole'
  <2>1. CASE UNCHANGED <<mem, image>>
    BY <1>1, <2>1 DEF Layout
  <2>2. ASSUME NEW a \in Patches, NEW byte \in Own[a] \union {RST08}, WriteMemory(a, byte)
        PROVE  Whole'
    BY <1>1, <2>2, StoresAssumption DEF WriteMemory, Layout, TypeOK
  <2> QED
    BY <2>1, <2>2 DEF PlaceBreakpoint, DeleteBreakpoint, WriteRegister
<1>6. Layout'
  BY <1>1, <1>2, <1>3, <1>4, <1>5 DEF Layout
<1> QED
  BY <1>1, <1>2, <1>5, <1>6
     DEF Accounting, RunInv, UnplantInv, StoppedInv, PlantInv, ResumeInv

\* The commands that leave the GDB loop.
LEMMA AccountingLeave ==
  ASSUME Regular, Accounting, TypeOK',
         Continue \/ Step \/ \E target \in Skip[registers_PC] : StepOver(target)
  PROVE  Accounting'
<1> USE RegularFacts, Constants
<1>1. /\ phase = "stopped" /\ phase' = "plant" /\ i' = 0
      /\ TypeOK /\ Layout /\ mem = image /\ Idle
      /\ UNCHANGED <<mem, image, pc, goto, breakpoints, trap_restore_idx, registers_PC>>
  BY DEF Continue, Step, StepOver, LeaveLoop, Accounting, StoppedInv
<1>2. /\ \A k \in Slots : At(k)' = At(k) /\ Held(k)' = Held(k)
      /\ Active' = Active
  BY <1>1 DEF At, Held, Active
<1> DEFINE Asked == /\ Requested
                    /\ Target \in Code \union {Zero}
                    /\ "RESTORE" \notin trap_flags
<1>3. Asked'
  <2>1. ASSUME Continue \/ Step PROVE Asked'
    <3>1. Target' = Zero
      BY <1>1, <2>1 DEF Continue, Step, Idle, Target
    <3>2. /\ trap_flags' \subseteq {"HIT", "STEP"}
          /\ "HIT" \in trap_flags' <=> "HIT" \in trap_flags
          /\ "STEP" \in trap_flags' \/ registers_PC \in Active => Predictable
      BY <1>1, <2>1 DEF Continue, Step, Idle
    <3> QED
      BY <1>1, <1>2, <3>1, <3>2 DEF Requested, Predictable, Flags
  <2>2. ASSUME NEW target \in Skip[registers_PC], StepOver(target)
        PROVE  Asked'
    <3>1. Target' = target /\ target \in Code \ {registers_PC}
      BY <1>1, <2>2 DEF StepOver, Target, TypeOK, Breakpoint
    <3>2. trap_flags' = trap_flags \union {"STEP", "FORCE"}
      BY <2>2 DEF StepOver
    <3>3. Active \subseteq {registers_PC} /\ \A a \in Code : mem[a] # RST08
      BY <2>2 DEF StepOver
    <3> QED
      BY <1>1, <1>2, <3>1, <3>2, <3>3 DEF Requested, Idle, Flags
  <2> QED
    BY <2>1, <2>2
<1>4. Layout'
  BY <1>1, <1>2, <1>3 DEF Layout, Current
<1>5. PlantedBelow(0)'
  <2>1. \A k \in Slots : ~(k < 0)
    BY SlotsAssumption DEF Slots
  <2>2. \A k \in Slots : At(k)' # Zero => mem'[At(k)'] = image'[At(k)']
    BY <1>1
  <2> QED
    BY <1>1, <1>3, <2>1, <2>2 DEF PlantedBelow
<1>6. PlantInv'
  BY <1>1, <1>3, <1>5 DEF PlantInv, PlantedBelow
<1> QED
  BY <1>1, <1>4, <1>6 DEF Accounting, RunInv, UnplantInv, StoppedInv, ResumeInv

LEMMA AccountingPlant == ASSUME Regular, Accounting, TypeOK', Plant PROVE Accounting'
<1> USE RegularFacts, Constants
<1>0. PICK n \in Slots : n = i
  BY DEF Accounting, TypeOK
<1>1. /\ phase = "plant" /\ TypeOK /\ Layout /\ Requested /\ PlantedBelow(n) /\ i \in Slots
  BY <1>0 DEF Plant, Deferring, Original, Accounting, TypeOK, PlantInv
<1>2. UNCHANGED <<image, pc, goto, temporary_breakpoint, registers_PC>>
  BY DEF Plant, Deferring, Original
<1>3. /\ \A k \in Slots : At(k)' = At(k)
      /\ \A k \in Slots : k # n => Held(k)' = Held(k)
  <2>1. \/ breakpoints' = breakpoints
        \/ \E byte \in Byte :
             breakpoints' = [breakpoints EXCEPT ![n].original_instruction = byte]
    BY <1>0, <1>1 DEF Plant, Deferring, Original, TypeOK, Breakpoint
  <2> QED
    BY <1>1, <2>1 DEF At, Held, TypeOK, Breakpoint
<1>4. Active' = Active
  BY <1>3 DEF Active, At
<1>5. ~(n < n) /\ \A k \in Slots : k < n => k # n
  BY SlotsAssumption DEF Slots
<1> DEFINE lift == At(n) # Zero /\ At(n) = registers_PC
           plant == At(n) # Zero /\ At(n) # registers_PC
<1>6. /\ lift => trap_flags' = trap_flags \union {"RESTORE"} /\ trap_restore_idx' = n
      /\ ~lift => UNCHANGED <<trap_flags, trap_restore_idx>>
  BY <1>0 DEF Plant, Deferring, Original, At
<1>7. /\ plant => Held(n)' = mem[At(n)] /\ mem' = [mem EXCEPT ![At(n)] = RST08]
      /\ ~plant => mem' = mem /\ Held(n)' = Held(n)
  <2>1. CASE plant
    BY <1>0, <1>1, <2>1 DEF Plant, Deferring, Original, At, Held, TypeOK, Breakpoint
  <2>2. CASE ~plant
    BY <1>0, <2>2 DEF Plant, Deferring, Original, At, Held
  <2> QED
    BY <2>1, <2>2
<1>8. Requested'
  BY <1>1, <1>2, <1>4, <1>6 DEF Requested, Target, Flags
<1>9. Target' = Target /\ Current' = Current /\ phase' \in {"plant", "resume"}
  BY <1>0, <1>1, <1>2, LastSlot DEF Plant, Deferring, Original, Target, Current
<1>10. \A k \in Slots : At(k) # Zero =>
         IF (k < n \/ k = n) /\ At(k) # registers_PC
           THEN mem'[At(k)] = RST08 /\ Held(k)' = image[At(k)]
           ELSE mem'[At(k)] = image[At(k)]
  <2> SUFFICES ASSUME NEW k \in Slots, At(k) # Zero
               PROVE  IF (k < n \/ k = n) /\ At(k) # registers_PC
                        THEN mem'[At(k)] = RST08 /\ Held(k)' = image[At(k)]
                        ELSE mem'[At(k)] = image[At(k)]
    OBVIOUS
  <2>1. At(k) \in Code /\ At(n) \in Address
    BY <1>1 DEF Layout
  <2>2. CASE k = n
    BY <1>1, <1>5, <1>7, <2>1, <2>2 DEF PlantedBelow, TypeOK
  <2>3. CASE k # n
    <3>1. At(k) # At(n) /\ mem'[At(k)] = mem[At(k)]
      BY <1>1, <1>7, <2>1, <2>3 DEF Layout, TypeOK
    <3> QED
      BY <1>1, <1>3, <2>3, <3>1 DEF PlantedBelow
  <2> QED
    BY <2>2, <2>3
<1>11. \A a \in Code \ Active : mem'[a] = image[a]
  <2>1. At(n) = Zero \/ At(n) \in Active
    BY DEF Active, At
  <2> QED
    BY <1>1, <1>7, <2>1 DEF PlantedBelow, TypeOK
<1>12. \A k \in Slots : At(k) # Zero /\ At(k) = registers_PC /\ (k < n \/ k = n)
         => IsDeferred(k)'
  <2> SUFFICES ASSUME NEW k \in Slots, At(k) # Zero, At(k) = registers_PC, k < n \/ k = n
               PROVE  IsDeferred(k)'
    OBVIOUS
  <2>1. CASE k = n
    BY <1>6, <2>1 DEF IsDeferred
  <2>2. CASE k # n
    <3>1. ~lift
      BY <1>1, <2>2 DEF Layout
    <3> QED
      BY <1>1, <1>6, <2>2, <3>1 DEF PlantedBelow, IsDeferred
  <2> QED
    BY <2>1, <2>2
<1>13. "RESTORE" \in trap_flags' =>
         /\ trap_restore_idx' < n \/ trap_restore_idx' = n
         /\ At(trap_restore_idx)' = registers_PC
  <2>1. trap_restore_idx \in Slots /\ trap_restore_idx' \in Slots
    BY <1>1 DEF TypeOK
  <2> QED
    BY <1>1, <1>3, <1>6, <2>1 DEF PlantedBelow, At
<1>14. Layout'
  <2>1. mem'[Hook] = mem[Hook] /\ mem'[Zero] = mem[Zero]
    BY <1>1, <1>7 DEF Layout, TypeOK
  <2>2. goto' \in Flow[Current']
    BY <1>1, <1>2, <1>9 DEF Layout
  <2> QED
    BY <1>1, <1>2, <1>3, <1>9, <2>1, <2>2 DEF Layout
<1>15. ASSUME NEW m \in Nat, \A k \in Slots : k < m <=> k < n \/ k = n
       PROVE  /\ \A a \in Code \ Active' : mem'[a] = image'[a]
              /\ \A k \in Slots : At(k)' # Zero =>
                   IF k < m /\ At(k)' # registers_PC'
                     THEN mem'[At(k)'] = RST08 /\ Held(k)' = image'[At(k)']
                     ELSE mem'[At(k)'] = image'[At(k)']
              /\ \A k \in Slots : At(k)' # Zero /\ At(k)' = registers_PC' /\ k < m
                   => IsDeferred(k)'
              /\ "RESTORE" \in trap_flags' => /\ trap_restore_idx' < m
                                              /\ At(trap_restore_idx)' = registers_PC'
  <2>1. trap_restore_idx' \in Slots
    BY DEF TypeOK
  <2>2. /\ \A k \in Slots : At(k)' # Zero =>
             IF k < m /\ At(k)' # registers_PC'
               THEN mem'[At(k)'] = RST08 /\ Held(k)' = image'[At(k)']
               ELSE mem'[At(k)'] = image'[At(k)']
    BY <1>2, <1>3, <1>10, <1>15
  <2>3. \A k \in Slots : At(k)' # Zero /\ At(k)' = registers_PC' /\ k < m => IsDeferred(k)'
    BY <1>2, <1>3, <1>12, <1>15
  <2> QED
    BY <1>2, <1>4, <1>11, <1>13, <1>15, <2>1, <2>2, <2>3
<1>16. CASE phase' = "plant"
  <2>1. i' \in Nat /\ \A k \in Slots : k < i' <=> k < n \/ k = n
    BY <1>0, <1>1, <1>16, LastSlot DEF Plant, Deferring, Original, TypeOK, Slots
  <2>2. PlantedBelow(i)'
    BY <1>15, <2>1 DEF PlantedBelow
  <2> QED
    BY <1>8, <1>14, <1>16, <2>2 DEF Accounting, RunInv, UnplantInv, StoppedInv, PlantInv, ResumeInv
<1>17. CASE phase' = "resume"
  <2>1. MaxBreakpoints \in Nat /\ \A k \in Slots : k < MaxBreakpoints <=> k < n \/ k = n
    BY <1>0, <1>1, <1>17, LastSlot, SlotsAssumption DEF Plant, Deferring, Original
  <2>2. PlantedBelow(MaxBreakpoints)'
    BY <1>15, <2>1 DEF PlantedBelow
  <2> QED
    BY <1>8, <1>14, <1>17, <2>2 DEF Accounting, RunInv, UnplantInv, StoppedInv, PlantInv, ResumeInv
<1> QED
  BY <1>9, <1>16, <1>17

\* The address of the temporary breakpoint when the decoder reads every instruction.
NextAddress ==
  IF "FORCE" \in trap_flags THEN temporary_breakpoint.address
  ELSE IF mem[registers_PC] = RST08 THEN Hook ELSE goto

\* In regular use the return from the handler has one address to plant at.
LEMMA ResumePlants ==
  ASSUME Regular, Resume, NeedsTemporary
  PROVE  /\ temporary_breakpoint' = [address |-> NextAddress,
                                     original_instruction |-> mem[NextAddress]]
         /\ mem' = [mem EXCEPT ![NextAddress] = RST08]
<1>1. NextAddresses = {NextAddress}
  BY RegularFacts DEF NextAddresses, NextAddress, calculateStep
<1> QED
  BY <1>1 DEF Resume

LEMMA AccountingResume == ASSUME Regular, Accounting, TypeOK', Resume PROVE Accounting'
<1> USE RegularFacts, Constants
<1> DEFINE next == NextAddress
           forced == "FORCE" \in trap_flags
<1>1. /\ phase = "resume" /\ phase' = "run" /\ TypeOK /\ Layout
      /\ Requested /\ PlantedBelow(MaxBreakpoints)
      /\ UNCHANGED <<image, breakpoints, trap_restore_idx>>
  BY DEF Resume, Accounting, ResumeInv
<1>2. /\ \A k \in Slots : At(k)' = At(k) /\ Held(k)' = Held(k)
      /\ Active' = Active
      /\ At(trap_restore_idx)' = At(trap_restore_idx)
  BY <1>1 DEF At, Held, Active
<1>3. \A k \in Slots : k < MaxBreakpoints
  BY SlotsAssumption DEF Slots
<1>4. "RESTORE" \in trap_flags <=> registers_PC \in Active
  <2>1. "RESTORE" \in trap_flags => registers_PC \in Active
    BY <1>1 DEF PlantedBelow, Active, At, TypeOK
  <2>2. registers_PC \in Active => \E k \in Slots : IsDeferred(k)
    BY <1>1, <1>3 DEF PlantedBelow, Active, At
  <2> QED
    BY <2>1, <2>2 DEF IsDeferred
\* The breakpoint at PC, and only that one, is left out of memory.
<1>5. /\ \A k \in Slots : At(k) # Zero =>
           IF IsDeferred(k) THEN mem[At(k)] = image[At(k)]
                            ELSE Covered(k, mem[At(k)])
      /\ \A a \in Code \ Active : mem[a] = image[a]
      /\ mem[registers_PC] = image[registers_PC]
  <2>1. \A k \in Slots : At(k) # Zero => (IsDeferred(k) <=> At(k) = registers_PC)
    BY <1>1, <1>3 DEF PlantedBelow, IsDeferred
  <2>2. \A k \in Slots : At(k) # Zero =>
          IF IsDeferred(k) THEN mem[At(k)] = image[At(k)] ELSE Covered(k, mem[At(k)])
    BY <1>1, <1>3, <2>1 DEF PlantedBelow, Covered
  <2>3. registers_PC \in Active => mem[registers_PC] = image[registers_PC]
    BY <1>1, <2>1, <2>2 DEF Active, At
  <2> QED
    BY <1>1, <2>2, <2>3 DEF PlantedBelow, TypeOK
<1>6. NeedsTemporary =>
        /\ next \in Code
        /\ forced => next # registers_PC
        /\ ~forced => next = goto /\ goto # registers_PC /\ ~PastRST
                      /\ mem[registers_PC] # RST08
  <2> SUFFICES ASSUME NeedsTemporary
               PROVE  /\ next \in Code
                      /\ forced => next # registers_PC
                      /\ ~forced => next = goto /\ goto # registers_PC /\ ~PastRST
                                    /\ mem[registers_PC] # RST08
    OBVIOUS
  <2>1. CASE forced
    BY <1>1, <2>1 DEF Requested, NextAddress, Target
  <2>2. CASE ~forced
    <3>1. mem[registers_PC] # RST08 /\ ~PastRST
      BY <1>1, <1>4, <1>5, <2>2 DEF Requested, NeedsTemporary, PastRST
    <3>2. goto \in Code /\ goto # registers_PC
      BY <1>1 DEF Layout, Current, TypeOK
    <3> QED
      BY <2>2, <3>1, <3>2 DEF NextAddress
  <2> QED
    BY <2>1, <2>2
<1>7. /\ NeedsTemporary => /\ Target' = next
                           /\ temporary_breakpoint'.original_instruction = mem[next]
                           /\ mem' = [mem EXCEPT ![next] = RST08]
      /\ ~NeedsTemporary => Target' = Zero /\ mem' = mem
  <2>1. CASE NeedsTemporary
    BY <2>1, ResumePlants DEF Target
  <2>2. CASE ~NeedsTemporary
    BY <1>1, <2>2 DEF Resume, Target, Requested, NeedsTemporary
  <2> QED
    BY <2>1, <2>2
<1>8. \A a \in Code : Beneath(a)' = mem[a]
  BY <1>1, <1>6, <1>7 DEF Beneath, TypeOK
<1>9. /\ trap_flags' = trap_flags \ {"FORCE"}
      /\ \A k \in Slots : IsDeferred(k)' <=> IsDeferred(k)
  <2>1. trap_flags' = trap_flags \ {"FORCE"}
    BY <1>1 DEF Resume, Requested, NeedsTemporary
  <2> QED
    BY <1>1, <2>1 DEF IsDeferred
<1>10. Layout'
  <2>1. mem'[Hook] = mem[Hook] /\ mem'[Zero] = mem[Zero]
    BY <1>1, <1>6, <1>7 DEF TypeOK
  <2>2. goto' \in Flow[Current']
    BY <1>1 DEF Resume, Layout, Current
  <2>3. Target' \in Code \union {Zero}
    BY <1>6, <1>7
  <2> QED
    BY <1>1, <1>2, <2>1, <2>2, <2>3 DEF Layout
<1>11. Requests'
  <2>1. "RESTORE" \in trap_flags => At(trap_restore_idx) # Zero
    BY <1>1 DEF PlantedBelow, TypeOK
  <2>2. NeedsTemporary => mem'[next] = RST08
    BY <1>1, <1>6, <1>7 DEF TypeOK
  <2> QED
    BY <1>2, <1>6, <1>7, <1>9, <2>1, <2>2 DEF Requests, NeedsTemporary
<1>12. Accounted'
  <2>1. \A a \in Code \ Active' : Beneath(a)' = image'[a]
    BY <1>1, <1>2, <1>5, <1>8
  <2>2. ASSUME NEW k \in Slots, At(k)' # Zero
        PROVE  IF IsDeferred(k)' THEN Beneath(At(k))' = image'[At(k)']
                                 ELSE Covered(k, Beneath(At(k)))'
    <3>1. At(k)' = At(k) /\ Held(k)' = Held(k) /\ At(k) \in Code /\ At(k) # Zero
      BY <1>1, <1>2, <2>2 DEF Layout
    <3>2. Beneath(At(k))' = mem[At(k)]
      BY <1>8, <3>1
    <3> QED
      BY <1>1, <1>5, <1>9, <3>1, <3>2 DEF Covered
  <2> QED
    BY <2>1, <2>2 DEF Accounted
<1>13. Focused' /\ (due' => mem'[pc'] # RST08)
  <2>1. CASE ~NeedsTemporary
    BY <1>7, <2>1 DEF Focused, Resume
  <2>2. CASE NeedsTemporary /\ ~forced
    <3>1. pc' = registers_PC /\ goto' = goto /\ pc' \in Code
      BY <1>1, <1>6, <2>2 DEF Resume, TypeOK
    <3>2. mem'[pc'] # RST08
      BY <1>1, <1>6, <1>7, <2>2, <3>1 DEF TypeOK
    <3> QED
      BY <1>6, <1>7, <2>2, <3>1, <3>2 DEF Focused
  <2>3. CASE NeedsTemporary /\ forced
    <3>1. \A a \in Code : mem[a] # RST08
      <4>1. \A a \in Code \ Active : mem[a] # RST08
        BY <1>1, <1>5, <2>3 DEF Requested
      <4>2. \A a \in Active : mem[a] # RST08
        BY <1>1, <1>5, <2>3 DEF Requested, TypeOK
      <4> QED
        BY <4>1, <4>2
    <3>2. \A a \in Code : mem'[a] = RST08 => a = Target'
      BY <1>1, <1>6, <1>7, <2>3, <3>1 DEF TypeOK
    <3>3. due' => pc' = registers_PC /\ pc' # Target'
      BY <1>6, <1>7, <2>3 DEF Resume
    <3> QED
      BY <1>1, <3>2, <3>3 DEF Focused, TypeOK
  <2> QED
    BY <2>1, <2>2, <2>3
<1> QED
  BY <1>1, <1>10, <1>11, <1>12, <1>13
     DEF Accounting, RunInv, UnplantInv, StoppedInv, PlantInv, ResumeInv

LEMMA AccountingStep == ASSUME Regular, Accounting, [Next]_vars PROVE Accounting'
<1>1. TypeOK'
  BY TypeStep DEF Accounting
<1>2. CASE UNCHANGED vars
  <2>1. Layout' /\ StoppedInv'
    BY <1>2 DEF Accounting, Layout, StoppedInv, Idle, At, Target, Current, vars
  <2>2. RunInv'
    BY <1>2 DEF Accounting, RunInv, Requests, Accounted, Focused, Covered, Beneath, IsDeferred,
       At, Held, Target, Active, vars
  <2>3. UnplantInv'
    BY <1>2 DEF Accounting, UnplantInv, Idle, Covered, At, Held, Target, Active, vars
  <2>4. Requested' = Requested /\ PlantInv' = PlantInv /\ ResumeInv' = ResumeInv
    BY <1>2 DEF PlantInv, ResumeInv, Requested, PlantedBelow, IsDeferred,
       At, Held, Target, Active, vars
  <2> QED
    BY <1>1, <2>1, <2>2, <2>3, <2>4 DEF Accounting
<1> QED
  BY <1>1, <1>2, AccountingExecute, AccountingBreakIn, AccountingTemporaryHit, AccountingBreakpointHit,
     AccountingUnplant, AccountingEdit, AccountingLeave, AccountingPlant, AccountingResume
     DEF Next, Processor, Handler, Host

\* What the invariant says to the host and to the program.
LEMMA AccountingImplies ==
  ASSUME Regular, Accounting
  PROVE  /\ StoppedTransparent
         /\ HookIntact
         /\ ResumeExecutes
         /\ Pending
         /\ NoResidue
<1> USE RegularFacts, Constants
<1>1. StoppedTransparent /\ HookIntact /\ ResumeExecutes /\ Pending
  BY DEF Accounting, StoppedInv, Layout, RunInv, Requests, Target,
     StoppedTransparent, HookIntact, ResumeExecutes, Pending
<1>2. NoResidue
  <2> SUFFICES ASSUME phase = "run", Target = Zero, NEW a \in Address \ Active
               PROVE  mem[a] = image[a]
    BY DEF NoResidue, Target
  <2>1. CASE a \in Code
    BY <2>1 DEF Accounting, RunInv, Accounted, Beneath
  <2>2. CASE a \notin Code
    BY <2>2 DEF Accounting, Layout, Address
  <2> QED
    BY <2>1, <2>2
<1> QED
  BY <1>1, <1>2

\* In regular use every byte of memory is accounted for throughout.
LEMMA AccountingInvariance == ASSUME Regular PROVE Spec => []Accounting
BY AccountingInit, AccountingStep, PTL DEF Spec

\* Whenever the host is served, memory is the program's own: for any program
\* without a jump to 0 or to itself, any number of slots and any commands of
\* the regular use, no RST 08 of the stub survives a stop.
THEOREM Transparency == ASSUME Regular PROVE Spec => []StoppedTransparent
BY AccountingInvariance, AccountingImplies, PTL

\* The instruction a step or a continue starts from is never an RST 08 planted
\* over it.
THEOREM ResumptionExecutes == ASSUME Regular PROVE Spec => []ResumeExecutes
BY AccountingInvariance, AccountingImplies, PTL

\* The jump at 0008h, through which every trap reaches the stub, is never planted over.
THEOREM HookStays == ASSUME Regular PROVE Spec => []HookIntact
BY AccountingInvariance, AccountingImplies, PTL

\* While no step is pending, memory outside the enabled breakpoints is the program's.
THEOREM NothingLeftBehind == ASSUME Regular PROVE Spec => [](NoResidue /\ Pending)
BY AccountingInvariance, AccountingImplies, PTL

-----------------------------------------------------------------------------
(* An enabled breakpoint really is in memory. *)

\* A breakpoint that is deferred belongs to a request, and so does the temporary
\* breakpoint: without a request every byte is bare.
LEMMA Unrequested ==
  ASSUME TypeOK, RunInv, phase = "run", Target = Zero
  PROVE  /\ \A k \in Slots : ~IsDeferred(k)
         /\ \A a \in Code : Zero \notin Code => Beneath(a) = mem[a]
         /\ "STEP" \notin trap_flags /\ "RESTORE" \notin trap_flags
BY DEF RunInv, Requests, IsDeferred, Beneath

LEMMA PlantedExecute == ASSUME Regular, IInv, Execute PROVE Planted'
<1> USE RegularFacts, Constants
<1>1. /\ phase = "run" /\ phase' = "run"
      /\ TypeOK /\ Layout /\ RunInv /\ Planted
  BY DEF Execute, IInv, Accounting
<1>2. /\ \A k \in Slots : At(k)' = At(k) /\ (IsDeferred(k)' <=> IsDeferred(k))
      /\ temporary_breakpoint' = temporary_breakpoint /\ Target' = Target
  BY DEF Execute, At, Target, IsDeferred
<1>3. \A a \in Address \ Stores : mem'[a] = mem[a]
  BY <1>1, StoresAssumption DEF Execute, TypeOK
<1>4. \A a \in Code \ Stores : Beneath(a)' = Beneath(a)
  BY <1>2, <1>3 DEF Beneath
<1> QED
  BY <1>1, <1>2, <1>4 DEF Planted, Layout

LEMMA PlantedBreakIn == ASSUME Regular, IInv, BreakIn PROVE Planted'
<1> USE RegularFacts, Constants
<1>1. /\ phase = "run" /\ phase' = "run" /\ Target = Zero
      /\ TypeOK /\ Layout /\ RunInv /\ Planted
  BY DEF BreakIn, IInv, Accounting, Target
<1>2. /\ \A k \in Slots : At(k)' = At(k) /\ ~IsDeferred(k)
      /\ temporary_breakpoint' = [address |-> pc, original_instruction |-> mem[pc]]
      /\ mem' = [mem EXCEPT ![pc] = RST08]
  BY <1>1, Unrequested DEF BreakIn, At
<1>3. \A a \in Code : Beneath(a)' = Beneath(a)
  BY <1>1, <1>2 DEF Beneath, Target, TypeOK
<1> QED
  BY <1>1, <1>2, <1>3 DEF Planted, Layout

LEMMA PlantedBreakpointHit == ASSUME Regular, IInv, BreakpointHit PROVE Planted'
<1> USE RegularFacts, Constants
<1>1. /\ phase = "run" /\ phase' = "unplant"
      /\ TypeOK /\ Layout /\ RunInv /\ Planted
  BY DEF BreakpointHit, Trapped, IInv, Accounting
<1>2. Target = Zero
  BY <1>1, FocusedTrap DEF BreakpointHit, AtTemporary, Target, TypeOK
<1>3. \A k \in Slots : At(k)' = At(k) /\ mem' = mem
  BY DEF BreakpointHit, At
<1> QED
  BY <1>1, <1>2, <1>3, Unrequested DEF Planted, Layout

\* What a hit of the temporary breakpoint does to memory: its own byte goes back
\* and the deferred breakpoint is in place again.
LEMMA TemporaryHitMemory ==
  ASSUME Regular, Accounting, TemporaryHit
  PROVE  /\ Target = pc /\ Target' = Zero /\ ~due /\ mem[pc] = RST08
         /\ \A k \in Slots : At(k)' = At(k)
         /\ \A k \in Slots : At(k) # Zero =>
              mem'[At(k)] = IF IsDeferred(k) THEN RST08 ELSE Beneath(At(k))
<1> USE RegularFacts, Constants
<1>1. /\ phase = "run" /\ TypeOK /\ Layout /\ RunInv /\ Target = pc /\ mem[pc] = RST08
      /\ Requests
  BY DEF TemporaryHit, Trapped, AtTemporary, Target, Accounting, RunInv
<1>2. \A a \in Address : PutBack[a] = Beneath(a)
  BY <1>1 DEF PutBack, Beneath, TypeOK
<1>3. PutBack \in [Address -> Byte]
  BY <1>1 DEF PutBack, TypeOK, Breakpoint
<1>4. /\ Target' = Zero /\ ~due
      /\ \A k \in Slots : At(k)' = At(k)
  BY <1>1 DEF TemporaryHit, Rearming, Target, At, RunInv, TypeOK, Breakpoint
<1>5. ASSUME NEW k \in Slots, At(k) # Zero
      PROVE  mem'[At(k)] = IF IsDeferred(k) THEN RST08 ELSE Beneath(At(k))
  <2>1. At(k) \in Code
    BY <1>1, <1>5 DEF Layout
  <2>2. CASE "RESTORE" \in trap_flags
    <3>1. mem' = [PutBack EXCEPT ![At(trap_restore_idx)] = RST08]
      BY <2>2 DEF TemporaryHit, Rearming, At
    <3>2. At(trap_restore_idx) \in Address /\ trap_restore_idx \in Slots
      BY <1>1 DEF Layout, TypeOK, Address
    <3>3. IsDeferred(k) <=> At(k) = At(trap_restore_idx)
      BY <1>1, <1>5, <2>2, <3>2 DEF Layout, IsDeferred
    <3> QED
      BY <1>2, <1>3, <2>1, <3>1, <3>2, <3>3
  <2>3. CASE "RESTORE" \notin trap_flags
    BY <1>2, <2>1, <2>3 DEF TemporaryHit, Rearming, IsDeferred
  <2> QED
    BY <2>2, <2>3
<1> QED
  BY <1>1, <1>4, <1>5

LEMMA PlantedTemporaryHit == ASSUME Regular, IInv, TemporaryHit PROVE Planted'
<1> USE RegularFacts, Constants
<1>1. phase = "run" /\ phase' \in {"run", "unplant"} /\ Layout /\ Planted /\ Accounting
  BY DEF TemporaryHit, Trapped, IInv, Accounting
<1>2. Target' = Zero /\ \A k \in Slots : At(k)' = At(k)
  BY <1>1, TemporaryHitMemory
<1>3. ASSUME NEW k \in Slots, At(k) \notin Stores \union {Zero}
      PROVE  mem'[At(k)] = RST08 /\ Beneath(At(k))' = RST08
  <2>1. mem'[At(k)] = RST08
    BY <1>1, <1>3, TemporaryHitMemory DEF Planted
  <2>2. Beneath(At(k))' = mem'[At(k)']
    BY <1>2, <1>3 DEF Beneath
  <2> QED
    BY <1>2, <2>1, <2>2
<1> QED
  BY <1>1, <1>2, <1>3 DEF Planted

\* One round of the loop that takes breakpoints out gives the byte back, and frees
\* the slot only if the RST 08 is gone.
LEMMA UnplantRound ==
  ASSUME Regular, Accounting, Unplant, NEW k \in Slots
  PROVE  /\ k # i => At(k)' = At(k) /\ (At(k) # Zero => mem'[At(k)] = mem[At(k)])
         /\ k = i => At(k)' = IF At(k) # Zero /\ mem[At(k)] # RST08 THEN Zero ELSE At(k)
<1> USE RegularFacts, Constants
<1>1. TypeOK /\ Layout /\ i \in Slots
  BY DEF Accounting, TypeOK
<1>2. breakpoints' \in {breakpoints, [breakpoints EXCEPT ![i].address = Zero]}
  BY DEF Unplant, InPlace
<1>3. CASE k # i
  <2>1. At(k)' = At(k)
    BY <1>1, <1>2, <1>3 DEF At, TypeOK, Breakpoint
  <2>2. ASSUME At(k) # Zero PROVE mem'[At(k)] = mem[At(k)]
    <3>1. At(k) # At(i)
      BY <1>1, <1>3, <2>2 DEF Layout
    <3> QED
      BY <1>1, <2>2, <3>1 DEF Unplant, InPlace, At, Layout, TypeOK
  <2> QED
    BY <1>3, <2>1, <2>2
<1>4. CASE k = i
  BY <1>1, <1>4 DEF Unplant, InPlace, At, TypeOK, Breakpoint
<1> QED
  BY <1>3, <1>4

LEMMA PlantedUnplant == ASSUME Regular, IInv, Unplant PROVE Planted'
<1>1. /\ phase = "unplant" /\ phase' \in {"unplant", "stopped"} /\ Planted /\ Accounting
      /\ i \in Nat /\ (phase' = "unplant" => i' = i + 1)
  BY SlotsAssumption DEF Unplant, InPlace, NextSlot, LoopTo, IInv, Accounting, TypeOK, Slots
<1>2. ASSUME phase' = "unplant", NEW k \in Slots, At(k)' \notin Stores \union {Zero}
      PROVE  k < i' \/ mem'[At(k)'] = RST08
  <2>1. k \in Nat
    BY SlotsAssumption DEF Slots
  <2>2. CASE k = i
    BY <1>1, <1>2, <2>1, <2>2
  <2>3. CASE k # i
    <3>1. At(k)' = At(k) /\ mem'[At(k)] = mem[At(k)]
      BY <1>1, <1>2, <2>3, UnplantRound
    <3> QED
      BY <1>1, <1>2, <2>1, <2>3, <3>1 DEF Planted
  <2> QED
    BY <2>2, <2>3
<1> QED
  BY <1>1, <1>2 DEF Planted

LEMMA PlantedResume == ASSUME Regular, IInv, Accounting', Resume PROVE Planted'
<1> USE RegularFacts, Constants
<1>1. /\ phase = "resume" /\ phase' = "run" /\ TypeOK /\ Layout
      /\ Requested /\ PlantedBelow(MaxBreakpoints)
  BY DEF Resume, IInv, Accounting, ResumeInv
<1>2. \A k \in Slots : k < MaxBreakpoints
  BY SlotsAssumption DEF Slots
<1>3. \A k \in Slots : At(k)' = At(k) /\ (IsDeferred(k)' <=> IsDeferred(k))
  BY DEF Resume, At, IsDeferred
<1>4. \A a \in Code : Beneath(a)' = mem[a]
  <2>1. CASE NeedsTemporary
    <3>1. /\ temporary_breakpoint' = [address |-> NextAddress,
                                      original_instruction |-> mem[NextAddress]]
          /\ mem' = [mem EXCEPT ![NextAddress] = RST08]
      BY <2>1, ResumePlants
    <3> QED
      BY <1>1, <3>1 DEF Beneath, Target, TypeOK
  <2>2. CASE ~NeedsTemporary
    <3>1. Target = Zero /\ Target' = Zero /\ mem' = mem
      BY <1>1, <2>2 DEF Resume, Target, Requested, NeedsTemporary
    <3> QED
      BY <3>1 DEF Beneath
  <2> QED
    BY <2>1, <2>2
<1>5. ASSUME NEW k \in Slots, At(k) # Zero PROVE IsDeferred(k) \/ mem[At(k)] = RST08
  BY <1>1, <1>2, <1>5 DEF PlantedBelow
<1> QED
  BY <1>1, <1>3, <1>4, <1>5 DEF Planted, Layout

LEMMA PlantedStep == ASSUME Regular, IInv, Accounting', [Next]_vars PROVE Planted'
<1>1. ASSUME UNCHANGED vars PROVE Planted'
  BY <1>1 DEF vars, IInv, Planted, At, IsDeferred, Beneath, Target
<1>2. ASSUME phase' \notin {"run", "unplant"} PROVE Planted'
  BY <1>2 DEF Planted
<1>3. ASSUME Host, ~BreakIn PROVE phase' \notin {"run", "unplant"}
  BY <1>3 DEF Host, PlaceBreakpoint, DeleteBreakpoint, WriteRegister, WriteMemory, Continue,
     Step, StepOver, LeaveLoop
<1>4. ASSUME Plant PROVE phase' \notin {"run", "unplant"}
  BY <1>4 DEF Plant, Deferring, NextSlot, LoopTo
<1> QED
  BY <1>1, <1>2, <1>3, <1>4, PlantedExecute, PlantedBreakIn, PlantedBreakpointHit,
     PlantedTemporaryHit, PlantedUnplant, PlantedResume
     DEF Next, Processor, Handler

\* The address of a step over is one the host may name.
LEMMA NamedStep == ASSUME Regular, IInv, [Next]_vars PROVE Named'
<1> USE RegularFacts, Constants
<1>1. TypeOK /\ StoppedInv /\ Named
  BY DEF IInv, Accounting
<1>2. CASE Continue \/ Step
  <2>1. phase = "stopped" /\ "FORCE" \notin trap_flags'
    BY <1>1, <1>2 DEF Continue, Step, StoppedInv, Idle
  <2> QED
    BY <2>1 DEF Named
<1>3. ASSUME NEW target \in Skip[registers_PC], StepOver(target) PROVE Named'
  <2>1. Target' = target /\ registers_PC' = registers_PC
    BY <1>1, <1>3 DEF StepOver, LeaveLoop, Target, TypeOK, Breakpoint
  <2> QED
    BY <1>3, <2>1 DEF Named
<1>4. CASE Plant
  <2>1. /\ UNCHANGED <<temporary_breakpoint, registers_PC>> /\ phase = "plant"
        /\ "FORCE" \in trap_flags' => "FORCE" \in trap_flags
    BY <1>4 DEF Plant, Deferring
  <2> QED
    BY <1>1, <2>1 DEF Named, Target
<1>5. ASSUME UNCHANGED vars PROVE Named'
  BY <1>1, <1>5 DEF vars, Named, Target
<1>6. ASSUME phase' \notin {"plant", "resume"} PROVE Named'
  BY <1>6 DEF Named
<1>7. ASSUME Execute \/ TemporaryHit \/ BreakpointHit \/ Unplant \/ Resume
      PROVE  phase' \notin {"plant", "resume"}
  BY <1>7 DEF Execute, TemporaryHit, BreakpointHit, Trapped, Unplant, Resume,
     NextSlot, LoopTo
<1>8. ASSUME NEW a \in Code, PlaceBreakpoint(a) \/ DeleteBreakpoint(a) \/ WriteRegister(a)
      PROVE  phase' \notin {"plant", "resume"}
  BY <1>8 DEF PlaceBreakpoint, DeleteBreakpoint, WriteRegister
<1>9. ASSUME NEW a \in Patches, NEW byte, WriteMemory(a, byte)
      PROVE  phase' \notin {"plant", "resume"}
  BY <1>9 DEF WriteMemory
<1>10. ASSUME BreakIn PROVE phase' \notin {"plant", "resume"}
  BY <1>10 DEF BreakIn
<1> QED
  BY <1>2, <1>3, <1>4, <1>5, <1>6, <1>7, <1>8, <1>9, <1>10
     DEF Next, Processor, Handler, Host

LEMMA IInvInit == ASSUME Regular, Init PROVE IInv
<1>1. Accounting
  BY AccountingInit
<1>2. Planted /\ Named
  BY DEF Init, NoBreakpoint, Planted, Named, At
<1> QED
  BY <1>1, <1>2 DEF IInv

LEMMA IInvStep == ASSUME Regular, IInv, [Next]_vars PROVE IInv'
<1>1. Accounting'
  BY AccountingStep DEF IInv
<1> QED
  BY <1>1, PlantedStep, NamedStep DEF IInv

\* In regular use every byte is accounted for and every enabled breakpoint is in
\* place, throughout.
THEOREM Invariance == ASSUME Regular PROVE Spec => []IInv
BY IInvInit, IInvStep, PTL DEF Spec

-----------------------------------------------------------------------------
(* What the invariant says of breakpoints and steps. *)

LEMMA IInvImplies == ASSUME Regular, IInv PROVE Guarded /\ Unmixed
<1> USE RegularFacts, Constants
<1>1. Accounting /\ TypeOK /\ Layout
  BY DEF IInv, Accounting
<1>2. Guarded
  <2> SUFFICES ASSUME NEW k \in Slots, phase = "run", At(k) = pc, pc \notin Stores \union {Zero}
               PROVE  mem[pc] = RST08 \/ ("RESTORE" \in trap_flags /\ trap_restore_idx = k)
    BY DEF Guarded, At
  <2>1. IsDeferred(k) \/ Beneath(pc) = RST08
    BY DEF IInv, Planted
  <2>2. pc = Target => mem[pc] = RST08
    BY <1>1 DEF Accounting, RunInv, Requests
  <2> QED
    BY <2>1, <2>2 DEF Beneath, IsDeferred
<1>3. Unmixed
  <2> SUFFICES ASSUME NEW a \in Code PROVE mem[a] \in {image[a], RST08}
    BY <1>1 DEF Unmixed, Layout, Address
  <2>1. a \in Active => \E k \in Slots : At(k) = a /\ At(k) # Zero
    BY DEF Active, At
  <2>2. CASE phase = "run"
    <3>1. Beneath(a) \in {image[a], RST08}
      BY <1>1, <2>1, <2>2 DEF Accounting, RunInv, Accounted, Covered
    <3>2. a = Target => mem[a] = RST08
      BY <1>1, <2>2 DEF Accounting, RunInv, Requests
    <3> QED
      BY <3>1, <3>2 DEF Beneath
  <2>3. CASE phase = "unplant"
    BY <1>1, <2>1, <2>3 DEF Accounting, UnplantInv, Covered
  <2>4. CASE phase = "stopped"
    BY <1>1, <2>4 DEF Accounting, StoppedInv
  <2>5. CASE phase \in {"plant", "resume"}
    BY <1>1, <2>1, <2>5 DEF Accounting, PlantInv, ResumeInv, PlantedBelow
  <2> QED
    BY <1>1, <2>2, <2>3, <2>4, <2>5 DEF TypeOK, Layout
<1> QED
  BY <1>2, <1>3

\* The program does not run past an enabled breakpoint outside the bytes it stores
\* to, unless it was resumed from it.
THEOREM BreakpointsGuard == ASSUME Regular PROVE Spec => []Guarded
BY Invariance, IInvImplies, PTL

\* A byte of memory is always one of its own address or RST 08: no slot gives back
\* what it took from elsewhere.
THEOREM BytesStayApart == ASSUME Regular PROVE Spec => []Unmixed
BY Invariance, IInvImplies, PTL

\* The loop that takes breakpoints out frees no slot whose byte the program could
\* not have changed.
THEOREM BreakpointsKept == ASSUME Regular PROVE Spec => Kept
<1>1. ASSUME IInv, [Next]_vars, NEW k \in Slots, phase = "unplant", At(k) \notin Stores
      PROVE  At(k)' = At(k)
  <2>1. CASE UNCHANGED vars
    BY <2>1 DEF vars, At
  <2>2. CASE Unplant
    <3>1. k = i /\ At(k) # Zero => mem[At(k)] = RST08
      BY <1>1, SlotsAssumption DEF IInv, Planted, Slots
    <3> QED
      BY <1>1, <2>2, <3>1, UnplantRound DEF IInv
  <2>3. Next => Unplant
    BY <1>1 DEF Next, Processor, Handler, Host, Execute, TemporaryHit, BreakpointHit,
       Trapped, Plant, Resume, BreakIn, PlaceBreakpoint, DeleteBreakpoint, WriteRegister,
       WriteMemory, Continue, Step, StepOver
  <2> QED
    BY <1>1, <2>1, <2>2, <2>3
<1>2. IInv /\ [Next]_vars =>
        [\A k \in Slots : phase = "unplant" /\ breakpoints[k].address \notin Stores
           => breakpoints'[k].address = breakpoints[k].address]_vars
  BY <1>1 DEF At
<1> QED
  BY <1>2, Invariance, PTL DEF Spec, Kept

\* Where a step stops: what the return from the handler plants for it.
LEMMA StepGoesOn ==
  ASSUME Regular, Accounting, Resume, NeedsTemporary, "FORCE" \notin trap_flags
  PROVE  Target' = goto /\ pc' = registers_PC /\ goto' = goto /\ ~PastRST /\ goto \in Code
<1> USE RegularFacts, Constants
<1>1. /\ TypeOK /\ Layout /\ Requested /\ PlantedBelow(MaxBreakpoints)
      /\ \A k \in Slots : k < MaxBreakpoints
  BY SlotsAssumption DEF Resume, Accounting, ResumeInv, Slots
<1>2. "RESTORE" \in trap_flags => registers_PC \in Active
  BY <1>1 DEF PlantedBelow, Active, At, TypeOK
<1>3. ~PastRST /\ image[registers_PC] # RST08
  BY <1>1, <1>2 DEF Requested, NeedsTemporary, PastRST
<1>4. mem[registers_PC] = image[registers_PC]
  <2>1. registers_PC \in Active => \E k \in Slots : At(k) = registers_PC /\ At(k) # Zero
    BY DEF Active, At
  <2> QED
    BY <1>1, <2>1 DEF PlantedBelow, TypeOK
<1>5. NextAddress = goto
  BY <1>3, <1>4, RegularFacts DEF NextAddress
<1> QED
  BY <1>1, <1>3, <1>5, ResumePlants DEF Resume, Target, TypeOK

-----------------------------------------------------------------------------
(* The handler implements Debugger: every step of it is a step the host can  *)
(* follow, or one it does not see.                                           *)

\* The abstract breakpoints in terms of the invariant's names.
SetMeaning ==
  /\ \A k \in Slots : Set(k) => At(k) # Zero
  /\ phase = "run" => \A k \in Slots : At(k) # Zero =>
                        /\ IsDeferred(k) <=> At(k) = Deferred
                        /\ Set(k) <=> IsDeferred(k) \/ Beneath(At(k)) = RST08
  /\ phase = "unplant" => \A k \in Slots : At(k) # Zero =>
                            (Set(k) <=> k < i \/ mem[At(k)] = RST08)
  /\ phase \in {"stopped", "plant", "resume"} => \A k \in Slots : Set(k) <=> At(k) # Zero

LEMMA SetMeans == ASSUME Regular PROVE Accounting => SetMeaning
<1> SUFFICES ASSUME Accounting PROVE SetMeaning
  OBVIOUS
<1> USE RegularFacts, Constants
<1>1. TypeOK /\ Layout
  BY DEF Accounting
<1>2. \A k \in Slots : Set(k) => At(k) # Zero
  BY DEF Set, At
<1>3. ASSUME phase = "run", NEW k \in Slots, At(k) # Zero
      PROVE  /\ IsDeferred(k) <=> At(k) = Deferred
             /\ Set(k) <=> IsDeferred(k) \/ Beneath(At(k)) = RST08
  <2>1. Deferred = IF "RESTORE" \in trap_flags THEN At(trap_restore_idx) ELSE Zero
    BY <1>3 DEF Deferred, Running, At
  <2>2. IsDeferred(k) <=> At(k) = Deferred
    BY <1>1, <1>3, <2>1 DEF IsDeferred, Layout, TypeOK
  <2>3. Set(k) <=> At(k) = Deferred \/ Beneath(At(k)) = RST08
    BY <1>3 DEF Set, Under, Beneath, Target, At
  <2> QED
    BY <2>2, <2>3
<1>4. ASSUME phase # "run" PROVE Deferred = Zero
  BY <1>1, <1>4 DEF Deferred, Running, Layout
<1>5. phase = "unplant" => \A k \in Slots : At(k) # Zero =>
        (Set(k) <=> k < i \/ mem[At(k)] = RST08)
  BY <1>4 DEF Set, Under, At
<1>6. phase \in {"stopped", "plant", "resume"} => \A k \in Slots : Set(k) <=> At(k) # Zero
  BY DEF Set, At
<1> QED
  BY <1>2, <1>3, <1>5, <1>6 DEF SetMeaning

\* The same before and after a step.
LEMMA SetMeansTwice == ASSUME Regular, IInv, IInv' PROVE SetMeaning /\ SetMeaning'
<1>1. Accounting' => SetMeaning'
  BY SetMeans, PTL
<1> QED
  BY <1>1, SetMeans DEF IInv

\* The abstract breakpoints do not change when no slot's address and no slot's
\* status does.
LEMMA SameBreakpoints ==
  ASSUME \A k \in Slots : (Set(k)' <=> Set(k)) /\ (Set(k) => At(k)' = At(k))
  PROVE  SetAddresses' = SetAddresses
BY DEF SetAddresses, At

\* The abstract variables by phase.
LEMMA Mapping ==
  ASSUME Regular, Accounting
  PROVE  /\ Running <=> phase = "run"
         /\ AtOwnRST => phase # "run"
BY DEF Accounting, Layout, Running, AtOwnRST

LEMMA DebuggerInit == ASSUME Regular, Init PROVE D!Init
<1> USE RegularFacts, Constants
<1>1. Running /\ ~AtOwnRST /\ Deferred = Zero
  BY DEF Init, Running, AtOwnRST, Deferred
<1>2. SetAddresses = {}
  BY DEF Init, NoBreakpoint, SetAddresses, Set
<1> QED
  BY <1>1, <1>2 DEF Init, D!Init

LEMMA DebuggerExecute == ASSUME Regular, IInv, IInv', Execute PROVE D!Execute
<1> USE RegularFacts, Constants
<1>0. SetMeaning /\ SetMeaning'
  BY SetMeansTwice
<1>1. /\ phase = "run" /\ phase' = "run" /\ mem[pc] # RST08 /\ TypeOK /\ Layout /\ RunInv
      /\ Accounting /\ Accounting' /\ Requests /\ Accounted
  BY DEF Execute, IInv, Accounting, RunInv
<1>2. Running /\ Running' /\ ~AtOwnRST /\ ~AtOwnRST'
  BY <1>1 DEF Running, AtOwnRST
<1>3. /\ UNCHANGED <<trap_flags, temporary_breakpoint, breakpoints, trap_restore_idx>>
      /\ pc' = goto /\ due' = FALSE /\ goto \in Flow[pc]
      /\ Deferred' = Deferred /\ Target' = Target
      /\ \A k \in Slots : At(k)' = At(k) /\ (IsDeferred(k)' <=> IsDeferred(k))
  BY <1>1, <1>2 DEF Execute, Layout, Current, Deferred, Target, At, IsDeferred
\* Nothing stops the program here.
<1>4. ~D!Breaks
  <2>1. pc # Target /\ pc # Zero /\ Beneath(pc) = mem[pc]
    BY <1>1 DEF Requests, TypeOK, Beneath
  <2>2. pc \notin SetAddresses \ {Deferred}
    BY <1>1, <2>1, <1>0 DEF SetMeaning, SetAddresses, At
  <2>3. image[pc] # RST08
    BY <1>1, <2>1 DEF Accounted, Covered, Active, At, TypeOK
  <2> QED
    BY <1>2, <2>1, <2>2, <2>3 DEF D!Breaks, Target
<1>5. CASE UNCHANGED <<mem, image>>
  <2>1. \A k \in Slots : At(k) # Zero => (Set(k)' <=> Set(k))
    BY <1>1, <1>3, <1>5, <1>0 DEF SetMeaning, Beneath
  <2>2. SetAddresses' = SetAddresses
    BY <1>1, <1>3, <2>1, <1>0, SameBreakpoints DEF SetMeaning
  <2> QED
    BY <1>2, <1>3, <1>4, <1>5, <2>2 DEF D!Execute
<1>6. ASSUME NEW a \in Stores, NEW byte \in Own[a], a # Target,
             mem' = [mem EXCEPT ![a] = byte], image' = [image EXCEPT ![a] = byte]
      PROVE  D!Execute
  <2>1. a \in Code /\ byte # RST08 /\ mem'[a] # RST08
    BY <1>1, <1>6, StoresAssumption DEF TypeOK
  <2>2. \A b \in Code : Beneath(b)' = IF b = a THEN byte ELSE Beneath(b)
    BY <1>1, <1>3, <1>6, <2>1 DEF Beneath, TypeOK
  <2>3. \A k \in Slots : At(k) # Zero =>
          (Set(k)' <=> Set(k) /\ (At(k) = a => At(k) = Deferred))
    BY <1>1, <1>3, <2>1, <2>2, <1>0 DEF SetMeaning, Layout
  <2>4. \A k \in Slots : (Set(k) => At(k) # Zero) /\ (Set(k)' => At(k) # Zero)
    BY <1>1, <1>3, <1>0 DEF SetMeaning
  <2>5. SetAddresses' = IF a = Deferred THEN SetAddresses ELSE SetAddresses \ {a}
    BY <1>3, <2>3, <2>4 DEF SetAddresses, At
  <2> QED
    BY <1>2, <1>3, <1>4, <1>6, <2>5 DEF D!Execute
<1> QED
  BY <1>5, <1>6 DEF Execute, Target

LEMMA DebuggerBreakIn == ASSUME Regular, IInv, IInv', BreakIn PROVE D!BreakIn
<1> USE RegularFacts, Constants
<1>0. SetMeaning /\ SetMeaning'
  BY SetMeansTwice
<1>1. /\ phase = "run" /\ phase' = "run" /\ TypeOK /\ Layout /\ RunInv /\ Target = Zero
      /\ Accounting /\ Accounting'
  BY DEF BreakIn, IInv, Accounting, Target
<1>2. Running /\ Running' /\ ~AtOwnRST /\ ~AtOwnRST'
  BY <1>1 DEF Running, AtOwnRST
<1>3. /\ temporary_breakpoint' = [address |-> pc, original_instruction |-> mem[pc]]
      /\ mem' = [mem EXCEPT ![pc] = RST08] /\ UNCHANGED <<image, pc>> /\ due' = FALSE
      /\ trap_flags' = trap_flags \union {"STEP"}
      /\ "STEP" \notin trap_flags /\ "RESTORE" \notin trap_flags
      /\ \A k \in Slots : At(k)' = At(k) /\ ~IsDeferred(k)' /\ ~IsDeferred(k)
  BY <1>1, Unrequested DEF BreakIn, At, IsDeferred
<1>4. Deferred = Zero /\ Deferred' = Zero
  BY <1>3 DEF Deferred
<1>5. \A a \in Code : Beneath(a)' = Beneath(a)
  BY <1>1, <1>3 DEF Beneath, Target, TypeOK
<1>6. \A k \in Slots : At(k) # Zero => (Set(k)' <=> Set(k))
  BY <1>1, <1>3, <1>5, <1>0 DEF SetMeaning, Layout
<1>7. SetAddresses' = SetAddresses
  BY <1>1, <1>3, <1>6, <1>0, SameBreakpoints DEF SetMeaning
<1> QED
  BY <1>2, <1>3, <1>4, <1>7 DEF D!BreakIn

\* When the handler has put the breakpoints in place again, none has changed.
LEMMA HitBreakpoints == ASSUME Regular, IInv, IInv', TemporaryHit PROVE SetAddresses' = SetAddresses
<1> USE RegularFacts, Constants
<1>0. SetMeaning /\ SetMeaning'
  BY SetMeansTwice
<1>1. /\ phase = "run" /\ phase' \in {"run", "unplant"} /\ i' = 0
      /\ Accounting /\ Accounting' /\ "RESTORE" \notin trap_flags'
  BY DEF TemporaryHit, Trapped, FlagsAfterHit, IInv
<1>2. Target' = Zero /\ \A k \in Slots : At(k)' = At(k) /\ ~IsDeferred(k)' /\ ~(k < i')
  BY <1>1, TemporaryHitMemory, SlotsAssumption DEF IsDeferred, Slots
<1>3. \A k \in Slots : At(k) # Zero => (Set(k)' <=> mem'[At(k)] = RST08)
  <2> SUFFICES ASSUME NEW k \in Slots, At(k) # Zero PROVE Set(k)' <=> mem'[At(k)] = RST08
    OBVIOUS
  <2>1. Beneath(At(k))' = mem'[At(k)]
    BY <1>2 DEF Beneath
  <2> QED
    BY <1>1, <1>2, <2>1, <1>0 DEF SetMeaning
<1>4. \A k \in Slots : At(k) # Zero => (Set(k)' <=> Set(k))
  BY <1>1, <1>3, <1>0, TemporaryHitMemory DEF SetMeaning
<1> QED
  BY <1>1, <1>2, <1>4, <1>0, SameBreakpoints DEF SetMeaning

LEMMA DebuggerTemporaryHit ==
  ASSUME Regular, IInv, IInv', TemporaryHit PROVE D!Stop \/ D!Relift
<1> USE RegularFacts, Constants
<1>1. /\ phase = "run" /\ TypeOK /\ RunInv /\ Requests /\ Layout /\ Accounting /\ Accounting'
      /\ Target = pc /\ pc # Zero /\ ~due /\ Target' = Zero
      /\ phase' = IF "STEP" \in trap_flags THEN "unplant" ELSE "run"
      /\ trap_flags' = FlagsAfterHit /\ registers_PC' = pc
      /\ UNCHANGED <<image, pc, due>>
  BY TemporaryHitMemory DEF TemporaryHit, Trapped, Stepping, IInv, Accounting, RunInv, TypeOK
<1>2. Running /\ ~AtOwnRST /\ ~AtOwnRST' /\ Deferred' = Zero
  BY <1>1 DEF Running, AtOwnRST, FlagsAfterHit, Deferred
<1>3. SetAddresses' = SetAddresses
  BY HitBreakpoints
<1>4. CASE "STEP" \in trap_flags
  <2>1. ~Running' /\ D!Breaks
    BY <1>1, <1>2, <1>4 DEF Running, D!Breaks, Target
  <2> QED
    BY <1>1, <1>2, <1>3, <1>4, <2>1 DEF D!Stop, Target
<1>5. CASE "STEP" \notin trap_flags
  <2>1. Running'
    BY <1>1, <1>5 DEF Running
  <2>2. "STEP" \notin trap_flags'
    BY <1>1, <1>5 DEF FlagsAfterHit
  <2> QED
    BY <1>1, <1>2, <1>3, <1>5, <2>1, <2>2 DEF D!Relift
<1> QED
  BY <1>4, <1>5

LEMMA DebuggerBreakpointHit == ASSUME Regular, IInv, IInv', BreakpointHit PROVE D!Stop
<1> USE RegularFacts, Constants
<1>0. SetMeaning /\ SetMeaning'
  BY SetMeansTwice
<1>1. /\ phase = "run" /\ phase' = "unplant" /\ i' = 0 /\ mem[pc] = RST08
      /\ TypeOK /\ RunInv /\ Accounted /\ Layout /\ Accounting /\ Accounting'
      /\ registers_PC' = pc /\ UNCHANGED <<mem, image, pc, due, breakpoints>>
      /\ "HIT" \notin trap_flags'
  BY DEF BreakpointHit, Trapped, IInv, Accounting, RunInv
<1>2. Target = Zero /\ ~due /\ pc # Zero
  BY <1>1, FocusedTrap DEF BreakpointHit, AtTemporary, Target, TypeOK, RunInv
<1>3. /\ "STEP" \notin trap_flags /\ Deferred = Zero /\ Deferred' = Zero
      /\ \A k \in Slots : At(k)' = At(k) /\ ~IsDeferred(k) /\ ~(k < i')
      /\ \A a \in Code : Beneath(a) = mem[a]
  BY <1>1, <1>2, Unrequested, SlotsAssumption DEF Deferred, Running, At, Slots
<1>4. \A k \in Slots : At(k) # Zero =>
        (Set(k)' <=> mem[At(k)] = RST08) /\ (Set(k) <=> mem[At(k)] = RST08)
  BY <1>1, <1>3, <1>0 DEF SetMeaning, Layout
<1>5. SetAddresses' = SetAddresses
  BY <1>1, <1>3, <1>4, <1>0, SameBreakpoints DEF SetMeaning
<1>6. Running /\ ~Running' /\ ~AtOwnRST
  BY <1>1 DEF Running, AtOwnRST
<1>7. AtOwnRST' <=> pc \notin SetAddresses
  <2>1. AtOwnRST' <=> \A k \in Slots : Set(k)' => At(k) # pc
    BY <1>1, <1>3, <1>6, SlotsAssumption DEF AtOwnRST, At, Slots
  <2>2. \A k \in Slots : Set(k)' <=> Set(k)
    BY <1>1, <1>3, <1>4, <1>0 DEF SetMeaning
  <2> QED
    BY <2>1, <2>2 DEF SetAddresses, At
<1>8. D!Breaks
  <2>1. CASE pc \in Active
    BY <1>1, <1>2, <1>3, <1>4, <1>6, <2>1 DEF D!Breaks, SetAddresses, Active, At
  <2>2. CASE pc \notin Active
    BY <1>1, <1>3, <1>6, <2>2 DEF D!Breaks, Accounted, TypeOK
  <2> QED
    BY <2>1, <2>2
<1> QED
  BY <1>1, <1>2, <1>3, <1>5, <1>6, <1>7, <1>8 DEF D!Stop

LEMMA DebuggerUnplant == ASSUME Regular, IInv, IInv', Unplant PROVE UNCHANGED D!vars
<1> USE RegularFacts, Constants
<1>0. SetMeaning /\ SetMeaning'
  BY SetMeansTwice
<1>1. /\ phase = "unplant" /\ phase' \in {"unplant", "stopped"}
      /\ TypeOK /\ Layout /\ UnplantInv /\ Accounting /\ Accounting' /\ i \in Slots
      /\ UNCHANGED <<image, pc, registers_PC>> /\ registers_PC = pc
      /\ phase' = "unplant" => i' = i + 1
      /\ phase' = "stopped" => i = MaxBreakpoints - 1
  BY DEF Unplant, InPlace, NextSlot, LoopTo, IInv, Accounting, TypeOK, UnplantInv
<1>2. \A k \in Slots : k <= MaxBreakpoints - 1 /\ k \in Nat
  BY SlotsAssumption DEF Slots
<1>3. ~Running /\ ~Running' /\ Deferred = Zero /\ Deferred' = Zero
  BY <1>1 DEF Running, Deferred
\* The slot of this round stays set exactly if its RST 08 was found.
<1>4. \A k \in Slots : (Set(k)' <=> Set(k)) /\ (Set(k) => At(k)' = At(k))
  <2> SUFFICES ASSUME NEW k \in Slots
               PROVE  (Set(k)' <=> Set(k)) /\ (Set(k) => At(k)' = At(k))
    OBVIOUS
  <2>1. CASE At(k) = Zero
    BY <1>0, <2>1, UnplantRound DEF SetMeaning, IInv
  <2>2. CASE At(k) # Zero /\ k # i
    <3>1. At(k)' = At(k) /\ mem'[At(k)] = mem[At(k)]
      BY <2>2, UnplantRound DEF IInv
    <3>2. CASE phase' = "unplant"
      <4>1. k < i' <=> k < i
        BY <1>1, <1>2, <2>2, <3>2
      <4> QED
        BY <1>0, <1>1, <2>2, <3>1, <3>2, <4>1 DEF SetMeaning
    <3>3. CASE phase' = "stopped"
      <4>1. k < i
        BY <1>1, <1>2, <2>2, <3>3
      <4> QED
        BY <1>0, <1>1, <2>2, <3>1, <3>3, <4>1 DEF SetMeaning
    <3> QED
      BY <1>1, <3>2, <3>3
  <2>3. CASE At(k) # Zero /\ k = i
    <3>1. At(k)' = IF mem[At(k)] # RST08 THEN Zero ELSE At(k)
      BY <2>3, UnplantRound DEF IInv
    <3>2. Set(k) <=> mem[At(k)] = RST08
      BY <1>0, <1>1, <1>2, <2>3 DEF SetMeaning
    <3>3. At(k)' # Zero => Set(k)'
      BY <1>0, <1>1, <1>2, <2>3 DEF SetMeaning
    <3> QED
      BY <1>0, <2>3, <3>1, <3>2, <3>3 DEF SetMeaning
  <2> QED
    BY <2>1, <2>2, <2>3
<1>5. SetAddresses' = SetAddresses
  BY <1>4, SameBreakpoints
\* Found at PC, it was no RST 08 of the program.
<1>6. AtOwnRST' <=> AtOwnRST
  <2>1. AtOwnRST <=> "HIT" \notin trap_flags /\ \A k \in Slots : k >= i /\ Set(k) => At(k) # pc
    BY <1>1, <1>3 DEF AtOwnRST, At
  <2>2. AtOwnRST' <=> /\ "HIT" \notin trap_flags'
                      /\ phase' = "unplant" => \A k \in Slots : k >= i' /\ Set(k)' => At(k)' # pc
    BY <1>1, <1>3 DEF AtOwnRST, At
  <2>3. "HIT" \in trap_flags' <=> "HIT" \in trap_flags \/ (Set(i) /\ At(i) = pc)
    <3>1. At(i) # Zero => (Set(i) <=> mem[At(i)] = RST08)
      BY <1>0, <1>1, <1>2 DEF SetMeaning
    <3> QED
      BY <1>0, <1>1, <3>1 DEF Unplant, InPlace, At, SetMeaning
  <2>4. phase' = "unplant" => \A k \in Slots : k >= i' <=> k >= i /\ k # i
    BY <1>1, <1>2
  <2>5. phase' = "stopped" => \A k \in Slots : k >= i => k = i
    BY <1>1, <1>2
  <2>6. i >= i
    BY <1>1, <1>2
  <2> QED
    BY <1>1, <1>4, <2>1, <2>2, <2>3, <2>4, <2>5, <2>6
<1> QED
  BY <1>1, <1>3, <1>5, <1>6 DEF D!vars

LEMMA DebuggerPlant == ASSUME Regular, IInv, IInv', Plant PROVE UNCHANGED D!vars
<1> USE RegularFacts, Constants
<1>0. SetMeaning /\ SetMeaning'
  BY SetMeansTwice
<1>1. /\ phase = "plant" /\ phase' \in {"plant", "resume"} /\ TypeOK
      /\ UNCHANGED <<image, pc, registers_PC>>
      /\ "HIT" \in trap_flags' <=> "HIT" \in trap_flags
  BY DEF Plant, Deferring, NextSlot, LoopTo, IInv, Accounting
<1>2. \A k \in Slots : At(k)' = At(k)
  <2>1. breakpoints' = breakpoints
          \/ \E byte : breakpoints' = [breakpoints EXCEPT ![i].original_instruction = byte]
    BY DEF Plant
  <2> QED
    BY <1>1, <2>1 DEF At, TypeOK, Breakpoint
<1>3. SetAddresses' = SetAddresses
  BY <1>0, <1>1, <1>2, SameBreakpoints DEF SetMeaning
<1>4. ~Running /\ ~Running' /\ Deferred = Zero /\ Deferred' = Zero /\ (AtOwnRST' <=> AtOwnRST)
  BY <1>1 DEF Running, Deferred, AtOwnRST
<1> QED
  BY <1>1, <1>3, <1>4 DEF D!vars

\* Leaving the GDB loop is not a step of the debugger yet.
LEMMA DebuggerLeave ==
  ASSUME Regular, IInv, IInv', LeaveLoop, phase = "stopped", "HIT" \in trap_flags' <=> "HIT" \in trap_flags
  PROVE  UNCHANGED D!vars
<1>0. SetMeaning /\ SetMeaning'
  BY SetMeansTwice
<1>1. phase' = "plant" /\ UNCHANGED <<image, pc, registers_PC, breakpoints>>
  BY DEF LeaveLoop
<1>2. SetAddresses' = SetAddresses
  BY <1>0, <1>1, SameBreakpoints DEF SetMeaning, At
<1>3. ~Running /\ ~Running' /\ Deferred = Zero /\ Deferred' = Zero /\ (AtOwnRST' <=> AtOwnRST)
  BY <1>1 DEF Running, Deferred, AtOwnRST
<1> QED
  BY <1>1, <1>2, <1>3 DEF D!vars

\* The commands that change breakpoints, memory and registers.
LEMMA DebuggerEdit ==
  ASSUME Regular, IInv, IInv'
  PROVE  /\ \A a \in Code : /\ PlaceBreakpoint(a) => D!PlaceBreakpoint(a)
                            /\ DeleteBreakpoint(a) => D!DeleteBreakpoint(a)
                            /\ WriteRegister(a) => D!WriteRegister(a)
         /\ \A a \in Patches : \A byte \in Own[a] \union {RST08} :
              WriteMemory(a, byte) => D!WriteMemory(a, byte)
<1> USE RegularFacts, Constants
<1>0. SetMeaning /\ SetMeaning' /\ TypeOK /\ Layout
  BY SetMeansTwice DEF IInv, Accounting
<1> DEFINE Stays == /\ phase = "stopped" /\ phase' = "stopped" /\ trap_flags' = trap_flags
                    /\ pc' = pc
<1>1. Stays => /\ ~Running /\ ~Running' /\ Deferred = Zero /\ Deferred' = Zero
               /\ AtOwnRST' <=> AtOwnRST
  BY DEF Running, Deferred, AtOwnRST
<1>2. ASSUME Stays
      PROVE  /\ SetAddresses = {At(k) : k \in {j \in Slots : At(j) # Zero}}
             /\ SetAddresses' = {At(k)' : k \in {j \in Slots : At(j)' # Zero}}
  BY <1>0, <1>2 DEF SetMeaning, SetAddresses, At
<1>3. ASSUME NEW a \in Code, PlaceBreakpoint(a) PROVE D!PlaceBreakpoint(a)
  <2>1. Stays /\ UNCHANGED <<image, registers_PC>>
    BY <1>3 DEF PlaceBreakpoint
  <2>2. PICK k \in Slots : At(k) = Zero /\ breakpoints' = [breakpoints EXCEPT ![k].address = a]
    BY <1>3 DEF PlaceBreakpoint, At
  <2>3. \A j \in Slots : At(j)' = IF j = k THEN a ELSE At(j)
    BY <1>0, <2>2 DEF At, TypeOK, Breakpoint
  <2>4. SetAddresses' = SetAddresses \union {a}
    BY <1>2, <2>1, <2>2, <2>3
  <2> QED
    BY <1>1, <2>1, <2>4 DEF D!PlaceBreakpoint
<1>4. ASSUME NEW a \in Code, DeleteBreakpoint(a) PROVE D!DeleteBreakpoint(a)
  <2>1. Stays /\ UNCHANGED <<image, registers_PC>>
    BY <1>4 DEF DeleteBreakpoint
  <2>2. PICK k \in Slots : At(k) = a /\ breakpoints' = [breakpoints EXCEPT ![k].address = Zero]
    BY <1>4 DEF DeleteBreakpoint, At
  <2>3. \A j \in Slots : At(j)' = IF j = k THEN Zero ELSE At(j)
    BY <1>0, <2>2 DEF At, TypeOK, Breakpoint
  <2>4. \A j \in Slots : At(j) = a => j = k
    BY <1>0, <2>2 DEF Layout
  <2>5. SetAddresses' = SetAddresses \ {a}
    BY <1>2, <2>1, <2>2, <2>3, <2>4
  <2> QED
    BY <1>1, <2>1, <2>5 DEF D!DeleteBreakpoint
<1>5. ASSUME NEW a \in Code, WriteRegister(a) PROVE D!WriteRegister(a)
  <2>1. Stays /\ image' = image /\ registers_PC' = a /\ breakpoints' = breakpoints
    BY <1>5 DEF WriteRegister
  <2>2. SetAddresses' = SetAddresses
    BY <1>2, <2>1 DEF At
  <2> QED
    BY <1>1, <2>1, <2>2 DEF D!WriteRegister
<1>6. ASSUME NEW a \in Patches, NEW byte \in Own[a] \union {RST08}, WriteMemory(a, byte)
      PROVE  D!WriteMemory(a, byte)
  <2>1. /\ Stays /\ registers_PC' = registers_PC /\ breakpoints' = breakpoints
        /\ image' = [image EXCEPT ![a] = byte]
    BY <1>6 DEF WriteMemory
  <2>2. SetAddresses' = SetAddresses
    BY <1>2, <2>1 DEF At
  <2> QED
    BY <1>1, <2>1, <2>2 DEF D!WriteMemory
<1> QED
  BY <1>3, <1>4, <1>5, <1>6

\* The return from the handler is the debugger's Resume: with the target of the
\* step, if there is one, and the breakpoint at PC lifted.
LEMMA DebuggerResume ==
  ASSUME Regular, IInv, IInv', Resume
  PROVE  \E target \in {Zero} \union Flow[registers_PC] \union Skip[registers_PC] :
           D!Resume(target)
<1> USE RegularFacts, Constants
<1>0. SetMeaning /\ SetMeaning'
  BY SetMeansTwice
<1> DEFINE stepping == "STEP" \in trap_flags
           target == IF stepping THEN Target' ELSE Zero
<1>1. /\ phase = "resume" /\ phase' = "run" /\ TypeOK /\ Layout /\ Named /\ Accounting
      /\ Requested /\ PlantedBelow(MaxBreakpoints)
      /\ UNCHANGED <<image, breakpoints, trap_restore_idx, registers_PC>>
  BY DEF Resume, IInv, Accounting, ResumeInv
<1>2. \A k \in Slots : k < MaxBreakpoints
  BY SlotsAssumption DEF Slots
<1>3. /\ ~Running /\ Running' /\ ~AtOwnRST'
      /\ AtOwnRST <=> "HIT" \notin trap_flags
  BY <1>1 DEF Running, AtOwnRST
<1>4. trap_flags' = trap_flags \ {"FORCE"}
  BY <1>1 DEF Resume, Requested, NeedsTemporary
<1>5. \A k \in Slots : At(k)' = At(k) /\ (IsDeferred(k)' <=> IsDeferred(k))
  BY <1>1, <1>4 DEF At, IsDeferred
<1>6. SetAddresses = Active
  BY <1>0, <1>1 DEF SetMeaning, SetAddresses, Active, At
\* The lifted breakpoint is the one the loop deferred.
<1>7. Deferred' = IF registers_PC \in SetAddresses THEN registers_PC ELSE Zero
  <2>1. Deferred' = IF "RESTORE" \in trap_flags THEN At(trap_restore_idx) ELSE Zero
    BY <1>1, <1>3, <1>4 DEF Deferred, At
  <2>2. "RESTORE" \in trap_flags => At(trap_restore_idx) = registers_PC /\ registers_PC \in Active
    BY <1>1 DEF PlantedBelow, Active, At, TypeOK
  <2>3. registers_PC \in Active => \E k \in Slots : IsDeferred(k)
    BY <1>1, <1>2 DEF PlantedBelow, Active, At
  <2> QED
    BY <1>6, <2>1, <2>2, <2>3 DEF IsDeferred
<1>8. SetAddresses' = SetAddresses
  <2>1. \A k \in Slots : At(k) # Zero => Set(k)'
    <3> SUFFICES ASSUME NEW k \in Slots, At(k) # Zero PROVE Set(k)'
      OBVIOUS
    <3>1. IsDeferred(k) \/ mem[At(k)] = RST08
      BY <1>1, <1>2 DEF PlantedBelow
    <3>2. ~IsDeferred(k) => Beneath(At(k))' = RST08
      <4>1. CASE NeedsTemporary
        <5>1. /\ Target' = NextAddress
              /\ temporary_breakpoint'.original_instruction = mem[NextAddress]
              /\ mem' = [mem EXCEPT ![NextAddress] = RST08]
          BY <4>1, ResumePlants DEF Target
        <5> QED
          BY <1>1, <1>5, <3>1, <5>1 DEF Beneath, TypeOK, Layout
      <4>2. CASE ~NeedsTemporary
        <5>1. Target' = Zero /\ mem' = mem
          BY <1>1, <4>2 DEF Resume, Target, Requested, NeedsTemporary
        <5> QED
          BY <1>5, <3>1, <5>1 DEF Beneath
      <4> QED
        BY <4>1, <4>2
    <3> QED
      BY <1>0, <1>1, <1>5, <3>2 DEF SetMeaning
  <2> QED
    BY <1>0, <1>1, <1>5, <2>1, SameBreakpoints DEF SetMeaning
\* A step goes to the program's next instruction or to where the host said.
<1>9. /\ target \in {Zero} \union Flow[registers_PC] \union Skip[registers_PC]
      /\ stepping => target # Zero
  <2>1. CASE ~stepping
    BY <2>1
  <2>2. CASE stepping /\ "FORCE" \notin trap_flags
    <3>1. Target' = goto /\ goto \in Code /\ goto \in Flow[registers_PC]
      BY <1>1, <2>2, StepGoesOn DEF NeedsTemporary, Layout, Current
    <3> QED
      BY <2>2, <3>1
  <2>3. CASE stepping /\ "FORCE" \in trap_flags
    <3>1. Target' = Target
      BY <2>3, ResumePlants DEF NeedsTemporary, NextAddress, Target
    <3> QED
      BY <1>1, <2>3, <3>1 DEF Named, Requested
  <2> QED
    BY <2>1, <2>2, <2>3
\* Only from the program's own RST 08, PC left alone, does it go on behind it.
<1>10. /\ PastRST <=> registers_PC = (IF AtOwnRST THEN pc ELSE Zero)
       /\ PastRST => pc' = After[registers_PC]
       /\ ~PastRST => pc' = registers_PC
       /\ due' = IF PastRST THEN FALSE ELSE target # Zero \/ registers_PC \in SetAddresses
  <2>1. PastRST <=> registers_PC = (IF AtOwnRST THEN pc ELSE Zero)
    BY <1>1, <1>3 DEF PastRST, TypeOK
  <2>2. NeedsTemporary <=> target # Zero \/ registers_PC \in SetAddresses
    <3>1. "RESTORE" \in trap_flags <=> Deferred' # Zero
      BY <1>1, <1>3, <1>4 DEF Deferred, PlantedBelow, At, TypeOK
    <3> QED
      BY <1>1, <1>7, <1>9, <3>1 DEF NeedsTemporary, TypeOK
  <2> QED
    BY <2>1, <2>2 DEF Resume, PastRST
<1>11. D!Resume(target)
  <2>1. (IF Running' /\ "STEP" \in trap_flags' THEN temporary_breakpoint'.address ELSE Zero) = target
    BY <1>3, <1>4 DEF Target
  <2> QED
    BY <1>1, <1>3, <1>7, <1>8, <1>10, <2>1 DEF D!Resume
<1> QED
  BY <1>9, <1>11

\* The simulation: what the handler does in a step, Debugger may do or does not see.
LEMMA Simulation == ASSUME Regular, IInv, IInv', [Next]_vars PROVE [D!Next]_(D!vars)
<1> USE RegularFacts, Constants
<1>1. CASE UNCHANGED vars
  <2>1. UNCHANGED <<Running, SetAddresses, Deferred, AtOwnRST>>
    BY <1>1 DEF vars, Running, SetAddresses, Set, Under, Deferred, AtOwnRST
  <2> QED
    BY <1>1, <2>1 DEF vars, D!vars
<1>2. CASE Continue \/ Step
  <2>1. LeaveLoop /\ phase = "stopped" /\ ("HIT" \in trap_flags' <=> "HIT" \in trap_flags)
    BY <1>2 DEF Continue, Step
  <2> QED
    BY <2>1, DebuggerLeave
<1>3. ASSUME NEW target, StepOver(target) PROVE UNCHANGED D!vars
  <2>1. LeaveLoop /\ phase = "stopped" /\ ("HIT" \in trap_flags' <=> "HIT" \in trap_flags)
    BY <1>3 DEF StepOver
  <2> QED
    BY <2>1, DebuggerLeave
<1>4. CASE Resume
  <2>1. (IF Running THEN pc ELSE registers_PC) = registers_PC
    BY <1>4 DEF Resume, Running
  <2> QED
    BY <1>4, <2>1, DebuggerResume DEF D!Next
<1>5. CASE Execute \/ BreakIn \/ TemporaryHit \/ BreakpointHit
  BY <1>5, DebuggerExecute, DebuggerBreakIn, DebuggerTemporaryHit, DebuggerBreakpointHit DEF D!Next
<1>6. ASSUME NEW a \in Code, PlaceBreakpoint(a) \/ DeleteBreakpoint(a) \/ WriteRegister(a)
      PROVE  D!Next
  BY <1>6, DebuggerEdit DEF D!Next
<1>7. ASSUME NEW a \in Patches, NEW byte \in Own[a] \union {RST08}, WriteMemory(a, byte)
      PROVE  D!Next
  BY <1>7, DebuggerEdit DEF D!Next
<1> QED
  BY <1>1, <1>2, <1>3, <1>4, <1>5, <1>6, <1>7, DebuggerUnplant, DebuggerPlant
     DEF Next, Processor, Handler, Host

\* In regular use the trap handler, with all it does to the program's bytes, is a
\* debugger that has no RST 08 of its own: stops happen where the host asked or at
\* the program's own RST 08, and resuming runs the instruction at PC.
THEOREM HandlerIsDebugger == ASSUME Regular PROVE Spec => ImplementsDebugger
<1>1. Init => D!Init
  BY DebuggerInit
<1>2. IInv /\ IInv' /\ [Next]_vars => [D!Next]_(D!vars)
  BY Simulation
<1> QED
  BY <1>1, <1>2, Invariance, PTL DEF Spec, ImplementsDebugger, D!Spec
=============================================================================
