------------------------------ MODULE Debugger ------------------------------
(***************************************************************************)
(* What the stub promises the host, without the machinery: a program that  *)
(* runs its own bytes until a reason to stop, and a stopped program whose  *)
(* bytes and breakpoints the host changes.  There is no RST 08 but the     *)
(* program's own, no temporary breakpoint and no slot.                     *)
(***************************************************************************)
EXTENDS Naturals

CONSTANTS Code, Flow, After, Skip, Own, Stores, Patches, Programs, MaxBreakpoints, RST08, None

VARIABLES
  state,     \* running or stopped
  image,     \* the program
  pc,        \* the next instruction
  bset,      \* the breakpoints that are set
  goal,      \* where a step or a break-in is to stop, or None
  lifted,    \* the breakpoint that is not observed for now, or None
  owed,      \* the instruction at pc runs whatever is set there
  past       \* stopped at the program's own RST 08, or None

vars == <<state, image, pc, bset, goal, lifted, owed, past>>

Init ==
  /\ state = "running"
  /\ image \in Programs
  /\ pc \in Code
  /\ bset = {}
  /\ goal = None /\ lifted = None /\ past = None
  /\ owed = FALSE

Breaks == pc \in (bset \ {lifted}) \union {goal} \/ image[pc] = RST08

\* The program executes one instruction.  Storing into itself it may undo a
\* breakpoint that is set where it stores.
Execute ==
  /\ state = "running"
  /\ owed \/ ~Breaks
  /\ pc' \in Flow[pc]
  /\ owed' = FALSE
  /\ \/ UNCHANGED <<image, bset>>
     \/ \E a \in Stores : \E byte \in Own[a] :
          /\ image' = [image EXCEPT ![a] = byte]
          /\ bset' = IF a = lifted THEN bset ELSE bset \ {a}
  /\ UNCHANGED <<state, goal, lifted, past>>

BreakIn ==
  /\ state = "running"
  /\ goal = None
  /\ goal' = pc
  /\ owed' = FALSE
  /\ UNCHANGED <<state, image, pc, bset, lifted, past>>

\* Once its instruction is done, a lifted breakpoint counts again.
Relift ==
  /\ state = "running"
  /\ ~owed
  /\ lifted' = None
  /\ UNCHANGED <<state, image, pc, bset, goal, owed, past>>

Stop ==
  /\ state = "running"
  /\ ~owed /\ Breaks
  /\ state' = "stopped"
  /\ past' = IF pc \in bset \union {goal} THEN None ELSE pc
  /\ goal' = None /\ lifted' = None
  /\ UNCHANGED <<image, pc, bset, owed>>

PlaceBreakpoint(a) ==
  /\ state = "stopped"
  /\ bset' = bset \union {a}
  /\ UNCHANGED <<state, image, pc, goal, lifted, owed, past>>

DeleteBreakpoint(a) ==
  /\ state = "stopped"
  /\ bset' = bset \ {a}
  /\ UNCHANGED <<state, image, pc, goal, lifted, owed, past>>

WriteMemory(a, byte) ==
  /\ state = "stopped"
  /\ image' = [image EXCEPT ![a] = byte]
  /\ UNCHANGED <<state, pc, bset, goal, lifted, owed, past>>

WriteRegister(a) ==
  /\ state = "stopped"
  /\ pc' = a
  /\ UNCHANGED <<state, image, bset, goal, lifted, owed, past>>

\* Continue (goal None), step or step over.  From the program's own RST 08 the
\* program goes on behind it; from anywhere else the instruction at pc runs,
\* even under a breakpoint.
Resume(target) ==
  /\ state = "stopped"
  /\ state' = "running"
  /\ goal' = target
  /\ lifted' = IF pc \in bset THEN pc ELSE None
  /\ IF pc = past
       THEN pc' = After[pc] /\ owed' = FALSE
       ELSE pc' = pc /\ owed' = (target # None \/ pc \in bset)
  /\ past' = None
  /\ UNCHANGED <<image, bset>>

Next ==
  \/ Execute \/ BreakIn \/ Relift \/ Stop
  \/ \E a \in Code : PlaceBreakpoint(a) \/ DeleteBreakpoint(a) \/ WriteRegister(a)
  \/ \E a \in Patches : \E byte \in Own[a] \union {RST08} : WriteMemory(a, byte)
  \/ \E target \in {None} \union Flow[pc] \union Skip[pc] : Resume(target)

Spec == Init /\ [][Next]_vars
=============================================================================
