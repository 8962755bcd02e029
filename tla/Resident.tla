------------------------------ MODULE Resident ------------------------------
(***************************************************************************)
(* The stub as a resident system extension of CP/M: how it gets into       *)
(* memory (the image of makeprl, moved and linked in as loader.asm does it *)
(* with the extensions of a program), and the BDOS calls that reach it     *)
(* through its intercept (rsx_body.asm): 60/1 installs the hooks, 60/2     *)
(* runs the loader, everything else goes on to the next extension.         *)
(* The banks and the hooks are in the module Banks.                        *)
(***************************************************************************)
EXTENDS Banks, Prl

CONSTANTS
  Bodies,        \* the programs of the extensions that are loaded, the stub first
  BDOSPage,      \* the page of the BDOS entry before anything is resident
  PageBytes,     \* the bytes of a page
  MaxInstalls,   \* how often a program makes the BDOS call 60/1
  Named,         \* the command line of the program names a file
  OwnStack,      \* a program sets its stack up when it starts
  AsksInBDOS,    \* the host asks what the stub does not know while the BDOS is stopped
  StopsInBDOS    \* the BDOS is stopped while a breakpoint lies in the program's bank

ASSUME BodiesAssumption ==
  /\ Bodies \in Seq(Seq([high : BOOLEAN, byte : Byte]))
  /\ \A n \in DOMAIN Bodies : Len(Bodies[n]) > 0
ASSUME PageAssumption == BDOSPage \in 1 .. 255 /\ PageBytes \in Nat \ {0}
ASSUME InstallsAssumption == MaxInstalls \in Nat
ASSUME ProgramAssumption == Named \in BOOLEAN /\ OwnStack \in BOOLEAN /\ AsksInBDOS \in BOOLEAN
ASSUME StopsAssumption == StopsInBDOS \in BOOLEAN

Page   == 1 .. BDOSPage

VARIABLES
  resident,    \* the page and the bytes of each extension, in the order of loading
  first,       \* the page in the BDOS vector at 0006h
  next,        \* NEXT of the extension at a page: the page of the one to go on to
  previous,    \* PREVIOUS: the page whose NEXT leads here, or Vector
  at,          \* what executes
  resumes,     \* what executes after a stop
  sp,
  ret_stack,   \* SP at the last 60 call
  loc_stack,   \* where the words on the stub's stack lead, from its top
  installs,
  breakpoint,  \* the slot of memory where a breakpoint lies, or None
  rst          \* the pages with its RST 08

body == <<resident, first, next, previous, at, resumes, sp, ret_stack, loc_stack, installs,
          breakpoint, rst>>
vars == <<banks, body>>

chain  == <<resident, first, next, previous>>
stacks == <<sp, ret_stack, loc_stack>>
planted == <<breakpoint, rst>>

Common == 7        \* the page that every bank has in slot 3
None   == 4

Vector == 0        \* the BDOS vector, in page zero
MinPag == 1        \* what is left of memory for a program
Levels == 1 .. 4
SP == [on : {"program", "loc_stack"}, depth : 0 .. 4]
InBDOS  == {"bdos", "printing"}
Running == {"program"} \union InBDOS

TypeOK ==
  /\ BanksTypeOK
  /\ resident \in Seq([page : 1 .. BDOSPage, image : Seq(Byte)])
  /\ first \in 1 .. BDOSPage
  /\ next \in [1 .. BDOSPage -> 0 .. BDOSPage]
  /\ previous \in [1 .. BDOSPage -> 0 .. BDOSPage]
  /\ at \in Running \union {"bdos60_init", "message", "ret", "gdb", "complaining", "lost"}
  /\ resumes \in Running \union {"0100h"}
  /\ sp \in SP /\ ret_stack \in SP
  /\ loc_stack \in [Levels -> {"program", "RunENTRY", "other"}]
  /\ installs \in 0 .. MaxInstalls
  /\ breakpoint \in 0 .. None /\ rst \subseteq Pages \union {Common}

Init ==
  /\ BanksInit
  /\ resident = <<>>
  /\ first = BDOSPage
  /\ next = [page \in 1 .. BDOSPage |-> Vector]
  /\ previous = [page \in 1 .. BDOSPage |-> Vector]
  /\ at = "program" /\ resumes = "program"
  /\ sp = [on |-> "program", depth |-> 0]
  /\ ret_stack = sp
  /\ loc_stack = [k \in Levels |-> "other"]
  /\ installs = 0
  /\ breakpoint = None /\ rst = {}

-----------------------------------------------------------------------------
(* Becoming resident: CP/M's loader, as far as loader.asm shows it. *)

Image(program) == MakePrl(Linked(program, 0), Linked(program, 1))

\* The first page below what is resident that leaves room for the length.
LoadPage(length) == first - 1 - (length - 1) \div PageBytes

\* InitRSX: the new extension goes before the one that came first.
PreviousKept(page)  == previous
PreviousFirst(page) == [previous EXCEPT ![page] = Vector, ![first] = page]

Load ==
  /\ at = "program" /\ sp.on = "program" /\ isr = "none"
  /\ Len(resident) < Len(Bodies)
  /\ LET prl  == Image(Bodies[Len(resident) + 1])
         page == LoadPage(prl.length)
     IN /\ page >= MinPag
        /\ resident' = Append(resident, [page |-> page, image |-> PageReloc(prl, page)])
        /\ next' = [next EXCEPT ![page] = first]
        /\ previous' = PreviousFirst(page)
        /\ first' = page
  /\ UNCHANGED <<banks, planted, at, resumes, stacks, installs>>

-----------------------------------------------------------------------------
(* A breakpoint is an address, and its RST 08 goes into the page that is mapped  *)
(* there.  Which byte it replaces, and when it is put off, is in TrapHandler.    *)

Mapped(s) == IF s \in Slot THEN slot[s] ELSE Common

\* On the way into the GDB loop the byte is put back; without its RST 08 a breakpoint is
\* taken to have been overwritten by the user, and given up.
PutBackForgotten == rst
PutBack == rst \ {Mapped(breakpoint)}
Unplant ==
  IF breakpoint = None
    THEN UNCHANGED planted
    ELSE /\ rst' = PutBack
         /\ breakpoint' = IF Mapped(breakpoint) \in rst THEN breakpoint ELSE None

Plant ==
  /\ rst' = IF breakpoint = None THEN rst ELSE rst \union {Mapped(breakpoint)}
  /\ UNCHANGED breakpoint

Foreseen(s) == s \in Slot => slot = ProgramBank \/ StopsInBDOS

-----------------------------------------------------------------------------
(* The BDOS calls of a program. *)

Executes(place) == at = place /\ isr = "none"

\* CALL 5 leaves its return address on the stack in use.
AfterCall == [sp EXCEPT !.depth = @ + 1]
Pushed(word) ==
  IF sp.on = "loc_stack" THEN [loc_stack EXCEPT ![sp.depth + 1] = word] ELSE loc_stack

\* The switch to loc_stack, with SP kept in one cell.
SPAfterTheSwitch == [on |-> "loc_stack", depth |-> 0]
SPAtTheCall == AfterCall

Intercepted ==
  /\ Executes("program")
  /\ resident # <<>>
  /\ ret_stack' = SPAtTheCall
  /\ sp' = [on |-> "loc_stack", depth |-> 0]

\* Not a function of the stub: NEXT.  The system serves it in its own bank.
OtherCall ==
  /\ Executes("program")
  /\ at' = "bdos"
  /\ slot' = SystemBank
  /\ UNCHANGED <<vector, marker, orig, reported, scan, isr, interrupt_depth>>
  /\ UNCHANGED <<chain, planted, resumes, stacks, installs>>

\* The BDOS keeps its caller in one place: a second call before the first has returned
\* leaves the first one nowhere to go.
SystemReturns ==
  /\ \/ Executes("bdos") /\ at' = "program"
     \/ Executes("printing") /\ at' = "ret"
     \/ Executes("complaining") /\ at' = IF resumes \in InBDOS THEN "lost" ELSE "gdb"
  /\ slot' = ProgramBank
  /\ UNCHANGED <<vector, marker, orig, reported, scan, isr, interrupt_depth>>
  /\ UNCHANGED <<chain, planted, resumes, stacks, installs>>

\* 60/1.
Call60_1 ==
  /\ installs < MaxInstalls
  /\ Intercepted
  /\ at' = "bdos60_init"
  /\ installs' = installs + 1
  /\ loc_stack' = Pushed("program")
  /\ UNCHANGED <<banks, chain, planted, resumes>>

\* INITCOMS and _rst8_install write all over the top of loc_stack; then a message
\* is printed through NEXT.
bdos60_init ==
  /\ Executes("bdos60_init")
  /\ _rst8_install
  /\ loc_stack' = [k \in Levels |-> "other"]
  /\ at' = "message"
  /\ UNCHANGED <<chain, planted, resumes, sp, ret_stack, installs>>

PrintMessage ==
  /\ Executes("message")
  /\ at' = "printing"
  /\ slot' = SystemBank
  /\ UNCHANGED <<vector, marker, orig, reported, scan, isr, interrupt_depth>>
  /\ UNCHANGED <<chain, planted, resumes, stacks, installs>>

restore_stack_and_ret ==
  /\ Executes("ret")
  /\ LET word == IF ret_stack.on = "program" THEN "program" ELSE loc_stack[ret_stack.depth]
     IN at' = IF ret_stack.depth > 0 /\ word = "program" THEN "program" ELSE "lost"
  /\ sp' = [ret_stack EXCEPT !.depth = IF @ = 0 THEN 0 ELSE @ - 1]
  /\ UNCHANGED <<banks, chain, planted, resumes, ret_stack, loc_stack, installs>>

\* 60/2, by a program that has installed the hooks: RunENTRY.  SetDMA has no RET and
\* runs into the messages behind it; only without a file name it is not called, and
\* the program stops and starts again.
Call60_2 ==
  /\ Hooked
  /\ Intercepted
  /\ loc_stack' = [k \in Levels |-> IF k = 1 THEN "RunENTRY" ELSE "other"]
  /\ IF Named
       THEN at' = "lost" /\ UNCHANGED <<resumes, planted>>
       ELSE at' = "gdb" /\ resumes' = "0100h" /\ Unplant
  /\ UNCHANGED <<banks, chain, installs>>

-----------------------------------------------------------------------------
(* A stop of the program, or of the system that serves it, and what the host may *)
(* ask.                                                                          *)

Trap ==
  /\ at \in Running /\ isr = "none"
  /\ Hooked
  /\ Foreseen(breakpoint)
  /\ at' = "gdb"
  /\ resumes' = at
  /\ Unplant
  /\ UNCHANGED <<banks, chain, stacks, installs>>

\* Z and z.
SetBreakpoint ==
  /\ at = "gdb" /\ scan = 3
  /\ \E s \in 0 .. None :
       /\ breakpoint = None \/ s = None
       /\ Foreseen(s)
       /\ breakpoint' = s
  /\ UNCHANGED <<banks, chain, at, resumes, stacks, installs, rst>>

ReadRegisters ==
  /\ at = "gdb" /\ scan = 3
  /\ scan' = 0
  /\ UNCHANGED <<memory, orig, reported, isr, interrupt_depth, body>>

Scan == at = "gdb" /\ ScanSlot /\ UNCHANGED body

\* write_error, and what else server.c tells the screen: printS calls NEXT.
printS ==
  /\ at = "gdb" /\ scan = 3
  /\ resumes \notin InBDOS \/ AsksInBDOS
  /\ at' = "complaining"
  /\ slot' = SystemBank
  /\ UNCHANGED <<vector, marker, orig, reported, scan, isr, interrupt_depth>>
  /\ UNCHANGED <<chain, planted, resumes, stacks, installs>>

Resume ==
  /\ at = "gdb" /\ scan = 3
  /\ IF resumes = "0100h"
       THEN /\ at' = "program"
            /\ sp' = IF OwnStack THEN [on |-> "program", depth |-> 0]
                                 ELSE [on |-> "loc_stack", depth |-> 1]
       ELSE at' = resumes /\ UNCHANGED sp
  /\ Plant
  /\ UNCHANGED <<banks, chain, resumes, ret_stack, loc_stack, installs>>

Interrupts == at \in Running \union {"bdos60_init", "message", "ret", "complaining"} /\ Interrupt /\ UNCHANGED body

-----------------------------------------------------------------------------
Program == Load \/ OtherCall \/ Call60_1 \/ Call60_2
Stub    == bdos60_init \/ PrintMessage \/ restore_stack_and_ret
Handler == im1_entry /\ UNCHANGED body
Service == isr_epilogue /\ UNCHANGED body
Host    == ReadRegisters \/ Scan \/ SetBreakpoint \/ printS \/ Resume

Next == Program \/ Stub \/ SystemReturns \/ Trap \/ Host \/ Interrupts \/ Handler \/ Service

Spec == Init /\ [][Next]_vars

\* The processor does not pause in the handlers of an interrupt.
FairSpec == Spec /\ WF_vars(Handler) /\ WF_vars(Service)

-----------------------------------------------------------------------------
(* Properties. *)

\* Each extension is, byte for byte, its program linked at the page it lies at: what
\* makeprl found to differ between two links is what a move must change.
RunsWhereItLies ==
  \A k \in DOMAIN resident : resident[k].image = Linked(Bodies[k], resident[k].page)

\* From the BDOS vector NEXT leads through every extension once, the last one loaded
\* first, and on to the system; PREVIOUS leads the same way back; and no extension
\* lies over the one above it or below the page in the vector.
ChainSound ==
  LET n == Len(resident)
      page(k) == IF k = 0 THEN BDOSPage ELSE resident[k].page
  IN /\ first = page(n)
     /\ \A k \in 1 .. n :
          /\ next[page(k)] = page(k - 1)
          /\ previous[page(k - 1)] = page(k)
          /\ page(k) * PageBytes + Len(resident[k].image) <= page(k - 1) * PageBytes
     /\ previous[page(n)] = Vector

\* While the program runs, the RST 08 of a breakpoint is in the program's page and in no
\* other, whatever the g command has mapped and whatever the system maps; at a stop, and
\* without a breakpoint, there is none.
BreakpointInPlace ==
  rst = IF at \in {"gdb", "complaining"} \/ breakpoint = None THEN {}
        ELSE {IF breakpoint \in Slot THEN ProgramBank[breakpoint] ELSE Common}

\* Every call of the stub goes back to the program that made it, except for 60/2, which
\* has no way back: it starts the program again at 0100h.
ReturnsToCaller == at # "lost"
=============================================================================
