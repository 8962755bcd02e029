------------------------------- MODULE Banks -------------------------------
(***************************************************************************)
(* The stub in the banked memory of the PCW: the hooks that _rst8_install  *)
(* (pcw_rst8.asm) puts into the vectors of two banks, the interrupts that  *)
(* go through them to the system, and updateMappedPages (server.c), which  *)
(* finds out what page is mapped into each 16K slot by marking it and      *)
(* mapping one page after the other until the mark shows.                  *)
(*                                                                         *)
(* The stub itself lies in slot 3, which is always the same page.          *)
(***************************************************************************)
EXTENDS Naturals

CONSTANTS
  Pages,       \* the pages of memory there are
  ProgramBank, \* the page a program has in each slot
  NeedsBit7    \* a slot changes its page only if bit 7 of what is written is set

System == 0        \* the page of the system bank in slot 0, and of the programs
TPA    == 4
Slot   == 0 .. 2
Fingerprint == 256 \* what no page has at FP_OFF
Invalid == 65535
Vectors == {"rst08", "rst38"}
Patched == {System, TPA}

\* The pages of the system while it serves a call.
SystemBank == [s \in Slot |-> <<System, 1, 3>>[s + 1]]

ASSUME PagesAssumption ==
  /\ Pages \subseteq 0 .. 255
  /\ ProgramBank \in [Slot -> Pages] /\ ProgramBank[0] = TPA
  /\ \A s \in Slot : SystemBank[s] \in Pages
ASSUME BitAssumption   == NeedsBit7 \in BOOLEAN

VARIABLES
  slot,       \* the page mapped into each slot
  vector,     \* who has each vector of the two pages that may be in slot 0
  marker,     \* the eight bytes at FP_OFF in each page
  orig,       \* orig_rst8_bytes, orig_rst38_bytes and the two of bank 0
  reported,   \* registers[SLOT_0 + slot]
  scan,       \* the slot updateMappedPages is at, or 3
  isr,        \* who serves an interrupt
  interrupt_depth

banks == <<slot, vector, marker, orig, reported, scan, isr, interrupt_depth>>
memory == <<slot, vector, marker>>

\* What the system has at 0038h (and 0008h) of its own bank, and of the programs': the
\* stub keeps a copy of each.
Handlers == {"system", "programs"}
Owner == Handlers \union {"stub"}

BanksTypeOK ==
  /\ slot \in [Slot -> Pages]
  /\ vector \in [Patched -> [Vectors -> Owner]]
  /\ marker \in [Pages -> Pages \union {Fingerprint}]
  /\ orig \in [Patched -> [Vectors -> Owner \union {"unset"}]]
  /\ reported \in [Slot -> 0 .. Invalid]
  /\ scan \in 0 .. 3
  /\ isr \in Owner \union {"none"}
  /\ interrupt_depth \in 0 .. 255

BanksInit ==
  /\ slot = ProgramBank
  /\ vector = [page \in Patched |->
                [v \in Vectors |-> IF page = System THEN "system" ELSE "programs"]]
  /\ marker = [page \in Pages |-> page]
  /\ orig = [page \in Patched |-> [v \in Vectors |-> "unset"]]
  /\ reported = [s \in Slot |-> 0]
  /\ scan = 3
  /\ isr = "none"
  /\ interrupt_depth = 0

-----------------------------------------------------------------------------
(* The hooks. *)

\* What _rst_install keeps of a vector, before it patches it.
SavedLate(page, v) == "stub"
Saved(page, v) == vector[page][v]

\* Both vectors of both pages, with interrupts disabled.
_rst8_install ==
  /\ orig' = [page \in Patched |-> [v \in Vectors |-> Saved(page, v)]]
  /\ vector' = [page \in Patched |-> [v \in Vectors |-> "stub"]]
  /\ slot' = [slot EXCEPT ![0] = TPA]
  /\ interrupt_depth' = 0
  /\ UNCHANGED <<marker, reported, scan, isr>>

Hooked == vector[slot[0]]["rst08"] = "stub"

Interrupt ==
  /\ isr = "none"
  /\ isr' = vector[slot[0]]["rst38"]
  /\ UNCHANGED <<memory, orig, reported, scan, interrupt_depth>>

\* im1_entry counts and goes on to the handler it has the bytes of: those of the
\* programs' bank, whichever bank was interrupted.
im1_entry ==
  /\ isr = "stub"
  /\ interrupt_depth' = (interrupt_depth + 1) % 256
  /\ isr' = orig[TPA]["rst38"]
  /\ UNCHANGED <<memory, orig, reported, scan>>

\* The handler returns, through isr_epilogue if the stub came before it.
isr_epilogue ==
  /\ isr \in Handlers
  /\ isr' = "none"
  /\ interrupt_depth' = IF interrupt_depth = 0 THEN 0 ELSE interrupt_depth - 1
  /\ UNCHANGED <<memory, orig, reported, scan>>

-----------------------------------------------------------------------------
(* The mapped pages. *)

\* The page the slot shows once a page number is written to its port.  Every number the
\* loop writes is below 128: what would set bit 7 stands before the first case of the
\* switch, where nothing comes to it.
setPage(page) == IF NeedsBit7 THEN slot[scan] ELSE page

Tried == Pages \intersect 0 .. 127
Marked == [marker EXCEPT ![slot[scan]] = Fingerprint]
Matches == {page \in Tried : Marked[setPage(page)] = Fingerprint}
FirstMatch == CHOOSE page \in Matches : \A other \in Matches : page <= other
LastTried  == CHOOSE page \in Tried : \A other \in Tried : other <= page

\* What is put back where the mark showed.
RestoredElsewhere == [Marked EXCEPT ![System] = marker[slot[scan]]]
Restored == [Marked EXCEPT ![setPage(FirstMatch)] = marker[slot[scan]]]

\* One slot.  If the mark shows nowhere, which needs a page the loop does not come to,
\* it stays where it is, and so does the last page tried.
ScanSlot ==
  /\ scan < 3
  /\ scan' = scan + 1
  /\ IF Matches # {}
       THEN /\ reported' = [reported EXCEPT ![scan] = FirstMatch]
            /\ marker' = Restored
            /\ slot' = [slot EXCEPT ![scan] = setPage(FirstMatch)]
       ELSE /\ reported' = [reported EXCEPT ![scan] = Invalid]
            /\ marker' = Marked
            /\ slot' = [slot EXCEPT ![scan] = setPage(LastTried)]
  /\ UNCHANGED <<vector, orig, isr, interrupt_depth>>

-----------------------------------------------------------------------------
(* Properties. *)

\* The g command leaves memory as it was, although it has written into the program's
\* pages and written the numbers of all other pages to the slots in between.
MemoryKept == scan = 3 => \A page \in Pages : marker[page] = page

\* It tells the pages that are mapped and leaves them mapped.
MappingKept == [][scan # 3 => slot' = slot /\ reported'[scan] = slot[scan]]_banks

\* An interrupt that goes through the stub's hook reaches a handler of the system,
\* whichever bank it came in.
InterruptServed == isr = "stub" ~> isr \in Handlers

\* It reaches the handler that the hook has replaced in the bank that was interrupted,
\* the original one that im1_entry says it chains to.
OwnHandlerServes == [][im1_entry => isr' = orig[slot[0]]["rst38"]]_banks
=============================================================================
