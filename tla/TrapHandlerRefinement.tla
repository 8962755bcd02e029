----------------------- MODULE TrapHandlerRefinement -----------------------
(***************************************************************************)
(* The trap handler implements the debugger the host believes in.  The     *)
(* refinement mapping reads the abstract breakpoints, step target and      *)
(* lifted breakpoint out of the bytes of memory and the trap flags.        *)
(***************************************************************************)
EXTENDS TrapHandler

\* The byte at a once the temporary breakpoint is taken out.
Under(a) == IF a = temporary_breakpoint.address /\ phase = "run"
              THEN temporary_breakpoint.original_instruction
              ELSE mem[a]

Running  == phase = "run"
Deferred == IF Running /\ "RESTORE" \in trap_flags
              THEN breakpoints[trap_restore_idx].address
              ELSE Zero

\* A breakpoint is set if the handler will find its RST 08 (or has found it).
Set(k) ==
  LET a == breakpoints[k].address
  IN /\ a # Zero
     /\ \/ phase \in {"stopped", "plant", "resume"}
        \/ phase = "unplant" /\ k < i
        \/ a = Deferred
        \/ Under(a) = RST08

SetAddresses == {breakpoints[k].address : k \in {j \in Slots : Set(j)}}

AtOwnRST ==
  /\ ~Running
  /\ "HIT" \notin trap_flags
  /\ phase = "unplant" => \A k \in Slots : k >= i /\ Set(k) => breakpoints[k].address # pc

D == INSTANCE Debugger WITH
       None   <- Zero,
       state  <- IF Running THEN "running" ELSE "stopped",
       pc     <- IF Running THEN pc ELSE registers_PC,
       bset   <- SetAddresses,
       goal   <- IF Running /\ "STEP" \in trap_flags THEN temporary_breakpoint.address ELSE Zero,
       lifted <- Deferred,
       owed   <- Running /\ due,
       past   <- IF AtOwnRST THEN pc ELSE Zero

\* The bytes, breakpoints and stops of rst8_c_trap are those of Debugger: a stop
\* happens where the host asked or at the program's own RST 08 and nowhere else,
\* and nothing the handler does to memory shows.
ImplementsDebugger == D!Spec
=============================================================================
