----------------------- MODULE TrapHandlerInvariant -----------------------
(***************************************************************************)
(* Why the trap handler gives the program's bytes back: at every point of  *)
(* the handler each byte is the program's own or an RST 08 that some slot  *)
(* or the temporary breakpoint accounts for.                               *)
(***************************************************************************)
EXTENDS TrapHandler

At(k)  == breakpoints[k].address
Held(k) == breakpoints[k].original_instruction
Target == temporary_breakpoint.address
Current == IF phase = "run" THEN pc ELSE registers_PC

\* The byte at a with the temporary breakpoint taken out.
Beneath(a) == IF a = Target THEN temporary_breakpoint.original_instruction ELSE mem[a]

\* A planted breakpoint holds the program's byte; one that the program stored
\* over has nothing to hold.
Covered(k, byte) ==
  \/ byte = RST08 /\ Held(k) = image[At(k)]
  \/ byte = image[At(k)] /\ byte # RST08

\* The slots are distinct, lie in the program, and leave the vectors alone.
Layout ==
  /\ \A k \in Slots : At(k) \in Code \union {Zero}
  /\ \A j, k \in Slots : At(j) = At(k) /\ At(j) # Zero => j = k
  /\ Target \in Code \union {Zero}
  /\ image[Hook] = JP
  /\ mem[Hook] = image[Hook] /\ mem[Zero] = image[Zero]
  /\ \A a \in Address : image[a] \in Own[a] \union {RST08}
  /\ goto \in Flow[Current]

IsDeferred(k) == "RESTORE" \in trap_flags /\ k = trap_restore_idx

\* The program trapped next is at the temporary breakpoint: it is there already,
\* or one instruction before it, or no other RST 08 is left in memory.
Focused ==
  Target # Zero =>
    \/ pc = Target
    \/ mem[pc] # RST08 /\ goto = Target
    \/ \A a \in Code : mem[a] = RST08 => a = Target

\* Why the handler is to be called back, and that it will be.
Requests ==
  /\ "FORCE" \notin trap_flags
  /\ Target # Zero <=> trap_flags \intersect {"STEP", "RESTORE"} # {}
  /\ "RESTORE" \in trap_flags => At(trap_restore_idx) # Zero
  /\ Target # Zero => mem[Target] = RST08

\* The bytes beneath the temporary breakpoint: the program's own, or covered by a
\* breakpoint that is not deferred.
Accounted ==
  /\ \A a \in Code \ Active : Beneath(a) = image[a]
  /\ \A k \in Slots : At(k) # Zero =>
       IF IsDeferred(k) THEN Beneath(At(k)) = image[At(k)] ELSE Covered(k, Beneath(At(k)))

RunInv == phase = "run" =>
  /\ Requests
  /\ Accounted
  /\ Focused
  /\ due => mem[pc] # RST08

\* No request is left over while breakpoints come out and the host is served.
Idle == trap_flags \subseteq {"HIT"} /\ Target = Zero

UnplantInv == phase = "unplant" =>
  /\ Idle
  /\ registers_PC = pc
  /\ \A a \in Code \ Active : mem[a] = image[a]
  /\ \A k \in Slots : At(k) # Zero =>
       IF k < i THEN mem[At(k)] = image[At(k)] ELSE Covered(k, mem[At(k)])

StoppedInv == phase = "stopped" => Idle /\ mem = image

\* What the command that left the GDB loop guarantees.
Requested ==
  /\ trap_flags \subseteq Flags
  /\ IF "FORCE" \in trap_flags
       THEN /\ "STEP" \in trap_flags
            /\ Target \in Code \ {registers_PC}
            /\ Active \subseteq {registers_PC}
            /\ \A a \in Code : image[a] # RST08
       ELSE /\ Target = Zero
            /\ "STEP" \in trap_flags \/ registers_PC \in Active =>
                 /\ image[registers_PC] # RST08
                 /\ registers_PC # pc \/ "HIT" \in trap_flags

\* Slots below n have been looked at by the loop that plants.
PlantedBelow(n) ==
  /\ \A a \in Code \ Active : mem[a] = image[a]
  /\ \A k \in Slots : At(k) # Zero =>
       IF k < n /\ At(k) # registers_PC
         THEN mem[At(k)] = RST08 /\ Held(k) = image[At(k)]
         ELSE mem[At(k)] = image[At(k)]
  /\ \A k \in Slots : At(k) # Zero /\ At(k) = registers_PC /\ k < n => IsDeferred(k)
  /\ "RESTORE" \in trap_flags => /\ trap_restore_idx < n
                                 /\ At(trap_restore_idx) = registers_PC

PlantInv  == phase = "plant" => Requested /\ PlantedBelow(i)
ResumeInv == phase = "resume" => Requested /\ PlantedBelow(MaxBreakpoints)

\* Every byte is accounted for.  This alone is inductive in regular use.
Accounting ==
  /\ TypeOK
  /\ Layout
  /\ RunInv
  /\ UnplantInv
  /\ StoppedInv
  /\ PlantInv
  /\ ResumeInv

\* Where the program does not store, an enabled breakpoint really is in memory until
\* the loop that takes the breakpoints out has come to its slot, the deferred one
\* excepted.
Planted ==
  /\ phase = "run" =>
       \A k \in Slots : At(k) \notin Stores \union {Zero} =>
         IsDeferred(k) \/ Beneath(At(k)) = RST08
  /\ phase = "unplant" =>
       \A k \in Slots : At(k) \notin Stores \union {Zero} =>
         k < i \/ mem[At(k)] = RST08

\* A step over still runs to one of the addresses the host may name.
Named == phase \in {"plant", "resume"} /\ "FORCE" \in trap_flags => Target \in Skip[registers_PC]

\* The inductive invariant of the regular use of the stub.
IInv == Accounting /\ Planted /\ Named
=============================================================================
