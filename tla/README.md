# Verification of the PCW gdb stub

spectranet-gdbserver is a gdb remote stub for the Amstrad PCW under CP/M Plus.  It
stays resident above the programs (an RSX), is entered by the one-byte call `RST 08`,
talks to gdb over the serial port, and has no debug hardware: a breakpoint, the target
of a step and a break-in are all the opcode `RST 08` written over the program.  These
TLA+ modules model the stub as the Makefile's target `rsx-c-prl` builds it.

## The system

| Part | State | Operations | What makes it correct |
|---|---|---|---|
| Trap handler, `rst8_c_trap` (`pcw_rst8.c`) | breakpoint slots with saved bytes, the one temporary breakpoint, `trap_restore_idx`, the trap flags | take breakpoints out, serve the host, plant, compute the step, resume | the host sees the program's own bytes; the program runs its own instructions and stops where it was told |
| Commands, `process_packet` (`server.c`) | `registers[]`, the slots | q ? g G P m M Z z c s i | one answer per command; what resumes, what changes memory |
| Packet reader, `server_read_data` (`server.c`) | buffer, offset, checksum, state of the loop | one byte at a time | acknowledges exactly the correct packets, whatever came before |
| Trap entry and exit (`pcw_rst8.asm`) | `_rst8_sp_copy`, private stack, `ints_enabled_flag`, `_interrupt_depth` | `rst8_entry`, `handleInterruptState`, `im1_entry`, `isr_epilogue` | finds its way back, gives the interrupt enable back |
| Step decoder, `calculateStep` (`z80_decode.c`) | none | three tables and the `pe_` functions | predicts where the instruction goes |
| Serial driver (`pcw_dart_asm.asm`) | DTR, the DART's registers | poll for a byte, poll to send, interrupts on and off | loses no byte, waits for none for ever |
| Hooks, mapped pages (`pcw_rst8.asm`, `server.c`) | saved vectors, the page in each slot | `_rst8_install`, `updateMappedPages` | interrupts reach the system; the g command leaves memory alone |
| RSX body, loader (`rsx_body.asm`, `loader.asm`), `makeprl.c` | `ret_stack`, `loc_stack`, the RSX chain | BDOS 60/1 and 60/2, relocation | runs where it lies, in the chain once, returns to its caller |

The debugged program and the stub are one thread of control: `RST 08` calls
`rst8_entry`, which calls `rst8_c_trap`, which calls `server_read_data` until a command
resumes.  The concurrency is that of interrupts: `im1_entry` hooks the system's
interrupt, finds a Ctrl-C in the DART and plants a temporary breakpoint where the
program was interrupted; it shares the temporary breakpoint and the flags with
`rst8_c_trap`, and the count, the stack and the interrupt enable with `rst8_entry`.  The
other party is the host, with a serial line between that loses bytes.  What is hard:
one temporary breakpoint and one flag byte with three users; byte copies that go stale;
a second trap or interrupt before the first has finished with the cells they share;
breakpoints that are addresses in a machine whose pages change beneath them;
retransmissions; a half-duplex poll loop.  `PROJECT.json` lists these hazards at their
lines with the properties that cover them.

## The modules

| Module | Models | Correspondence |
|---|---|---|
| `TrapHandler` | `rst8_c_trap` with the commands that change its state and the Ctrl-C path of `im1_entry` | `phase` is the part of the function that executes, `i` the counter of its loop; one action per loop iteration, per command, per trap.  `goto` is where the instruction at `pc` goes; `calculateStep` is what the decoder may return for it, which is `goto` unless the liberty `Misread` is taken (what the decoder does return is the subject of `Z80Decode`); `image` and `due` are history |
| `Debugger`, `TrapHandlerRefinement` | what the stub promises: a program that runs its own bytes and stops for a reason | `bset`, `goal`, `lifted` are read out of memory bytes and flags |
| `TrapHandlerInvariant`, `TrapHandlerProofs` | the inductive invariant, its proof, and the refinement's | |
| `PacketReaderProofs`, `CommandsProofs`, `Z80DecodeProofs`, `SessionProofs`, `Rst8Proofs`, `DartProofs`, `ResidentProofs` | what each component's invariant is, and that its properties hold for any values of the constants | each states its inductive invariant as `IInv` or by parts |
| `PacketReader` | `server_read_data`, byte by byte | variables have the code's names; `since` is the ghost of what the line delivered |
| `Session` | server, handler and gdb over a lossy line | tokens instead of bytes: `$`, a payload, `#`, two digits, `+`, `-`, Ctrl-C |
| `Commands` | `process_packet`, the hex helpers, and the register copies at both ends of `rst8_c_trap` | registers in four places: the processor (`cpu`), the stack of `rst8_entry`, `registers`, digits in a packet; a payload is its letter and the digits of its fields; `request` is history |
| `Target` | what the host believes: registers, memory and breakpoints that read as they were written | words and bytes only; `Commands` implements it |
| `Rst8Entry` | entry and exit code and the interrupt hook | `pc` is the next instruction, one step each where an interrupt may come; `rst8_c_trap` is one step |
| `Z80Decode`, `Z80` | `calculateStep` with its tables; what the processor does | a row of the C tables is a record; `Z80` is written from the instruction set by bit fields, not from the tables |
| `Dart` | the polled driver, the DART's buffers and the host's serial port | `at` is the place in `FWAITAVAIL` or `FWAITCTS`, `carry` the carry flag; the callers are reduced to lengths |
| `Prl` | `makeprl` and `PageReloc` | pure operators on sequences of bytes |
| `Banks` | the hooks in two banks, the interrupts through them, `updateMappedPages` | a page keeps one marker for the eight bytes at `FP_OFF`, one owner for each vector |
| `Resident` | the RSX in the chain, the BDOS intercept and its stack, stops in the program and in the system, the pages a breakpoint is written to, composed of `Banks` and `Prl` | `ret_stack`, `loc_stack` and the chain pointers have the code's names |

The TrapHandler's four phases are the function's four parts: `unplant` (lines 131 on of
`pcw_rst8.c`), `stopped` (the GDB loop), `plant` and `resume`.

## Runs

Twelve runs are listed in `PROJECT.json`; `commands` and `trap_core`
take a minute or two, the others seconds.

| Run | What it shows | Bounds, and why they are enough |
|---|---|---|
| `trap_core` (790,551 states) | where the decoder is right: the program's bytes are back at every stop, breakpoints are planted when it runs, no byte is written to another's address, steps and break-ins end in the GDB loop, a lifted breakpoint is set again, and the handler implements `Debugger` | three instructions, one of them a branch and one stored to, two slots: a breakpoint here and elsewhere, a deferred one beside a planted one, a full table |
| `nested_trap` | violation, below | |
| `packet_reader` (25,235) | acknowledges exactly the correct packets and delivers their payload | a buffer of 5 and bytes `$ # c 2 9`: framing in the wrong place, a sum past 255, a payload of each length up to overflow |
| `commands` (43,477) | what the host reads is what the program has, what it writes reaches the program, an error changes nothing, whatever the order of requests; the commands implement `Target` | register files in which no two bytes are alike, SP and PC where they wrap, a block of 62 bytes (the longest that `m` sends), M of 58 bytes (the longest a packet carries), two slots and three addresses: a full table |
| `rst8_entry` (8,202) | stack, interrupt enable, count and break-in survive any placing of interrupts | three interrupts in progress: one in the program, one on the way out, one in an epilogue |
| `trap_in_isr` | violation, below | two interrupts |
| `session` (12,786) | each command is executed once, answered with its own answer; stub and host agree whether the program runs | three lost or damaged tokens, a buffer of four payload tokens, three command identities |
| `z80_decode` (92,160) | with a `char` that has no sign, as SDCC builds it: `calculateStep` agrees with the processor, wrapped to 16 bits, but for `JP (IX)`, `JP (IY)` and relative jumps taken backwards | every opcode behind every prefix, displacements at both ends, each condition both ways, PC 256 and 65534 |
| `z80_robust` | violation, below | |
| `resident` (850) | on a machine that maps a page only with bit 7 set: extensions run where they lie and are chained once, calls return, also those that server.c makes to print, the g command leaves memory alone, a breakpoint's `RST 08` is in the program's page and in no other, interrupts are served | three extensions of seven to nine bytes (below, at and above a byte of the bitmap and a page of eight bytes), six pages of memory, one breakpoint in any slot of memory, one installation |
| `mapping` | violation, below | the same |
| `dart` (1,057) | no byte is lost in either direction, every command and Ctrl-C gets through | commands of five bytes (more than the DART and the host's transmitter hold together), answers of four, which the host's receiver cannot hold |

The type invariants of `Session`, `Resident` and `Rst8Entry` hold on the instances of their
runs and are left out of the lists.

Violations are disagreements of the code with its own words:

* `nested_trap`: a breakpoint hit inside a call that is stepped over makes the handler
  drop the one it had deferred, although nobody changed the byte (`pcw_rst8.c:139`).
* `trap_in_isr`: `EI` at `pcw_rst8.asm:224` lets an interrupt in while SP is still on the
  private stack; a breakpoint in its handler starts that stack again from its top.
* `z80_robust`: the "robust" decoder (`pcw_rst8.c:234`) misses two kinds of jump.  A step
  at `JP (IX)` or `JP (IY)` is planted behind the jump (`z80_decode.c:163` has a length
  only), and a step at a `JR`, `JR cc` or `DJNZ` that goes backwards 256 bytes too far
  (lines 264, 312 and 383 read a plain `char`, which SDCC takes to have no sign, and
  line 82 of the `Makefile` does not ask for one).
* `mapping`: the g command tells page 0 for every slot.  `server.c:553` says that the
  hardware uses bit 7 as map-enable and `_rst8_install` sets it (`pcw_rst8.asm:72,88`),
  but `setPage` would set it between `switch` and its first case (`server.c:505`): no
  page is mapped, and the mark seems to show in the first one tried.

### What the passing runs assume

The regular use is a precondition, named in constants, and not a claim about the code.
What the code does when a liberty is taken is shown by a configuration beside the
listed runs, or by other values in that of a run, with the named property as the only
one (and no deadlock check).  TLC finds it violated.

| Configuration | Liberty | Property |
|---|---|---|
| `MC_TrapStepAtRST` | a step from an `RST 08` of the program: planted over the hook at 0008h | `HookIntact` |
| `MC_TrapHandler`, `Liberties <- Misreading` | a step that the decoder has planted elsewhere than where the program goes: its `RST 08` stays, in the program or over the hook, and a deferred breakpoint is not set again | `StoppedTransparent`, `HookIntact`, `ResumeExecutes` |
| `MC_TrapHandler`, `Liberties <- Busy` | a Ctrl-C while a temporary breakpoint is set | `StoppedTransparent` |
| `MC_TrapHandler`, `Liberties <- Second` | a second Z for one address | `StoppedTransparent` |
| `MC_TrapHandler`, `Liberties <- Overwrite` | a program that writes over the temporary breakpoint | `StoppedTransparent` |
| `MC_TrapZero` | a step or jump to address 0, the mark of an unused breakpoint | `StoppedTransparent` |
| `MC_TrapSelfJump` | an instruction that may jump to itself | `ResumeExecutes` |
| `MC_Rst8AtDI` | a Ctrl-C found inside the stub's own code, behind `RST 08`; with `BreakIns <- AtLoadSP` it breaks `StackKept`, with `InEpilogueToo` `InterruptsKept` | `BreakInStops` |
| `MC_Rst8Entry`, `ParityLost = TRUE` | a processor that loses the parity of `LD A,I` to an interrupt | `InterruptsKept` |
| `MC_SessionHasty` | a host that sends again while the answer is on its way | `ExecutedOnce` |
| `MC_SessionNoise` | a byte damaged into `$` or `#` | `ExecutedOnce` |
| `MC_SessionBadReplies` | a damaged reply: the stub ignores the host's `-`; the run as it stands ends in a deadlock | `InStep` |
| `MC_PacketOverflow` | a host that believes `PacketSize=128` (`server.c:135`): the reader refuses more than 126 bytes | `AdvertisedSizeFits` |
| `MC_CommandsMoveSP` | a host that writes another SP: `OK`, and the program goes on with the old one | `ImplementsTarget` |
| `MC_CommandsProtocolOrder` | a host that sends the value of P low byte first, as the remote protocol has it: the bytes are exchanged | `ImplementsTarget` |
| `MC_CommandsZero` | Z at address 0: `OK`, and no breakpoint | `ImplementsTarget` |
| `MC_ResidentInBDOS` | the host is refused something while a program is stopped inside the BDOS: `write_error` enters the BDOS again (`pcw_rst8.c:11` warns of printing there) | `ReturnsToCaller` |
| `MC_ResidentBankedStop` | a stop inside the BDOS while a breakpoint lies in banked memory: the loops look for its `RST 08` in the system's page, give it up as overwritten by the user (`pcw_rst8.c:138`) and leave the `RST 08` in the program | `BreakpointInPlace` |
| `MC_SecondInstall` | BDOS 60/1 a second time (TESTVER run again): the saved handler is the hook itself | `InterruptServed` |
| `MC_ResidentLoader` | BDOS 60/2 with a file name: `SetDMA` has no `RET` and runs into its messages | `ReturnsToCaller` |
| `MC_ResidentStack` | a program that goes on with the stub's stack | `ReturnsToCaller` |
| `MC_Resident`, `NeedsBit7 = FALSE`, `Pages <- MCManyPages`, `ProgramBank <- MCManyBank` | a program in a page above the 128 that the g command tries, on hardware that maps what it is told: the mark shows nowhere (`server.c:563`: "we have messed with the memory") | `MemoryKept` |
| `MC_ResidentHandler` | the two banks have handlers of their own: `im1_entry` goes on to that of the programs' bank (`pcw_rst8.asm:301`), also from the system's, whose own it has saved (line 84) | `OwnHandlerServes` |
| `MC_Dart`, `Depth = 3` | a host with three bytes in its transmitter when DTR falls | `CommandKept` |
| `MC_Dart`, `Slack = 0` | a host that takes RTS away only when it is full | `TypeOK` |

### Fairness

* `trap_core`: weak fairness of the processor (program and handler are one thread that
  never pauses).  Nothing is assumed of the host but what the property says: a step ends
  in the GDB loop once its target is next.
* `rst8_entry`: for each number of interrupts in progress, strong fairness of the
  processor's steps at that level: an interrupt handler ends, and the interrupts do not
  come so fast that the interrupted code never executes an instruction.
* `session`: the stub in the GDB loop does nothing but read; a running program lets the
  line's interrupts in; the host reads, and sends again when its patience ends.
* `resident`: the two handlers of an interrupt run on.
* `dart`: the poll loops run, interrupts are let in, bytes on the line arrive, the host
  sends what DTR allows and reads what it has received, and a break-in's `RST 08` is
  reached.  That only one byte comes during one round of the poll loop is a fact about
  the speed of the line (31,250 baud against some 150 clock cycles), `PollsPerByte`.

Deadlock is checked in every passing run; the configurations of the table above that turn
it off are those whose liberty lets the stub destroy itself.

## What is proved

The runs check small instances; the theorems hold for every value of the constants that
the assumptions named in the modules allow.  Each proof module has one inductive
invariant (`ResidentProofs` three), a lemma per action that preserves it, and under that
a step per conjunct the action can disturb; in `Z80DecodeProofs` the work is in the tables,
a step per row.  Each invariant was checked by TLC on the
instance of its component's run before it was proved.  Where a theorem needs more than
the constants' assumptions, it says so in its `ASSUME`; for each liberty such an
assumption excludes, the table above has a configuration in which a theorem of that
module fails.

### The trap handler

For any program, control flow, memory image and number of slots.  `TypeCorrect` holds
with all liberties; the others need `Regular`: no liberty, no code at address 0 and no
instruction that may jump to itself.  That `Misread` is no liberty of theirs means that they
hold of steps at instructions the decoder is right about; `Z80DecodeProofs` says which.

| Theorem | Statement |
|---|---|
| `TypeCorrect` | `[]TypeOK` |
| `Transparency` | `StoppedTransparent`: memory is the program's own at every stop |
| `ResumptionExecutes` | `ResumeExecutes`: the instruction a resumption starts from is not under an `RST 08` of the stub |
| `HookStays` | `HookIntact`: the jump at 0008h stays |
| `NothingLeftBehind` | `NoResidue` and `Pending`: with no step pending, memory outside the enabled breakpoints is the program's, and a temporary breakpoint is set exactly when a flag asks for it |
| `Invariance` | `[]IInv` |
| `BreakpointsGuard` | `Guarded`: the program is never about to run an enabled breakpoint's instruction, but for the one it was resumed from and those it may have overwritten |
| `BytesStayApart` | `Unmixed`: no byte of one address is written to another |
| `BreakpointsKept` | `Kept`: taking breakpoints out drops none but those the program may have overwritten |
| `HandlerIsDebugger` | `ImplementsDebugger`: the handler implements `Debugger`, a step going where the program goes |

That memory is the program's at a stop is not inductive: it depends on what each slot
saved when it was planted, which depends on what the temporary breakpoint lay over.
`Accounting` says at every point of the handler who accounts for each byte: in the
program phase the byte beneath the temporary breakpoint is the program's, or an `RST 08`
whose slot holds the program's byte, or the deferred slot's own byte; in the loops the
same holds of the slots on either side of the counter; at the resumption the flags and
the resume address agree with what was planted.  `Focused` says that the next trap is
the one the flags are about.  `Planted` and `Named` add that the `RST 08` of every
enabled slot is in memory, and which slot `trap_restore_idx` names.

`HandlerIsDebugger` is a step simulation.  The variables of `Debugger` are read out of
the handler's (`TrapHandlerRefinement`); the initial states map to initial states, and
each action to a step of `Debugger` or to a stutter: `Execute` to `Debugger`'s execution
of the program's own byte, because `Accounting` tells what is beneath; a trap to a stop
with a reason, because of `Focused`; the steps of the two loops to stutters, because the
loops move bytes that `bset` does not count; a command to the change of `goal` or `bset`
that the host asked for.

### The packet reader

For any alphabet and buffer size, without further assumptions (`PacketReaderProofs`).

| Theorem | Statement |
|---|---|
| `ReaderTypeCorrect` | `TypeOK`: no byte is stored outside the buffer |
| `PacketsAnswered` | `AnswersPackets`: accepted exactly when a correct packet has just come to its end, whatever came before |
| `PayloadArrives` | `PayloadDelivered`: `process_packet` finds the payload that was sent, and its NUL |
| `OverflowOneByteEarly` | it gives a packet up exactly when payload and NUL would just fill the buffer: one byte before it has to |

The property is about the bytes since the last `$`; the reader knows an offset, a sum and
a state.  `Parsed` says for each state of the loop what has been read: `Framed`, that the
buffer holds a payload without `#` and the running sum is that of the payload, and how
many bytes follow it.  That the checksum of a payload is defined position by position
needs induction over the payload, which the proof does by the least position at which
two sums differ (`LeastNatural`, from well-foundedness of `<`).

### The commands

For any registers, memory and number of slots (`CommandsProofs`), assuming `Plain`: no
liberty, and requests that keep to the protocol (`Askable`): numbers of one word, reads
and writes of memory that the model has, data that fits the buffer, and of what is torn
off a letter that takes fields or that the stub does not know.  The memory of the model
leaves out the two bytes below the program's stack, where the trap pushes its return
address (`ReturnAssumption`).

| Theorem | Statement |
|---|---|
| `Invariance` | `[]IInv` |
| `CommandsTypeCorrect` | `TypeOK` |
| `HostIsRight` | `ImplementsTarget`: what the host reads is what the program has, what it is told OK for is what the program goes on with, and an error changes nothing |

The invariant adds to the types that the SP the host reads is the one the program goes on
with (`StackPointer`: it is copied out of the stack and never written back) and that no
address is in two slots (`Distinct`), so that `z` of an address leaves none of it.
`HostIsRight` is a step simulation in which all the work is in the digits.  The lemmas
follow the conversions: a byte is its two nibbles and a word its two bytes (`Nibbles`,
`Halves`); `from_hex` undoes `to_hex` (`HexAndBack`) and `Words` undoes `Bytes`
(`BytesAndBack`); `from_hex_str` of the one to four digits gdb writes gives the number
(`NumberRead`), and of four digits with the high byte first the value (`ValueRead`); what
the orders of pushing, reading, writing and popping put in a place is taken out of it
(`Places`).  Then there is one lemma for each action, and one for each request, that finds
the step of `Target`.  A slot is free exactly when fewer addresses are set than there are
slots (`FreeSlot`), because a function from used slots to addresses is a bijection.

### The step decoder

For any address, operands, flags and registers (`Z80DecodeProofs`); the run checks every
opcode, but with three pairs of operands and six settings of the flags.

| Theorem | Assuming | Statement |
|---|---|---|
| `DecodeIsTarget` | a documented instruction but `JP (IX)` and `JP (IY)` | `Decode(s) = Target(s)`, or 256 beyond if `char` has no sign and the instruction is a relative jump taken backwards |
| `StepsGoWhereTheProgramGoes` | | `StepIsNext`, whichever `char` the compiler has |
| `BackwardJumpsAreMissed` | | a relative jump taken backwards is planted 256 bytes too far if `char` has no sign: the second finding of `z80_robust`, from every state |
| `IndexedJumpsAreMissed` | | a step at `JP (IX)` or `JP (IY)` is planted behind the jump: the first finding of `z80_robust`, from every state |

The tables are values and masks; the instruction set is defined by the fields x, y and z
of an opcode.  `Masks` and `PrefixMasks` say what each mask leaves of these fields, and
after that there is one step per row: `RowSays` (54 rows), `ExtRow` (27) and `IndexedRow`
(28) tell from the row that matches what the opcode is.  Only where rows overlap does it
matter that no earlier one matched.  `RowFound` shows that the last row of `opc_main`,
`????`, is never reached.  `EvaluateIsTarget` then compares each function with the
instruction, `ConditionHolds` the eight conditions with the flags.

### The conversation with the host

For any buffer of two or more tokens and any number of faults (`SessionProofs`), assuming
`Regular`: a host that sends again only when the line is silent, replies that arrive as
they were sent, and damage that makes no `$` or `#`.

| Theorem | Statement |
|---|---|
| `SessionTypeCorrect` | `TypeOK` |
| `CommandsExecuteOnce` | `ExecutedOnce`: a command is executed once for its acknowledgement |
| `StaysInStep` | `InStep`: stub and host agree whether the program runs |
| `AnswersBelong` | `OwnReply`: what the host takes for an answer answers its command |

The invariant says what is under way in each state of the host.  While it waits for an
acknowledgement, either the command has not been executed (`Awaiting`): the last five
tokens on the line are the last packet or what became of it, everything before them is
read as junk, and a refusal is the last thing the stub says; or it has (`Taken`): nothing
is on its way to the stub, and on the way to the host there is one `+` and behind it what
the stub says of this command.  It is the first of these that rules out a second
execution: what is left of an earlier transmission holds no `$`.

### Entry and exit

For any number of interrupts in progress (`Rst8Proofs`), assuming `Regular`: breakpoints
and break-ins in the program only, and a processor that keeps the parity of `LD A,I`.

| Theorem | Statement |
|---|---|
| `EntryTypeCorrect` | `TypeOK`; no stack is popped below its frames |
| `FindsItsWayBack` | `StackKept`: SP returns to what it was at the trap, and the RET takes the trap's address |
| `InterruptsCounted` | `DepthCounts`: the load, decrement and store of `interrupt_depth` lose no count |
| `InterruptEnableReturns` | `InterruptsKept`: the program's interrupt enable is as it was |

The invariant says of every frame on the stacks what kind of code the code above it is
(`Nested`), that the cells of `rst8_entry` belong to the one trap there is (`Kept`), where
the interrupt enable is kept at each instruction: processor, parity, flag, processor
(`EnableKept`), and that a value an epilogue has loaded is still right when it is
stored (`Counted`): whoever interrupts it has taken its own count off again.  The
counts are cardinalities of sets of frames; the lemmas on them (`CountStep` and its
neighbours) carry the proof.

### The serial driver

For commands and answers of any length (`DartProofs`), assuming `Modest`: the host sends
fewer bytes after DTR falls than the DART holds, and takes one more when its receiver is
nearly full.

| Theorem | Statement |
|---|---|
| `DriverTypeCorrect` | `TypeOK`: neither the DART nor the host's receiver is asked to take more than it holds |
| `CommandsArrive` | `CommandKept`: no byte of a command is lost |
| `AnswersArrive` | `AnswerKept`: no byte of an answer is lost |

`Turns` says whose turn it is, `Room` that what can still come fits (with DTR off that is
what the host's transmitter holds; DTR is on only while the DART is empty or the program
runs), `Flow` that at most one byte is on its way when CTS has been seen on.

### The resident extension

For any extensions, images and pages (`ResidentProofs`).

| Theorem | Assuming | Statement |
|---|---|---|
| `RelocationLinks` | a program of less than 64K | moving an image of `makeprl` by `PageReloc` gives the program as it would be linked there |
| `LiesWhereItRuns` | the same | `RunsWhereItLies`: every extension is its program linked at its page |
| `ChainStaysSound` | the same | `ChainSound`: NEXT and PREVIOUS lead through all extensions, none over another |
| `MarksGone` | `Mappable`: hardware that needs bit 7, or no page above those that are tried | `MemoryKept`: the g command leaves memory as it was |
| `PageZeroReported` | hardware that needs bit 7 | the g command leaves every slot as it was mapped, and tells page 0 for each: the finding of `mapping`, for any pages |
| `CallsReturn` | `Regular` | `ReturnsToCaller`: every BDOS call returns to the program that made it |
| `BreakpointStaysInPlace` | `Regular` | `BreakpointInPlace`: a breakpoint's `RST 08` is in the program's page and in no other |

`Chained` says that the pages of the extensions strictly descend in the order of loading,
each linked to its neighbours; `Unmarked` that between the steps of the scan all pages
hold their own markers; `Places` which stack, which return address and which bank belong
to what executes.  The last two theorems' `Regular` is a machine of either kind (`Mappable`), a program that sets its own stack
up and names no file, and a host that neither asks what makes the stub print while the
BDOS is stopped, nor stops it while a breakpoint lies in banked memory.

### Checked by TLC only

* Liveness, which the proof system does not do: `StepStops`, `Rearmed`, `BreakInStops`,
  `Answered`, `BreakTaken`, `InterruptServed`.

## What is not modelled, and why

* In `Commands`: what is fixed in a reply, its checksum, and the text behind `q`; fields of
  more than four digits, which `from_hex_str` writes in front of its own buffer; a field
  shorter than its length says, which is read on into what the buffer held before.  c, s and i
  are `Leave`, because where they stop is the subject of `TrapHandler`; so is what lies under
  a breakpoint.  That memory is the program's own at a stop, which `Commands` takes for
  granted, is what `StoppedTransparent` says there.
* `printC`, `_rst8_restore`, `SENDDATA`, `RECEIVEDATA`, the version intercept: nobody calls
  them.
* The loader from `LoadFile` on: never reached, because `SetDMA` does not return, and the
  one call of the loader is commented out.  Its relocation and chaining are in `Resident`
  as what happens when an extension becomes resident, which CP/M's loader does.
* The Spectranet module and its libraries (`modulecall.c`, `install.asm`, `crt0.asm`,
  `spectranet/`): the ancestor of this stub, in no target that builds.
* `cpm_main.c`, `cpm_stubs.c`, `rsxchk.c`: programs that call the stub once and print.
  The serial bridge and `symbol_sizes.py` run on the host.

## Plan

All modules of the table, their runs and the proofs above are done.  Every invariant a
passing run checks is proved; what is left to TLC is liveness.
