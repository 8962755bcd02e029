----------------------------- MODULE Z80Decode -----------------------------
(***************************************************************************)
(* calculateStep in z80_decode.c: the address of the next instruction,     *)
(* which the trap handler needs to plant its temporary breakpoint.  The    *)
(* opcode is looked up in tables of values and masks; the row names a      *)
(* function that reads the registers as a jump would.                      *)
(*                                                                         *)
(* The program is stopped somewhere and the stub computes the step          *)
(* (CalculateStep); the module Z80 says where the instruction really goes.  *)
(***************************************************************************)
EXTENDS Z80, Sequences

CONSTANTS
  Stops,          \* the states the program may be stopped in
  CharIsSigned    \* char of the compiler the stub is built with

\* The program counter, the four bytes from there on, and what a jump may depend on:
\* registers, and the word on top of the stack.
Stopped == [pc : Word, code : [1 .. 4 -> Byte], B : Byte, F : Byte,
            HL : Word, index : Word, TOS : Word]

ASSUME StopsAssumption == Stops \subseteq Stopped
ASSUME CharAssumption == CharIsSigned \in BOOLEAN

Row(val, mask, fp, inst_len) == [val |-> val, mask |-> mask, fp |-> fp, inst_len |-> inst_len]
Dummy(val, mask, inst_len)   == Row(val, mask, "dummy", inst_len)

opc_main == <<
  Dummy(\h00, \hFF, 1), Dummy(\h01, \hCF, 3), Dummy(\h02, \hFF, 1),
  Dummy(\h03, \hCF, 1), Dummy(\h04, \hC7, 1), Dummy(\h05, \hC7, 1),
  Dummy(\h06, \hC7, 2), Dummy(\h07, \hFF, 1), Dummy(\h08, \hFF, 1),
  Dummy(\h09, \hCF, 1), Dummy(\h0A, \hFF, 1), Dummy(\h0B, \hCF, 1),
  Dummy(\h0F, \hFF, 1), Row(\h10, \hFF, "djnz", 2), Dummy(\h12, \hFF, 1),
  Dummy(\h17, \hFF, 1), Row(\h18, \hFF, "jr", 2), Dummy(\h1A, \hFF, 1),
  Dummy(\h1F, \hFF, 1), Row(\h20, \hE7, "jr_cc", 2), Dummy(\h22, \hFF, 3),
  Dummy(\h27, \hFF, 1), Dummy(\h2A, \hFF, 3), Dummy(\h2F, \hFF, 1),
  Dummy(\h32, \hFF, 3), Dummy(\h37, \hFF, 1), Dummy(\h3A, \hFF, 3),
  Dummy(\h3F, \hFF, 1), Dummy(\h76, \hFF, 1), Dummy(\h40, \hC0, 1),
  Dummy(\h80, \hC0, 1), Row(\hC0, \hC7, "ret_cc", 1), Dummy(\hC1, \hCF, 1),
  Row(\hC2, \hC7, "jp_cc_nn", 3), Row(\hC3, \hFF, "jp_nn", 3),
  Row(\hC4, \hC7, "jp_cc_nn", 3), Dummy(\hC5, \hCF, 1), Dummy(\hC6, \hC7, 2),
  Row(\hC7, \hC7, "rst", 1), Row(\hC9, \hFF, "ret", 1),
  Row(\hCB, \hFF, "prefix_cb", 2), Row(\hCD, \hFF, "jp_nn", 3), Dummy(\hD3, \hFF, 2),
  Dummy(\hD9, \hFF, 1), Dummy(\hDB, \hFF, 2), Row(\hDD, \hFF, "prefix_ind", 0),
  Dummy(\hE3, \hFF, 1), Row(\hE9, \hFF, "jp_hl", 1), Dummy(\hEB, \hFF, 1),
  Row(\hED, \hFF, "prefix_ed", 0), Dummy(\hF3, \hFF, 1), Dummy(\hF9, \hFF, 1),
  Dummy(\hFB, \hFF, 1), Row(\hFD, \hFF, "prefix_ind", 0), Dummy(\h00, \h00, 1)>>

\* Lengths with the prefix counted.
opc_ed == <<
  Dummy(\h70, \hFF, 2), Dummy(\h70, \hFF, 2), Dummy(\h40, \hC7, 2),
  Dummy(\h71, \hFF, 2), Dummy(\h70, \hFF, 2), Dummy(\h41, \hC7, 2),
  Dummy(\h42, \hCF, 2), Dummy(\h43, \hCF, 4), Dummy(\h44, \hFF, 2),
  Row(\h45, \hFF, "ret", 2), Dummy(\h46, \hFF, 2), Dummy(\h47, \hFF, 2),
  Dummy(\h4A, \hCF, 2), Dummy(\h4B, \hCF, 4), Row(\h4D, \hFF, "ret", 2),
  Dummy(\h4F, \hFF, 2), Dummy(\h56, \hFF, 2), Dummy(\h57, \hFF, 2),
  Dummy(\h5E, \hFF, 2), Dummy(\h5F, \hFF, 2), Dummy(\h67, \hFF, 2),
  Dummy(\h6F, \hFF, 2), Dummy(\hA0, \hE4, 2), Dummy(\hC3, \hFF, 2),
  Dummy(\hC5, \hE7, 2), Dummy(\hF3, \hFF, 2), Dummy(\h00, \h00, 2)>>

\* Lengths without the prefix DD or FD.
opc_ind == <<
  Dummy(\h24, \hF7, 1), Dummy(\h25, \hF7, 1), Dummy(\h26, \hF7, 2),
  Dummy(\h21, \hFF, 3), Dummy(\h22, \hFF, 3), Dummy(\h2A, \hFF, 3),
  Dummy(\h23, \hFF, 1), Dummy(\h2B, \hFF, 1), Dummy(\h29, \hFF, 1),
  Dummy(\h09, \hCF, 1), Dummy(\h34, \hFF, 2), Dummy(\h35, \hFF, 2),
  Dummy(\h36, \hFF, 3), Dummy(\h76, \hFF, 1), Dummy(\h46, \hC7, 2),
  Dummy(\h70, \hF8, 2), Dummy(\h64, \hF6, 1), Dummy(\h60, \hF0, 1),
  Dummy(\h44, \hC6, 1), Dummy(\h86, \hC7, 2), Dummy(\h84, \hC6, 1),
  Dummy(\hE1, \hFF, 1), Dummy(\hE5, \hFF, 1), Row(\hCB, \hFF, "prefix_xd_cb", 3),
  Dummy(\hE3, \hFF, 1), Dummy(\hE9, \hFF, 1), Dummy(\hF9, \hFF, 1),
  Dummy(\h00, \h00, 1)>>

\* The bits that two bytes have in common: the & of C.
And(a, b) ==
  LET bit(weight) == weight * (Bit(weight, a) * Bit(weight, b))
  IN bit(128) + bit(64) + bit(32) + bit(16) + bit(8) + bit(4) + bit(2) + bit(1)

Matches(row, byte) == row.val = And(byte, row.mask)

\* The first row that matches: the last one matches everything.
Lookup(table) ==
  [byte \in Byte |-> CHOOSE k \in 1 .. Len(table) : /\ Matches(table[k], byte)
                                                   /\ \A j \in 1 .. k - 1 : ~Matches(table[j], byte)]

Main    == Lookup(opc_main)
Indexed == Lookup(opc_ind)
Ext     == Lookup(opc_ed)

VARIABLES
  stopped,    \* the state the program is stopped in
  step        \* what calculateStep returned, or -1

vars == <<stopped, step>>

TypeOK == stopped \in Stopped /\ step \in Word \union {-1}

Init == stopped \in Stops /\ step = -1

\* A char of the compiler as an int: SDCC's has no sign unless it is told so, and the
\* Makefile does not tell it.
Char(byte) == IF CharIsSigned THEN Displacement(byte) ELSE byte

ParitySwapped(cc, flags) ==
  CASE cc = 4 -> And(flags, \h04) # 0
    [] cc = 5 -> And(flags, \h04) = 0
    [] OTHER  -> Condition(cc, flags)
cc_holds(cc, flags) ==
  CASE cc = 0 -> And(flags, \h40) = 0
    [] cc = 1 -> And(flags, \h40) # 0
    [] cc = 2 -> And(flags, \h01) = 0
    [] cc = 3 -> And(flags, \h01) # 0
    [] cc = 4 -> And(flags, \h04) = 0
    [] cc = 5 -> And(flags, \h04) # 0
    [] cc = 6 -> And(flags, \h80) = 0
    [] cc = 7 -> And(flags, \h80) # 0

\* cpc + n, a pointer.
Pointer(cpc, n) == (cpc + n) % 65536

pe_jr(s) == Pointer(s.pc, Char(s.code[2]) + 2)

pe_jp_nn(s) == Little(s.code[2], s.code[3])

pe_ret(s) == s.TOS

\* The bits of the opcode outside the mask are the condition code.
condition(op, row) == (And(op, 255 - row.mask) \div 8) % 8
taken(row, s) == cc_holds(condition(s.code[1], row), s.F)

pe_dummy(row, s)    == Pointer(s.pc, row.inst_len)
pe_rst(row, s)      == 8 * condition(s.code[1], row)
pe_djnz(row, s)     == IF s.B - 1 = 0 THEN pe_dummy(row, s) ELSE pe_jr(s)
pe_jr_cc(row, s)    == IF taken(row, s) THEN pe_jr(s) ELSE Pointer(s.pc, 2)
pe_jp_cc_nn(row, s) == IF taken(row, s) THEN pe_jp_nn(s) ELSE pe_dummy(row, s)
pe_ret_cc(row, s)   == IF taken(row, s) THEN pe_ret(s) ELSE pe_dummy(row, s)

\* The function of the row of an instruction.
Evaluate(row, s) ==
  CASE row.fp \in {"dummy", "prefix_cb"} -> pe_dummy(row, s)
    [] row.fp = "rst"      -> pe_rst(row, s)
    [] row.fp = "djnz"     -> pe_djnz(row, s)
    [] row.fp = "jr"       -> pe_jr(s)
    [] row.fp = "jr_cc"    -> pe_jr_cc(row, s)
    [] row.fp = "jp_nn"    -> pe_jp_nn(s)
    [] row.fp = "jp_cc_nn" -> pe_jp_cc_nn(row, s)
    [] row.fp = "jp_hl"    -> s.HL
    [] row.fp = "ret"      -> pe_ret(s)
    [] row.fp = "ret_cc"   -> pe_ret_cc(row, s)

\* The function of a prefix looks the next byte up.  An indexed row has a length only.
Decode(s) ==
  LET row == opc_main[Main[s.code[1]]]
  IN CASE row.fp = "prefix_ed"  -> Evaluate(opc_ed[Ext[s.code[2]]], s)
       [] row.fp = "prefix_ind" ->
            Pointer(s.pc, 1 + opc_ind[Indexed[s.code[2]]].inst_len)
       [] OTHER -> Evaluate(row, s)

CalculateStep ==
  /\ step = -1
  /\ step' = Decode(stopped)
  /\ UNCHANGED stopped

\* The program comes back to the same place.
Stop ==
  /\ step # -1
  /\ step' = -1
  /\ UNCHANGED stopped

Next == CalculateStep \/ Stop

Spec == Init /\ [][Next]_vars

-----------------------------------------------------------------------------
(* Properties. *)

JumpsToIndex(code) == code[1] \in {DD, FD} /\ code[2] = \hE9

\* The processor takes a relative jump backwards.
RelativeJumps == {\h10, \h18, \h20, \h28, \h30, \h38}
JumpsBackwards(s) ==
  s.code[1] \in RelativeJumps /\ s.code[2] >= 128 /\ Target(s) # Pointer(s.pc, 2)

ReadWithoutSign(s) == ~CharIsSigned /\ JumpsBackwards(s)

\* Wherever the program is stopped at a documented instruction, the step is planted
\* where the instruction goes: after all of its bytes, or where its jump, call or return
\* leads with these registers.  Two kinds of jump are missed: those through an index
\* register, and by a char without a sign those backwards.
StepIsNext ==
  /\ step # -1 /\ Documented(stopped.code)
  /\ ~JumpsToIndex(stopped.code) /\ ~ReadWithoutSign(stopped)
  => step = Target(stopped)

\* rst8_c_trap relies on a robust instruction decoder: one that misses no jump.
RobustDecoder ==
  step # -1 /\ Documented(stopped.code) => step = Target(stopped)
=============================================================================
