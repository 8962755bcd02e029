-------------------------------- MODULE Z80 --------------------------------
(***************************************************************************)
(* Where a Z80 goes after one instruction, as its instruction set defines  *)
(* it and independently of the tables of the stub: an opcode is read as    *)
(* its bit fields x (2 bits), y (3) and z (3).  Addresses are 16 bits      *)
(* wide.  Only documented instructions are told apart.                     *)
(***************************************************************************)
EXTENDS Integers

Byte == 0 .. 255
Word == 0 .. 65535

x(op) == op \div 64
y(op) == (op \div 8) % 8
z(op) == op % 8

CB == \hCB
DD == \hDD
ED == \hED
FD == \hFD

Little(low, high) == low + 256 * high
Displacement(byte) == IF byte < 128 THEN byte ELSE byte - 256

\* The flags S, Z, P/V and C are the bits 7, 6, 2 and 0 of F, with these weights; an
\* odd condition asks for a flag that is set, an even one for a flag that is not.
Bit(weight, byte) == (byte \div weight) % 2
Flags == <<64, 1, 4, 128>>
Condition(cc, F) == Bit(Flags[(cc \div 2) + 1], F) = cc % 2

\* Whether an instruction without prefix reads an operand at (HL), which is (IX+d)
\* or (IY+d) with a prefix, or HL itself.
AtHL(op) ==
  \/ op \in {\h34, \h35, \h36}
  \/ x(op) = 1 /\ y(op) = 6 /\ z(op) # 6
  \/ x(op) \in {1, 2} /\ z(op) = 6 /\ op # \h76
UsesHL(op) == op \in {\h09, \h19, \h29, \h39, \h21, \h22, \h23, \h2A, \h2B,
                      \hE1, \hE3, \hE5, \hE9, \hF9}

Length1(op) ==
  CASE x(op) = 0 /\ z(op) = 0 -> IF y(op) < 2 THEN 1 ELSE 2
    [] x(op) = 0 /\ z(op) = 1 -> IF y(op) % 2 = 0 THEN 3 ELSE 1
    [] x(op) = 0 /\ z(op) = 2 -> IF y(op) < 4 THEN 1 ELSE 3
    [] x(op) = 0 /\ z(op) = 6 -> 2
    [] x(op) = 3 /\ z(op) \in {2, 4} -> 3
    [] op \in {\hC3, \hCD} -> 3
    [] op \in {\hD3, \hDB} -> 2
    [] x(op) = 3 /\ z(op) = 6 -> 2
    [] OTHER -> 1

LengthED(op) == IF x(op) = 1 /\ z(op) = 3 THEN 4 ELSE 2

Length(code) ==
  CASE code[1] = CB -> 2
    [] code[1] = ED -> LengthED(code[2])
    [] code[1] \in {DD, FD} -> IF code[2] = CB THEN 4
                                 ELSE 1 + Length1(code[2]) + (IF AtHL(code[2]) THEN 1 ELSE 0)
    [] OTHER -> Length1(code[1])

DocumentedED(op) ==
  \/ x(op) = 1 /\ z(op) \in {0, 1} /\ y(op) # 6
  \/ x(op) = 1 /\ z(op) \in {2, 3}
  \/ op \in {\h44, \h45, \h4D, \h46, \h56, \h5E, \h47, \h4F, \h57, \h5F, \h67, \h6F}
  \/ x(op) = 2 /\ z(op) <= 3 /\ y(op) >= 4

Documented(code) ==
  CASE code[1] = ED -> DocumentedED(code[2])
    [] code[1] \in {DD, FD} -> UsesHL(code[2]) \/ AtHL(code[2]) \/ code[2] = CB
    [] OTHER -> TRUE

\* A state of the program: pc, the bytes from pc on, and what a jump may depend on.
Target(s) ==
  LET op     == s.code[1]
      next   == (s.pc + Length(s.code)) % 65536
      near   == (next + Displacement(s.code[2])) % 65536
      far    == Little(s.code[2], s.code[3])
  IN CASE op = \h10 -> IF s.B = 1 THEN next ELSE near
       [] op = \h18 -> near
       [] op \in {\h20, \h28, \h30, \h38} -> IF Condition(y(op) - 4, s.F) THEN near ELSE next
       [] op \in {\hC3, \hCD} -> far
       [] x(op) = 3 /\ z(op) \in {2, 4} -> IF Condition(y(op), s.F) THEN far ELSE next
       [] op = \hC9 -> s.TOS
       [] x(op) = 3 /\ z(op) = 0 -> IF Condition(y(op), s.F) THEN s.TOS ELSE next
       [] x(op) = 3 /\ z(op) = 7 -> 8 * y(op)
       [] op = \hE9 -> s.HL
       [] op \in {DD, FD} /\ s.code[2] = \hE9 -> s.index
       [] op = ED /\ s.code[2] \in {\h45, \h4D} -> s.TOS
       [] OTHER -> next
=============================================================================
