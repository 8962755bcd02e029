---------------------------- MODULE MC_Resident ----------------------------
(* Three extensions, of a length below, at and above a byte of the map and a *)
(* page, with bytes that move at the ends of both.                           *)
EXTENDS Resident

MCPages == {0, 1, 3, 4, 5, 6}
MCProgramBank == [s \in Slot |-> 4 + s]

\* A machine with more pages than updateMappedPages tries, and a program that has one
\* of those.
MCManyPages == MCPages \union {130}
MCManyBank  == [MCProgramBank EXCEPT ![2] = 130]

Plain(byte) == [high |-> FALSE, byte |-> byte]
High(byte)  == [high |-> TRUE, byte |-> byte]

MCBodies == <<
  <<Plain(195), Plain(7), High(0), Plain(0), Plain(255), High(255), Plain(8), Plain(9), High(1)>>,
  <<High(1), Plain(2), Plain(3), Plain(4), Plain(5), Plain(6), High(254)>>,
  <<Plain(1), Plain(2), Plain(3), Plain(4), Plain(5), Plain(6), Plain(7), High(8)>> >>
=============================================================================
