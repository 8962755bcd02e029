---------------------------- MODULE MC_Commands ----------------------------
(* Register files in which no two bytes are alike, one with its stack and its *)
(* PC at the end of the address space, and a block of memory as long as one   *)
(* packet carries.                                                            *)
EXTENDS Commands

File(n) == [r \in OfProgram |-> IF r = SP THEN 61713 ELSE 256 * (16 * n + r) + 128 + 16 * n + r]
MCFiles == {File(1), [File(2) EXCEPT ![SP] = 1, ![PC] = 65535]}
MCOwnTraps == {f[PC] : f \in MCFiles}
MCPages == [r \in SLOT_0 .. SLOT_3 |-> IF r = SLOT_3 THEN 7 ELSE IF r = SLOT_0 + 1 THEN 65535 ELSE 4]

Block   == 65400
MCCells == Block .. Block + 61

Pattern(count, v) == [n \in 1 .. count |-> (v + n) % 256]
Dump == [r \in Register |-> IF r \in OfProgram THEN File(3)[r] ELSE 0]

MCRequests ==
  {[name |-> n] : n \in {"g", "k", "?"}}
    \union {[name |-> "q", known |-> b] : b \in BOOLEAN}
    \union {[name |-> "torn", of |-> n] : n \in {"P", "m", "M", "Z", "X"}}
    \union {[name |-> "G", words |-> Dump]}
    \union {[name |-> "P", register |-> r, word |-> Dump[r]] : r \in {IY, SLOT_0}}
    \union {[name |-> "P", register |-> r, word |-> 4660] : r \in {12, 256}}
    \union {[name |-> "m", at |-> Block, length |-> n] : n \in {0, 62, 63}}
    \union {[name |-> "M", at |-> Block + 3, bytes |-> Pattern(58, 100)]}
    \union {[name |-> n, at |-> a] : n \in {"Z", "z"}, a \in {255, 32768}}
    \union {[name |-> "Z", at |-> 4096]}

\* A host that moves SP, and one that sets a breakpoint at address 0.
MoveRequests == MCRequests \union {[name |-> "P", register |-> SP, word |-> 4660]}
ZeroRequests == MCRequests \union {[name |-> "Z", at |-> 0]}
=============================================================================
