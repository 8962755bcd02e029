--------------------------- MODULE MC_TrapHandler ---------------------------
(* Small programs for TLC: three instructions, the middle one a branch.      *)
EXTENDS TrapHandlerRefinement, TrapHandlerInvariant, TLC

MCCode  == {16, 17, 18}
MCFlow  == (16 :> {17}) @@ (17 :> {16, 18}) @@ (18 :> {16})
MCAfter == [a \in MCCode \union {0, 8} |-> IF a \in {16, 17} THEN a + 1 ELSE 16]
MCSkip  == (16 :> {17, 18}) @@ (17 :> {18}) @@ (18 :> {16})
MCOwn   == (0 :> {JP}) @@ (8 :> {JP}) @@ (16 :> {1}) @@ (17 :> {2, 3}) @@ (18 :> {4})
MCPlain == (0 :> JP) @@ (8 :> JP) @@ (16 :> 1) @@ (17 :> 2) @@ (18 :> 4)

\* The usual way in: the program has an RST 08 of its own.
MCPrograms == {[MCPlain EXCEPT ![17] = RST08]}
MCStores   == {17}
MCPatches  == {17}
MCNone     == {}

\* Programs that go wrong: one that jumps to address 0 as CP/M programs end, and
\* one that waits in a jump to itself.
ZeroCode  == {0, 16, 17}
ZeroFlow  == (0 :> {16}) @@ (16 :> {17}) @@ (17 :> {0})
ZeroAfter == [a \in ZeroCode \union {8} |-> IF a = 16 THEN 17 ELSE 16]
ZeroSkip  == [a \in ZeroCode |-> {}]
ZeroOwn   == (0 :> {JP}) @@ (8 :> {JP}) @@ (16 :> {1}) @@ (17 :> {2})
ZeroPrograms == {(0 :> JP) @@ (8 :> JP) @@ (16 :> RST08) @@ (17 :> 2)}
SelfFlow  == (16 :> {17}) @@ (17 :> {17, 18}) @@ (18 :> {16})
SelfPrograms == {[MCPlain EXCEPT ![18] = RST08]}

\* One liberty at a time.
Nested    == {NestedTrap}
AtRST     == {StepAtRST}
Busy      == {BusyBreakIn}
Second    == {SecondZ}
Overwrite == {OverwriteStep}
Misreading == {Misread}
=============================================================================
