-------------------------- MODULE MC_PacketReader --------------------------
(* A line with the framing bytes, two payload letters and their digits.     *)
EXTENDS PacketReader

\* $ # c 2 9: "c9" sums to 9c and "ccc", past 255, to 29.
MCChars == {Dollar, Hash, 99, 50, 57}
=============================================================================
