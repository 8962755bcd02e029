-------------------------------- MODULE Prl --------------------------------
(***************************************************************************)
(* Page relocatable images: how makeprl.c makes one out of two links of a  *)
(* program a page apart, and how a loader moves it to any page             *)
(* (PageReloc in loader.asm, and CP/M's own loader, which makes the stub   *)
(* resident).  A program here is a sequence of bytes as the linker knows   *)
(* them: those that depend on the page the program is linked at, the high  *)
(* bytes of its addresses, and all the others.                             *)
(***************************************************************************)
EXTENDS Integers, Sequences

Byte == 0 .. 255

\* The bytes of a program, and those bytes linked at a page.
Linked(program, page) ==
  [k \in DOMAIN program |->
     IF program[k].high THEN (program[k].byte + page) % 256 ELSE program[k].byte]

-----------------------------------------------------------------------------
(* makeprl. *)

\* One bit per byte: whether the two images differ there.  The comparison ends with
\* the shorter image.
Compared(template, real) ==
  [k \in {n \in DOMAIN real : n \in DOMAIN template} |-> template[k] # real[k]]

\* addbit writes a byte once it has eight bits, the first one in its highest bit;
\* seven bits more push the last byte out.
FlushedTooLittle(bits) == bits \o [k \in 1 .. 6 |-> FALSE]
Flushed(bits) == bits \o [k \in 1 .. 7 |-> FALSE]

Map(bits) == [n \in 1 .. Len(bits) \div 8 |-> SubSeq(bits, (8 * n) - 7, 8 * n)]

MakePrl(template, real) ==
  [length |-> Len(real) % 65536,
   image  |-> real,
   map    |-> Map(Flushed(Compared(template, real)))]

-----------------------------------------------------------------------------
(* PageReloc. *)

\* What is read where the map has ended: CP/M pads a file with 1Ah.
Padding == <<FALSE, FALSE, FALSE, TRUE, TRUE, FALSE, TRUE, FALSE>>

Bit(prl, k) ==
  LET byte == ((k - 1) \div 8) + 1
  IN (IF byte \in DOMAIN prl.map THEN prl.map[byte] ELSE Padding)[((k - 1) % 8) + 1]

\* The image is linked at page 1: a byte whose bit is set moves with the page.
Moved(byte, page) == (byte + (page - 1)) % 256

PageReloc(prl, page) ==
  [k \in 1 .. prl.length |-> IF Bit(prl, k) THEN Moved(prl.image[k], page) ELSE prl.image[k]]
=============================================================================
