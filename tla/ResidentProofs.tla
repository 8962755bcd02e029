---------------------------- MODULE ResidentProofs ----------------------------
(***************************************************************************)
(* The stub as a resident extension, for any programs, any page of the     *)
(* BDOS and any memory: an image of makeprl runs at every page it is moved *)
(* to, the chain of extensions stays sound, the g command leaves memory    *)
(* and mapping as they were but tells page 0 for every slot, calls return  *)
(* to the program that made them, and a breakpoint's RST 08 stays in the   *)
(* page it was written to.                                                 *)
(***************************************************************************)
EXTENDS Resident, FunctionTheorems, SequenceTheorems, TLAPS

\* A program fits into the 64K that its addresses reach.
Fit == \A n \in DOMAIN Bodies : Len(Bodies[n]) < 65536

\* The g command can map every page back that it takes away: the machine has no page
\* above those it tries, or does not map what it is told to at all.
Mappable == NeedsBit7 \/ Pages \subseteq 0 .. 127

\* Programs that set their stack up and name no file, a machine of either kind, and a host that neither breaks into the BDOS while a breakpoint lies
\* in banked memory nor asks there for what makes the stub print.
Regular == Mappable /\ OwnStack /\ ~Named /\ ~AsksInBDOS /\ ~StopsInBDOS

-----------------------------------------------------------------------------
(* An image of makeprl, moved. *)

Cell == [high : BOOLEAN, byte : Byte]
AnyPage == 1 .. 255     \* the pages an image can be moved to

\* A high byte is another when it is linked one page higher.
LEMMA MarksHighBytes ==
  ASSUME NEW cell \in Cell
  PROVE  (cell.byte + 0) % 256 # (cell.byte + 1) % 256
<1>1. cell.byte \in 0 .. 255
  BY DEF Cell, Byte
<1> QED
  BY <1>1

\* Moving a byte on from page 1 links it at the page.
LEMMA MovesOn ==
  ASSUME NEW byte \in Byte, NEW page \in AnyPage, NEW linked, linked = (byte + 1) % 256
  PROVE  Moved(linked, page) = (byte + page) % 256
<1>1. byte \in 0 .. 255 /\ page \in 1 .. 255
  BY DEF Byte, AnyPage
<1>2. CASE byte = 255
  <2>1. linked = 0
    BY <1>2
  <2>2. (0 + (page - 1)) % 256 = (255 + page) % 256
    BY <1>1
  <2> QED
    BY <1>2, <2>1, <2>2 DEF Moved
<1>3. CASE byte < 255
  <2>1. linked = byte + 1
    BY <1>1, <1>3
  <2>2. (byte + 1) + (page - 1) = byte + page
    BY <1>1
  <2> QED
    BY <2>1, <2>2 DEF Moved
<1> QED
  BY <1>1, <1>2, <1>3

\* So the link at page 1 is all that is needed of the links at other pages.
LEMMA LinkMoves ==
  ASSUME NEW program \in Seq(Cell), NEW page \in AnyPage, NEW k \in 1 .. Len(program)
  PROVE  /\ program[k].high => Moved(Linked(program, 1)[k], page) = Linked(program, page)[k]
         /\ ~program[k].high => Linked(program, 1)[k] = Linked(program, page)[k]
         /\ program[k].high <=> Linked(program, 0)[k] # Linked(program, 1)[k]
<1> DEFINE cell == program[k]
<1>1. cell \in Cell
  BY ElementOfSeq
<1>2. cell.byte \in Byte /\ k \in DOMAIN program
  BY <1>1 DEF Cell
<1>3. /\ Linked(program, 0)[k] = IF cell.high THEN (cell.byte + 0) % 256 ELSE cell.byte
      /\ Linked(program, 1)[k] = IF cell.high THEN (cell.byte + 1) % 256 ELSE cell.byte
      /\ Linked(program, page)[k] = IF cell.high THEN (cell.byte + page) % 256 ELSE cell.byte
  BY <1>2 DEF Linked
<1> HIDE DEF cell
<1>4. (cell.byte + 0) % 256 # (cell.byte + 1) % 256
  BY <1>1, MarksHighBytes
<1>5. \A l : l = (cell.byte + 1) % 256 => Moved(l, page) = (cell.byte + page) % 256
  BY <1>2, MovesOn
<1>6. cell.high => Moved(Linked(program, 1)[k], page) = Linked(program, page)[k]
  BY <1>3, <1>5
<1> QED
  BY <1>3, <1>4, <1>6 DEF cell

\* The map has a bit for every byte, although the last byte of the map is only as full
\* as the seven bits that follow make it.
LEMMA MapHasEveryBit ==
  ASSUME NEW bits \in Seq(BOOLEAN), NEW k \in 1 .. Len(bits)
  PROVE  /\ ((k - 1) \div 8) + 1 \in DOMAIN Map(Flushed(bits))
         /\ Map(Flushed(bits))[((k - 1) \div 8) + 1][((k - 1) % 8) + 1] = bits[k]
<1> DEFINE all == Flushed(bits)
           L == Len(bits)
           n == ((k - 1) \div 8) + 1
           j == ((k - 1) % 8) + 1
<1>1. L \in Nat /\ k \in Nat /\ 1 <= k /\ k <= L
  OBVIOUS
<1>2. [i \in 1 .. 7 |-> FALSE] \in Seq(BOOLEAN) /\ Len([i \in 1 .. 7 |-> FALSE]) = 7
  OBVIOUS
<1>3. all \in Seq(BOOLEAN) /\ Len(all) = L + 7 /\ all[k] = bits[k]
  BY <1>1, <1>2, ConcatProperties DEF Flushed
<1> HIDE DEF all, L
<1>4. n \in Nat /\ 1 <= n /\ j \in 1 .. 8 /\ 8 * n - 7 + (j - 1) = k
  BY <1>1
<1>5. n <= (L + 7) \div 8 /\ 8 * n <= L + 7
  BY <1>1, <1>4
<1>6. n \in 1 .. Len(all) \div 8
  BY <1>1, <1>3, <1>4, <1>5
<1>7. Map(all)[n] = SubSeq(all, (8 * n) - 7, 8 * n) /\ n \in DOMAIN Map(all)
  BY <1>6 DEF Map
<1>8. SubSeq(all, (8 * n) - 7, 8 * n)[j] = all[(8 * n) - 7 + j - 1]
  <2>1. (8 * n) - 7 \in 1 .. Len(all) + 1 /\ 8 * n \in 8 * n - 7 - 1 .. Len(all)
    BY <1>1, <1>3, <1>4, <1>5
  <2>2. j \in 1 .. ((8 * n) - ((8 * n) - 7) + 1)
    BY <1>4
  <2> QED
    BY <1>3, <2>1, <2>2, SubSeqProperties
<1>9. (8 * n) - 7 + j - 1 = k
  BY <1>1, <1>4
<1> QED
  BY <1>3, <1>7, <1>8, <1>9 DEF all

\* Two links of one length are compared byte by byte.
LEMMA ComparesAll ==
  ASSUME NEW n \in Nat, NEW template, NEW real, DOMAIN template = 1 .. n, DOMAIN real = 1 .. n
  PROVE  /\ Compared(template, real) \in Seq(BOOLEAN)
         /\ Len(Compared(template, real)) = n
         /\ \A k \in 1 .. n : Compared(template, real)[k] <=> template[k] # real[k]
<1> DEFINE bits == Compared(template, real)
           S == {k \in DOMAIN real : k \in DOMAIN template}
<1>1. S = 1 .. n
  OBVIOUS
<1>2. bits = [k \in S |-> template[k] # real[k]]
  BY DEF Compared
<1> HIDE DEF bits, S
<1>3. bits \in [S -> BOOLEAN] /\ \A k \in S : bits[k] <=> template[k] # real[k]
  BY <1>2, Zenon
<1>4. bits \in [1 .. n -> BOOLEAN]
  BY <1>1, <1>3
<1>5. bits \in Seq(BOOLEAN) /\ Len(bits) = n
  BY <1>4, SeqDef
<1>6. \A k \in 1 .. n : bits[k] <=> template[k] # real[k]
  BY <1>1, <1>3, Zenon
<1> QED
  BY <1>5, <1>6 DEF bits

\* One byte of an image, moved.
LEMMA MovesEveryByte ==
  ASSUME NEW program \in Seq(Cell), NEW page \in AnyPage, NEW prl, NEW bits \in Seq(BOOLEAN),
         NEW k \in 1 .. Len(program)
  PROVE  /\ Len(bits) = Len(program)
         /\ \A j \in 1 .. Len(program) : bits[j] <=> Linked(program, 0)[j] # Linked(program, 1)[j]
         /\ prl.image = Linked(program, 1)
         /\ prl.map = Map(Flushed(bits))
         => (IF Bit(prl, k) THEN Moved(prl.image[k], page) ELSE prl.image[k])
              = Linked(program, page)[k]
<1>1. /\ program[k].high => Moved(Linked(program, 1)[k], page) = Linked(program, page)[k]
      /\ ~program[k].high => Linked(program, 1)[k] = Linked(program, page)[k]
      /\ program[k].high <=> Linked(program, 0)[k] # Linked(program, 1)[k]
  BY LinkMoves
<1>2. Len(bits) = Len(program)
      => /\ ((k - 1) \div 8) + 1 \in DOMAIN Map(Flushed(bits))
         /\ Map(Flushed(bits))[((k - 1) \div 8) + 1][((k - 1) % 8) + 1] = bits[k]
  BY MapHasEveryBit
<1>3. Len(bits) = Len(program) /\ prl.map = Map(Flushed(bits)) => Bit(prl, k) = bits[k]
  BY <1>2 DEF Bit
<1>4. (program[k].high <=> bits[k])
      => (IF bits[k] THEN Moved(Linked(program, 1)[k], page) ELSE Linked(program, 1)[k])
           = Linked(program, page)[k]
  BY <1>1
<1> QED
  BY <1>1, <1>3, <1>4

\* Whatever the program, and however long: makeprl's two links and its bitmap are all a
\* loader needs to put the program where it likes.
THEOREM RelocationLinks ==
  ASSUME NEW program \in Seq(Cell), NEW page \in AnyPage
  PROVE  Len(program) < 65536
         => /\ PageReloc(Image(program), page) = Linked(program, page)
            /\ Image(program).length = Len(program)
<1> DEFINE L == Len(program)
           template == Linked(program, 0)
           link == Linked(program, 1)
           bits == Compared(template, link)
           prl == Image(program)
<1>1. L \in Nat /\ DOMAIN program = 1 .. L
  OBVIOUS
<1>2. DOMAIN template = 1 .. L /\ DOMAIN link = 1 .. L
  BY <1>1 DEF Linked
<1>3. Len(link) = L
  BY <1>1, <1>2
<1>4. /\ bits \in Seq(BOOLEAN)
      /\ Len(bits) = L
      /\ \A k \in 1 .. L : bits[k] <=> template[k] # link[k]
  <2> HIDE DEF template, link, L
  <2> QED
    BY <1>1, <1>2, ComparesAll
<1>5. L < 65536 => prl.length = L /\ prl.image = link /\ prl.map = Map(Flushed(bits))
  <2>1. prl = MakePrl(template, link)
    BY DEF Image
  <2> HIDE DEF prl, template, link, L
  <2>2. L < 65536 => Len(link) % 65536 = L
    BY <1>1, <1>3
  <2> QED
    BY <2>1, <2>2 DEF MakePrl
<1>6. L < 65536
      => \A k \in 1 .. L : (IF Bit(prl, k) THEN Moved(prl.image[k], page) ELSE prl.image[k])
                             = Linked(program, page)[k]
  <2>1. bits \in Seq(BOOLEAN)
    BY <1>4
  <2> HIDE DEF bits, prl
  <2>2. ASSUME NEW k \in 1 .. Len(program)
        PROVE  /\ Len(bits) = Len(program)
               /\ \A j \in 1 .. Len(program) :
                    bits[j] <=> Linked(program, 0)[j] # Linked(program, 1)[j]
               /\ prl.image = Linked(program, 1)
               /\ prl.map = Map(Flushed(bits))
               => (IF Bit(prl, k) THEN Moved(prl.image[k], page) ELSE prl.image[k])
                    = Linked(program, page)[k]
    BY <2>1, MovesEveryByte
  <2> QED
    BY <1>4, <1>5, <2>2
<1>7. Linked(program, page) = [k \in 1 .. L |-> Linked(program, page)[k]]
  BY <1>1 DEF Linked
<1> HIDE DEF prl, L, link, template, bits
<1>8. L < 65536 => PageReloc(prl, page) = [k \in 1 .. L |-> Linked(program, page)[k]]
  BY <1>5, <1>6 DEF PageReloc
<1> QED
  BY <1>5, <1>7, <1>8 DEF prl, L
-----------------------------------------------------------------------------
(* The chain of extensions. *)

\* The page of an extension, or of the system above all of them.
PageOf(k) == IF k = 0 THEN BDOSPage ELSE resident[k].page

\* An extension goes on to the one loaded before it, which leads back to it; it is its
\* program linked where it lies, and lies below the one before it.
Links(k) ==
  /\ next[PageOf(k)] = PageOf(k - 1)
  /\ previous[PageOf(k - 1)] = PageOf(k)
  /\ resident[k].image = Linked(Bodies[k], PageOf(k))
  /\ PageOf(k) * PageBytes + Len(resident[k].image) <= PageOf(k - 1) * PageBytes

\* That a new NEXT and PREVIOUS touch no other needs that no two pages are the same.
Chained ==
  /\ resident \in Seq([page : Page, image : Seq(Byte)])
  /\ Len(resident) <= Len(Bodies)
  /\ next \in [Page -> 0 .. BDOSPage] /\ previous \in [Page -> 0 .. BDOSPage]
  /\ first = PageOf(Len(resident))
  /\ previous[first] = Vector
  /\ \A k \in 1 .. Len(resident) : Links(k)
  /\ \A k \in 1 .. Len(resident) : \A j \in 0 .. k - 1 : PageOf(k) < PageOf(j)

LEMMA Rounds ==
  ASSUME NEW a \in Nat, NEW b \in Nat \ {0}
  PROVE  a \div b \in Nat /\ a < (a \div b + 1) * b
OBVIOUS

\* A page is left for every PageBytes of the length, and for what is over.
LEMMA LeavesRoom ==
  ASSUME NEW page \in Nat, NEW length \in Nat, NEW size \in Nat \ {0}, length > 0
  PROVE  LET free == page - 1 - (length - 1) \div size
         IN free \in Int /\ free < page /\ free * size + length <= page * size
<1> DEFINE q == (length - 1) \div size
           free == page - 1 - q
<1>1. q \in Nat /\ length - 1 < (q + 1) * size
  BY Rounds
<1> HIDE DEF q
<1>2. free \in Int /\ free < page
  BY <1>1
<1>3. free * size = page * size - (q + 1) * size
  BY <1>1
<1>4. page * size \in Int /\ (q + 1) * size \in Int
  BY <1>1
<1>5. page * size - (q + 1) * size + length <= page * size
  BY <1>1, <1>4
<1> QED
  BY <1>2, <1>3, <1>5 DEF q

\* A link has a byte for every byte.
LEMMA LinkedTyped ==
  ASSUME NEW program \in Seq(Cell), NEW page \in AnyPage
  PROVE  Linked(program, page) \in Seq(Byte) /\ Len(Linked(program, page)) = Len(program)
<1> DEFINE linked == Linked(program, page)
<1>1. DOMAIN linked = 1 .. Len(program) /\ Len(program) \in Nat
  BY DEF Linked
<1>2. ASSUME NEW k \in 1 .. Len(program) PROVE linked[k] \in Byte
  <2>1. program[k] \in Cell
    BY ElementOfSeq
  <2>2. linked[k] = IF program[k].high THEN (program[k].byte + page) % 256 ELSE program[k].byte
    BY DEF Linked
  <2>3. program[k].byte \in 0 .. 255
    BY <2>1 DEF Cell, Byte
  <2>4. page \in Nat
    BY DEF AnyPage
  <2>5. \A byte \in 0 .. 255 : (byte + page) % 256 \in 0 .. 255
    BY <2>4
  <2> QED
    BY <2>2, <2>3, <2>5 DEF Byte
<1>3. linked = [k \in 1 .. Len(program) |-> linked[k]]
  BY DEF Linked
<1> HIDE DEF linked
<1>4. linked \in [1 .. Len(program) -> Byte]
  BY <1>2, <1>3
<1>5. linked \in Seq(Byte) /\ Len(linked) = Len(program)
  BY <1>1, <1>4, SeqDef
<1> QED
  BY <1>5 DEF linked

\* All extensions lie at pages of memory.
LEMMA PagesTyped ==
  ASSUME Chained, NEW k \in 0 .. Len(resident)
  PROVE  PageOf(k) \in Page
<1>1. BDOSPage \in Page
  BY PageAssumption DEF Page
<1>2. CASE k = 0
  BY <1>1, <1>2 DEF PageOf
<1>3. CASE k # 0
  <2>1. k \in 1 .. Len(resident) /\ resident \in Seq([page : Page, image : Seq(Byte)])
    BY <1>3 DEF Chained
  <2>2. resident[k] \in [page : Page, image : Seq(Byte)]
    BY <2>1, ElementOfSeq
  <2> QED
    BY <1>3, <2>2 DEF PageOf
<1> QED
  BY <1>2, <1>3

LEMMA LoadLinks == ASSUME Fit, Chained, Load PROVE Chained'
<1>1. PICK n \in Nat : n = Len(resident)
  BY DEF Chained
<1> DEFINE program == Bodies[n + 1]
           page == LoadPage(Image(program).length)
           entry == [page |-> page, image |-> PageReloc(Image(program), page)]
<1>2. program \in Seq(Cell) /\ Len(program) > 0 /\ Len(program) < 65536 /\ Len(program) \in Nat
  <2>1. Bodies \in Seq(Seq(Cell)) /\ n + 1 \in 1 .. Len(Bodies)
    BY <1>1, BodiesAssumption DEF Load, Cell
  <2>2. n + 1 \in DOMAIN Bodies /\ program \in Seq(Cell)
    BY <2>1, ElementOfSeq
  <2> QED
    BY <2>2, BodiesAssumption DEF Fit
<1>3. /\ page >= MinPag
      /\ resident' = Append(resident, entry)
      /\ next' = [next EXCEPT ![page] = first]
      /\ previous' = PreviousFirst(page)
      /\ first' = page
      /\ n < Len(Bodies)
  BY <1>1 DEF Load
<1> HIDE DEF program, entry
<1>4. first \in Page /\ first = PageOf(n) /\ previous[first] = Vector
  BY <1>1, PagesTyped DEF Chained
<1>5. Image(program).length = Len(program)
  <2>1. 1 \in AnyPage
    BY DEF AnyPage
  <2> QED
    BY <1>2, <2>1, RelocationLinks
<1>6. page \in Int /\ page < first /\ page * PageBytes + Len(program) <= first * PageBytes
  <2>1. first \in Nat /\ PageBytes \in Nat \ {0}
    BY <1>4, PageAssumption DEF Page
  <2>2. PICK length \in Nat : length = Len(program) /\ length > 0
    BY <1>2
  <2>3. page = first - 1 - (length - 1) \div PageBytes
    BY <1>5, <2>2 DEF LoadPage
  <2> HIDE DEF page
  <2>4. page \in Int /\ page < first /\ page * PageBytes + length <= first * PageBytes
    BY <2>1, <2>2, <2>3, LeavesRoom
  <2> QED
    BY <2>2, <2>4
<1> HIDE DEF page
<1>7. page \in Page /\ page \in AnyPage
  BY <1>3, <1>4, <1>6, PageAssumption DEF MinPag, Page, AnyPage
<1>8. PageReloc(Image(program), page) = Linked(program, page)
  BY <1>2, <1>7, RelocationLinks
<1>9. /\ Linked(program, page) \in Seq(Byte) /\ Len(Linked(program, page)) = Len(program)
  BY <1>2, <1>7, LinkedTyped
<1>10. entry = [page |-> page, image |-> Linked(program, page)]
  BY <1>8 DEF entry
<1>11. /\ Len(resident') = n + 1
       /\ \A k \in 1 .. n : resident'[k] = resident[k]
       /\ resident'[n + 1] = entry
       /\ resident' \in Seq([page : Page, image : Seq(Byte)])
  <2>1. entry \in [page : Page, image : Seq(Byte)]
    BY <1>7, <1>9, <1>10
  <2>2. resident \in Seq([page : Page, image : Seq(Byte)])
    BY DEF Chained
  <2> QED
    BY <1>1, <1>3, <2>1, <2>2, AppendProperties
<1>12. PageOf(n + 1)' = page /\ \A k \in 0 .. n : PageOf(k)' = PageOf(k)
  BY <1>10, <1>11 DEF PageOf
<1>13. \A k \in 0 .. n : PageOf(k) \in Page /\ page < PageOf(k)
  <2> TAKE k \in 0 .. n
  <2>1. PageOf(k) \in Page
    BY <1>1, PagesTyped
  <2>2. k = n \/ PageOf(n) < PageOf(k)
    BY <1>1 DEF Chained
  <2> QED
    BY <1>4, <1>6, <1>7, <2>1, <2>2 DEF Page
<1>14. /\ next \in [Page -> 0 .. BDOSPage] /\ previous \in [Page -> 0 .. BDOSPage]
       /\ next' \in [Page -> 0 .. BDOSPage] /\ previous' \in [Page -> 0 .. BDOSPage]
       /\ next'[page] = first /\ previous'[first] = page /\ previous'[page] = Vector
       /\ \A other \in Page : other # page => next'[other] = next[other]
       /\ \A other \in Page : other # page /\ other # first => previous'[other] = previous[other]
  <2>1. /\ next \in [Page -> 0 .. BDOSPage] /\ previous \in [Page -> 0 .. BDOSPage]
    BY DEF Chained
  <2>2. page # first /\ first \in 0 .. BDOSPage /\ page \in 0 .. BDOSPage /\ Vector \in 0 .. BDOSPage
    BY <1>4, <1>6, <1>7, PageAssumption DEF Page, Vector
  <2>3. previous' = [previous EXCEPT ![page] = Vector, ![first] = page]
    BY <1>3 DEF PreviousFirst
  <2> QED
    BY <1>3, <1>4, <1>7, <2>1, <2>2, <2>3
<1>15. \A k \in 1 .. n : Links(k)'
  <2> TAKE k \in 1 .. n
  <2>1. Links(k) /\ k \in 0 .. n /\ k - 1 \in 0 .. n /\ k # 0 /\ k - 1 # n
    BY <1>1 DEF Chained
  <2>2. PageOf(k) # page /\ PageOf(k - 1) # page /\ PageOf(k - 1) # first
    <3>1. n \in 1 .. Len(resident) /\ \A j \in 0 .. n - 1 : PageOf(n) < PageOf(j)
      <4>1. n \in 1 .. Len(resident)
        BY <1>1
      <4>2. \A j \in 0 .. n - 1 : PageOf(n) < PageOf(j)
        BY <4>1, <1>1 DEF Chained
      <4> QED
        BY <4>1, <4>2
    <3>2. k - 1 \in 0 .. n - 1
      OBVIOUS
    <3>3. PageOf(n) < PageOf(k - 1)
      BY <3>1, <3>2
    <3> QED
      BY <1>4, <1>7, <1>13, <2>1, <3>3 DEF Page
  <2>3. PageOf(k)' = PageOf(k) /\ PageOf(k - 1)' = PageOf(k - 1) /\ resident'[k] = resident[k]
    BY <1>11, <1>12, <2>1
  <2>4. next'[PageOf(k)] = next[PageOf(k)] /\ previous'[PageOf(k - 1)] = previous[PageOf(k - 1)]
    BY <1>13, <1>14, <2>1, <2>2
  <2> QED
    BY <2>1, <2>3, <2>4 DEF Links
<1>16. Links(n + 1)'
  <2>1. PageOf(n + 1)' = page /\ PageOf(n)' = first /\ (n + 1) - 1 = n
    BY <1>4, <1>12
  <2>2. resident'[n + 1].image = Linked(Bodies[n + 1], page)
    BY <1>10, <1>11 DEF program
  <2>3. Len(resident'[n + 1].image) = Len(program)
    BY <1>9, <2>2 DEF program
  <2> QED
    BY <1>6, <1>14, <2>1, <2>2, <2>3 DEF Links
<1>17. \A k \in 1 .. n + 1 : \A j \in 0 .. k - 1 : PageOf(k)' < PageOf(j)'
  <2> TAKE k \in 1 .. n + 1
  <2> TAKE j \in 0 .. k - 1
  <2>1. j \in 0 .. n /\ PageOf(j)' = PageOf(j)
    BY <1>12
  <2>2. CASE k = n + 1
    BY <1>12, <1>13, <2>1, <2>2
  <2>3. CASE k \in 1 .. n
    <3>1. PageOf(k) < PageOf(j)
      BY <1>1, <2>3 DEF Chained
    <3> QED
      BY <1>12, <2>1, <2>3, <3>1
  <2> QED
    BY <2>2, <2>3
<1>18. \A k \in 1 .. n + 1 : Links(k)'
  <2> TAKE k \in 1 .. n + 1
  <2>1. k \in 1 .. n \/ k = n + 1
    OBVIOUS
  <2> QED
    BY <1>15, <1>16, <2>1
<1> QED
  BY <1>3, <1>11, <1>12, <1>14, <1>17, <1>18 DEF Chained
LEMMA OnlyLoadLinks == ASSUME [Next]_vars PROVE Load \/ UNCHANGED chain
<1>1. CASE Program
  BY <1>1 DEF Program, OtherCall, Call60_1, Call60_2
<1>2. CASE Stub
  BY <1>2 DEF Stub, bdos60_init, PrintMessage, restore_stack_and_ret
<1>3. CASE SystemReturns \/ Trap
  BY <1>3 DEF SystemReturns, Trap
<1>4. CASE ReadRegisters \/ Scan
  BY <1>4 DEF ReadRegisters, Scan, body, chain
<1>5. CASE SetBreakpoint \/ printS \/ Resume
  BY <1>5 DEF SetBreakpoint, printS, Resume
<1>6. CASE Interrupts \/ Handler \/ Service \/ UNCHANGED vars
  BY <1>6 DEF Interrupts, Handler, Service, vars, body, chain
<1> QED
  BY <1>1, <1>2, <1>3, <1>4, <1>5, <1>6 DEF Next, Host

\* NEXT and PREVIOUS link the extensions in the order of loading, each on a lower page
\* than all before it.
THEOREM ChainInvariance == ASSUME Fit PROVE Spec => []Chained
<1>1. Init => Chained
  <2> SUFFICES ASSUME Init PROVE Chained
    OBVIOUS
  <2>1. resident = <<>> /\ Len(resident) = 0 /\ first = BDOSPage
    BY DEF Init
  <2>2. /\ next \in [Page -> 0 .. BDOSPage] /\ previous \in [Page -> 0 .. BDOSPage]
        /\ BDOSPage \in Page /\ previous[BDOSPage] = Vector
    BY PageAssumption DEF Init, Page, Vector
  <2>3. Len(resident) <= Len(Bodies) /\ resident \in Seq([page : Page, image : Seq(Byte)])
    BY <2>1, BodiesAssumption
  <2>4. 1 .. Len(resident) = {}
    BY <2>1
  <2> QED
    BY <2>1, <2>2, <2>3, <2>4 DEF Chained, PageOf
<1>2. Chained /\ [Next]_vars => Chained'
  <2> SUFFICES ASSUME Chained, [Next]_vars PROVE Chained'
    OBVIOUS
  <2>1. CASE Load
    BY <2>1, LoadLinks
  <2>2. CASE UNCHANGED chain
    BY <2>2 DEF Chained, chain, PageOf, Links
  <2> QED
    BY <2>1, <2>2, OnlyLoadLinks
<1> QED
  BY <1>1, <1>2, PTL DEF Spec

\* Each extension is its program linked at the page it lies at, wherever that is.
THEOREM LiesWhereItRuns == ASSUME Fit PROVE Spec => []RunsWhereItLies
<1>1. Chained => RunsWhereItLies
  <2> SUFFICES ASSUME Chained, NEW k \in DOMAIN resident
               PROVE  resident[k].image = Linked(Bodies[k], resident[k].page)
    BY DEF RunsWhereItLies
  <2>1. k \in 1 .. Len(resident) /\ k # 0
    BY DEF Chained
  <2>2. Links(k) /\ PageOf(k) = resident[k].page
    BY <2>1 DEF Chained, PageOf
  <2> QED
    BY <2>2 DEF Links
<1> QED
  BY <1>1, ChainInvariance, PTL

\* NEXT and PREVIOUS lead through all extensions, none of which lies over another.
THEOREM ChainStaysSound == ASSUME Fit PROVE Spec => []ChainSound
<1>1. Chained => ChainSound
  BY DEF Chained, ChainSound, Links, PageOf
<1> QED
  BY <1>1, ChainInvariance, PTL
-----------------------------------------------------------------------------
(* The banks.  At a stop no interrupt comes, so nothing but the g command itself *)
(* executes until it has looked at all three slots.                              *)

Unmarked ==
  /\ slot \in [Slot -> Pages]
  /\ marker = [page \in Pages |-> page]
  /\ DOMAIN reported = Slot
  /\ scan \in 0 .. 3
  /\ scan # 3 => at = "gdb"
  /\ at = "gdb" => isr = "none"

\* What holds of one slot before the g command looks at it.
LEMMA SlotMarked ==
  ASSUME Unmarked, scan < 3
  PROVE  /\ slot[scan] \in Pages
         /\ Marked[slot[scan]] = Fingerprint
         /\ \A page \in Pages : page # slot[scan] => Marked[page] # Fingerprint
         /\ [Marked EXCEPT ![slot[scan]] = marker[slot[scan]]] = marker
         /\ [slot EXCEPT ![scan] = slot[scan]] = slot
<1> DEFINE page == slot[scan]
<1>1. scan \in Slot /\ slot \in [Slot -> Pages]
  BY DEF Unmarked, Slot
<1>2. page \in Pages /\ \A other \in Pages : other # Fingerprint
  BY <1>1, PagesAssumption DEF Fingerprint
<1>3. marker = [other \in Pages |-> other] /\ Marked = [marker EXCEPT ![page] = Fingerprint]
  BY DEF Unmarked, Marked
<1>4. [slot EXCEPT ![scan] = page] = slot
  BY <1>1
<1> HIDE DEF page
<1>5. Marked[page] = Fingerprint /\ \A other \in Pages : other # page => Marked[other] # Fingerprint
  BY <1>2, <1>3
<1>6. [Marked EXCEPT ![page] = marker[page]] = marker
  BY <1>2, <1>3
<1> QED
  BY <1>2, <1>4, <1>5, <1>6 DEF page

\* Every page the loop tries is one of the pages, and page 0 is among them.
LEMMA Tries == Tried \subseteq Pages /\ 0 \in Tried /\ \A page \in Tried : page \in Nat
<1>1. SystemBank[0] = 0
  BY DEF SystemBank, Slot, System
<1>2. 0 \in Pages
  BY <1>1, PagesAssumption DEF Slot
<1> QED
  BY <1>2 DEF Tried

\* A machine that maps what it is told shows the mark where it was put, and nowhere
\* else.
LEMMA MarkShowsOnce ==
  ASSUME ~NeedsBit7, Pages \subseteq 0 .. 127, Unmarked, scan < 3
  PROVE  Matches # {} /\ FirstMatch = slot[scan] /\ setPage(FirstMatch) = slot[scan]
<1>1. PICK page : page = slot[scan]
  OBVIOUS
<1>2. page \in Tried /\ page \in Nat /\ Tried = Pages
  BY <1>1, SlotMarked, PagesAssumption DEF Tried
<1>3. \A other \in Tried : setPage(other) = other
  BY DEF setPage
<1>4. Matches = {page}
  BY <1>1, <1>2, <1>3, SlotMarked DEF Matches
<1>5. FirstMatch = page
  <2>1. \E match \in Matches : \A other \in Matches : match <= other
    BY <1>2, <1>4
  <2>2. FirstMatch \in Matches
    BY <2>1, Zenon DEF FirstMatch
  <2> QED
    BY <1>4, <2>2
<1> QED
  BY <1>1, <1>2, <1>3, <1>4, <1>5

\* A machine that needs bit 7 shows it whatever page it is told, from page 0 on.
LEMMA MarkShowsAtOnce ==
  ASSUME NeedsBit7, Unmarked, scan < 3
  PROVE  Matches # {} /\ FirstMatch = 0 /\ setPage(FirstMatch) = slot[scan]
<1>1. \A page : setPage(page) = slot[scan]
  BY DEF setPage
<1>2. Matches = Tried
  BY <1>1, SlotMarked DEF Matches
<1>3. FirstMatch = 0
  <2>1. \A other \in Matches : 0 <= other
    BY <1>2, Tries
  <2>2. 0 \in Matches
    BY <1>2, Tries
  <2>3. FirstMatch \in Matches /\ \A other \in Matches : FirstMatch <= other
    BY <2>1, <2>2, Zenon DEF FirstMatch
  <2>4. FirstMatch \in Nat /\ FirstMatch <= 0
    BY <1>2, <2>2, <2>3, Tries
  <2> QED
    BY <2>4
<1> QED
  BY <1>1, <1>2, <1>3, Tries

\* So a look at a slot changes neither memory nor mapping on either machine; what it
\* tells of the slot differs.
LEMMA ScanFinds ==
  ASSUME Mappable, Unmarked, ScanSlot
  PROVE  /\ slot' = slot /\ marker' = marker
         /\ reported' = [reported EXCEPT ![scan] = IF NeedsBit7 THEN 0 ELSE slot[scan]]
         /\ scan < 3 /\ scan' = scan + 1 /\ isr' = isr
<1>1. scan < 3
  BY DEF ScanSlot
<1>2. /\ Matches # {} /\ setPage(FirstMatch) = slot[scan]
      /\ FirstMatch = IF NeedsBit7 THEN 0 ELSE slot[scan]
  BY <1>1, MarkShowsOnce, MarkShowsAtOnce DEF Mappable
<1>3. /\ reported' = [reported EXCEPT ![scan] = FirstMatch]
      /\ marker' = [Marked EXCEPT ![slot[scan]] = marker[slot[scan]]]
      /\ slot' = [slot EXCEPT ![scan] = slot[scan]]
      /\ scan' = scan + 1 /\ isr' = isr
  BY <1>2 DEF ScanSlot, Restored
<1> QED
  BY <1>1, <1>2, <1>3, SlotMarked

LEMMA UnmarkedStep == ASSUME Mappable, Unmarked, [Next]_vars PROVE Unmarked'
<1>1. /\ slot \in [Slot -> Pages]
      /\ marker = [page \in Pages |-> page]
      /\ DOMAIN reported = Slot
      /\ scan \in 0 .. 3
      /\ scan # 3 => at = "gdb"
      /\ at = "gdb" => isr = "none"
  BY DEF Unmarked
<1>2. ProgramBank \in [Slot -> Pages] /\ SystemBank \in [Slot -> Pages] /\ TPA \in Pages
  <2>1. SystemBank = [s \in Slot |-> SystemBank[s]]
    BY DEF SystemBank
  <2>2. 0 \in Slot
    BY DEF Slot
  <2> QED
    BY <2>1, <2>2, PagesAssumption
<1>3. CASE UNCHANGED banks /\ (at' = "gdb" => isr = "none") /\ (at = "gdb" => scan = 3)
  BY <1>1, <1>3 DEF Unmarked, banks
<1>4. CASE /\ slot' \in {ProgramBank, SystemBank}
           /\ UNCHANGED <<marker, reported, scan, isr>>
           /\ at = "gdb" => scan = 3
           /\ isr = "none"
  BY <1>1, <1>2, <1>4 DEF Unmarked
<1>5. CASE Load \/ Call60_1 \/ Call60_2
  BY <1>3, <1>5 DEF Load, Call60_1, Call60_2, Intercepted, Executes
<1>6. CASE OtherCall \/ PrintMessage \/ printS
  BY <1>4, <1>6, <1>1 DEF OtherCall, PrintMessage, printS, Executes
<1>7. CASE SystemReturns
  BY <1>4, <1>7 DEF SystemReturns, Executes
<1>8. CASE bdos60_init
  <2>1. slot' \in [Slot -> Pages]
    BY <1>1, <1>2, <1>8 DEF bdos60_init, _rst8_install
  <2> QED
    BY <1>1, <1>8, <2>1 DEF bdos60_init, _rst8_install, Executes, Unmarked
<1>9. CASE restore_stack_and_ret
  <2>1. at = "ret" /\ isr = "none" /\ UNCHANGED banks
    BY <1>9 DEF restore_stack_and_ret, Executes
  <2> QED
    BY <1>3, <2>1
<1>10. CASE Trap \/ SetBreakpoint \/ Resume
  BY <1>1, <1>3, <1>10 DEF Trap, SetBreakpoint, Resume, Running, InBDOS
<1>11. CASE ReadRegisters
  BY <1>1, <1>11 DEF ReadRegisters, memory, body, Unmarked
<1>12. CASE Scan
  <2>1. at = "gdb" /\ UNCHANGED body /\ ScanSlot
    BY <1>12 DEF Scan
  <2>2. /\ slot' = slot /\ marker' = marker
        /\ reported' = [reported EXCEPT ![scan] = IF NeedsBit7 THEN 0 ELSE slot[scan]]
        /\ scan < 3 /\ scan' = scan + 1 /\ isr' = isr
    BY <2>1, ScanFinds
  <2>3. scan' \in 0 .. 3 /\ DOMAIN reported' = Slot
    BY <1>1, <2>2
  <2> QED
    BY <1>1, <2>1, <2>2, <2>3 DEF body, Unmarked
<1>13. CASE Interrupts
  BY <1>1, <1>13 DEF Interrupts, Interrupt, Running, InBDOS, memory, body, Unmarked
<1>14. CASE Handler
  BY <1>1, <1>14 DEF Handler, im1_entry, memory, body, Unmarked
<1>15. CASE Service
  BY <1>1, <1>15 DEF Service, isr_epilogue, memory, body, Unmarked
<1>16. CASE UNCHANGED vars
  BY <1>1, <1>16 DEF vars, banks, body, Unmarked
<1> QED
  BY <1>5, <1>6, <1>7, <1>8, <1>9, <1>10, <1>11, <1>12, <1>13, <1>14, <1>15, <1>16
     DEF Next, Program, Stub, Host

\* Between the steps of updateMappedPages every page holds its own marker, and only the
\* g command takes such steps.
THEOREM BanksInvariance == ASSUME Mappable PROVE Spec => []Unmarked
<1>1. Init => Unmarked
  BY PagesAssumption DEF Init, BanksInit, Unmarked
<1> QED
  BY <1>1, UnmarkedStep, PTL DEF Spec

\* Finding out which pages are mapped leaves memory as it was, on a machine that maps
\* every page the g command has to map back and on one that needs bit 7.
THEOREM MarksGone == ASSUME Mappable PROVE Spec => []MemoryKept
<1>1. Unmarked => MemoryKept
  BY DEF Unmarked, MemoryKept
<1> QED
  BY <1>1, BanksInvariance, PTL

\* What the g command tells on a machine that needs bit 7: page 0, for every slot.
ReportsPageZero == [][scan # 3 => slot' = slot /\ reported'[scan] = 0]_banks

\* On a machine that needs bit 7 a look at a slot leaves it mapped, and tells page 0
\* whatever page that is.
THEOREM PageZeroReported == ASSUME NeedsBit7 PROVE Spec => ReportsPageZero
<1>1. Mappable
  BY DEF Mappable
<1>2. Unmarked /\ [Next]_vars => [scan # 3 => slot' = slot /\ reported'[scan] = 0]_banks
  <2> SUFFICES ASSUME Unmarked, Next, scan # 3 PROVE slot' = slot /\ reported'[scan] = 0
    BY DEF vars
  <2>1. at = "gdb" /\ isr = "none" /\ scan \in 0 .. 3 /\ DOMAIN reported = Slot
    BY DEF Unmarked
  <2>2. ScanSlot
    BY <2>1 DEF Next, Program, Stub, Host, Load, OtherCall, Call60_1, Call60_2, Intercepted, Executes,
                bdos60_init, PrintMessage, restore_stack_and_ret, SystemReturns, Trap, Running,
                InBDOS, ReadRegisters, Scan, SetBreakpoint, printS, Resume, Interrupts, Handler,
                im1_entry, Service, isr_epilogue, Handlers
  <2>3. slot' = slot /\ reported' = [reported EXCEPT ![scan] = 0]
    BY <1>1, <2>2, ScanFinds
  <2>4. scan \in DOMAIN reported
    BY <2>1 DEF Slot
  <2> QED
    BY <2>3, <2>4
<1> QED
  BY <1>1, <1>2, BanksInvariance, PTL DEF Spec, ReportsPageZero
-----------------------------------------------------------------------------
(* Who executes, on which stack and in which bank. *)

Stopped   == {"gdb", "complaining"}
Executing == IF at \in Stopped THEN resumes ELSE at
InSystem  == at = "complaining" \/ Executing \in InBDOS
Serving   == {"bdos60_init", "message", "printing", "ret"}

Places ==
  /\ at \in Running \union Stopped \union Serving
  /\ at \in Stopped => resumes \in Running \union {"0100h"}
  /\ at = "complaining" => resumes \notin InBDOS
  /\ Executing \in {"program", "bdos"} => sp = [on |-> "program", depth |-> 0]
  /\ Executing \in Serving => ret_stack = [on |-> "program", depth |-> 1]
  /\ slot = IF InSystem THEN SystemBank ELSE ProgramBank
  /\ breakpoint \in 0 .. None
  /\ at = "gdb" /\ breakpoint \in Slot => ~InSystem
  /\ BreakpointInPlace

\* The system serves a call in a bank of its own.
LEMMA BanksDiffer == ProgramBank # SystemBank
<1>1. ProgramBank[0] = 4 /\ SystemBank[0] = 0
  BY PagesAssumption DEF SystemBank, Slot, System, TPA
<1> QED
  BY <1>1

\* A page of the program is another in each slot, and none is the common one.
LEMMA PlantedOnce ==
  ASSUME NEW s \in 0 .. None, s \in Slot => slot = ProgramBank
  PROVE  Mapped(s) = IF s \in Slot THEN ProgramBank[s] ELSE Common
BY DEF Mapped

\* On the way into the GDB loop the RST 08 goes from the page it is in, the program's,
\* and the breakpoint stays.
LEMMA UnplantFinds ==
  ASSUME Places, Unplant, at \notin Stopped, breakpoint \in Slot => slot = ProgramBank
  PROVE  rst' = {} /\ breakpoint' = breakpoint
<1>1. breakpoint \in 0 .. None
  BY DEF Places
<1>2. CASE breakpoint = None
  BY <1>2 DEF Unplant, planted, Places, BreakpointInPlace
<1>3. CASE breakpoint # None
  <2>1. rst = {IF breakpoint \in Slot THEN ProgramBank[breakpoint] ELSE Common}
    BY <1>3 DEF Places, BreakpointInPlace, Stopped
  <2>2. rst = {Mapped(breakpoint)}
    BY <1>1, <2>1, PlantedOnce
  <2> QED
    BY <1>3, <2>2 DEF Unplant, PutBack
<1> QED
  BY <1>2, <1>3

\* What a state says of the places that a step between them may change.
LEMMA Standing ==
  ASSUME Places
  PROVE  /\ at \in Running \union Stopped \union Serving
         /\ at \in Stopped => resumes \in Running \union {"0100h"}
         /\ at = "complaining" => resumes \notin InBDOS
         /\ Executing \in {"program", "bdos"} => sp = [on |-> "program", depth |-> 0]
         /\ Executing \in Serving => ret_stack = [on |-> "program", depth |-> 1]
         /\ slot = IF InSystem THEN SystemBank ELSE ProgramBank
         /\ breakpoint \in 0 .. None
         /\ at = "gdb" /\ breakpoint \in Slot => ~InSystem
         /\ BreakpointInPlace
BY DEF Places

LEMMA CallStep == ASSUME Regular, Places, OtherCall \/ Call60_1 \/ Call60_2 PROVE Places'
<1>1. at = "program" /\ isr = "none"
  BY DEF OtherCall, Call60_1, Call60_2, Intercepted, Executes
<1>2. /\ sp = [on |-> "program", depth |-> 0] /\ slot = ProgramBank
      /\ breakpoint \in 0 .. None /\ BreakpointInPlace
  BY <1>1 DEF Places, Executing, InSystem, Stopped, InBDOS
<1>3. CASE OtherCall
  BY <1>1, <1>2, <1>3 DEF OtherCall, Places, Executing, InSystem, Stopped, Serving, Running, InBDOS,
       BreakpointInPlace, planted, stacks
<1>4. CASE Call60_1
  <2>1. /\ at' = "bdos60_init" /\ UNCHANGED <<slot, breakpoint, rst, resumes>>
        /\ ret_stack' = [sp EXCEPT !.depth = @ + 1]
    BY <1>4 DEF Call60_1, Intercepted, SPAtTheCall, AfterCall, banks, planted
  <2>2. ret_stack' = [on |-> "program", depth |-> 1]
    BY <1>2, <2>1
  <2> QED
    BY <1>1, <1>2, <2>1, <2>2 DEF Places, Executing, InSystem, Stopped, Serving, Running, InBDOS,
         BreakpointInPlace
<1>5. CASE Call60_2
  <2>1. at' = "gdb" /\ resumes' = "0100h" /\ Unplant /\ UNCHANGED slot
    BY <1>5 DEF Call60_2, Regular, banks
  <2>2. rst' = {} /\ breakpoint' = breakpoint
    BY <1>1, <1>2, <2>1, UnplantFinds DEF Stopped
  <2> QED
    BY <1>1, <1>2, <2>1, <2>2 DEF Places, Executing, InSystem, Stopped, Serving, Running, InBDOS,
         BreakpointInPlace
<1> QED
  BY <1>3, <1>4, <1>5

LEMMA ServiceStep ==
  ASSUME Regular, Places, bdos60_init \/ PrintMessage \/ restore_stack_and_ret PROVE Places'
<1>1. /\ at \in {"bdos60_init", "message", "ret"}
      /\ ret_stack = [on |-> "program", depth |-> 1] /\ slot = ProgramBank
      /\ breakpoint \in 0 .. None /\ BreakpointInPlace
  BY DEF bdos60_init, PrintMessage, restore_stack_and_ret, Executes, Places, Executing, InSystem,
         Stopped, Serving, InBDOS
<1>2. CASE bdos60_init
  <2>1. at = "bdos60_init" /\ at' = "message" /\ UNCHANGED <<breakpoint, rst, resumes, ret_stack>>
    BY <1>2 DEF bdos60_init, Executes, planted
  <2>2. slot' = slot
    <3>1. slot \in [Slot -> Pages] /\ 0 \in Slot /\ slot[0] = TPA
      BY <1>1, PagesAssumption DEF Slot
    <3>2. slot' = [slot EXCEPT ![0] = slot[0]]
      BY <1>2, <3>1 DEF bdos60_init, _rst8_install
    <3> QED
      BY <3>1, <3>2
  <2> QED
    BY <1>1, <2>1, <2>2 DEF Places, Executing, InSystem, Stopped, Serving, Running, InBDOS,
         BreakpointInPlace
<1>3. CASE PrintMessage
  BY <1>1, <1>3 DEF PrintMessage, Executes, Places, Executing, InSystem, Stopped, Serving, Running,
       InBDOS, BreakpointInPlace, planted, stacks
<1>4. CASE restore_stack_and_ret
  <2>1. /\ at = "ret" /\ UNCHANGED <<slot, breakpoint, rst, resumes>>
        /\ at' = "program"
        /\ sp' = [ret_stack EXCEPT !.depth = IF @ = 0 THEN 0 ELSE @ - 1]
    BY <1>1, <1>4 DEF restore_stack_and_ret, Executes, banks, planted
  <2>2. sp' = [on |-> "program", depth |-> 0]
    BY <1>1, <2>1
  <2> QED
    BY <1>1, <2>1, <2>2 DEF Places, Executing, InSystem, Stopped, Serving, Running, InBDOS,
         BreakpointInPlace
<1> QED
  BY <1>2, <1>3, <1>4

LEMMA ReturnStep == ASSUME Regular, Places, SystemReturns PROVE Places'
<1>1. slot' = ProgramBank /\ UNCHANGED <<breakpoint, rst, resumes, sp, ret_stack>>
  BY DEF SystemReturns, planted, stacks
<1>2. breakpoint \in 0 .. None /\ BreakpointInPlace
  BY DEF Places
<1>3. CASE at = "bdos" /\ at' = "program"
  <2>1. sp = [on |-> "program", depth |-> 0]
    BY <1>3 DEF Places, Executing, Stopped
  <2> QED
    BY <1>1, <1>2, <1>3, <2>1 DEF Places, Executing, InSystem, Stopped, Serving, Running, InBDOS,
         BreakpointInPlace
<1>4. CASE at = "printing" /\ at' = "ret"
  <2>1. ret_stack = [on |-> "program", depth |-> 1]
    BY <1>4 DEF Places, Executing, Stopped, Serving
  <2> QED
    BY <1>1, <1>2, <1>4, <2>1 DEF Places, Executing, InSystem, Stopped, Serving, Running, InBDOS,
         BreakpointInPlace
<1>5. CASE at = "complaining" /\ at' = IF resumes \in InBDOS THEN "lost" ELSE "gdb"
  <2>1. at' = "gdb" /\ resumes \notin InBDOS /\ resumes \in Running \union {"0100h"}
    BY <1>5 DEF Places, Stopped
  <2>2. Executing = resumes /\ Executing' = resumes
    BY <1>1, <1>5, <2>1 DEF Executing, Stopped
  <2>3. /\ resumes \in {"program", "bdos"} => sp = [on |-> "program", depth |-> 0]
        /\ resumes \in Serving => ret_stack = [on |-> "program", depth |-> 1]
    BY <2>2 DEF Places
  <2>4. BreakpointInPlace'
    BY <1>1, <1>2, <1>5, <2>1 DEF BreakpointInPlace
  <2> QED
    BY <1>1, <1>2, <2>1, <2>2, <2>3, <2>4 DEF Places, InSystem, Stopped
<1> QED
  BY <1>3, <1>4, <1>5 DEF SystemReturns, Executes

LEMMA StopStep == ASSUME Regular, Places, Trap PROVE Places'
<1>1. /\ at \in Running /\ at' = "gdb" /\ resumes' = at /\ Unplant
      /\ breakpoint \in Slot => slot = ProgramBank
      /\ UNCHANGED <<slot, sp, ret_stack>>
  BY DEF Trap, Foreseen, Regular, banks, stacks
<1>2. at \notin Stopped
  BY <1>1 DEF Running, InBDOS, Stopped
<1>3. rst' = {} /\ breakpoint' = breakpoint
  BY <1>1, <1>2, UnplantFinds
<1>4. Executing = at /\ Executing' = at /\ (InSystem <=> at \in InBDOS) /\ (InSystem' <=> at \in InBDOS)
  BY <1>1, <1>2 DEF Executing, InSystem, Stopped
<1>5. /\ at \in {"program", "bdos"} => sp = [on |-> "program", depth |-> 0]
      /\ at \in Serving => ret_stack = [on |-> "program", depth |-> 1]
      /\ slot = IF at \in InBDOS THEN SystemBank ELSE ProgramBank
      /\ breakpoint \in 0 .. None
  BY <1>4 DEF Places
<1>6. breakpoint \in Slot => at \notin InBDOS
  <2> QED
    BY <1>1, <1>5, BanksDiffer
<1>7. BreakpointInPlace'
  BY <1>1, <1>3 DEF BreakpointInPlace
<1> QED
  BY <1>1, <1>3, <1>4, <1>5, <1>6, <1>7 DEF Places, Stopped

LEMMA HostStep ==
  ASSUME Regular, Unmarked, Places, SetBreakpoint \/ ReadRegisters \/ Scan \/ printS PROVE Places'
<1>1. /\ at = "gdb"
      /\ UNCHANGED <<rst, resumes, sp, ret_stack>>
      /\ at' \in Stopped
  BY DEF SetBreakpoint, ReadRegisters, Scan, printS, body, stacks, planted, Stopped
<1>2. Executing = resumes /\ Executing' = resumes
  BY <1>1 DEF Executing, Stopped
<1>3. /\ resumes \in Running \union {"0100h"}
      /\ resumes \in {"program", "bdos"} => sp = [on |-> "program", depth |-> 0]
      /\ resumes \in Serving => ret_stack = [on |-> "program", depth |-> 1]
      /\ slot = IF resumes \in InBDOS THEN SystemBank ELSE ProgramBank
      /\ breakpoint \in 0 .. None
      /\ breakpoint \in Slot => resumes \notin InBDOS
      /\ rst = {}
  BY <1>1, <1>2 DEF Places, InSystem, Stopped, BreakpointInPlace
<1>4. BreakpointInPlace'
  BY <1>1, <1>3 DEF BreakpointInPlace, Stopped
<1>5. CASE SetBreakpoint
  <2>1. PICK s \in 0 .. None : Foreseen(s) /\ breakpoint' = s
    BY <1>5 DEF SetBreakpoint
  <2>2. at' = at /\ slot' = slot
    BY <1>5 DEF SetBreakpoint, banks
  <2>4. s \in Slot => resumes \notin InBDOS
    BY <1>3, <2>1, BanksDiffer DEF Foreseen, Regular
  <2> QED
    BY <1>1, <1>2, <1>3, <1>4, <2>1, <2>2, <2>4 DEF Places, InSystem, Stopped
<1>6. CASE ReadRegisters \/ Scan
  <2>1. at' = at /\ breakpoint' = breakpoint
    BY <1>6 DEF ReadRegisters, Scan, body
  <2>2. slot' = slot
    BY <1>6, ScanFinds DEF ReadRegisters, Scan, memory, Regular
  <2> QED
    BY <1>1, <1>2, <1>3, <1>4, <2>1, <2>2 DEF Places, InSystem, Stopped
<1>7. CASE printS
  <2>1. at' = "complaining" /\ slot' = SystemBank /\ breakpoint' = breakpoint
    BY <1>7 DEF printS, planted
  <2>2. resumes \notin InBDOS
    BY <1>7 DEF printS, Regular
  <2> QED
    BY <1>1, <1>2, <1>3, <1>4, <2>1, <2>2 DEF Places, InSystem, Stopped
<1> QED
  BY <1>5, <1>6, <1>7

LEMMA ResumeStep == ASSUME Regular, Places, Resume PROVE Places'
<1>1. /\ at = "gdb" /\ Plant /\ UNCHANGED <<slot, resumes, ret_stack>>
      /\ IF resumes = "0100h"
           THEN at' = "program" /\ sp' = [on |-> "program", depth |-> 0]
           ELSE at' = resumes /\ UNCHANGED sp
  BY DEF Resume, Regular, banks
<1>2. Executing = resumes
  BY <1>1 DEF Executing, Stopped
<1>3. /\ resumes \in Running \union {"0100h"}
      /\ resumes \in {"program", "bdos"} => sp = [on |-> "program", depth |-> 0]
      /\ slot = IF resumes \in InBDOS THEN SystemBank ELSE ProgramBank
      /\ breakpoint \in 0 .. None
      /\ breakpoint \in Slot => resumes \notin InBDOS
      /\ resumes \in Serving => ret_stack = [on |-> "program", depth |-> 1]
      /\ rst = {}
  BY <1>1, <1>2 DEF Places, InSystem, Stopped, BreakpointInPlace
<1>4. /\ at' \in Running
      /\ at' \in {"program", "bdos"} => sp' = [on |-> "program", depth |-> 0]
      /\ at' \in Serving => ret_stack = [on |-> "program", depth |-> 1]
      /\ slot' = IF at' \in InBDOS THEN SystemBank ELSE ProgramBank
  BY <1>1, <1>3 DEF Running, InBDOS, Serving
<1>5. breakpoint' = breakpoint /\ BreakpointInPlace'
  <2>1. breakpoint' = breakpoint /\ at' \notin Stopped
    BY <1>1, <1>4 DEF Plant, Running, InBDOS, Stopped
  <2>2. breakpoint # None => rst' = {Mapped(breakpoint)}
    BY <1>1, <1>3 DEF Plant
  <2>3. breakpoint \in Slot => slot = ProgramBank
    BY <1>3
  <2>4. Mapped(breakpoint) = IF breakpoint \in Slot THEN ProgramBank[breakpoint] ELSE Common
    BY <1>3, <2>3, PlantedOnce
  <2>5. breakpoint = None => rst' = {}
    BY <1>1, <1>3 DEF Plant
  <2> QED
    BY <2>1, <2>2, <2>4, <2>5 DEF BreakpointInPlace, Stopped
<1>6. at' \notin Stopped /\ Executing' = at' /\ (InSystem' <=> at' \in InBDOS)
  BY <1>4 DEF Running, InBDOS, Stopped, Executing, InSystem
<1> QED
  BY <1>1, <1>3, <1>4, <1>5, <1>6 DEF Places, Stopped

\* The stack, the mapping and the breakpoint's RST 08 are those that belong to what
\* executes, whether it runs or is stopped.
THEOREM PlacesInvariance == ASSUME Regular PROVE Spec => []Places
<1>1. Init => Places
  BY DEF Init, BanksInit, Places, Executing, InSystem, Stopped, Serving, Running, InBDOS, None,
         BreakpointInPlace
<1>2. Unmarked /\ Places /\ [Next]_vars => Places'
  <2> SUFFICES ASSUME Unmarked, Places, [Next]_vars PROVE Places'
    OBVIOUS
  <2>1. CASE UNCHANGED <<at, resumes, sp, ret_stack, slot, breakpoint, rst>>
    BY <2>1 DEF Places, Executing, InSystem, BreakpointInPlace
  <2>2. CASE Load
    BY <2>1, <2>2 DEF Load, banks, planted, stacks
  <2>3. CASE OtherCall \/ Call60_1 \/ Call60_2
    BY <2>3, CallStep
  <2>4. CASE Stub
    BY <2>4, ServiceStep DEF Stub
  <2>5. CASE SystemReturns
    BY <2>5, ReturnStep
  <2>6. CASE Trap
    BY <2>6, StopStep
  <2>7. CASE Host
    BY <2>7, HostStep, ResumeStep DEF Host
  <2>8. CASE Interrupts \/ Handler \/ Service
    BY <2>1, <2>8 DEF Interrupts, Interrupt, Handler, im1_entry, Service, isr_epilogue, memory, body
  <2>9. CASE UNCHANGED vars
    BY <2>1, <2>9 DEF vars, banks, body
  <2> QED
    BY <2>2, <2>3, <2>4, <2>5, <2>6, <2>7, <2>8, <2>9 DEF Next, Program
<1>3. Mappable
  BY DEF Regular
<1>4. Spec => []Unmarked
  BY <1>3, BanksInvariance
<1> QED
  BY <1>1, <1>2, <1>4, PTL DEF Spec

\* A call of the stub, however many come and whatever stops between them, goes back to
\* the program that made it.
THEOREM CallsReturn == ASSUME Regular PROVE Spec => []ReturnsToCaller
<1>1. Places => ReturnsToCaller
  BY DEF Places, ReturnsToCaller, Running, InBDOS, Stopped, Serving
<1> QED
  BY <1>1, PlacesInvariance, PTL

\* The RST 08 of a breakpoint is in the program's page while the program runs, and
\* nowhere while it does not.
THEOREM BreakpointStaysInPlace == ASSUME Regular PROVE Spec => []BreakpointInPlace
<1>1. Places => BreakpointInPlace
  BY DEF Places
<1> QED
  BY <1>1, PlacesInvariance, PTL
=============================================================================
