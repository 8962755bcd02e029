-------------------------- MODULE Z80DecodeProofs --------------------------
(***************************************************************************)
(* Proofs about the step decoder: with any registers and any operands, the *)
(* step of a documented instruction is planted where the instruction goes. *)
(* The masks of the tables are read as the bit fields x, y and z by which  *)
(* the instruction set is defined; then there is one step per row.         *)
(***************************************************************************)
EXTENDS Z80Decode, WellFoundedInduction, TLAPS

-----------------------------------------------------------------------------
(* Bytes, masks and flags. *)

LEMMA Fields ==
  ASSUME NEW b \in Byte
  PROVE  /\ x(b) \in 0 .. 3 /\ y(b) \in 0 .. 7 /\ z(b) \in 0 .. 7
         /\ b = 64 * x(b) + 8 * y(b) + z(b)
BY DEF Byte, x, y, z

\* What is left of a byte under each mask of the tables.
LEMMA Masks ==
  ASSUME NEW b \in Byte
  PROVE  /\ And(b, \hFF) = b
         /\ And(b, \hC7) = 64 * x(b) + z(b)
         /\ And(b, \hCF) = 64 * x(b) + 8 * (y(b) % 2) + z(b)
         /\ And(b, \hE7) = 64 * x(b) + 32 * (y(b) \div 4) + z(b)
         /\ And(b, \hC0) = 64 * x(b)
<1>1. And(b, \hFF) = b
  BY DEF Byte, And, Bit
<1>2. And(b, \hC7) = 64 * x(b) + z(b)
  BY DEF Byte, And, Bit, x, z
<1>3. And(b, \hCF) = 64 * x(b) + 8 * (y(b) % 2) + z(b)
  BY DEF Byte, And, Bit, x, y, z
<1>4. And(b, \hE7) = 64 * x(b) + 32 * (y(b) \div 4) + z(b)
  BY DEF Byte, And, Bit, x, y, z
<1>5. And(b, \hC0) = 64 * x(b)
  BY DEF Byte, And, Bit, x
<1> QED
  BY <1>1, <1>2, <1>3, <1>4, <1>5

\* The same of the masks that only the tables behind a prefix have.
LEMMA PrefixMasks ==
  ASSUME NEW b \in Byte
  PROVE  /\ And(b, \h00) = 0
         /\ And(b, \hC6) = 64 * x(b) + 2 * (z(b) \div 2)
         /\ And(b, \hF0) = 64 * x(b) + 16 * (y(b) \div 2)
         /\ And(b, \hF6) = 64 * x(b) + 16 * (y(b) \div 2) + 2 * (z(b) \div 2)
         /\ And(b, \hF7) = 64 * x(b) + 16 * (y(b) \div 2) + z(b)
         /\ And(b, \hF8) = 64 * x(b) + 8 * y(b)
         /\ And(b, \hE4) = 64 * x(b) + 32 * (y(b) \div 4) + 4 * (z(b) \div 4)
<1>1. And(b, \h00) = 0
  BY DEF Byte, And, Bit
<1>2. And(b, \hC6) = 64 * x(b) + 2 * (z(b) \div 2)
  BY DEF Byte, And, Bit, x, z
<1>3. And(b, \hF0) = 64 * x(b) + 16 * (y(b) \div 2)
  BY DEF Byte, And, Bit, x, y
<1>4. And(b, \hF6) = 64 * x(b) + 16 * (y(b) \div 2) + 2 * (z(b) \div 2)
  BY DEF Byte, And, Bit, x, y, z
<1>5. And(b, \hF7) = 64 * x(b) + 16 * (y(b) \div 2) + z(b)
  BY DEF Byte, And, Bit, x, y, z
<1>6. And(b, \hF8) = 64 * x(b) + 8 * y(b)
  BY DEF Byte, And, Bit, x, y
<1>7. And(b, \hE4) = 64 * x(b) + 32 * (y(b) \div 4) + 4 * (z(b) \div 4)
  BY DEF Byte, And, Bit, x, y, z
<1> QED
  BY <1>1, <1>2, <1>3, <1>4, <1>5, <1>6, <1>7

\* The condition code is what the mask leaves out.
LEMMA ConditionCode ==
  ASSUME NEW b \in Byte, NEW row
  PROVE  /\ row.mask = \hC7 => condition(b, row) = y(b)
         /\ row.mask = \hE7 => condition(b, row) = y(b) % 4
<1>1. And(b, 56) = 8 * y(b)
  BY DEF Byte, And, Bit, y
<1>2. And(b, 24) = 8 * (y(b) % 4)
  BY DEF Byte, And, Bit, y
<1>3. 255 - \hC7 = 56 /\ 255 - \hE7 = 24
  OBVIOUS
<1>4. y(b) \in 0 .. 7
  BY Fields
<1>5. (8 * y(b)) \div 8 = y(b) /\ y(b) % 8 = y(b)
  BY <1>4
<1>6. (8 * (y(b) % 4)) \div 8 = y(b) % 4 /\ (y(b) % 4) % 8 = y(b) % 4
  BY <1>4
<1> QED
  BY <1>1, <1>2, <1>3, <1>5, <1>6 DEF condition

\* cc_holds tests the flag of the condition.
LEMMA ConditionHolds ==
  ASSUME NEW cc \in 0 .. 7, NEW F \in Byte
  PROVE  cc_holds(cc, F) <=> Condition(cc, F)
<1>1. /\ And(F, \h40) = 64 * Bit(64, F) /\ Bit(64, F) \in 0 .. 1
      /\ And(F, \h01) = Bit(1, F) /\ Bit(1, F) \in 0 .. 1
      /\ And(F, \h04) = 4 * Bit(4, F) /\ Bit(4, F) \in 0 .. 1
      /\ And(F, \h80) = 128 * Bit(128, F) /\ Bit(128, F) \in 0 .. 1
  BY DEF Byte, And, Bit
<1>2. Flags[1] = 64 /\ Flags[2] = 1 /\ Flags[3] = 4 /\ Flags[4] = 128
  BY DEF Flags
<1>3. CASE cc = 0
  BY <1>1, <1>2, <1>3 DEF cc_holds, Condition
<1>4. CASE cc = 1
  BY <1>1, <1>2, <1>4 DEF cc_holds, Condition
<1>5. CASE cc = 2
  BY <1>1, <1>2, <1>5 DEF cc_holds, Condition
<1>6. CASE cc = 3
  BY <1>1, <1>2, <1>6 DEF cc_holds, Condition
<1>7. CASE cc = 4
  BY <1>1, <1>2, <1>7 DEF cc_holds, Condition
<1>8. CASE cc = 5
  BY <1>1, <1>2, <1>8 DEF cc_holds, Condition
<1>9. CASE cc = 6
  BY <1>1, <1>2, <1>9 DEF cc_holds, Condition
<1>10. CASE cc = 7
  BY <1>1, <1>2, <1>10 DEF cc_holds, Condition
<1> QED
  BY <1>3, <1>4, <1>5, <1>6, <1>7, <1>8, <1>9, <1>10

\* A set of naturals has a least one.
LEMMA LeastNatural ==
  ASSUME NEW T, T \subseteq Nat, T # {}
  PROVE  \E m \in T : \A n \in T : m <= n
<1> DEFINE R == OpToRel(<, Nat)
<1>1. IsWellFoundedOn(R, Nat)
  BY NatLessThanWellFounded
<1>2. \A a \in T, b \in T : b < a => <<b, a>> \in R
  BY DEF OpToRel
<1> HIDE DEF R
<1>3. \E a \in T : \A b \in T : ~(<<b, a>> \in R)
  BY <1>1, WFMin
<1>4. PICK a \in T : \A b \in T : ~(<<b, a>> \in R)
  BY <1>3
<1>5. \A b \in T : ~(b < a)
  BY <1>2, <1>4
<1>6. \A b \in T : a <= b
  BY <1>5
<1> QED
  BY <1>6

-----------------------------------------------------------------------------
(* The tables. *)

\* The first row that matches is found if one does.
LEMMA FirstMatch ==
  ASSUME NEW table, NEW b \in Byte, Len(table) \in Nat, \E k \in 1 .. Len(table) : Matches(table[k], b)
  PROVE  /\ Lookup(table)[b] \in 1 .. Len(table)
         /\ Matches(table[Lookup(table)[b]], b)
         /\ \A j \in 1 .. Lookup(table)[b] - 1 : ~Matches(table[j], b)
<1> DEFINE T == {k \in 1 .. Len(table) : Matches(table[k], b)}
           First(k) == Matches(table[k], b) /\ \A j \in 1 .. k - 1 : ~Matches(table[j], b)
<1>1. T \subseteq Nat /\ T # {}
  OBVIOUS
<1>2. PICK m \in T : \A n \in T : m <= n
  BY <1>1, LeastNatural
<1>3. m \in 1 .. Len(table) /\ First(m)
  BY <1>2
<1>4. Lookup(table)[b] = CHOOSE k \in 1 .. Len(table) : First(k)
  BY DEF Lookup
<1> HIDE DEF First
<1>5. Lookup(table)[b] \in 1 .. Len(table) /\ First(Lookup(table)[b])
  BY <1>3, <1>4
<1> QED
  BY <1>5 DEF First

\* The opcodes that may not go on behind themselves.
Jumps(op) ==
  \/ op \in {\h10, \h18, \h20, \h28, \h30, \h38, \hC3, \hC9, \hCD, \hE9}
  \/ x(op) = 3 /\ z(op) \in {0, 2, 4, 7}

\* What a row of opc_main says of an opcode it matches: what kind of instruction it
\* is, how long, and where its condition code is.
Says(row, op) ==
  \/ row.fp = "dummy" /\ ~Jumps(op) /\ op \notin {CB, DD, ED, FD} /\ row.inst_len = Length1(op)
  \/ row.fp = "prefix_cb" /\ op = CB /\ row.inst_len = 2
  \/ row.fp = "prefix_ed" /\ op = ED
  \/ row.fp = "prefix_ind" /\ op \in {DD, FD}
  \/ row.fp = "djnz" /\ op = \h10 /\ row.inst_len = 2
  \/ row.fp = "jr" /\ op = \h18
  \/ row.fp = "jr_cc" /\ op \in {\h20, \h28, \h30, \h38} /\ row.mask = \hE7
  \/ row.fp = "jp_nn" /\ op \in {\hC3, \hCD}
  \/ row.fp = "jp_cc_nn" /\ x(op) = 3 /\ z(op) \in {2, 4} /\ row.mask = \hC7 /\ row.inst_len = 3
  \/ row.fp = "jp_hl" /\ op = \hE9
  \/ row.fp = "ret" /\ op = \hC9
  \/ row.fp = "ret_cc" /\ x(op) = 3 /\ z(op) = 0 /\ row.mask = \hC7 /\ row.inst_len = 1
  \/ row.fp = "rst" /\ x(op) = 3 /\ z(op) = 7 /\ row.mask = \hC7

\* Every row but the last, which matches everything, says what the opcode is.
LEMMA RowSays ==
  ASSUME NEW op \in Byte, NEW k \in 1 .. 54, Matches(opc_main[k], op)
  PROVE  Says(opc_main[k], op)
<1> USE Fields, Masks DEF Matches, opc_main, Row, Dummy, Says, Jumps, Length1, CB, DD, ED, FD
<1>1. CASE k = 1 BY <1>1
<1>2. CASE k = 2 BY <1>2
<1>3. CASE k = 3 BY <1>3
<1>4. CASE k = 4 BY <1>4
<1>5. CASE k = 5 BY <1>5
<1>6. CASE k = 6 BY <1>6
<1>7. CASE k = 7 BY <1>7
<1>8. CASE k = 8 BY <1>8
<1>9. CASE k = 9 BY <1>9
<1>10. CASE k = 10 BY <1>10
<1>11. CASE k = 11 BY <1>11
<1>12. CASE k = 12 BY <1>12
<1>13. CASE k = 13 BY <1>13
<1>14. CASE k = 14 BY <1>14
<1>15. CASE k = 15 BY <1>15
<1>16. CASE k = 16 BY <1>16
<1>17. CASE k = 17 BY <1>17
<1>18. CASE k = 18 BY <1>18
<1>19. CASE k = 19 BY <1>19
<1>20. CASE k = 20 BY <1>20
<1>21. CASE k = 21 BY <1>21
<1>22. CASE k = 22 BY <1>22
<1>23. CASE k = 23 BY <1>23
<1>24. CASE k = 24 BY <1>24
<1>25. CASE k = 25 BY <1>25
<1>26. CASE k = 26 BY <1>26
<1>27. CASE k = 27 BY <1>27
<1>28. CASE k = 28 BY <1>28
<1>29. CASE k = 29 BY <1>29
<1>30. CASE k = 30 BY <1>30
<1>31. CASE k = 31 BY <1>31
<1>32. CASE k = 32 BY <1>32
<1>33. CASE k = 33 BY <1>33
<1>34. CASE k = 34 BY <1>34
<1>35. CASE k = 35 BY <1>35
<1>36. CASE k = 36 BY <1>36
<1>37. CASE k = 37 BY <1>37
<1>38. CASE k = 38 BY <1>38
<1>39. CASE k = 39 BY <1>39
<1>40. CASE k = 40 BY <1>40
<1>41. CASE k = 41 BY <1>41
<1>42. CASE k = 42 BY <1>42
<1>43. CASE k = 43 BY <1>43
<1>44. CASE k = 44 BY <1>44
<1>45. CASE k = 45 BY <1>45
<1>46. CASE k = 46 BY <1>46
<1>47. CASE k = 47 BY <1>47
<1>48. CASE k = 48 BY <1>48
<1>49. CASE k = 49 BY <1>49
<1>50. CASE k = 50 BY <1>50
<1>51. CASE k = 51 BY <1>51
<1>52. CASE k = 52 BY <1>52
<1>53. CASE k = 53 BY <1>53
<1>54. CASE k = 54 BY <1>54
<1> HIDE DEF Matches, opc_main, Says
<1> QED
  BY <1>1, <1>2, <1>3, <1>4, <1>5, <1>6, <1>7, <1>8, <1>9, <1>10, <1>11, <1>12, <1>13, <1>14, <1>15, <1>16, <1>17, <1>18, <1>19, <1>20, <1>21, <1>22, <1>23, <1>24, <1>25, <1>26, <1>27, <1>28, <1>29, <1>30, <1>31, <1>32, <1>33, <1>34, <1>35, <1>36, <1>37, <1>38, <1>39, <1>40, <1>41, <1>42, <1>43, <1>44, <1>45, <1>46, <1>47, <1>48, <1>49, <1>50, <1>51, <1>52, <1>53, <1>54

\* The last row is never reached.
LEMMA RowFound ==
  ASSUME NEW op \in Byte
  PROVE  \E k \in 1 .. 54 : Matches(opc_main[k], op)
<1> DEFINE Hit(k) == Matches(opc_main[k], op)
<1> SUFFICES \E k \in 1 .. 54 : Hit(k)
  OBVIOUS
<1> USE Fields, Masks DEF Matches, opc_main, Row, Dummy
<1> HIDE DEF Hit
<1>1. CASE x(op) = 1
  <2>1. Hit(30) BY <1>1 DEF Hit
  <2> QED BY <2>1
<1>2. CASE x(op) = 2
  <2>1. Hit(31) BY <1>2 DEF Hit
  <2> QED BY <2>1
<1>3. CASE x(op) = 0
  <2>0. CASE z(op) = 0
    <3>1. y(op) = 0 => Hit(1) BY <1>3, <2>0 DEF Hit
    <3>2. y(op) = 1 => Hit(9) BY <1>3, <2>0 DEF Hit
    <3>3. y(op) = 2 => Hit(14) BY <1>3, <2>0 DEF Hit
    <3>4. y(op) = 3 => Hit(17) BY <1>3, <2>0 DEF Hit
    <3>5. y(op) >= 4 => Hit(20) BY <1>3, <2>0 DEF Hit
    <3> QED BY <3>1, <3>2, <3>3, <3>4, <3>5
  <2>1. CASE z(op) = 1
    <3>1. y(op) % 2 = 0 => Hit(2) BY <1>3, <2>1 DEF Hit
    <3>2. y(op) % 2 = 1 => Hit(10) BY <1>3, <2>1 DEF Hit
    <3> QED BY <3>1, <3>2
  <2>2. CASE z(op) = 2
    <3>1. y(op) = 0 => Hit(3) BY <1>3, <2>2 DEF Hit
    <3>2. y(op) = 1 => Hit(11) BY <1>3, <2>2 DEF Hit
    <3>3. y(op) = 2 => Hit(15) BY <1>3, <2>2 DEF Hit
    <3>4. y(op) = 3 => Hit(18) BY <1>3, <2>2 DEF Hit
    <3>5. y(op) = 4 => Hit(21) BY <1>3, <2>2 DEF Hit
    <3>6. y(op) = 5 => Hit(23) BY <1>3, <2>2 DEF Hit
    <3>7. y(op) = 6 => Hit(25) BY <1>3, <2>2 DEF Hit
    <3>8. y(op) = 7 => Hit(27) BY <1>3, <2>2 DEF Hit
    <3> QED BY <3>1, <3>2, <3>3, <3>4, <3>5, <3>6, <3>7, <3>8
  <2>3. CASE z(op) = 3
    <3>1. y(op) % 2 = 0 => Hit(4) BY <1>3, <2>3 DEF Hit
    <3>2. y(op) % 2 = 1 => Hit(12) BY <1>3, <2>3 DEF Hit
    <3> QED BY <3>1, <3>2
  <2>4. CASE z(op) = 4
    <3>1. Hit(5) BY <1>3, <2>4 DEF Hit
    <3> QED BY <3>1
  <2>5. CASE z(op) = 5
    <3>1. Hit(6) BY <1>3, <2>5 DEF Hit
    <3> QED BY <3>1
  <2>6. CASE z(op) = 6
    <3>1. Hit(7) BY <1>3, <2>6 DEF Hit
    <3> QED BY <3>1
  <2>7. CASE z(op) = 7
    <3>1. y(op) = 0 => Hit(8) BY <1>3, <2>7 DEF Hit
    <3>2. y(op) = 1 => Hit(13) BY <1>3, <2>7 DEF Hit
    <3>3. y(op) = 2 => Hit(16) BY <1>3, <2>7 DEF Hit
    <3>4. y(op) = 3 => Hit(19) BY <1>3, <2>7 DEF Hit
    <3>5. y(op) = 4 => Hit(22) BY <1>3, <2>7 DEF Hit
    <3>6. y(op) = 5 => Hit(24) BY <1>3, <2>7 DEF Hit
    <3>7. y(op) = 6 => Hit(26) BY <1>3, <2>7 DEF Hit
    <3>8. y(op) = 7 => Hit(28) BY <1>3, <2>7 DEF Hit
    <3> QED BY <3>1, <3>2, <3>3, <3>4, <3>5, <3>6, <3>7, <3>8
  <2> QED
    BY <2>0, <2>1, <2>2, <2>3, <2>4, <2>5, <2>6, <2>7
<1>4. CASE x(op) = 3
  <2>0. CASE z(op) = 0
    <3>1. Hit(32) BY <1>4, <2>0 DEF Hit
    <3> QED BY <3>1
  <2>1. CASE z(op) = 1
    <3>1. y(op) % 2 = 0 => Hit(33) BY <1>4, <2>1 DEF Hit
    <3>2. y(op) = 1 => Hit(40) BY <1>4, <2>1 DEF Hit
    <3>3. y(op) = 3 => Hit(44) BY <1>4, <2>1 DEF Hit
    <3>4. y(op) = 5 => Hit(48) BY <1>4, <2>1 DEF Hit
    <3>5. y(op) = 7 => Hit(52) BY <1>4, <2>1 DEF Hit
    <3> QED BY <3>1, <3>2, <3>3, <3>4, <3>5
  <2>2. CASE z(op) = 2
    <3>1. Hit(34) BY <1>4, <2>2 DEF Hit
    <3> QED BY <3>1
  <2>3. CASE z(op) = 3
    <3>1. y(op) = 0 => Hit(35) BY <1>4, <2>3 DEF Hit
    <3>2. y(op) = 1 => Hit(41) BY <1>4, <2>3 DEF Hit
    <3>3. y(op) = 2 => Hit(43) BY <1>4, <2>3 DEF Hit
    <3>4. y(op) = 3 => Hit(45) BY <1>4, <2>3 DEF Hit
    <3>5. y(op) = 4 => Hit(47) BY <1>4, <2>3 DEF Hit
    <3>6. y(op) = 5 => Hit(49) BY <1>4, <2>3 DEF Hit
    <3>7. y(op) = 6 => Hit(51) BY <1>4, <2>3 DEF Hit
    <3>8. y(op) = 7 => Hit(53) BY <1>4, <2>3 DEF Hit
    <3> QED BY <3>1, <3>2, <3>3, <3>4, <3>5, <3>6, <3>7, <3>8
  <2>4. CASE z(op) = 4
    <3>1. Hit(36) BY <1>4, <2>4 DEF Hit
    <3> QED BY <3>1
  <2>5. CASE z(op) = 5
    <3>1. y(op) % 2 = 0 => Hit(37) BY <1>4, <2>5 DEF Hit
    <3>2. y(op) = 1 => Hit(42) BY <1>4, <2>5 DEF Hit
    <3>3. y(op) = 3 => Hit(46) BY <1>4, <2>5 DEF Hit
    <3>4. y(op) = 5 => Hit(50) BY <1>4, <2>5 DEF Hit
    <3>5. y(op) = 7 => Hit(54) BY <1>4, <2>5 DEF Hit
    <3> QED BY <3>1, <3>2, <3>3, <3>4, <3>5
  <2>6. CASE z(op) = 6
    <3>1. Hit(38) BY <1>4, <2>6 DEF Hit
    <3> QED BY <3>1
  <2>7. CASE z(op) = 7
    <3>1. Hit(39) BY <1>4, <2>7 DEF Hit
    <3> QED BY <3>1
  <2> QED
    BY <2>0, <2>1, <2>2, <2>3, <2>4, <2>5, <2>6, <2>7
<1> QED
  BY <1>1, <1>2, <1>3, <1>4

\* Behind ED: RETN and RETI, and else how long the instruction is.
LEMMA ExtRow ==
  ASSUME NEW op \in Byte, NEW k \in 1 .. 27, Matches(opc_ed[k], op),
         \A j \in 1 .. k - 1 : ~Matches(opc_ed[j], op)
  PROVE  \/ opc_ed[k].fp = "ret" /\ op \in {\h45, \h4D}
         \/ opc_ed[k].fp = "dummy" /\ op \notin {\h45, \h4D} /\ opc_ed[k].inst_len = LengthED(op)
<1>28. k = 27 => /\ ~Matches(opc_ed[8], op) /\ ~Matches(opc_ed[14], op)
                 /\ ~Matches(opc_ed[10], op) /\ ~Matches(opc_ed[15], op)
  OBVIOUS
<1> USE Fields, Masks, PrefixMasks DEF Matches, opc_ed, Row, Dummy, LengthED
<1>1. CASE k = 1 BY <1>1
<1>2. CASE k = 2 BY <1>2
<1>3. CASE k = 3 BY <1>3
<1>4. CASE k = 4 BY <1>4
<1>5. CASE k = 5 BY <1>5
<1>6. CASE k = 6 BY <1>6
<1>7. CASE k = 7 BY <1>7
<1>8. CASE k = 8 BY <1>8
<1>9. CASE k = 9 BY <1>9
<1>10. CASE k = 10 BY <1>10
<1>11. CASE k = 11 BY <1>11
<1>12. CASE k = 12 BY <1>12
<1>13. CASE k = 13 BY <1>13
<1>14. CASE k = 14 BY <1>14
<1>15. CASE k = 15 BY <1>15
<1>16. CASE k = 16 BY <1>16
<1>17. CASE k = 17 BY <1>17
<1>18. CASE k = 18 BY <1>18
<1>19. CASE k = 19 BY <1>19
<1>20. CASE k = 20 BY <1>20
<1>21. CASE k = 21 BY <1>21
<1>22. CASE k = 22 BY <1>22
<1>23. CASE k = 23 BY <1>23
<1>24. CASE k = 24 BY <1>24
<1>25. CASE k = 25 BY <1>25
<1>26. CASE k = 26 BY <1>26
<1>27. CASE k = 27 BY <1>27, <1>28
<1> HIDE DEF Matches, opc_ed
<1> QED
  BY <1>1, <1>2, <1>3, <1>4, <1>5, <1>6, <1>7, <1>8, <1>9, <1>10, <1>11, <1>12, <1>13, <1>14, <1>15, <1>16, <1>17, <1>18, <1>19, <1>20, <1>21, <1>22, <1>23, <1>24, <1>25, <1>26, <1>27

\* What may be behind DD and FD: an instruction that uses HL or (HL), or CB.
IndexedOpcode(op) == UsesHL(op) \/ AtHL(op) \/ op = CB
IndexedLength(op) == IF op = CB THEN 3 ELSE Length1(op) + (IF AtHL(op) THEN 1 ELSE 0)

LEMMA IndexedRow ==
  ASSUME NEW op \in Byte, IndexedOpcode(op), NEW k \in 1 .. 28, Matches(opc_ind[k], op),
         \A j \in 1 .. k - 1 : ~Matches(opc_ind[j], op)
  PROVE  opc_ind[k].inst_len = IndexedLength(op)
<1>29. k = 18 => ~Matches(opc_ind[15], op)
  OBVIOUS
<1>30. k = 28 => \A j \in 1 .. 27 : ~Matches(opc_ind[j], op)
  OBVIOUS
<1> USE Fields, Masks, PrefixMasks DEF Matches, opc_ind, Row, Dummy, IndexedOpcode, IndexedLength, Length1, UsesHL, AtHL, CB
<1>1. CASE k = 1 BY <1>1
<1>2. CASE k = 2 BY <1>2
<1>3. CASE k = 3 BY <1>3
<1>4. CASE k = 4 BY <1>4
<1>5. CASE k = 5 BY <1>5
<1>6. CASE k = 6 BY <1>6
<1>7. CASE k = 7 BY <1>7
<1>8. CASE k = 8 BY <1>8
<1>9. CASE k = 9 BY <1>9
<1>10. CASE k = 10 BY <1>10
<1>11. CASE k = 11 BY <1>11
<1>12. CASE k = 12 BY <1>12
<1>13. CASE k = 13 BY <1>13
<1>14. CASE k = 14 BY <1>14
<1>15. CASE k = 15 BY <1>15
<1>16. CASE k = 16 BY <1>16
<1>17. CASE k = 17
  <2>1. x(op) = 1 /\ y(op) \in {4, 5} /\ z(op) \in {4, 5} BY <1>17
  <2> QED BY <2>1, <1>17
<1>18. CASE k = 18 BY <1>18, <1>29
<1>19. CASE k = 19 BY <1>19
<1>20. CASE k = 20 BY <1>20
<1>21. CASE k = 21 BY <1>21
<1>22. CASE k = 22 BY <1>22
<1>23. CASE k = 23 BY <1>23
<1>24. CASE k = 24 BY <1>24
<1>25. CASE k = 25 BY <1>25
<1>26. CASE k = 26 BY <1>26
<1>27. CASE k = 27 BY <1>27
<1>28. CASE k = 28 BY <1>28, <1>30
<1> HIDE DEF Matches, opc_ind
<1> QED
  BY <1>1, <1>2, <1>3, <1>4, <1>5, <1>6, <1>7, <1>8, <1>9, <1>10, <1>11, <1>12, <1>13, <1>14, <1>15, <1>16, <1>17, <1>18, <1>19, <1>20, <1>21, <1>22, <1>23, <1>24, <1>25, <1>26, <1>27, <1>28

\* So the rows that are looked up are these.
LEMMA MainFound ==
  ASSUME NEW op \in Byte
  PROVE  Main[op] \in 1 .. 54 /\ Matches(opc_main[Main[op]], op)
<1>1. Len(opc_main) = 55
  BY DEF opc_main
<1>2. \E k \in 1 .. 54 : Matches(opc_main[k], op)
  BY RowFound
<1>3. Len(opc_main) \in Nat /\ \E k \in 1 .. Len(opc_main) : Matches(opc_main[k], op)
  BY <1>1, <1>2
<1>4. /\ Main[op] \in 1 .. Len(opc_main) /\ Matches(opc_main[Main[op]], op)
      /\ \A j \in 1 .. Main[op] - 1 : ~Matches(opc_main[j], op)
  BY <1>3, FirstMatch DEF Main
<1> QED
  BY <1>1, <1>2, <1>4

LEMMA ExtFound ==
  ASSUME NEW op \in Byte
  PROVE  /\ Ext[op] \in 1 .. 27 /\ Matches(opc_ed[Ext[op]], op)
         /\ \A j \in 1 .. Ext[op] - 1 : ~Matches(opc_ed[j], op)
<1>1. Len(opc_ed) = 27
  BY DEF opc_ed
<1>2. Matches(opc_ed[27], op)
  BY PrefixMasks DEF opc_ed, Dummy, Row, Matches
<1>3. Len(opc_ed) \in Nat /\ \E k \in 1 .. Len(opc_ed) : Matches(opc_ed[k], op)
  BY <1>1, <1>2
<1>4. /\ Ext[op] \in 1 .. Len(opc_ed) /\ Matches(opc_ed[Ext[op]], op)
      /\ \A j \in 1 .. Ext[op] - 1 : ~Matches(opc_ed[j], op)
  BY <1>3, FirstMatch DEF Ext
<1> QED
  BY <1>1, <1>4

LEMMA IndexedFound ==
  ASSUME NEW op \in Byte
  PROVE  /\ Indexed[op] \in 1 .. 28 /\ Matches(opc_ind[Indexed[op]], op)
         /\ \A j \in 1 .. Indexed[op] - 1 : ~Matches(opc_ind[j], op)
<1>1. Len(opc_ind) = 28
  BY DEF opc_ind
<1>2. Matches(opc_ind[28], op)
  BY PrefixMasks DEF opc_ind, Dummy, Row, Matches
<1>3. Len(opc_ind) \in Nat /\ \E k \in 1 .. Len(opc_ind) : Matches(opc_ind[k], op)
  BY <1>1, <1>2
<1>4. /\ Indexed[op] \in 1 .. Len(opc_ind) /\ Matches(opc_ind[Indexed[op]], op)
      /\ \A j \in 1 .. Indexed[op] - 1 : ~Matches(opc_ind[j], op)
  BY <1>3, FirstMatch DEF Indexed
<1> QED
  BY <1>1, <1>4

-----------------------------------------------------------------------------
(* The theorems. *)

\* How far a relative jump goes.
Offset == -128 .. 127

\* Adding twice wraps around as adding once, 256 too much is 256 too far, and a jump
\* backwards does not come to the next instruction.
LEMMA Wraps ==
  ASSUME NEW pc \in Word, NEW d \in Offset
  PROVE  /\ (((pc + 2) % 65536) + d) % 65536 = (pc + (d + 2)) % 65536
         /\ (((((pc + 2) % 65536) + d) % 65536) + 256) % 65536 = (pc + ((d + 256) + 2)) % 65536
         /\ d < 0 => (((pc + 2) % 65536) + d) % 65536 # (pc + 2) % 65536
<1>1. pc \in Int /\ 0 <= pc /\ pc < 65536 /\ d \in Int /\ -128 <= d /\ d < 128
  BY DEF Word, Offset
<1>2. (((pc + 2) % 65536) + d) % 65536 = (pc + (d + 2)) % 65536
  BY <1>1
<1>3. (((pc + (d + 2)) % 65536) + 256) % 65536 = (pc + ((d + 256) + 2)) % 65536
  <2>1. PICK n \in Int : n = pc + (d + 2)
    BY <1>1
  <2>2. -128 <= n /\ n < 65792 - 100 /\ pc + ((d + 256) + 2) = n + 256
    BY <1>1, <2>1
  <2>3. ((n % 65536) + 256) % 65536 = (n + 256) % 65536
    <3>1. CASE n < 0
      BY <2>2, <3>1
    <3>2. CASE 0 <= n /\ n < 65536
      BY <2>2, <3>2
    <3>3. CASE 65536 <= n
      BY <2>2, <3>3
    <3> QED
      BY <2>2, <3>1, <3>2, <3>3
  <2> QED
    BY <2>1, <2>2, <2>3
<1>4. d < 0 => (pc + (d + 2)) % 65536 # (pc + 2) % 65536
  <2>1. CASE pc + 2 < 65536
    BY <1>1, <2>1
  <2>2. CASE pc + 2 >= 65536
    BY <1>1, <2>2
  <2> QED
    BY <1>1, <2>1, <2>2
<1> QED
  BY <1>2, <1>3, <1>4

\* Where calculateStep takes an instruction to go that is not JP (IX) or JP (IY).
Missing(s) == IF ReadWithoutSign(s) THEN (Target(s) + 256) % 65536 ELSE Target(s)

LEMMA StoppedTypes ==
  ASSUME NEW s \in Stopped
  PROVE  /\ s.pc \in Word /\ s.B \in Byte /\ s.F \in Byte
         /\ s.HL \in Word /\ s.index \in Word /\ s.TOS \in Word
         /\ s.code[1] \in Byte /\ s.code[2] \in Byte /\ s.code[3] \in Byte
BY DEF Stopped

\* Without a sign a char is 256 more than the displacement, if that is negative.
LEMMA CharOf ==
  ASSUME NEW byte \in Byte
  PROVE  /\ Char(byte) = IF ~CharIsSigned /\ byte >= 128 THEN Displacement(byte) + 256
                                                       ELSE Displacement(byte)
         /\ byte >= 128 => Displacement(byte) < 0
<1>1. byte \in Int /\ 0 <= byte /\ byte < 256
  BY DEF Byte
<1>2. Displacement(byte) = IF byte < 128 THEN byte ELSE byte - 256
  BY <1>1 DEF Displacement
<1>3. byte < 128 \/ byte >= 128
  BY <1>1
<1>4. Char(byte) = IF CharIsSigned THEN Displacement(byte) ELSE byte
  BY DEF Char
<1>5. CASE byte < 128
  BY <1>1, <1>2, <1>4, <1>5
<1>6. CASE byte >= 128
  <2>1. Displacement(byte) = byte - 256 /\ byte - 256 + 256 = byte /\ byte - 256 < 0
    BY <1>1, <1>2, <1>6
  <2>2. Char(byte) = IF ~CharIsSigned THEN Displacement(byte) + 256 ELSE Displacement(byte)
    BY <1>4, <2>1
  <2> QED
    BY <1>6, <2>1, <2>2
<1> QED
  BY <1>3, <1>5, <1>6

\* The function of a row leads where the instruction goes, without a prefix ...
LEMMA EvaluateIsTarget ==
  ASSUME NEW s \in Stopped, s.code[1] \notin {DD, ED, FD}, NEW row, Says(row, s.code[1])
  PROVE  Evaluate(row, s) = Missing(s) /\ row.fp \notin {"prefix_ed", "prefix_ind"}
<1> DEFINE op    == s.code[1]
           after == pe_dummy(row, s)
           holds == taken(row, s)
           next  == (s.pc + Length(s.code)) % 65536
           near  == (next + Displacement(s.code[2])) % 65536
<1>1. /\ op \in Byte /\ s.F \in Byte
      /\ x(op) \in 0 .. 3 /\ y(op) \in 0 .. 7 /\ z(op) \in 0 .. 7
      /\ op = 64 * x(op) + 8 * y(op) + z(op)
  BY StoppedTypes, Fields
<1>2. Length(s.code) = IF op = CB THEN 2 ELSE Length1(op)
  BY DEF Length, CB, DD, ED, FD
<1>3. Length1(op) = row.inst_len /\ op # CB => after = next
  BY <1>2 DEF pe_dummy, Pointer
<1>4. Length1(op) = 2 /\ op # CB =>
        /\ pe_jr(s) = IF ~CharIsSigned /\ s.code[2] >= 128 THEN (near + 256) % 65536 ELSE near
        /\ next = Pointer(s.pc, 2)
        /\ s.code[2] >= 128 => near # next
  <2>1. Displacement(s.code[2]) \in Offset
    BY StoppedTypes DEF Displacement, Byte, Offset
  <2>2. s.pc \in Word
    BY StoppedTypes
  <2>3. Length1(op) = 2 /\ op # CB => next = (s.pc + 2) % 65536
    BY <1>2
  <2> HIDE DEF next
  <2>4. PICK d \in Offset : d = Displacement(s.code[2])
    BY <2>1
  <2>5. PICK pc \in Word : pc = s.pc
    BY <2>2
  <2>6. /\ (((pc + 2) % 65536) + d) % 65536 = (pc + (d + 2)) % 65536
        /\ (((((pc + 2) % 65536) + d) % 65536) + 256) % 65536 = (pc + ((d + 256) + 2)) % 65536
        /\ d < 0 => (((pc + 2) % 65536) + d) % 65536 # (pc + 2) % 65536
    BY Wraps
  <2>7. Char(s.code[2]) = IF ~CharIsSigned /\ s.code[2] >= 128 THEN d + 256 ELSE d
    BY <2>4, StoppedTypes, CharOf
  <2>8. s.code[2] >= 128 => d < 0
    BY <2>4, StoppedTypes, CharOf
  <2>9. /\ pe_jr(s) = (pc + (Char(s.code[2]) + 2)) % 65536
        /\ Pointer(s.pc, 2) = (pc + 2) % 65536
    BY <2>5 DEF pe_jr, Pointer
  <2>10. near = (next + d) % 65536
    BY <2>4
  <2> HIDE DEF near
  <2> QED
    BY <2>3, <2>5, <2>6, <2>7, <2>8, <2>9, <2>10
<1>5. x(op) = 3 /\ row.mask = \hC7 => (holds <=> Condition(y(op), s.F))
  BY <1>1, ConditionCode, ConditionHolds DEF taken
<1>6. op \in {\h20, \h28, \h30, \h38} /\ row.mask = \hE7 => (holds <=> Condition(y(op) - 4, s.F))
  <2>1. op \in {\h20, \h28, \h30, \h38} => y(op) % 4 = y(op) - 4 /\ y(op) - 4 \in 0 .. 7
    BY <1>1
  <2> QED
    BY <1>1, <2>1, ConditionCode, ConditionHolds DEF taken
<1>7. op = CB => next = (s.pc + 2) % 65536
  BY <1>2
<1>8. op \notin {DD, FD} /\ op # ED
  OBVIOUS
<1>9. (s.pc + 2) % 65536 = Pointer(s.pc, 2)
  BY DEF Pointer
<1>21. x(op) = 3 \/ ~Jumps(op) \/ op \in {CB, \hC3, \hC9, \hCD, \hE9} => Missing(s) = Target(s)
  <2>1. op \in RelativeJumps =>
          x(op) # 3 /\ Jumps(op) /\ op \notin {CB, \hC3, \hC9, \hCD, \hE9}
    BY <1>1 DEF RelativeJumps, Jumps, CB
  <2> QED
    BY <2>1 DEF Missing, ReadWithoutSign, JumpsBackwards
<1> HIDE DEF after, holds, next, near
<1>22. ASSUME Length1(op) = 2, op # CB, op \in RelativeJumps,
              NEW jumps \in BOOLEAN, Target(s) = IF jumps THEN near ELSE next
       PROVE  Missing(s) = IF jumps THEN pe_jr(s) ELSE next
  <2>1. JumpsBackwards(s) <=> jumps /\ s.code[2] >= 128
    BY <1>4, <1>22 DEF JumpsBackwards
  <2> QED
    BY <1>4, <1>22, <2>1 DEF Missing, ReadWithoutSign
<1>10. CASE row.fp = "dummy"
  <2>1. ~Jumps(op) /\ op # CB /\ row.inst_len = Length1(op)
    BY <1>10, <1>8 DEF Says
  <2>2. Evaluate(row, s) = after
    BY <1>10 DEF Evaluate, after
  <2>3. Target(s) = next
    BY <1>1, <1>8, <2>1 DEF Target, next, near, CB, DD, ED, FD, Jumps
  <2> QED
    BY <1>10, <1>3, <1>21, <2>1, <2>2, <2>3
<1>11. CASE row.fp = "prefix_cb"
  <2>1. op = CB /\ row.inst_len = 2
    BY <1>11, <1>8 DEF Says
  <2>2. Evaluate(row, s) = after
    BY <1>11 DEF Evaluate, after
  <2>3. Target(s) = next
    BY <1>1, <1>8, <2>1 DEF Target, next, near, CB, DD, ED, FD
  <2>4. after = Pointer(s.pc, 2)
    BY <2>1 DEF after, pe_dummy
  <2> QED
    BY <1>11, <1>7, <1>9, <1>21, <2>1, <2>2, <2>3, <2>4
<1>12. CASE row.fp = "djnz"
  <2>1. op = \h10 /\ row.inst_len = 2
    BY <1>12, <1>8 DEF Says
  <2>2. Evaluate(row, s) = IF s.B = 1 THEN after ELSE pe_jr(s)
    <3>1. s.B - 1 = 0 <=> s.B = 1
      BY StoppedTypes DEF Byte
    <3> QED
      BY <1>12, <3>1 DEF Evaluate, pe_djnz, after
  <2>3. Target(s) = IF s.B = 1 THEN next ELSE near
    BY <1>1, <1>8, <2>1 DEF Target, next, near, CB, DD, ED, FD
  <2>4. Length1(op) = 2 /\ op # CB
    BY <1>1, <2>1 DEF Length1, CB
  <2> QED
    BY <1>12, <1>3, <1>22, <2>1, <2>2, <2>3, <2>4 DEF RelativeJumps
<1>13. CASE row.fp = "jr"
  <2>1. op = \h18
    BY <1>13, <1>8 DEF Says
  <2>2. Evaluate(row, s) = pe_jr(s)
    BY <1>13 DEF Evaluate
  <2>3. Target(s) = IF TRUE THEN near ELSE next
    BY <1>1, <1>8, <2>1 DEF Target, next, near, CB, DD, ED, FD
  <2>4. Length1(op) = 2 /\ op # CB
    BY <1>1, <2>1 DEF Length1, CB
  <2> QED
    BY <1>13, <1>22, <2>1, <2>2, <2>3, <2>4 DEF RelativeJumps
<1>14. CASE row.fp = "jr_cc"
  <2>1. op \in {\h20, \h28, \h30, \h38} /\ row.mask = \hE7
    BY <1>14, <1>8 DEF Says
  <2>2. Evaluate(row, s) = IF holds THEN pe_jr(s) ELSE Pointer(s.pc, 2)
    BY <1>14 DEF Evaluate, pe_jr_cc, holds
  <2>3. Target(s) = IF Condition(y(op) - 4, s.F) THEN near ELSE next
    BY <1>1, <1>8, <2>1 DEF Target, next, near, CB, DD, ED, FD
  <2>4. Length1(op) = 2 /\ op # CB
    BY <1>1, <2>1 DEF Length1, CB
  <2>5. next = Pointer(s.pc, 2)
    BY <1>2, <2>4 DEF next, Pointer
  <2> QED
    BY <1>14, <1>6, <1>22, <2>1, <2>2, <2>3, <2>4, <2>5 DEF RelativeJumps
<1>15. CASE row.fp = "jp_nn"
  <2>1. op \in {\hC3, \hCD}
    BY <1>15, <1>8 DEF Says
  <2>2. Evaluate(row, s) = Little(s.code[2], s.code[3])
    BY <1>15 DEF Evaluate, pe_jp_nn
  <2>3. Target(s) = Little(s.code[2], s.code[3])
    BY <1>1, <1>8, <2>1 DEF Target, next, near, CB, DD, ED, FD
  <2> QED
    BY <1>15, <1>21, <2>1, <2>2, <2>3
<1>16. CASE row.fp = "jp_cc_nn"
  <2>1. x(op) = 3 /\ z(op) \in {2, 4} /\ row.mask = \hC7 /\ row.inst_len = 3
    BY <1>16, <1>8 DEF Says
  <2>2. Evaluate(row, s) = IF holds THEN Little(s.code[2], s.code[3]) ELSE after
    BY <1>16 DEF Evaluate, pe_jp_cc_nn, pe_jp_nn, holds, after
  <2>3. Target(s) = IF Condition(y(op), s.F) THEN Little(s.code[2], s.code[3]) ELSE next
    BY <1>1, <1>8, <2>1 DEF Target, next, near, CB, DD, ED, FD
  <2>4. Length1(op) = 3 /\ op # CB
    BY <1>1, <2>1 DEF Length1, CB
  <2> QED
    BY <1>16, <1>3, <1>5, <1>21, <2>1, <2>2, <2>3, <2>4
<1>17. CASE row.fp = "jp_hl"
  <2>1. op = \hE9
    BY <1>17, <1>8 DEF Says
  <2>2. Evaluate(row, s) = s.HL
    BY <1>17 DEF Evaluate
  <2>3. Target(s) = s.HL
    BY <1>1, <1>8, <2>1 DEF Target, next, near, CB, DD, ED, FD
  <2> QED
    BY <1>17, <1>21, <2>1, <2>2, <2>3
<1>18. CASE row.fp = "ret"
  <2>1. op = \hC9
    BY <1>18, <1>8 DEF Says
  <2>2. Evaluate(row, s) = s.TOS
    BY <1>18 DEF Evaluate, pe_ret
  <2>3. Target(s) = s.TOS
    BY <1>1, <1>8, <2>1 DEF Target, next, near, CB, DD, ED, FD
  <2> QED
    BY <1>18, <1>21, <2>1, <2>2, <2>3
<1>19. CASE row.fp = "ret_cc"
  <2>1. x(op) = 3 /\ z(op) = 0 /\ row.mask = \hC7 /\ row.inst_len = 1
    BY <1>19, <1>8 DEF Says
  <2>2. Evaluate(row, s) = IF holds THEN s.TOS ELSE after
    BY <1>19 DEF Evaluate, pe_ret_cc, pe_ret, holds, after
  <2>3. Target(s) = IF Condition(y(op), s.F) THEN s.TOS ELSE next
    BY <1>1, <1>8, <2>1 DEF Target, next, near, CB, DD, ED, FD
  <2>4. Length1(op) = 1 /\ op # CB
    BY <1>1, <2>1 DEF Length1, CB
  <2> QED
    BY <1>19, <1>3, <1>5, <1>21, <2>1, <2>2, <2>3, <2>4
<1>20. CASE row.fp = "rst"
  <2>1. x(op) = 3 /\ z(op) = 7 /\ row.mask = \hC7
    BY <1>20, <1>8 DEF Says
  <2>2. Evaluate(row, s) = 8 * y(op)
    BY <1>1, <1>20, <2>1, ConditionCode DEF Evaluate, pe_rst
  <2>3. Target(s) = 8 * y(op)
    BY <1>1, <1>8, <2>1 DEF Target, next, near, CB, DD, ED, FD
  <2> QED
    BY <1>20, <1>21, <2>1, <2>2, <2>3
<1> QED
  BY <1>8, <1>10, <1>11, <1>12, <1>13, <1>14, <1>15, <1>16, <1>17, <1>18, <1>19, <1>20 DEF Says

\* ... behind ED, and behind DD or FD.
LEMMA ExtIsTarget ==
  ASSUME NEW s \in Stopped, s.code[1] = ED
  PROVE  Evaluate(opc_ed[Ext[s.code[2]]], s) = Target(s)
<1> DEFINE op  == s.code[2]
           row == opc_ed[Ext[op]]
<1>1. /\ op \in Byte /\ x(ED) = 3 /\ z(ED) = 5 /\ ED = 237
      /\ s.code[1] \notin {\h10, \h18, \h20, \h28, \h30, \h38, \hC3, \hCD, \hC9, \hE9, CB, DD, FD}
  BY StoppedTypes DEF x, z, CB, DD, ED, FD
<1>2. \/ row.fp = "ret" /\ op \in {\h45, \h4D}
      \/ row.fp = "dummy" /\ op \notin {\h45, \h4D} /\ row.inst_len = LengthED(op)
  <2>1. PICK k \in 1 .. 27 : k = Ext[op]
    BY <1>1, ExtFound
  <2>2. Matches(opc_ed[k], op) /\ \A j \in 1 .. k - 1 : ~Matches(opc_ed[j], op)
    BY <1>1, <2>1, ExtFound
  <2> QED
    BY <1>1, <2>1, <2>2, ExtRow
<1> HIDE DEF row
<1>3. Length(s.code) = LengthED(op)
  BY <1>1 DEF Length
<1>4. Target(s) = IF op \in {\h45, \h4D} THEN s.TOS ELSE (s.pc + LengthED(op)) % 65536
  BY <1>1, <1>3 DEF Target
<1>5. CASE row.fp = "ret"
  <2>1. Evaluate(row, s) = s.TOS
    BY <1>5 DEF Evaluate, pe_ret
  <2> QED
    BY <1>2, <1>4, <1>5, <2>1 DEF row
<1>6. CASE row.fp = "dummy"
  <2>1. Evaluate(row, s) = Pointer(s.pc, row.inst_len)
    BY <1>6 DEF Evaluate, pe_dummy
  <2> QED
    BY <1>2, <1>4, <1>6, <2>1 DEF row, Pointer
<1> QED
  BY <1>2, <1>5, <1>6

LEMMA IndexedIsTarget ==
  ASSUME NEW s \in Stopped, s.code[1] \in {DD, FD}, IndexedOpcode(s.code[2]), s.code[2] # \hE9
  PROVE  Pointer(s.pc, 1 + opc_ind[Indexed[s.code[2]]].inst_len) = Target(s)
<1> DEFINE op == s.code[2]
<1>1. /\ op \in Byte /\ x(s.code[1]) = 3 /\ z(s.code[1]) = 5
      /\ s.code[1] \notin {\h10, \h18, \h20, \h28, \h30, \h38, \hC3, \hCD, \hC9, \hE9, CB, ED}
  BY StoppedTypes DEF x, z, CB, DD, ED, FD
<1>2. opc_ind[Indexed[op]].inst_len = IndexedLength(op)
  <2>1. PICK k \in 1 .. 28 : k = Indexed[op]
    BY <1>1, IndexedFound
  <2>2. Matches(opc_ind[k], op) /\ \A j \in 1 .. k - 1 : ~Matches(opc_ind[j], op)
    BY <1>1, <2>1, IndexedFound
  <2> QED
    BY <1>1, <2>1, <2>2, IndexedRow
<1>3. IndexedLength(op) \in Nat
  BY DEF IndexedLength, Length1
<1>4. Length(s.code) = 1 + IndexedLength(op)
  BY <1>1, <1>3 DEF Length, IndexedLength, Length1
<1>5. Target(s) = (s.pc + Length(s.code)) % 65536
  BY <1>1 DEF Target
<1> QED
  BY <1>2, <1>4, <1>5 DEF Pointer

\* calculateStep finds where the instruction goes, from any registers and operands, but
\* for the jumps backwards that it takes 256 bytes too far.
THEOREM DecodeIsTarget ==
  ASSUME NEW s \in Stopped, Documented(s.code), ~JumpsToIndex(s.code)
  PROVE  Decode(s) = Missing(s)
<1> DEFINE row == opc_main[Main[s.code[1]]]
<1>1. s.code[1] \in Byte
  BY StoppedTypes
<1>2. Says(row, s.code[1])
  BY <1>1, MainFound, RowSays
<1> HIDE DEF row
<1>3. CASE s.code[1] = ED
  <2>1. row.fp = "prefix_ed"
    BY <1>2, <1>3 DEF Says, Jumps, x, z, CB, DD, ED, FD
  <2>2. Missing(s) = Target(s)
    BY <1>3 DEF Missing, ReadWithoutSign, JumpsBackwards, RelativeJumps, ED
  <2> QED
    BY <1>3, <2>1, <2>2, ExtIsTarget DEF Decode, row
<1>4. CASE s.code[1] \in {DD, FD}
  <2>1. row.fp = "prefix_ind"
    BY <1>2, <1>4 DEF Says, Jumps, x, z, CB, DD, ED, FD
  <2>2. IndexedOpcode(s.code[2]) /\ s.code[2] # \hE9
    BY <1>4 DEF Documented, JumpsToIndex, IndexedOpcode, DD, ED, FD
  <2>3. Missing(s) = Target(s)
    BY <1>4 DEF Missing, ReadWithoutSign, JumpsBackwards, RelativeJumps, DD, FD
  <2> QED
    BY <1>4, <2>1, <2>2, <2>3, IndexedIsTarget DEF Decode, row
<1>5. CASE s.code[1] \notin {DD, ED, FD}
  BY <1>2, <1>5, EvaluateIsTarget DEF Decode, row
<1> QED
  BY <1>3, <1>4, <1>5

\* What calculateStep returned belongs to the state the program is stopped in.
IInv ==
  /\ stopped \in Stopped
  /\ step # -1 => step = Decode(stopped)

\* The step is computed from the state the program is stopped in.
LEMMA Invariance == Spec => []IInv
<1>1. Init => IInv
  BY StopsAssumption DEF Init, IInv
<1>2. IInv /\ [Next]_vars => IInv'
  BY DEF IInv, Next, CalculateStep, Stop, vars
<1> QED
  BY <1>1, <1>2, PTL DEF Spec

\* Wherever the program is stopped, at a documented instruction but the two kinds of
\* jump the temporary breakpoint goes where the program goes.
THEOREM StepsGoWhereTheProgramGoes == Spec => []StepIsNext
<1>1. IInv => StepIsNext
  BY DecodeIsTarget DEF IInv, StepIsNext, Missing
<1> QED
  BY <1>1, Invariance, PTL

TooFar == step # -1 /\ ReadWithoutSign(stopped) => step = (Target(stopped) + 256) % 65536

\* If char has no sign, as in SDCC, the step of a relative jump backwards that is taken
\* (JR, JR cc, DJNZ) is always planted 256 bytes too far.
THEOREM BackwardJumpsAreMissed == Spec => []TooFar
<1>1. ASSUME NEW s \in Stopped, ReadWithoutSign(s) PROVE Decode(s) = (Target(s) + 256) % 65536
  <2>1. s.code[1] \notin {CB, DD, ED, FD}
    BY <1>1 DEF ReadWithoutSign, JumpsBackwards, RelativeJumps, CB, DD, ED, FD
  <2>2. Documented(s.code) /\ ~JumpsToIndex(s.code)
    BY <2>1 DEF Documented, JumpsToIndex
  <2> QED
    BY <1>1, <2>2, DecodeIsTarget DEF Missing
<1>2. IInv => TooFar
  BY <1>1 DEF IInv, TooFar
<1> QED
  BY <1>2, Invariance, PTL

BehindTheJump ==
  step # -1 /\ JumpsToIndex(stopped.code) => step = (stopped.pc + 2) % 65536

\* The decoder has no row for JP (IX) and JP (IY): their step is always planted on the
\* byte behind the jump.
THEOREM IndexedJumpsAreMissed == Spec => []BehindTheJump
<1>1. ASSUME NEW s \in Stopped, JumpsToIndex(s.code) PROVE Decode(s) = (s.pc + 2) % 65536
  <2> DEFINE row == opc_main[Main[s.code[1]]]
  <2>1. /\ s.code[1] \in Byte /\ s.code[1] \in {DD, FD}
        /\ s.code[2] \in Byte /\ s.code[2] = 233
    BY <1>1, StoppedTypes DEF JumpsToIndex
  <2>2. Says(row, s.code[1])
    BY <2>1, MainFound, RowSays
  <2> HIDE DEF row
  <2>3. row.fp = "prefix_ind"
    BY <2>1, <2>2 DEF Says, Jumps, x, z, CB, DD, ED, FD
  <2>4. opc_ind[Indexed[s.code[2]]].inst_len = IndexedLength(s.code[2])
    <3>1. IndexedOpcode(s.code[2])
      BY <2>1 DEF IndexedOpcode, UsesHL
    <3>2. PICK k \in 1 .. 28 : k = Indexed[s.code[2]]
      BY <2>1, IndexedFound
    <3>3. Matches(opc_ind[k], s.code[2]) /\ \A j \in 1 .. k - 1 : ~Matches(opc_ind[j], s.code[2])
      BY <2>1, <3>2, IndexedFound
    <3> QED
      BY <2>1, <3>1, <3>2, <3>3, IndexedRow
  <2>5. IndexedLength(233) = 1
    BY DEF IndexedLength, Length1, AtHL, CB, x, y, z
  <2> QED
    BY <2>1, <2>3, <2>4, <2>5 DEF Decode, Pointer, row
<1>2. IInv => BehindTheJump
  BY <1>1 DEF IInv, BehindTheJump
<1> QED
  BY <1>2, Invariance, PTL
=============================================================================
