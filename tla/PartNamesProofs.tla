-------------------------- MODULE PartNamesProofs --------------------------
(***************************************************************************)
(* What the naming scheme of FileBuilder guarantees, and what it does not. *)
(***************************************************************************)
EXTENDS PartNames, TLAPS

-----------------------------------------------------------------------------
(* Arithmetic of the scheme.                                               *)

\* The shift of a block number is the least power of ten above it.
LEMMA ShiftFits ==
  ASSUME NEW i \in BlockNumbers
  PROVE  /\ Shift(i) \in PowersOfTen
         /\ i < Shift(i)
         /\ \A q \in PowersOfTen : i < q => Shift(i) <= q
<1>1. \E p \in PowersOfTen :
        i < p /\ \A q \in PowersOfTen : i < q => p <= q
  BY SMTT(30) DEF PowersOfTen, BlockNumbers
<1>2. QED
  BY <1>1 DEF Shift

\* Shifting a positive number by a larger power of ten leaves a gap of at
\* least nine times the smaller one.
LEMMA WiderShiftIsLarger ==
  ASSUME NEW u \in VideoIds, NEW p \in PowersOfTen, NEW q \in PowersOfTen,
         p < q
  PROVE  u * q >= u * p + 9 * p
<1>1. p \in Nat /\ q \in Nat /\ q >= 10 * p
  BY SMT DEF PowersOfTen
<1>2. u \in Nat /\ u >= 1
  BY DEF VideoIds
<1>3. PICK d \in Nat : q = 10 * p + d
  <2>1. q - 10 * p \in Nat /\ q = 10 * p + (q - 10 * p)
    BY <1>1
  <2>2. QED
    BY <2>1
<1>4. PICK v \in Nat : u = v + 1
  <2>1. u - 1 \in Nat /\ u = (u - 1) + 1
    BY <1>2
  <2>2. QED
    BY <2>1
<1>5. u * q = u * p + 9 * p + 9 * (v * p) + (v * d) + d
  BY <1>1, <1>3, <1>4, SMTT(30)
<1>6. v * p \in Nat /\ v * d \in Nat /\ u * p \in Nat /\ 9 * p \in Nat
  BY <1>1, <1>2, <1>3, <1>4, SMT
<1>7. QED
  <2> DEFINE a == v * p
             b == v * d
             c == u * p
             e == 9 * p
  <2>1. a \in Nat /\ b \in Nat /\ c \in Nat /\ e \in Nat
    BY <1>6
  <2>2. u * q = c + e + 9 * a + b + d
    BY <1>5
  <2> HIDE DEF a, b, c, e
  <2>3. u * q >= c + e
    BY <2>1, <2>2, <1>3
  <2>4. QED
    BY <2>3 DEF c, e

-----------------------------------------------------------------------------
(* Names within one upload.                                                *)

\* Every file an upload writes has a decimal name, and a name with room for
\* the block number: the name of the result shifted, or more.
LEMMA NameTypes ==
  ASSUME NEW u \in VideoIds, NEW i \in BlockNumbers
  PROVE  /\ PartName(u, i) \in FileNames
         /\ ResultName(u) \in FileNames
         /\ PartName(u, i) > ResultName(u)
<1> DEFINE p == Shift(i)
<1>1. p \in Nat /\ p >= 1
  BY ShiftFits, SMT DEF PowersOfTen
<1> HIDE DEF p
<1>2. u \in Nat /\ u >= 1 /\ i \in Nat /\ i >= 1
  BY SMT DEF VideoIds, BlockNumbers
<1>3. u * p \in Nat /\ u * p >= u
  BY <1>1, <1>2, SMTT(30)
<1> DEFINE up == u * p
<1>4. up \in Nat /\ up >= u
  BY <1>3
<1>5. PartName(u, i) = up + i
  BY DEF PartName, p
<1> HIDE DEF up
<1>6. QED
  BY <1>2, <1>4, <1>5, SMT DEF ResultName, FileNames

\* FileBuilder::write_block: within one upload no two blocks share a part
\* file, whatever the number of digits of their numbers, so that one block
\* never overwrites another.
THEOREM PartNamesInjective ==
  \A u \in VideoIds : \A i, j \in BlockNumbers :
    PartName(u, i) = PartName(u, j) => i = j
<1> SUFFICES ASSUME NEW u \in VideoIds,
                    NEW i \in BlockNumbers, NEW j \in BlockNumbers,
                    PartName(u, i) = PartName(u, j)
             PROVE  i = j
  OBVIOUS
<1>1. /\ Shift(i) \in PowersOfTen /\ i < Shift(i)
      /\ Shift(j) \in PowersOfTen /\ j < Shift(j)
  BY ShiftFits
<1>2. u * Shift(i) + i = u * Shift(j) + j
  BY DEF PartName
<1>3. ASSUME NEW a \in BlockNumbers, NEW b \in BlockNumbers,
             NEW p \in PowersOfTen, NEW q \in PowersOfTen,
             a < p, p < q
      PROVE  u * p + a # u * q + b
  <2>1. u * q >= u * p + 9 * p
    BY <1>3, WiderShiftIsLarger
  <2>2. p \in Nat /\ q \in Nat /\ u \in Nat /\ a \in Nat /\ b \in Nat
    BY SMTT(30) DEF PowersOfTen, VideoIds, BlockNumbers
  <2>3. u * p \in Nat /\ u * q \in Nat
    BY <2>2, SMT
  <2> DEFINE up == u * p
             uq == u * q
  <2>4. up \in Nat /\ uq \in Nat /\ uq >= up + 9 * p
    BY <2>1, <2>3
  <2> HIDE DEF up, uq
  <2>5. up + a # uq + b
    BY <1>3, <2>2, <2>4, SMT
  <2>6. QED
    BY <2>5 DEF up, uq
<1>4. ~(Shift(i) < Shift(j)) /\ ~(Shift(j) < Shift(i))
  BY <1>1, <1>2, <1>3
<1>5. Shift(i) = Shift(j)
  BY <1>1, <1>4, SMT DEF PowersOfTen
<1>6. u * Shift(j) \in Int
  BY <1>1, SMT DEF PowersOfTen, VideoIds
<1>7. QED
  BY <1>2, <1>5, <1>6, SMTT(30) DEF BlockNumbers

\* FileBuilder::build: the result file of an upload is never one of its own
\* part files, so that building does not truncate a block still to be read.
THEOREM ResultIsNotAPart ==
  \A u \in VideoIds : \A i \in BlockNumbers : ResultName(u) # PartName(u, i)
<1> SUFFICES ASSUME NEW u \in VideoIds, NEW i \in BlockNumbers
             PROVE  ResultName(u) # PartName(u, i)
  OBVIOUS
<1>1. PartName(u, i) > ResultName(u) /\ ResultName(u) \in Int
  BY NameTypes, SMT DEF FileNames
<1>2. QED
  BY <1>1, NameTypes, SMT DEF FileNames

-----------------------------------------------------------------------------
(* Names across uploads.                                                   *)

\* Across uploads the scheme guarantees nothing: the part file of block 1 of
\* video 1 has the name of the result of video 11, and block 11 of video 1
\* shares its part file with block 1 of video 11.
THEOREM NamesCollideAcrossUploads ==
  /\ PartName(1, 1) = ResultName(11)
  /\ PartName(1, 11) = PartName(11, 1)
<1>1. Shift(1) = 10 /\ Shift(11) = 100
  <2>1. 1 \in BlockNumbers /\ 11 \in BlockNumbers
    BY SMT DEF BlockNumbers
  <2>2. QED
    BY <2>1, ShiftFits, SMT DEF PowersOfTen
<1>2. QED
  BY <1>1 DEF PartName, ResultName


\* A product is less than the next multiple.
LEMMA NextMultiple ==
  ASSUME NEW u \in Nat, NEW v \in Nat, NEW p \in Nat, u < v
  PROVE  u * p \in Nat /\ v * p \in Nat /\ v * p >= u * p + p
<1>1. PICK d \in Nat : v = u + 1 + d
  <2>1. v - u - 1 \in Nat /\ v = u + 1 + (v - u - 1)
    OBVIOUS
  <2>2. QED
    BY <2>1
<1>2. v * p = u * p + p + d * p
  BY <1>1, SMTT(30)
<1>3. u * p \in Nat /\ d * p \in Nat /\ v * p \in Nat
  BY <1>1, SMT
<1> DEFINE up == u * p
           dp == d * p
           vp == v * p
<1>4. up \in Nat /\ dp \in Nat /\ vp \in Nat /\ vp = up + p + dp
  BY <1>2, <1>3
<1> HIDE DEF up, dp, vp
<1>5. vp >= up + p
  BY <1>4
<1>6. QED
  BY <1>4, <1>5 DEF up, vp

\* What does collide has ids of different widths.  Uploads whose ids lie
\* within a factor of ten, as ids with the same number of digits do, share no
\* file: no part of one is a part or the result of another.  So the files of a
\* service stay apart from video 10^k to video 10^(k+1) - 1, and can first
\* collide when the next id is one digit longer.
THEOREM SameWidthNamesApart ==
  ASSUME NEW lo \in VideoIds,
         NEW u \in lo .. 10 * lo - 1, NEW v \in lo .. 10 * lo - 1, u # v
  PROVE  \A i \in BlockNumbers :
           /\ PartName(u, i) # ResultName(v)
           /\ \A j \in BlockNumbers : PartName(u, i) # PartName(v, j)
<1>1. lo \in Nat /\ lo >= 1
  BY DEF VideoIds
<1>2. \A w \in lo .. 10 * lo - 1 :
        w \in Nat /\ w >= 1 /\ w >= lo /\ w + 1 <= 10 * lo
  BY <1>1
<1>3. \A p \in PowersOfTen : p \in Nat /\ p >= 10
  BY SMT DEF PowersOfTen
<1>4. \A p, q \in PowersOfTen : p < q => q >= 10 * p
  BY SMT DEF PowersOfTen
<1>5. ASSUME NEW x \in lo .. 10 * lo - 1, NEW y \in lo .. 10 * lo - 1, x # y,
             NEW i \in BlockNumbers, NEW j \in BlockNumbers,
             NEW p \in PowersOfTen, NEW q \in PowersOfTen,
             i < p, j < q, p <= q, p = q => x < y
      PROVE  x * p + i # y * q + j
  <2>1. /\ x \in Nat /\ y \in Nat /\ p \in Nat /\ q \in Nat
        /\ i \in Nat /\ j \in Nat /\ x + 1 <= 10 * lo /\ y >= lo
    BY <1>2, <1>3, <1>5, SMT DEF BlockNumbers
  <2>2. x * p \in Nat /\ y * q \in Nat /\ y * q >= x * p + p
    <3>1. CASE p = q
      BY <1>5, <2>1, <3>1, NextMultiple
    <3>2. CASE p # q
      <4>1. q >= 10 * p
        BY <1>4, <1>5, <2>1, <3>2
      <4>2. PICK d \in Nat : q = 10 * p + d
        <5>1. q - 10 * p \in Nat /\ q = 10 * p + (q - 10 * p)
          BY <2>1, <4>1
        <5>2. QED
          BY <5>1
      <4>3. PICK e \in Nat : y = lo + e
        <5>1. y - lo \in Nat /\ y = lo + (y - lo)
          BY <1>1, <2>1
        <5>2. QED
          BY <5>1
      <4>4. 10 * lo \in Nat /\ x < 10 * lo
        BY <1>1, <2>1
      <4>5. x * p \in Nat /\ (10 * lo) * p \in Nat /\ (10 * lo) * p >= x * p + p
        BY <2>1, <4>4, NextMultiple
      <4>6. y * q = (10 * lo) * p + 10 * (e * p) + y * d
        BY <1>1, <2>1, <4>2, <4>3, SMTT(30)
      <4>7. e * p \in Nat /\ y * d \in Nat
        BY <2>1, <4>2, <4>3, SMT
      <4> DEFINE a == x * p
                 b == (10 * lo) * p
                 c == e * p
                 f == y * d
                 g == y * q
      <4>8. /\ a \in Nat /\ b \in Nat /\ c \in Nat /\ f \in Nat
            /\ b >= a + p /\ g = b + 10 * c + f
        BY <4>5, <4>6, <4>7
      <4> HIDE DEF a, b, c, f, g
      <4>9. g \in Nat /\ g >= a + p
        BY <2>1, <4>8
      <4>10. QED
        BY <4>8, <4>9 DEF a, g
    <3>3. QED
      BY <3>1, <3>2
  <2> DEFINE a == x * p
             g == y * q
  <2>3. a \in Nat /\ g \in Nat /\ g >= a + p
    BY <2>2
  <2> HIDE DEF a, g
  <2>4. a + i # g + j
    BY <1>5, <2>1, <2>3
  <2>5. QED
    BY <2>4 DEF a, g
<1>6. ASSUME NEW i \in BlockNumbers, NEW j \in BlockNumbers
      PROVE  PartName(u, i) # PartName(v, j)
  <2>1. /\ Shift(i) \in PowersOfTen /\ i < Shift(i)
        /\ Shift(j) \in PowersOfTen /\ j < Shift(j)
    BY ShiftFits
  <2>2. /\ Shift(i) \in Nat /\ Shift(j) \in Nat /\ u \in Nat /\ v \in Nat
    BY <1>2, <1>3, <2>1
  <2>3. CASE Shift(i) < Shift(j) \/ (Shift(i) = Shift(j) /\ u < v)
    <3>1. u * Shift(i) + i # v * Shift(j) + j
      BY <1>5, <2>1, <2>2, <2>3
    <3>2. QED
      BY <3>1 DEF PartName
  <2>4. CASE Shift(j) < Shift(i) \/ (Shift(j) = Shift(i) /\ v < u)
    <3>1. v * Shift(j) + j # u * Shift(i) + i
      BY <1>5, <2>1, <2>2, <2>4
    <3>2. QED
      BY <3>1 DEF PartName
  <2>5. QED
    BY <2>2, <2>3, <2>4
<1>7. ASSUME NEW i \in BlockNumbers
      PROVE  PartName(u, i) # ResultName(v)
  <2>1. Shift(i) \in PowersOfTen /\ Shift(i) \in Nat /\ Shift(i) >= 10
    BY <1>3, ShiftFits
  <2>2. u \in Nat /\ u >= lo /\ v \in Nat /\ v + 1 <= 10 * lo /\ i \in Nat
    BY <1>2, SMT DEF BlockNumbers
  <2>3. PICK d \in Nat : Shift(i) = 10 + d
    <3>1. Shift(i) - 10 \in Nat /\ Shift(i) = 10 + (Shift(i) - 10)
      BY <2>1
    <3>2. QED
      BY <3>1
  <2>4. u * Shift(i) = 10 * u + u * d /\ u * d \in Nat
    BY <2>2, <2>3, SMTT(30)
  <2> DEFINE a == u * Shift(i)
             b == u * d
  <2>5. b \in Nat /\ a = 10 * u + b
    BY <2>4
  <2> HIDE DEF a, b
  <2>6. a + i # v
    BY <1>1, <2>2, <2>5
  <2>7. QED
    BY <2>6 DEF a, PartName, ResultName
<1>8. QED
  BY <1>6, <1>7

=============================================================================
