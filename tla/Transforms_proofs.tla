------------------------- MODULE Transforms_proofs --------------------------
(***************************************************************************)
(* The wavelet transform, and what is done with its results.                *)
(*                                                                         *)
(* The transform, the tiles of its subbands and the way back                *)
(* (Wavelet): Decode gives back all the samples that Encode was given, for  *)
(* volumes of all dimensions, any number of levels, and tiles and blocks of *)
(* every size.  Operators_proofs shows that a pass back undoes a pass forth *)
(* (PassUndone).  The subbands: a position that one level leaves to the     *)
(* next is in what is left at last, or is in the upper half of an axis at   *)
(* the level that does not leave it (Covered).  The tiles: no two have the  *)
(* same place in the file (IdsDiffer), and each sample of a subband is a    *)
(* voxel of one of its tiles (Tiled).  And the inductive invariant          *)
(* CodecInv says what the volume and the file hold between any two steps.   *)
(*                                                                         *)
(* The transform in place is in bounds (LiftsAreLegal): what is left to a   *)
(* level along an axis is known in closed form.                             *)
(*                                                                         *)
(* Every position of the volume is in exactly one subband of the transform  *)
(* in place (SubbandsPartition): along an axis, what level l leaves to the  *)
(* next are the multiples of 2^(l + 1) and its upper half are the odd       *)
(* multiples of 2^l, so that two subbands of a level differ along an axis,  *)
(* one of an earlier level has a residue that the later ones do not have,   *)
(* and a position belongs to the first level that does not leave it.        *)
(* The level that SubbandToLevel finds for a subband is that of its halves  *)
(* (LevelsAgree).                                                           *)
(*                                                                         *)
(* A lookup finds just the coefficients that reach the values asked for     *)
(* (LookupsExact): axis by axis, with the coefficients of the subband        *)
(* numbered, those that reach a value are numbers x to y, those of the block *)
(* q to t, and what ComputeWavGrids computes is where the two overlap.       *)
(*                                                                         *)
(* Where no level has an even number of samples, the transform in place is  *)
(* that of the codec but for the places (AgreesWithOld): both lifts of an   *)
(* odd row give the same values, what the codec's moves to the two halves   *)
(* stays interleaved in place (MatchAt, axis by axis and level by level),   *)
(* and FormSubbands takes each sample of a subband from where it stayed     *)
(* (FormTakes).                                                             *)
(*                                                                         *)
(* Two tiles that share a column add up to the whole (TilesAddUp): a row in *)
(* two parts that share a sample is lifted like the row, the shared sample  *)
(* in two shares (TilesAlongX), and lifting along the column is linear as   *)
(* long as halves and quarters are exact (TilesAlongY).                     *)
(***************************************************************************)
EXTENDS Wavelet, Operators_proofs, FiniteSetTheorems, FunctionTheorems

-----------------------------------------------------------------------------
(* The subbands.                                                           *)

\* Dimensions are positive, and fit a packed vector.
LEMMA LengthsFit ==
    ASSUME NEW n \in Lengths
    PROVE  n \in Sizes /\ \A i \in Axes : n[i] \in Nat \ {0} /\ n[i] < PackLimit
BY LimitNat DEF Lengths, Sizes, Axes

\* (a + b - 1) / b is the least number of steps of b that reach a.
LEMMA RoundedUp ==
    ASSUME NEW a \in Nat \ {0}, NEW b \in Nat \ {0}
    PROVE  /\ ((a + b - 1) \div b) \in Nat \ {0}
           /\ ((a + b - 1) \div b) <= a
           /\ \A k \in Nat : a <= k * b => ((a + b - 1) \div b) <= k
           /\ a <= ((a + b - 1) \div b) * b
<1>1. PICK x \in Int : x = (a + b - 1) \div b
  <2>1. ((a + b - 1) \div b) \in Int
    OBVIOUS
  <2> QED
    BY <2>1
<1>2. x * b <= a + b - 1 /\ a + b - 1 < x * b + b
  BY <1>1
<1>3. x >= 1
  BY <1>2
<1>4. ASSUME NEW k \in Nat, a <= k * b
      PROVE  x <= k
  <2>1. SUFFICES ASSUME k + 1 <= x PROVE FALSE
    OBVIOUS
  <2>2. (k + 1) * b <= x * b
    BY <1>3, <2>1
  <2>3. (k + 1) * b = k * b + b
    OBVIOUS
  <2> QED
    BY <1>2, <1>4, <2>2, <2>3
<1>5. a <= a * b
  OBVIOUS
<1>6. x <= a
  BY <1>4, <1>5
<1>7. a <= x * b
  BY <1>2
<1> QED
  BY <1>1, <1>3, <1>4, <1>6, <1>7

\* A level leaves something of every axis, and no more than the level before.
LEMMA LeftFacts ==
    ASSUME NEW n \in Lengths, NEW l \in Nat
    PROVE  /\ DimsLeft(n, l) \in Sizes
           /\ \A i \in Axes : /\ DimsLeft(n, l)[i] \in 1 .. n[i]
                              /\ DimsLeft(n, l + 1)[i] \in 1 .. DimsLeft(n, l)[i]
           /\ DimsLeft(n, 0) = n
<1>1. PICK p \in Nat \ {0}, q \in Nat \ {0} : p = 2 ^ l /\ q = 2 ^ (l + 1) /\ q = 2 * p
  <2>1. 2 ^ l \in Nat /\ 2 ^ l >= 1 /\ 2 ^ (l + 1) = 2 * 2 ^ l
    BY PowPos, PowDouble
  <2> QED
    BY <2>1
<1>2. ASSUME NEW a \in Nat \ {0}
      PROVE  /\ ((a + p - 1) \div p) \in 1 .. a
             /\ ((a + q - 1) \div q) \in 1 .. ((a + p - 1) \div p)
  <2>1. PICK x \in Nat \ {0} : x = (a + p - 1) \div p /\ x <= a /\ a <= x * p
    BY RoundedUp
  <2>2. PICK y \in Nat \ {0} : /\ y = (a + q - 1) \div q
                               /\ \A k \in Nat : a <= k * q => y <= k
    BY RoundedUp
  <2>3. a <= x * q
    <3>1. x * q = x * p + x * p /\ x * p \in Nat
      BY <1>1
    <3> QED
      BY <2>1, <3>1
  <2>4. y <= x
    BY <2>2, <2>3
  <2> QED
    BY <2>1, <2>2, <2>4
<1>3. /\ n = <<n[1], n[2], n[3]>> /\ n[1] \in Nat \ {0} /\ n[2] \in Nat \ {0}
      /\ n[3] \in Nat \ {0}
  BY LengthsFit DEF Lengths, Axes
<1>4. /\ DimsLeft(n, l) = <<(n[1] + p - 1) \div p, (n[2] + p - 1) \div p, (n[3] + p - 1) \div p>>
      /\ DimsLeft(n, l + 1) =
           <<(n[1] + q - 1) \div q, (n[2] + q - 1) \div q, (n[3] + q - 1) \div q>>
  BY <1>1 DEF DimsLeft, Each
<1>5. PICK x1, x2, x3, y1, y2, y3 :
         /\ x1 = (n[1] + p - 1) \div p /\ x2 = (n[2] + p - 1) \div p
         /\ x3 = (n[3] + p - 1) \div p
         /\ y1 = (n[1] + q - 1) \div q /\ y2 = (n[2] + q - 1) \div q
         /\ y3 = (n[3] + q - 1) \div q
  OBVIOUS
<1>6. /\ x1 \in 1 .. n[1] /\ x2 \in 1 .. n[2] /\ x3 \in 1 .. n[3]
      /\ y1 \in 1 .. x1 /\ y2 \in 1 .. x2 /\ y3 \in 1 .. x3
  BY <1>2, <1>3, <1>5
<1>7. DimsLeft(n, l) = <<x1, x2, x3>> /\ DimsLeft(n, l + 1) = <<y1, y2, y3>>
  BY <1>4, <1>5
<1>8. DimsLeft(n, 0) = n
  <2>1. \A a \in Nat : (a + 1 - 1) \div 1 = a
    OBVIOUS
  <2>2. DimsLeft(n, 0) = <<(n[1] + 1 - 1) \div 1, (n[2] + 1 - 1) \div 1, (n[3] + 1 - 1) \div 1>>
    BY SmallPowers DEF DimsLeft, Each
  <2> QED
    BY <1>3, <2>1, <2>2
<1>9. DimsLeft(n, l) \in Sizes
  BY <1>3, <1>6, <1>7 DEF Sizes
<1>10. \A i \in Axes : /\ DimsLeft(n, l)[i] \in 1 .. n[i]
                       /\ DimsLeft(n, l + 1)[i] \in 1 .. DimsLeft(n, l)[i]
  BY <1>6, <1>7 DEF Axes
<1> QED
  BY <1>8, <1>9, <1>10

\* The axes with two samples or more come first.
LEMMA Dimensions ==
    ASSUME NEW n \in Lengths
    PROVE  NumDims(n) \in 0 .. 3
BY DEF NumDims

\* A bit is zero or one.
LEMMA BitType ==
    ASSUME NEW x \in Nat, NEW k \in Nat
    PROVE  Bit(x, k) \in {0, 1}
<1>1. PICK p \in Nat \ {0} : p = 2 ^ k
  BY PowPos
<1>2. (x \div p) \in Nat
  OBVIOUS
<1>3. \A y \in Nat : (y % 2) \in {0, 1}
  OBVIOUS
<1> QED
  BY <1>1, <1>2, <1>3 DEF Bit

\* The number of subbands of a level.
LEMMA OfLevel ==
    ASSUME NEW n \in Lengths, NEW nd, nd = NumDims(n)
    PROVE  /\ nd = 0 => 2 ^ nd - 1 = 0
           /\ nd = 1 => 2 ^ nd - 1 = 1
           /\ nd = 2 => 2 ^ nd - 1 = 3
           /\ nd = 3 => 2 ^ nd - 1 = 7
           /\ 2 ^ nd - 1 \in Nat
<1>1. 1 - 1 = 0 /\ 2 - 1 = 1 /\ 4 - 1 = 3 /\ 8 - 1 = 7
  OBVIOUS
<1>2. nd = 0 \/ nd = 1 \/ nd = 2 \/ nd = 3
  BY Dimensions
<1>3. CASE nd = 0
  BY <1>1, <1>3, SmallPowers
<1>4. CASE nd = 1
  BY <1>1, <1>4, SmallPowers
<1>5. CASE nd = 2
  BY <1>1, <1>5, SmallPowers
<1>6. CASE nd = 3
  BY <1>1, <1>6, SmallPowers
<1> QED
  BY <1>2, <1>3, <1>4, <1>5, <1>6

\* A subband is the lower or the upper half of an axis.
LEMMA HalvesType ==
    ASSUME NEW n \in Lengths, NEW j \in 1 .. 2 ^ NumDims(n) - 1
    PROVE  Halves(NumDims(n), j) \in {0, 1} \X {0, 1} \X {0, 1}
<1>1. PICK nd \in 0 .. 3 : nd = NumDims(n)
  BY Dimensions
<1>2. Orders[nd][j] \in Nat
  <2>1. CASE nd = 0
    BY <1>1, <2>1, OfLevel
  <2>2. CASE nd = 1
    <3>1. j = 1
      BY <1>1, <2>2, OfLevel
    <3> QED
      BY <2>2, <3>1 DEF Orders
  <2>3. CASE nd = 2
    <3>1. j \in 0 .. 3
      BY <1>1, <2>3, OfLevel
    <3>2. Orders[2] = [k \in 0 .. 3 |-> k]
      BY DEF Orders
    <3> QED
      BY <2>3, <3>1, <3>2
  <2>4. CASE nd = 3
    <3>1. j \in 0 .. 7
      BY <1>1, <2>4, OfLevel
    <3>2. Orders[3] = [k \in 0 .. 7 |-> IF k = 3 THEN 4 ELSE IF k = 4 THEN 3 ELSE k]
      BY DEF Orders
    <3> QED
      BY <2>4, <3>1, <3>2
  <2> QED
    BY <2>1, <2>2, <2>3, <2>4
<1>3. \A i \in {1, 2, 3} : MaxOf(nd - i, 0) \in Nat
  BY DEF MaxOf
<1>4. \A i \in {1, 2, 3} : Bit(Orders[nd][j], MaxOf(nd - i, 0)) \in {0, 1}
  BY <1>2, <1>3, BitType
<1>5. Halves(nd, j) = <<Bit(Orders[nd][j], MaxOf(nd - 1, 0)), Bit(Orders[nd][j], MaxOf(nd - 2, 0)),
                        Bit(Orders[nd][j], MaxOf(nd - 3, 0))>>
  BY DEF Halves, Each
<1> QED
  BY <1>1, <1>4, <1>5

\* Every choice of halves but the lower ones only is a subband.
LEMMA AllHalves ==
    ASSUME NEW nd \in 1 .. 3, NEW h \in {0, 1} \X {0, 1} \X {0, 1},
           \E i \in 1 .. nd : h[i] = 1
    PROVE  \E j \in 1 .. 2 ^ nd - 1 : \A i \in 1 .. nd : Halves(nd, j)[i] = h[i]
<1>0. PICK a \in {0, 1}, b \in {0, 1}, c \in {0, 1} : h = <<a, b, c>>
  OBVIOUS
<1>1. \A x \in {0, 1} : /\ \A y \in Nat : ((2 * y + x) \div 1) % 2 = x
                        /\ \A y \in {0, 1} : ((2 * x + y) \div 2) % 2 = x
                        /\ \A y \in {0, 1} : \A z \in {0, 1} :
                              /\ ((4 * x + 2 * y + z) \div 4) % 2 = x
                              /\ ((4 * x + 2 * y + z) \div 2) % 2 = y
                              /\ ((4 * x + 2 * y + z) \div 1) % 2 = z
  OBVIOUS
<1>2. \A x \in Nat : /\ Bit(x, 0) = (x \div 1) % 2
                     /\ Bit(x, 1) = (x \div 2) % 2
                     /\ Bit(x, 2) = (x \div 4) % 2
  BY SmallPowers DEF Bit
<1>3. CASE nd = 1
  <2>1. a = 1
    BY <1>0, <1>3
  <2>2. Halves(1, 1)[1] = 1
    <3>1. Halves(1, 1)[1] = Bit(Orders[1][1], MaxOf(1 - 1, 0))
      BY DEF Halves, Each
    <3>2. MaxOf(1 - 1, 0) = 0 /\ Orders[1][1] = 1
      BY DEF MaxOf, Orders
    <3>3. (1 \div 1) % 2 = 1
      OBVIOUS
    <3> QED
      BY <1>2, <3>1, <3>2, <3>3
  <2>3. 1 \in 1 .. 2 ^ nd - 1
    BY <1>3, SmallPowers
  <2>4. \A i \in 1 .. nd : Halves(nd, 1)[i] = h[i]
    BY <1>0, <1>3, <2>1, <2>2
  <2> QED
    BY <2>3, <2>4
<1>4. CASE nd = 2
  <2>1. PICK j \in 1 .. 3 : j = 2 * a + b
    BY <1>0, <1>4
  <2>2. Orders[2][j] = j
    <3>1. Orders[2] = [k \in 0 .. 3 |-> k] /\ j \in 0 .. 3
      BY DEF Orders
    <3> QED
      BY <3>1
  <2>3. Halves(2, j)[1] = Bit(j, MaxOf(2 - 1, 0)) /\ Halves(2, j)[2] = Bit(j, MaxOf(2 - 2, 0))
    BY <2>2 DEF Halves, Each
  <2>4. MaxOf(2 - 1, 0) = 1 /\ MaxOf(2 - 2, 0) = 0
    BY DEF MaxOf
  <2>5. Bit(j, 1) = a /\ Bit(j, 0) = b
    <3>1. (j \div 2) % 2 = a /\ (j \div 1) % 2 = b
      BY <1>1, <2>1
    <3>2. j \in Nat
      OBVIOUS
    <3>3. Bit(j, 0) = (j \div 1) % 2 /\ Bit(j, 1) = (j \div 2) % 2
      BY <1>2, <3>2
    <3> QED
      BY <3>1, <3>3
  <2>6. j \in 1 .. 2 ^ nd - 1
    BY <1>4, SmallPowers
  <2>7. \A i \in 1 .. nd : Halves(nd, j)[i] = h[i]
    BY <1>0, <1>4, <2>3, <2>4, <2>5
  <2> QED
    BY <2>6, <2>7
<1>5. CASE nd = 3
  <2>1. PICK o \in 1 .. 7 : o = 4 * a + 2 * b + c
    BY <1>0, <1>5
  <2>2. PICK j \in 1 .. 7 : Orders[3][j] = o
    <3>1. Orders[3] = [k \in 0 .. 7 |-> IF k = 3 THEN 4 ELSE IF k = 4 THEN 3 ELSE k]
      BY DEF Orders
    <3>2. Orders[3][IF o = 3 THEN 4 ELSE IF o = 4 THEN 3 ELSE o] = o
      BY <3>1
    <3> QED
      BY <3>2
  <2>3. /\ Halves(3, j)[1] = Bit(o, MaxOf(3 - 1, 0)) /\ Halves(3, j)[2] = Bit(o, MaxOf(3 - 2, 0))
        /\ Halves(3, j)[3] = Bit(o, MaxOf(3 - 3, 0))
    BY <2>2 DEF Halves, Each
  <2>4. MaxOf(3 - 1, 0) = 2 /\ MaxOf(3 - 2, 0) = 1 /\ MaxOf(3 - 3, 0) = 0
    BY DEF MaxOf
  <2>5. Bit(o, 2) = a /\ Bit(o, 1) = b /\ Bit(o, 0) = c
    <3>1. (o \div 4) % 2 = a /\ (o \div 2) % 2 = b /\ (o \div 1) % 2 = c
      BY <1>1, <2>1
    <3>2. o \in Nat
      OBVIOUS
    <3>3. /\ Bit(o, 0) = (o \div 1) % 2 /\ Bit(o, 1) = (o \div 2) % 2
          /\ Bit(o, 2) = (o \div 4) % 2
      BY <1>2, <3>2
    <3> QED
      BY <3>1, <3>3
  <2>6. j \in 1 .. 2 ^ nd - 1
    BY <1>5, SmallPowers
  <2>7. \A i \in 1 .. nd : Halves(nd, j)[i] = h[i]
    BY <1>0, <1>5, <2>3, <2>4, <2>5
  <2> QED
    BY <2>6, <2>7
<1> QED
  BY <1>3, <1>4, <1>5

\* The subbands of a level, and their numbers.
PerLevel(n) == 2 ^ NumDims(n) - 1

\* The subbands are the coarsest one and, for each level, those of its upper
\* halves.
LEMMA BandNumbers ==
    ASSUME NEW n \in Lengths, NEW levels \in Nat
    PROVE  /\ PerLevel(n) \in Nat /\ levels * PerLevel(n) \in Nat
           /\ DOMAIN SubbandExtents(n, levels) = 1 .. 1 + levels * PerLevel(n)
           /\ SubbandExtents(n, levels)[1] = Extent(Vec(0), DimsLeft(n, levels))
           /\ \A s \in 2 .. 1 + levels * PerLevel(n) :
                \E l \in 0 .. levels - 1 : \E j \in 1 .. PerLevel(n) :
                   SubbandExtents(n, levels)[s] = ExtentOf(n, l, j)
           /\ \A l \in 0 .. levels - 1 : \A j \in 1 .. PerLevel(n) :
                \E s \in 1 .. 1 + levels * PerLevel(n) :
                   SubbandExtents(n, levels)[s] = ExtentOf(n, l, j)
<1>0. PICK c, sbs : c = 2 ^ NumDims(n) - 1 /\ sbs = SubbandExtents(n, levels)
  OBVIOUS
<1>1. c \in Nat /\ c = PerLevel(n)
  BY <1>0, OfLevel DEF PerLevel
<1>2. PICK t \in Nat : t = levels * c
  BY <1>1
<1>3. sbs = [s \in 1 .. 1 + t |->
               IF s = 1 THEN Extent(Vec(0), DimsLeft(n, levels))
               ELSE ExtentOf(n, levels - 1 - (s - 2) \div c, ((s - 2) % c) + 1)]
  BY <1>0, <1>2 DEF SubbandExtents, Levels
<1>4. sbs[1] = Extent(Vec(0), DimsLeft(n, levels))
  BY <1>3
<1>5. ASSUME NEW s \in 2 .. 1 + t
      PROVE  \E l \in 0 .. levels - 1 : \E j \in 1 .. c : sbs[s] = ExtentOf(n, l, j)
  <2>1. c # 0
    BY <1>2
  <2>2. PICK k \in Nat : k = s - 2 /\ k < levels * c
    BY <1>2
  <2>3. PICK q \in Nat, r \in 0 .. c - 1 : q = k \div c /\ r = k % c /\ k = q * c + r
    <3>1. c \in Nat \ {0}
      BY <1>1, <2>1
    <3> QED
      BY <3>1, Divided
  <2>4. q < levels
    <3>1. SUFFICES ASSUME levels <= q PROVE FALSE
      OBVIOUS
    <3>2. levels * c <= q * c
      BY <1>1, <3>1, Product
    <3>3. levels * c \in Nat /\ q * c \in Nat
      BY <1>1
    <3> QED
      BY <1>1, <2>2, <2>3, <3>2, <3>3
  <2>5. sbs[s] = ExtentOf(n, levels - 1 - q, r + 1)
    <3>1. s \in 1 .. 1 + t /\ s # 1
      OBVIOUS
    <3>2. sbs[s] = ExtentOf(n, levels - 1 - (s - 2) \div c, ((s - 2) % c) + 1)
      BY <1>3, <3>1
    <3> QED
      BY <2>2, <2>3, <3>2
  <2>6. levels - 1 - q \in 0 .. levels - 1 /\ r + 1 \in 1 .. c
    BY <1>1, <2>4
  <2> QED
    BY <2>5, <2>6
<1>6. ASSUME NEW l \in 0 .. levels - 1, NEW j \in 1 .. c
      PROVE  \E s \in 1 .. 1 + t : sbs[s] = ExtentOf(n, l, j)
  <2>1. PICK q \in Nat, r \in 0 .. c - 1, k \in Nat :
           q = levels - 1 - l /\ r = j - 1 /\ k = q * c + r
    <3>1. PICK x \in Nat, y \in 0 .. c - 1 : x = levels - 1 - l /\ y = j - 1
      BY <1>1
    <3>2. x * c + y \in Nat
      BY <1>1
    <3> QED
      BY <3>1, <3>2
  <2>2. c \in Nat \ {0}
    BY <1>1
  <2>3. (k \div c) = q /\ (k % c) = r
    <3>1. q \in Nat /\ r \in Nat /\ r < c /\ k = q * c + r
      BY <2>1, <2>2
    <3> QED
      BY <2>2, <3>1, DivMod
  <2>4. k < t
    <3>1. q + 1 <= levels /\ q + 1 \in Nat
      BY <2>1
    <3>2. (q + 1) * c <= levels * c
      BY <1>1, <3>1, Product
    <3>3. (q + 1) * c = q * c + c /\ q * c \in Nat
      BY <1>1
    <3> QED
      BY <1>1, <1>2, <2>1, <3>2, <3>3
  <2>5. k + 2 \in 1 .. 1 + t /\ k + 2 # 1 /\ k + 2 - 2 = k
    BY <2>4
  <2>6. sbs[k + 2] = ExtentOf(n, levels - 1 - (k + 2 - 2) \div c, ((k + 2 - 2) % c) + 1)
    BY <1>3, <2>5
  <2>7. levels - 1 - q = l /\ r + 1 = j
    BY <2>1
  <2>8. sbs[k + 2] = ExtentOf(n, l, j)
    BY <2>3, <2>5, <2>6, <2>7
  <2> QED
    BY <2>5, <2>8
<1>7. DOMAIN sbs = 1 .. 1 + t
  BY <1>3
<1> QED
  BY <1>0, <1>1, <1>2, <1>4, <1>5, <1>6, <1>7

\* What fits is what was packed.
Vectors == Nat \X Nat \X Nat

\* An extent within the volume is read back from its 64 bits as it was.
LEMMA ExtentFits ==
    ASSUME NEW n \in Lengths, NEW f \in Vectors, NEW d \in Vectors,
           \A i \in Axes : f[i] <= n[i] /\ d[i] <= n[i]
    PROVE  Extent(f, d) = [from |-> f, dims |-> d, strd |-> Vec(1)]
<1>1. \A i \in Axes : n[i] \in Nat /\ n[i] < PackLimit
  BY LengthsFit
<1>2. PackLimit \in Nat /\ 1 < PackLimit
  BY LimitNat
<1>3. \A i \in Axes : f[i] \in Nat /\ d[i] \in Nat
  BY DEF Vectors, Axes
<1>4. ASSUME NEW i \in Axes
      PROVE  f[i] < PackLimit /\ d[i] < PackLimit
  <2>1. n[i] \in Nat /\ n[i] < PackLimit /\ f[i] \in Nat /\ d[i] \in Nat
    BY <1>1, <1>3
  <2>2. f[i] <= n[i] /\ d[i] <= n[i]
    OBVIOUS
  <2> QED
    BY <1>2, <2>1, <2>2
<1>5. Packed(f) = f /\ Packed(d) = d
  BY <1>4, PackedVector DEF Vectors
<1>6. Packed(Vec(1)) = Vec(1)
  <2>1. Vec(1) \in Nat \X Nat \X Nat /\ \A i \in Axes : Vec(1)[i] < PackLimit
    BY <1>2 DEF Vec, Axes
  <2> QED
    BY <2>1, PackedVector
<1> QED
  BY <1>5, <1>6 DEF Extent, Grid

\* What ExtentOf makes of an axis: nothing but naturals no larger than n.
LEMMA BandOf ==
    ASSUME NEW n \in Lengths, NEW l \in Nat, NEW j \in 1 .. 2 ^ NumDims(n) - 1
    PROVE  /\ ExtentOf(n, l, j).from \in Vectors /\ ExtentOf(n, l, j).dims \in Vectors
           /\ LET nd == NumDims(n)
                  h == Halves(nd, j)
                  sm == SubbandDims(n, l, h)
                  kept == IF nd \in {2, 3} /\ Exists(nd, sm) THEN nd ELSE 1
              IN \A i \in Axes :
                   /\ ExtentOf(n, l, j).from[i] =
                        IF i <= kept /\ h[i] = 1 THEN DimsLeft(n, l + 1)[i] ELSE 0
                   /\ ExtentOf(n, l, j).dims[i] =
                        IF i > kept THEN 1
                        ELSE IF h[i] = 0 THEN DimsLeft(n, l + 1)[i]
                        ELSE DimsLeft(n, l)[i] - DimsLeft(n, l + 1)[i]
<1>1. PICK nd \in 0 .. 3 : nd = NumDims(n)
  BY Dimensions
<1>2. PICK h \in {0, 1} \X {0, 1} \X {0, 1} : h = Halves(nd, j)
  BY <1>1, HalvesType
<1>3. PICK sm : sm = SubbandDims(n, l, h)
  OBVIOUS
<1>4. PICK kept \in 0 .. 3 : kept = IF nd \in {2, 3} /\ Exists(nd, sm) THEN nd ELSE 1
  OBVIOUS
<1>5. PICK x, y : x = DimsLeft(n, l) /\ y = DimsLeft(n, l + 1)
  OBVIOUS
<1>6. \A i \in Axes : n[i] \in Nat /\ x[i] \in 1 .. n[i] /\ y[i] \in 1 .. x[i] /\ h[i] \in {0, 1}
  BY <1>2, <1>5, LeftFacts, LengthsFit DEF Axes
<1>7. \A i \in Axes : sm[i] = IF h[i] = 0 THEN y[i] ELSE x[i] - y[i]
  BY <1>3, <1>5 DEF SubbandDims, Each, Axes
<1> DEFINE f(i) == IF i <= kept THEN h[i] * y[i] ELSE 0
           d(i) == IF i <= kept THEN sm[i] ELSE 1
<1>8. ASSUME NEW i \in Axes
      PROVE  /\ f(i) \in Nat /\ f(i) <= n[i] /\ d(i) \in Nat /\ d(i) <= n[i]
             /\ f(i) = IF i <= kept /\ h[i] = 1 THEN y[i] ELSE 0
             /\ d(i) = IF i > kept THEN 1 ELSE IF h[i] = 0 THEN y[i] ELSE x[i] - y[i]
  <2>1. n[i] \in Nat /\ x[i] \in 1 .. n[i] /\ y[i] \in 1 .. x[i] /\ h[i] \in {0, 1}
    BY <1>6
  <2>2. PICK X \in Nat, Y \in Nat : X = x[i] /\ Y = y[i] /\ Y <= X /\ 1 <= Y /\ X <= n[i]
    BY <2>1
  <2>3. i \in Nat
    BY DEF Axes
  <2>4. CASE h[i] = 0
    <3>1. h[i] * y[i] = 0 /\ sm[i] = Y
      BY <1>7, <2>2, <2>4
    <3> QED
      BY <2>1, <2>2, <2>3, <2>4, <3>1
  <2>5. CASE h[i] = 1
    <3>1. h[i] * y[i] = Y /\ sm[i] = X - Y
      BY <1>7, <2>2, <2>5
    <3> QED
      BY <2>1, <2>2, <2>3, <2>5, <3>1
  <2> QED
    BY <2>1, <2>4, <2>5
<1>9. PICK from, dims : from = <<f(1), f(2), f(3)>> /\ dims = <<d(1), d(2), d(3)>>
  OBVIOUS
<1>10. ExtentOf(n, l, j) = Extent(from, dims)
  BY <1>1, <1>2, <1>3, <1>4, <1>5, <1>9 DEF ExtentOf, Each
<1> HIDE DEF f, d
<1>11. /\ 1 \in Axes /\ 2 \in Axes /\ 3 \in Axes
       /\ \A i \in Axes : from[i] = f(i) /\ dims[i] = d(i)
  BY <1>9 DEF Axes
<1>12. from \in Vectors /\ dims \in Vectors
  <2>1. f(1) \in Nat /\ f(2) \in Nat /\ f(3) \in Nat
    BY <1>8, <1>11
  <2>2. d(1) \in Nat /\ d(2) \in Nat /\ d(3) \in Nat
    BY <1>8, <1>11
  <2> QED
    BY <1>9, <2>1, <2>2 DEF Vectors
<1>13. ExtentOf(n, l, j).from = from /\ ExtentOf(n, l, j).dims = dims
  <2>1. \A i \in Axes : from[i] <= n[i] /\ dims[i] <= n[i]
    BY <1>8, <1>11, ZenonT(60)
  <2>2. Extent(from, dims) = [from |-> from, dims |-> dims, strd |-> Vec(1)]
    BY <1>12, <2>1, ExtentFits
  <2> QED
    BY <1>10, <2>2
<1>14. \A i \in Axes : ExtentOf(n, l, j).from[i] = f(i) /\ ExtentOf(n, l, j).dims[i] = d(i)
  BY <1>11, <1>13
<1>15. ExtentOf(n, l, j).from \in Vectors /\ ExtentOf(n, l, j).dims \in Vectors
  BY <1>12, <1>13
<1>16. \A i \in Axes :
          /\ ExtentOf(n, l, j).from[i] = IF i <= kept /\ h[i] = 1 THEN y[i] ELSE 0
          /\ ExtentOf(n, l, j).dims[i] =
               IF i > kept THEN 1 ELSE IF h[i] = 0 THEN y[i] ELSE x[i] - y[i]
  BY <1>8, <1>14
<1> QED
  BY <1>1, <1>2, <1>3, <1>4, <1>5, <1>15, <1>16

\* Every subband has a start and dimensions, which may be zero.
LEMMA BandShape ==
    ASSUME NEW n \in Lengths, NEW levels \in Nat, NEW sbs, sbs = SubbandExtents(n, levels),
           NEW s \in DOMAIN sbs
    PROVE  sbs[s].from \in Vectors /\ sbs[s].dims \in Vectors
<1>1. PICK c \in Nat : c = PerLevel(n)
  BY BandNumbers
<1>2. /\ levels * c \in Nat /\ DOMAIN sbs = 1 .. 1 + levels * c
      /\ sbs[1] = Extent(Vec(0), DimsLeft(n, levels))
      /\ \A u \in 2 .. 1 + levels * c :
           \E l \in 0 .. levels - 1 : \E j \in 1 .. c : sbs[u] = ExtentOf(n, l, j)
      /\ \A l \in 0 .. levels - 1 : \A j \in 1 .. c :
           \E u \in 1 .. 1 + levels * c : sbs[u] = ExtentOf(n, l, j)
  BY <1>1, BandNumbers
<1>3. CASE s = 1
  <2>1. PICK x \in Sizes : x = DimsLeft(n, levels) /\ \A i \in Axes : x[i] \in 1 .. n[i]
    BY LeftFacts
  <2>2. Vec(0) \in Vectors /\ x \in Vectors
    BY DEF Vec, Vectors, Sizes
  <2>3. \A i \in Axes : Vec(0)[i] <= n[i] /\ x[i] <= n[i]
    <3>1. \A i \in Axes : Vec(0)[i] = 0 /\ n[i] \in Nat
      BY LengthsFit DEF Vec, Axes
    <3>2. ASSUME NEW i \in Axes
          PROVE  Vec(0)[i] <= n[i] /\ x[i] <= n[i]
      <4>1. Vec(0)[i] = 0 /\ n[i] \in Nat /\ x[i] \in 1 .. n[i]
        BY <2>1, <3>1
      <4> QED
        BY <4>1
    <3> QED
      BY <3>2
  <2>4. Extent(Vec(0), x) = [from |-> Vec(0), dims |-> x, strd |-> Vec(1)]
    BY <2>2, <2>3, ExtentFits
  <2> QED
    BY <1>2, <1>3, <2>1, <2>2, <2>4
<1>4. CASE s # 1
  <2>1. s \in 2 .. 1 + levels * c
    BY <1>2, <1>4
  <2>2. PICK l \in 0 .. levels - 1 : \E j \in 1 .. c : sbs[s] = ExtentOf(n, l, j)
    BY <1>2, <2>1
  <2>3. PICK j \in 1 .. c : sbs[s] = ExtentOf(n, l, j)
    BY <2>2
  <2> QED
    BY <1>1, <2>3, BandOf DEF PerLevel
<1> QED
  BY <1>3, <1>4

\* A position is in a subband.
In(e, p) == \A i \in Axes : e.from[i] <= p[i] /\ p[i] < e.from[i] + e.dims[i]

\* A position in what is left to a level, but not to the next, is in an upper
\* half of it.
LEMMA Peeled ==
    ASSUME NEW n \in Lengths, FlatLast(n), NEW l \in Nat,
           NEW p \in Box(DimsLeft(n, l)), p \notin Box(DimsLeft(n, l + 1))
    PROVE  \E j \in 1 .. 2 ^ NumDims(n) - 1 : In(ExtentOf(n, l, j), p)
<1>1. PICK nd \in 0 .. 3 : nd = NumDims(n)
  BY Dimensions
<1>2. PICK x, y : x = DimsLeft(n, l) /\ y = DimsLeft(n, l + 1)
  OBVIOUS
<1>3. p = <<p[1], p[2], p[3]>> /\ \A i \in Axes : p[i] \in Nat
  BY <1>2 DEF Box, Axes
<1>4. ASSUME NEW i \in Axes
      PROVE  /\ n[i] \in Nat /\ x[i] \in Nat /\ y[i] \in Nat /\ p[i] \in Nat
             /\ 1 <= y[i] /\ y[i] <= x[i] /\ x[i] <= n[i] /\ p[i] < x[i]
             /\ i > nd => y[i] = 1 /\ p[i] = 0
  <2>1. n[i] \in Nat /\ x[i] \in 1 .. n[i] /\ y[i] \in 1 .. x[i]
    BY <1>2, LeftFacts, LengthsFit
  <2>2. p[i] \in 0 .. x[i] - 1
    BY <1>2 DEF Box, Axes
  <2>3. i > nd => n[i] = 1
    BY <1>1 DEF FlatLast
  <2> QED
    BY <2>1, <2>2, <2>3
<1> DEFINE half(i) == IF i <= nd /\ y[i] <= p[i] THEN 1 ELSE 0
<1>5. PICK h : h = <<half(1), half(2), half(3)>>
  OBVIOUS
<1>6. \A i \in Axes : h[i] \in {0, 1} /\ (h[i] = 1 <=> y[i] <= p[i])
  <2>1. \A i \in Axes : h[i] = half(i)
    BY <1>5 DEF Axes
  <2>2. ASSUME NEW i \in Axes
        PROVE  half(i) \in {0, 1} /\ (half(i) = 1 <=> y[i] <= p[i])
    <3>1. i \in Nat
      BY DEF Axes
    <3>2. y[i] <= p[i] => i <= nd
      BY <1>4, <3>1
    <3> QED
      BY <3>2
  <2> HIDE DEF half
  <2>3. ASSUME NEW i \in Axes
        PROVE  h[i] \in {0, 1} /\ (h[i] = 1 <=> y[i] <= p[i])
    <3>1. h[i] = half(i)
      BY <2>1
    <3>2. half(i) \in {0, 1} /\ (half(i) = 1 <=> y[i] <= p[i])
      BY <2>2
    <3> QED
      BY <3>1, <3>2
  <2> QED
    BY <2>3
<1>7. \E i \in 1 .. nd : h[i] = 1
  <2>1. SUFFICES ASSUME \A i \in 1 .. nd : h[i] # 1 PROVE FALSE
    OBVIOUS
  <2>2. ASSUME NEW i \in Axes
        PROVE  p[i] < y[i]
    <3>1. CASE i <= nd
      <4>1. i \in 1 .. nd
        BY <3>1 DEF Axes
      <4>2. ~ (y[i] <= p[i])
        BY <1>6, <2>1, <4>1
      <4> QED
        BY <1>4, <4>2
    <3>2. CASE i > nd
      BY <1>4, <3>2
    <3> QED
      BY <3>1, <3>2 DEF Axes
  <2>3. p[1] \in 0 .. y[1] - 1 /\ p[2] \in 0 .. y[2] - 1 /\ p[3] \in 0 .. y[3] - 1
    BY <1>4, <2>2 DEF Axes
  <2>4. p \in Box(y)
    BY <1>3, <2>3 DEF Box
  <2> QED
    BY <1>2, <2>4
<1>8. nd \in 1 .. 3
  BY <1>7
<1>9. PICK j \in 1 .. 2 ^ nd - 1 : \A i \in 1 .. nd : Halves(nd, j)[i] = h[i]
  <2>1. h \in {0, 1} \X {0, 1} \X {0, 1}
    BY <1>5
  <2>2. \E i \in 1 .. nd : h[i] = 1
    BY <1>7
  <2> QED
    BY <1>8, <2>1, <2>2, AllHalves
<1>10. PICK g \in {0, 1} \X {0, 1} \X {0, 1} : g = Halves(nd, j)
  BY <1>1, <1>9, HalvesType
<1>11. \A i \in 1 .. nd : g[i] = h[i]
  BY <1>9, <1>10
<1>12. PICK sm : sm = SubbandDims(n, l, g)
  OBVIOUS
<1>13. Exists(nd, sm)
  <2>1. ASSUME NEW i \in 1 .. nd
        PROVE  sm[i] # 0
    <3>1. i \in Axes
      BY <1>8 DEF Axes
    <3>2. sm[i] = IF g[i] = 0 THEN y[i] ELSE x[i] - y[i]
      BY <1>2, <1>12, <3>1 DEF SubbandDims, Each, Axes
    <3>3. g[i] = h[i]
      BY <1>11
    <3>4. CASE h[i] = 0
      BY <1>4, <3>1, <3>2, <3>3, <3>4
    <3>5. CASE h[i] = 1
      <4>1. y[i] <= p[i]
        BY <1>6, <3>1, <3>5
      <4>2. sm[i] = x[i] - y[i]
        BY <3>2, <3>3, <3>5
      <4> QED
        BY <1>4, <3>1, <4>1, <4>2
    <3> QED
      BY <1>6, <3>1, <3>4, <3>5
  <2> QED
    BY <2>1 DEF Exists
<1>14. (IF nd \in {2, 3} /\ Exists(nd, sm) THEN nd ELSE 1) = nd
  BY <1>8, <1>13
<1>15. \A i \in Axes :
          /\ ExtentOf(n, l, j).from[i] = IF i <= nd /\ g[i] = 1 THEN y[i] ELSE 0
          /\ ExtentOf(n, l, j).dims[i] =
               IF i > nd THEN 1 ELSE IF g[i] = 0 THEN y[i] ELSE x[i] - y[i]
  <2>1. j \in 1 .. 2 ^ NumDims(n) - 1
    BY <1>1
  <2>2. LET kept == IF nd \in {2, 3} /\ Exists(nd, sm) THEN nd ELSE 1
        IN \A i \in Axes :
             /\ ExtentOf(n, l, j).from[i] = IF i <= kept /\ g[i] = 1 THEN y[i] ELSE 0
             /\ ExtentOf(n, l, j).dims[i] =
                  IF i > kept THEN 1 ELSE IF g[i] = 0 THEN y[i] ELSE x[i] - y[i]
    BY <1>1, <1>2, <1>10, <1>12, <2>1, BandOf
  <2> QED
    BY <1>14, <2>2
<1>16. PICK e : e = ExtentOf(n, l, j)
  OBVIOUS
<1>17. ASSUME NEW i \in Axes
       PROVE  e.from[i] <= p[i] /\ p[i] < e.from[i] + e.dims[i]
  <2>1. /\ e.from[i] = IF i <= nd /\ g[i] = 1 THEN y[i] ELSE 0
        /\ e.dims[i] = IF i > nd THEN 1 ELSE IF g[i] = 0 THEN y[i] ELSE x[i] - y[i]
    BY <1>15, <1>16
  <2>2. /\ n[i] \in Nat /\ x[i] \in Nat /\ y[i] \in Nat /\ p[i] \in Nat
        /\ 1 <= y[i] /\ y[i] <= x[i] /\ x[i] <= n[i] /\ p[i] < x[i]
        /\ i > nd => y[i] = 1 /\ p[i] = 0
    BY <1>4
  <2>3. CASE i > nd
    <3>1. ~ (i <= nd)
      BY <2>3 DEF Axes
    <3> QED
      BY <2>1, <2>2, <2>3, <3>1
  <2>4. CASE i <= nd
    <3>1. i \in 1 .. nd /\ ~ (i > nd)
      BY <2>4 DEF Axes
    <3>2. g[i] \in {0, 1} /\ (g[i] = 1 <=> y[i] <= p[i])
      BY <1>6, <1>11, <3>1
    <3>3. CASE g[i] = 1
      <4>1. e.from[i] = y[i] /\ e.dims[i] = x[i] - y[i] /\ y[i] <= p[i]
        BY <2>1, <2>4, <3>1, <3>2, <3>3
      <4> QED
        BY <2>2, <4>1
    <3>4. CASE g[i] = 0
      <4>1. e.from[i] = 0 /\ e.dims[i] = y[i] /\ ~ (y[i] <= p[i])
        BY <2>1, <2>4, <3>1, <3>2, <3>4
      <4> QED
        BY <2>2, <4>1
    <3> QED
      BY <3>2, <3>3, <3>4
  <2> QED
    BY <2>3, <2>4 DEF Axes
<1>18. In(e, p)
  BY <1>17 DEF In
<1> QED
  BY <1>1, <1>16, <1>18

\* The subbands of the codec cover the volume, also when an axis is used up.
THEOREM Covered ==
    ASSUME NEW n \in Lengths, FlatLast(n), NEW levels \in Nat, NEW p \in Box(n),
           NEW sbs, sbs = SubbandExtents(n, levels)
    PROVE  \E s \in DOMAIN sbs : In(sbs[s], p)
<1>1. PICK c \in Nat : c = PerLevel(n)
  BY BandNumbers
<1>2. /\ levels * c \in Nat /\ DOMAIN sbs = 1 .. 1 + levels * c
      /\ sbs[1] = Extent(Vec(0), DimsLeft(n, levels))
      /\ \A s \in 2 .. 1 + levels * c :
           \E l \in 0 .. levels - 1 : \E j \in 1 .. c : sbs[s] = ExtentOf(n, l, j)
      /\ \A l \in 0 .. levels - 1 : \A j \in 1 .. c :
           \E s \in 1 .. 1 + levels * c : sbs[s] = ExtentOf(n, l, j)
  BY <1>1, BandNumbers
<1>3. CASE p \in Box(DimsLeft(n, levels))
  <2>1. PICK x \in Sizes : x = DimsLeft(n, levels) /\ \A i \in Axes : x[i] \in 1 .. n[i]
    BY LeftFacts
  <2>2. Vec(0) \in Vectors /\ x \in Vectors
    BY DEF Vec, Vectors, Sizes
  <2>3. \A i \in Axes : Vec(0)[i] = 0 /\ n[i] \in Nat
    BY LengthsFit DEF Vec, Axes
  <2>4. ASSUME NEW i \in Axes
        PROVE  Vec(0)[i] <= n[i] /\ x[i] <= n[i]
    <3>1. Vec(0)[i] = 0 /\ n[i] \in Nat /\ x[i] \in 1 .. n[i]
      BY <2>1, <2>3
    <3> QED
      BY <3>1
  <2>5. Extent(Vec(0), x) = [from |-> Vec(0), dims |-> x, strd |-> Vec(1)]
    BY <2>2, <2>4, ExtentFits
  <2>6. \A i \in Axes : p[i] \in 0 .. x[i] - 1 /\ x[i] \in Nat
    BY <1>3, <2>1 DEF Box, Axes, Sizes
  <2>7. In(sbs[1], p)
    <3>1. sbs[1].from = Vec(0) /\ sbs[1].dims = x
      BY <1>2, <2>1, <2>5
    <3>2. ASSUME NEW i \in Axes
          PROVE  sbs[1].from[i] <= p[i] /\ p[i] < sbs[1].from[i] + sbs[1].dims[i]
      <4>1. sbs[1].from[i] = 0 /\ sbs[1].dims[i] = x[i]
        BY <2>3, <3>1
      <4> QED
        BY <2>6, <4>1
    <3> QED
      BY <3>2 DEF In
  <2> QED
    BY <1>2, <2>7
<1>4. CASE p \notin Box(DimsLeft(n, levels))
  <2> DEFINE T == {l \in Nat : l <= levels /\ p \notin Box(DimsLeft(n, l))}
  <2>1. levels \in T /\ T \subseteq Nat
    BY <1>4
  <2>2. PICK k \in T : \A l \in T : k <= l
    BY <2>1, Least
  <2>3. k # 0
    BY <2>2, LeftFacts
  <2>4. PICK l \in Nat : k = l + 1
    <3>1. k - 1 \in Nat /\ k = (k - 1) + 1
      BY <2>1, <2>3
    <3> QED
      BY <3>1
  <2>5. l \notin T /\ l <= levels
    BY <2>2, <2>4
  <2>6. p \in Box(DimsLeft(n, l)) /\ p \notin Box(DimsLeft(n, l + 1)) /\ l \in 0 .. levels - 1
    BY <2>4, <2>5
  <2>7. PICK j \in 1 .. c : In(ExtentOf(n, l, j), p)
    BY <1>1, <2>6, Peeled DEF PerLevel
  <2>8. PICK s \in 1 .. 1 + levels * c : sbs[s] = ExtentOf(n, l, j)
    BY <1>2, <2>6
  <2> QED
    BY <1>2, <2>7, <2>8
<1> QED
  BY <1>3, <1>4

-----------------------------------------------------------------------------
(* The numbers of the tiles.                                               *)

\* The number of tiles before each subband.
LEMMA Counted ==
    ASSUME NEW K \in Nat \ {0}, NEW c \in [1 .. K -> Nat]
    PROVE  \E G \in [1 .. K -> Nat] :
              G[1] = 0 /\ \A s \in 1 .. K - 1 : G[s + 1] = G[s] + c[s]
<1> DEFINE Good(m) == \E G \in [1 .. m -> Nat] :
                         G[1] = 0 /\ \A s \in 1 .. m - 1 : G[s + 1] = G[s] + c[s]
           T == {m \in 1 .. K : ~Good(m)}
<1>1. SUFFICES ASSUME T # {} PROVE FALSE
  <2>1. K \in 1 .. K
    OBVIOUS
  <2> QED
    BY <2>1
<1>2. PICK m \in T : \A y \in T : m <= y
  <2>1. T \subseteq Nat
    OBVIOUS
  <2> QED
    BY <1>1, <2>1, Least
<1>3. m \in 1 .. K /\ ~Good(m)
  OBVIOUS
<1>4. m # 1
  <2>1. [s \in 1 .. 1 |-> 0] \in [1 .. 1 -> Nat] /\ [s \in 1 .. 1 |-> 0][1] = 0
    OBVIOUS
  <2>2. \A s \in 1 .. 1 - 1 : FALSE
    OBVIOUS
  <2>3. Good(1)
    BY <2>1, <2>2
  <2> QED
    BY <1>3, <2>3
<1>5. PICK l \in 1 .. K : m = l + 1 /\ Good(l)
  <2>1. m - 1 \in 1 .. K /\ m = (m - 1) + 1
    BY <1>3, <1>4
  <2>2. m - 1 \in T => m <= m - 1
    BY <1>2
  <2>3. m - 1 \notin T
    <3> HIDE DEF T
    <3> QED
      BY <1>3, <2>2
  <2> QED
    BY <2>1, <2>3
<1>6. PICK G \in [1 .. l -> Nat] :
         G[1] = 0 /\ \A s \in 1 .. l - 1 : G[s + 1] = G[s] + c[s]
  BY <1>5
<1>7. PICK H : H = [s \in 1 .. l + 1 |-> IF s = l + 1 THEN G[l] + c[l] ELSE G[s]]
  OBVIOUS
<1>8. H \in [1 .. l + 1 -> Nat]
  BY <1>7
<1>9. H[1] = 0
  BY <1>6, <1>7
<1>10. ASSUME NEW s \in 1 .. (l + 1) - 1 PROVE H[s + 1] = H[s] + c[s]
  <2>1. CASE s = l
    <3>1. l \in 1 .. l + 1 /\ l + 1 \in 1 .. l + 1 /\ l # l + 1
      OBVIOUS
    <3>2. H[l + 1] = G[l] + c[l] /\ H[l] = G[l]
      BY <1>7, <3>1
    <3> QED
      BY <2>1, <3>2
  <2>2. CASE s # l
    <3>1. s \in 1 .. l - 1 /\ s + 1 \in 1 .. l + 1 /\ s + 1 # l + 1 /\ s # l + 1
      BY <2>2
    <3> QED
      BY <1>6, <1>7, <3>1
  <2> QED
    BY <2>1, <2>2
<1>11. Good(l + 1)
  <2>1. H[1] = 0 /\ \A s \in 1 .. (l + 1) - 1 : H[s + 1] = H[s] + c[s]
    BY <1>9, <1>10
  <2> HIDE DEF T
  <2>2. SUFFICES \E F \in [1 .. l + 1 -> Nat] :
                    F[1] = 0 /\ \A s \in 1 .. (l + 1) - 1 : F[s + 1] = F[s] + c[s]
    OBVIOUS
  <2> WITNESS H \in [1 .. l + 1 -> Nat]
  <2> QED
    BY <2>1
<1> QED
  BY <1>3, <1>5, <1>11

\* Two subbands' tiles have numbers apart.
LEMMA Apart ==
    ASSUME NEW K \in Nat \ {0}, NEW c \in [1 .. K -> Nat], NEW G \in [1 .. K -> Nat],
           \A s \in 1 .. K - 1 : G[s + 1] = G[s] + c[s],
           NEW s \in 1 .. K, NEW u \in 1 .. K, s < u
    PROVE  G[s] + c[s] <= G[u]
<1>0. PICK b \in Nat : b = G[s] + c[s]
  <2>1. G[s] \in Nat /\ c[s] \in Nat
    OBVIOUS
  <2> QED
    BY <2>1
<1> DEFINE T == {x \in 1 .. K : s < x /\ G[x] < b}
<1>1. SUFFICES ASSUME T # {} PROVE FALSE
  <2>1. u \notin T /\ G[u] \in Nat
    OBVIOUS
  <2> QED
    BY <1>0, <2>1
<1>2. PICK m \in T : \A y \in T : m <= y
  <2>1. T \subseteq Nat
    OBVIOUS
  <2> QED
    BY <1>1, <2>1, Least
<1>3. PICK l \in 1 .. K - 1 : m = l + 1 /\ s <= l
  <2>1. m - 1 \in 1 .. K - 1 /\ m = (m - 1) + 1 /\ s <= m - 1
    OBVIOUS
  <2> QED
    BY <2>1
<1>4. G[m] = G[l] + c[l]
  BY <1>3
<1>5. PICK x \in Nat, y \in Nat : x = G[l] /\ y = c[l]
  <2>1. G[l] \in Nat /\ c[l] \in Nat
    BY <1>3
  <2> QED
    BY <2>1
<1>6. x + y < b
  BY <1>2, <1>4, <1>5
<1>7. l \notin T
  <2>1. l \in T => m <= l
    BY <1>2
  <2> HIDE DEF T
  <2> QED
    BY <1>3, <2>1
<1>8. CASE l = s
  BY <1>0, <1>5, <1>6, <1>8
<1>9. CASE l # s
  <2>1. ~(x < b)
    BY <1>3, <1>5, <1>7, <1>9
  <2> QED
    BY <1>6, <2>1
<1> QED
  BY <1>8, <1>9

\* NTilesInSubbands adds up the tiles of the subbands before.
LEMMA Summed ==
    ASSUME NEW K \in Nat \ {0}, NEW sbs, NEW c \in [1 .. K -> Nat],
           \A s \in 1 .. K : c[s] = Prod(NumTiles(sbs[s])),
           NEW G \in [1 .. K -> Nat], G[1] = 0,
           \A s \in 1 .. K - 1 : G[s + 1] = G[s] + c[s],
           NEW u \in 1 .. K
    PROVE  NTilesInSubbands(sbs, 1, u) = G[u]
<1> DEFINE Is(f) == f = [s \in 1 .. u |->
                           IF s = 1 THEN 0 ELSE f[s - 1] + Prod(NumTiles(sbs[s - 1]))]
<1>1. PICK f : f = CHOOSE g : Is(g)
  OBVIOUS
<1>2. NTilesInSubbands(sbs, 1, u) = f[u]
  BY <1>1 DEF NTilesInSubbands
<1>3. PICK g : g = [s \in 1 .. u |-> G[s]]
  OBVIOUS
<1>4. Is(g)
  <2>1. ASSUME NEW s \in 1 .. u, s # 1
        PROVE  g[s] = g[s - 1] + Prod(NumTiles(sbs[s - 1]))
    <3>1. PICK l \in 1 .. K - 1 : l = s - 1 /\ l + 1 = s /\ l \in 1 .. u
      <4>1. s - 1 \in 1 .. K - 1 /\ (s - 1) + 1 = s /\ s - 1 \in 1 .. u
        BY <2>1
      <4> QED
        BY <4>1
    <3>2. G[s] = G[l] + c[l] /\ c[l] = Prod(NumTiles(sbs[l]))
      BY <3>1
    <3> QED
      BY <1>3, <3>1, <3>2
  <2>2. 1 \in 1 .. u => g[1] = 0
    BY <1>3
  <2>3. g = [s \in 1 .. u |-> g[s]]
    BY <1>3
  <2>4. [s \in 1 .. u |-> g[s]] = [s \in 1 .. u |->
                           IF s = 1 THEN 0 ELSE g[s - 1] + Prod(NumTiles(sbs[s - 1]))]
    BY <2>1, <2>2
  <2> QED
    BY <2>3, <2>4
<1>5. Is(f)
  BY <1>1, <1>4
<1> DEFINE T == {s \in 1 .. u : f[s] # G[s]}
<1>6. SUFFICES ASSUME T # {} PROVE FALSE
  <2>1. u \in 1 .. u
    OBVIOUS
  <2> QED
    BY <1>2, <2>1
<1>7. PICK m \in T : \A y \in T : m <= y
  <2>1. T \subseteq Nat
    OBVIOUS
  <2> QED
    BY <1>6, <2>1, Least
<1>8. \A s \in 1 .. u : f[s] = IF s = 1 THEN 0 ELSE f[s - 1] + Prod(NumTiles(sbs[s - 1]))
  BY <1>5
<1>9. m # 1
  BY <1>7, <1>8
<1>10. PICK l \in 1 .. K - 1 : l = m - 1 /\ l + 1 = m /\ l \in 1 .. u
  <2>1. m - 1 \in 1 .. K - 1 /\ (m - 1) + 1 = m /\ m - 1 \in 1 .. u
    BY <1>9
  <2> QED
    BY <2>1
<1>11. f[l] = G[l]
  BY <1>7, <1>10
<1>12. f[m] = f[l] + Prod(NumTiles(sbs[l]))
  BY <1>8, <1>9, <1>10
<1> QED
  BY <1>7, <1>10, <1>11, <1>12, SMTT(20)

\* A subband has a number of tiles along each axis: none where it is empty.
LEMMA TilesOfBand ==
    ASSUME NEW sb, sb.dims \in Vectors
    PROVE  /\ NumTiles(sb) \in Vectors /\ Prod(NumTiles(sb)) \in Nat
           /\ Prod(NumTiles(sb)) # 0 => NumTiles(sb) \in Sizes
<1>1. \A i \in Axes : sb.dims[i] \in Nat
  BY DEF Vectors, Axes
<1>2. \A i \in Axes : TileDims[i] \in Nat \ {0}
  BY CasesAssumption
<1>3. ASSUME NEW i \in Axes
      PROVE  ((sb.dims[i] + TileDims[i] - 1) \div TileDims[i]) \in Nat
  <2>1. PICK d \in Nat, t \in Nat \ {0} : d = sb.dims[i] /\ t = TileDims[i]
    BY <1>1, <1>2
  <2>2. d + t - 1 \in Nat
    OBVIOUS
  <2>3. ((d + t - 1) \div t) \in Nat
    BY <2>2, Divided
  <2> QED
    BY <2>1, <2>3
<1>4. PICK x \in Nat, y \in Nat, z \in Nat : NumTiles(sb) = <<x, y, z>>
  BY <1>3 DEF NumTiles, Each, Axes
<1>5. Prod(NumTiles(sb)) = x * y * z
  BY <1>4 DEF Prod
<1>6. x * y * z \in Nat
  OBVIOUS
<1>7. x * y * z # 0 => x # 0 /\ y # 0 /\ z # 0
  OBVIOUS
<1> QED
  BY <1>4, <1>5, <1>6, <1>7 DEF Vectors, Sizes

\* Where tile k of a subband starts, how many samples it has, and its id.
LEMMA TileIs ==
    ASSUME NEW sbs, NEW s, NEW sb, sb = sbs[s], sb.from \in Vectors, sb.dims \in Vectors,
           NEW k \in Nat, k < Prod(NumTiles(sb)),
           NEW t, t = Position(NumTiles(sb), k)
    PROVE  /\ t \in Box(NumTiles(sb)) /\ Row(NumTiles(sb), t) = k
           /\ TileOf(sbs, s, k).id = NTilesInSubbands(sbs, 1, s) + k
           /\ \A i \in Axes :
                /\ TileOf(sbs, s, k).at[i] = sb.from[i] + t[i] * TileDims[i]
                /\ TileOf(sbs, s, k).real[i] =
                     MinOf(sb.from[i] + sb.dims[i] - TileOf(sbs, s, k).at[i], TileDims[i])
<1>1. NumTiles(sb) \in Sizes /\ k \in Indices(NumTiles(sb))
  <2>1. Prod(NumTiles(sb)) \in Nat /\ Prod(NumTiles(sb)) # 0
    BY TilesOfBand
  <2> QED
    BY <2>1, TilesOfBand DEF Indices
<1>2. t \in Box(NumTiles(sb)) /\ Row(NumTiles(sb), t) = k
  BY <1>1, PositionAt
<1>3. \A i \in Axes : sb.from[i] \in Nat /\ t[i] \in Nat /\ TileDims[i] \in Nat \ {0}
  <2>1. \A i \in Axes : sb.from[i] \in Nat
    BY DEF Vectors, Axes
  <2>2. \A i \in Axes : t[i] \in Nat
    <3>1. NumTiles(sb)[1] \in Nat /\ NumTiles(sb)[2] \in Nat /\ NumTiles(sb)[3] \in Nat
      BY <1>1 DEF Sizes
    <3> QED
      BY <1>2, <3>1 DEF Box, Axes
  <2> QED
    BY <2>1, <2>2, CasesAssumption
<1>4. PICK at : at = Each(LAMBDA i : sb.from[i] + t[i] * TileDims[i])
  OBVIOUS
<1>5. at = <<sb.from[1] + t[1] * TileDims[1], sb.from[2] + t[2] * TileDims[2],
             sb.from[3] + t[3] * TileDims[3]>>
  BY <1>4 DEF Each
<1>6. \A i \in Axes : at[i] = sb.from[i] + t[i] * TileDims[i]
  BY <1>5 DEF Axes
<1>7. ASSUME NEW i \in Axes
      PROVE  ((at[i] - sb.from[i]) \div TileDims[i]) = t[i]
  <2>1. PICK f \in Nat, x \in Nat, d \in Nat \ {0} :
           f = sb.from[i] /\ x = t[i] /\ d = TileDims[i]
    BY <1>3
  <2>2. at[i] = f + x * d
    BY <1>6, <2>1
  <2>3. PICK y \in Nat : y = x * d /\ y = x * d + 0
    <3>1. x * d \in Nat
      OBVIOUS
    <3> QED
      BY <3>1
  <2>4. f + y - f = y
    OBVIOUS
  <2>5. (y \div d) = x
    <3>1. 0 \in 0 .. d - 1
      OBVIOUS
    <3> QED
      BY <2>3, <3>1, DivMod
  <2> QED
    BY <2>1, <2>2, <2>3, <2>4, <2>5
<1>8. PICK u : u = Each(LAMBDA i : (at[i] - sb.from[i]) \div TileDims[i])
  OBVIOUS
<1>9. u = t
  <2>1. t = <<t[1], t[2], t[3]>>
    BY <1>2 DEF Box
  <2>2. u = <<(at[1] - sb.from[1]) \div TileDims[1], (at[2] - sb.from[2]) \div TileDims[2],
              (at[3] - sb.from[3]) \div TileDims[3]>>
    BY <1>8 DEF Each
  <2>3. 1 \in Axes /\ 2 \in Axes /\ 3 \in Axes
    BY DEF Axes
  <2> QED
    BY <1>7, <2>1, <2>2, <2>3
<1>10. PICK real : real = Each(LAMBDA i : MinOf(sb.from[i] + sb.dims[i] - at[i], TileDims[i]))
  OBVIOUS
<1>11. TileOf(sbs, s, k) =
         [at |-> at, real |-> real, id |-> NTilesInSubbands(sbs, 1, s) + Row(NumTiles(sb), u)]
  <2>2. u = <<(at[1] - sb.from[1]) \div TileDims[1], (at[2] - sb.from[2]) \div TileDims[2],
              (at[3] - sb.from[3]) \div TileDims[3]>>
    BY <1>8 DEF Each
  <2>3. real = <<MinOf(sb.from[1] + sb.dims[1] - at[1], TileDims[1]),
                 MinOf(sb.from[2] + sb.dims[2] - at[2], TileDims[2]),
                 MinOf(sb.from[3] + sb.dims[3] - at[3], TileDims[3])>>
    BY <1>10 DEF Each
  <2> QED
    BY <1>5, <2>2, <2>3 DEF TileOf, Each
<1>12. \A i \in Axes : real[i] = MinOf(sb.from[i] + sb.dims[i] - at[i], TileDims[i])
  BY <1>10 DEF Each, Axes
<1> QED
  BY <1>2, <1>6, <1>9, <1>11, <1>12

\* The id of a tile: its number, after the tiles of the subbands before.
LEMMA IdOf ==
    ASSUME NEW sbs, NEW s, sbs[s].from \in Vectors, sbs[s].dims \in Vectors,
           NEW k \in Nat, k < Prod(NumTiles(sbs[s]))
    PROVE  TileOf(sbs, s, k).id = NTilesInSubbands(sbs, 1, s) + k
<1>1. PICK sb, t : sb = sbs[s] /\ t = Position(NumTiles(sb), k)
  OBVIOUS
<1>2. sb = sbs[s] /\ sb.from \in Vectors /\ sb.dims \in Vectors /\ k < Prod(NumTiles(sb))
      /\ t = Position(NumTiles(sb), k)
  BY <1>1
<1> QED
  BY <1>2, TileIs

\* No two tiles are written to the same place of the file.
THEOREM IdsDiffer ==
    ASSUME NEW n \in Lengths, NEW levels \in Nat, NEW sbs, sbs = SubbandExtents(n, levels),
           NEW s \in DOMAIN sbs, NEW k \in Nat, k < Prod(NumTiles(sbs[s])),
           NEW u \in DOMAIN sbs, NEW j \in Nat, j < Prod(NumTiles(sbs[u])),
           TileOf(sbs, s, k).id = TileOf(sbs, u, j).id
    PROVE  s = u /\ k = j
<1>1. PICK K \in Nat \ {0} : DOMAIN sbs = 1 .. K
  <2>1. PerLevel(n) \in Nat /\ levels * PerLevel(n) \in Nat
    BY BandNumbers
  <2>2. DOMAIN sbs = 1 .. 1 + levels * PerLevel(n)
    BY BandNumbers
  <2> QED
    BY <2>1, <2>2
<1>2. \A x \in 1 .. K : sbs[x].from \in Vectors /\ sbs[x].dims \in Vectors
  BY <1>1, BandShape
<1>3. PICK c \in [1 .. K -> Nat] : \A x \in 1 .. K : c[x] = Prod(NumTiles(sbs[x]))
  <2>1. \A x \in 1 .. K : Prod(NumTiles(sbs[x])) \in Nat
    BY <1>2, TilesOfBand
  <2>2. [x \in 1 .. K |-> Prod(NumTiles(sbs[x]))] \in [1 .. K -> Nat]
    BY <2>1
  <2> QED
    BY <2>2
<1>4. PICK G \in [1 .. K -> Nat] : G[1] = 0 /\ \A x \in 1 .. K - 1 : G[x + 1] = G[x] + c[x]
  BY Counted
<1>5. \A x \in 1 .. K : NTilesInSubbands(sbs, 1, x) = G[x]
  BY <1>3, <1>4, Summed, ZenonT(60)
<1>6. TileOf(sbs, s, k).id = G[s] + k /\ TileOf(sbs, u, j).id = G[u] + j
  <2>1. TileOf(sbs, s, k).id = NTilesInSubbands(sbs, 1, s) + k
    BY <1>1, <1>2, IdOf
  <2>2. TileOf(sbs, u, j).id = NTilesInSubbands(sbs, 1, u) + j
    BY <1>1, <1>2, IdOf
  <2> QED
    BY <1>1, <1>5, <2>1, <2>2
<1>7. \A x, y \in 1 .. K : x < y => G[x] + c[x] <= G[y]
  BY <1>4, Apart
<1>8. PICK a \in Nat, b \in Nat, p \in Nat, q \in Nat :
         a = G[s] /\ b = G[u] /\ p = c[s] /\ q = c[u]
  BY <1>1
<1>9. k < p /\ j < q /\ a + k = b + j
  BY <1>1, <1>3, <1>6, <1>8
<1>10. s < u => a + p <= b
  BY <1>1, <1>7, <1>8
<1>11. u < s => b + q <= a
  BY <1>1, <1>7, <1>8
<1>12. s = u
  BY <1>1, <1>9, <1>10, <1>11
<1>13. a = b
  BY <1>8, <1>12
<1> QED
  BY <1>9, <1>12, <1>13

-----------------------------------------------------------------------------
(* Every sample of a subband is one of the voxels of its tiles.            *)

\* Along an axis, the position p of a subband of d samples from f on is in tile t
\* of td samples, number y of the block that starts z samples into the tile.
Place(f, d, td, zd, p, t, z, y) ==
    /\ t < ((d + td - 1) \div td)
    /\ (z % zd) = 0
    /\ z + y < MinOf(f + d - (f + t * td), td)
    /\ p = f + t * td + z + y

\* Along an axis every sample of a subband is in a block of one of its tiles.
LEMMA OnAxis ==
    ASSUME NEW f \in Nat, NEW d \in Nat, NEW td \in Nat \ {0}, NEW zd \in Nat \ {0},
           NEW p \in Nat, f <= p, p < f + d
    PROVE  \E t \in Nat, z \in Nat, y \in 0 .. zd - 1 : Place(f, d, td, zd, p, t, z, y)
<1>1. PICK q \in Nat : q = p - f /\ q < d
  OBVIOUS
<1>2. PICK t \in Nat, r \in 0 .. td - 1 : t = q \div td /\ r = q % td /\ q = t * td + r
  BY Divided
<1>3. r \in Nat
  BY <1>2
<1>4. PICK b \in Nat, y \in 0 .. zd - 1 : b = r \div zd /\ y = r % zd /\ r = b * zd + y
  BY <1>3, Divided
<1>5. PICK z \in Nat : z = b * zd /\ z = b * zd + 0
  <2>1. b * zd \in Nat
    OBVIOUS
  <2> QED
    BY <2>1
<1>6. (z % zd) = 0
  <2>1. 0 \in 0 .. zd - 1
    OBVIOUS
  <2> QED
    BY <1>5, <2>1, DivMod
<1>7. PICK w \in Nat : w = t * td
  <2>1. t * td \in Nat
    OBVIOUS
  <2> QED
    BY <2>1
<1>8. p = f + w + z + y /\ z + y < td /\ z + y < d - w /\ w <= q
  <2>1. q = w + r
    BY <1>2, <1>7
  <2>2. r = z + y
    BY <1>4, <1>5
  <2>3. r \in Nat /\ r < td
    BY <1>2
  <2> QED
    BY <1>1, <2>1, <2>2, <2>3
<1>9. z + y < MinOf(f + d - (f + w), td)
  BY <1>8 DEF MinOf
<1>10. t < ((d + td - 1) \div td)
  <2>1. d \in Nat \ {0}
    BY <1>1
  <2>2. ((d + td - 1) \div td) \in Nat \ {0} /\ d <= ((d + td - 1) \div td) * td
    BY <2>1, RoundedUp
  <2>3. PICK m \in Nat : m = (d + td - 1) \div td /\ d <= m * td
    BY <2>2
  <2>4. m <= t => m * td <= t * td
    BY Product
  <2>5. m * td \in Nat
    OBVIOUS
  <2> QED
    BY <1>1, <1>7, <1>8, <2>3, <2>4, <2>5
<1> QED
  BY <1>6, <1>7, <1>8, <1>9, <1>10 DEF Place

\* Every sample of a subband is one of the voxels that WriteTile and ReadTile copy.
LEMMA Tiled ==
    ASSUME NEW n, NEW p \in Vectors, NEW sbs, NEW s,
           sbs[s].from \in Vectors, sbs[s].dims \in Vectors, In(sbs[s], p)
    PROVE  \E k \in Nat :
              /\ k < Prod(NumTiles(sbs[s]))
              /\ \E x \in Voxels(TileOf(sbs, s, k), TileOf(sbs, s, k).real) :
                    VoxelRow(n, TileOf(sbs, s, k), x) = Row(n, p)
<1>1. PICK sb : sb = sbs[s] /\ sb.from \in Vectors /\ sb.dims \in Vectors /\ In(sb, p)
  OBVIOUS
<1>2. \A i \in Axes : /\ sb.from[i] \in Nat /\ sb.dims[i] \in Nat /\ p[i] \in Nat
                      /\ TileDims[i] \in Nat \ {0} /\ ZDims[i] \in Nat \ {0}
                      /\ sb.from[i] <= p[i] /\ p[i] < sb.from[i] + sb.dims[i]
  <2>1. \A i \in Axes : sb.from[i] \in Nat /\ sb.dims[i] \in Nat /\ p[i] \in Nat
    BY <1>1 DEF Vectors, Axes
  <2> QED
    BY <1>1, <2>1, CasesAssumption DEF In
<1> DEFINE Fit(i, t, z, y) == Place(sb.from[i], sb.dims[i], TileDims[i], ZDims[i], p[i], t, z, y)
<1>3. ASSUME NEW i \in Axes
      PROVE  \E t \in Nat, z \in Nat, y \in 0 .. ZDims[i] - 1 : Fit(i, t, z, y)
  <2>1. PICK f \in Nat, d \in Nat, td \in Nat \ {0}, zd \in Nat \ {0}, q \in Nat :
           /\ f = sb.from[i] /\ d = sb.dims[i] /\ td = TileDims[i] /\ zd = ZDims[i] /\ q = p[i]
           /\ f <= q /\ q < f + d
    BY <1>2
  <2>0. f <= q /\ q < f + d
    BY <2>1
  <2>2. \E t \in Nat, z \in Nat, y \in 0 .. zd - 1 : Place(f, d, td, zd, q, t, z, y)
    BY <2>0, OnAxis
  <2> QED
    BY <2>1, <2>2
<1>4. 1 \in Axes /\ 2 \in Axes /\ 3 \in Axes
  BY DEF Axes
<1>5. PICK t1 \in Nat, z1 \in Nat, y1 \in 0 .. ZDims[1] - 1 : Fit(1, t1, z1, y1)
  BY <1>3, <1>4
<1>6. PICK t2 \in Nat, z2 \in Nat, y2 \in 0 .. ZDims[2] - 1 : Fit(2, t2, z2, y2)
  BY <1>3, <1>4
<1>7. PICK t3 \in Nat, z3 \in Nat, y3 \in 0 .. ZDims[3] - 1 : Fit(3, t3, z3, y3)
  BY <1>3, <1>4
<1>8. PICK t, x : t = <<t1, t2, t3>> /\ x = <<<<z1, z2, z3>>, <<y1, y2, y3>>>>
  OBVIOUS
<1>9. \A i \in Axes : /\ Fit(i, t[i], x[1][i], x[2][i]) /\ t[i] \in Nat
                      /\ x[1][i] \in Nat /\ x[2][i] \in 0 .. ZDims[i] - 1
  <2> HIDE DEF Fit
  <2>1. Axes = {1, 2, 3}
    BY DEF Axes
  <2> QED
    BY <1>5, <1>6, <1>7, <1>8, <2>1
<1>10. NumTiles(sb) \in Vectors /\ \A i \in Axes :
          NumTiles(sb)[i] = (sb.dims[i] + TileDims[i] - 1) \div TileDims[i]
  <2>1. NumTiles(sb) \in Vectors
    BY <1>1, TilesOfBand
  <2> QED
    BY <2>1 DEF NumTiles, Each, Axes
<1>11. t \in Box(NumTiles(sb)) /\ NumTiles(sb) \in Sizes
  <2>1. \A i \in Axes : NumTiles(sb)[i] \in Nat /\ t[i] \in Nat /\ t[i] < NumTiles(sb)[i]
    <3>1. \A i \in Axes : NumTiles(sb)[i] \in Nat
      BY <1>10 DEF Vectors, Axes
    <3> QED
      BY <1>9, <1>10, <3>1 DEF Place
  <2>2. t = <<t[1], t[2], t[3]>>
    BY <1>8
  <2>3. NumTiles(sb) = <<NumTiles(sb)[1], NumTiles(sb)[2], NumTiles(sb)[3]>>
    BY <1>10 DEF Vectors
  <2>4. ASSUME NEW i \in Axes
        PROVE  t[i] \in 0 .. NumTiles(sb)[i] - 1 /\ NumTiles(sb)[i] \in Nat \ {0}
    <3>1. PICK y \in Nat, z \in Nat : y = NumTiles(sb)[i] /\ z = t[i] /\ z < y
      BY <2>1
    <3> QED
      BY <3>1
  <2> QED
    BY <1>4, <2>2, <2>3, <2>4 DEF Box, Sizes
<1>12. PICK k \in Nat : /\ k = Row(NumTiles(sb), t) /\ Position(NumTiles(sb), k) = t
                        /\ k < Prod(NumTiles(sb))
  <2>1. Row(NumTiles(sb), t) \in Indices(NumTiles(sb))
        /\ Position(NumTiles(sb), Row(NumTiles(sb), t)) = t
    BY <1>11, RowAt
  <2>2. Prod(NumTiles(sb)) \in Nat
    BY <1>1, TilesOfBand
  <2> QED
    BY <2>1, <2>2 DEF Indices
<1>13. PICK tile : tile = TileOf(sbs, s, k)
  OBVIOUS
<1>14. \A i \in Axes :
          /\ tile.at[i] = sb.from[i] + t[i] * TileDims[i]
          /\ tile.real[i] = MinOf(sb.from[i] + sb.dims[i] - tile.at[i], TileDims[i])
  <2>1. t = Position(NumTiles(sb), k)
    BY <1>12
  <2> QED
    BY <1>1, <1>12, <1>13, <2>1, TileIs
<1>15. ASSUME NEW i \in Axes
       PROVE  /\ x[1][i] \in 0 .. tile.real[i] - 1 /\ (x[1][i] % ZDims[i]) = 0
              /\ x[2][i] \in 0 .. ZDims[i] - 1 /\ x[1][i] + x[2][i] < tile.real[i]
              /\ p[i] = tile.at[i] + x[1][i] + x[2][i]
  <2>1. PICK f \in Nat, d \in Nat, td \in Nat \ {0}, zd \in Nat \ {0}, q \in Nat :
           f = sb.from[i] /\ d = sb.dims[i] /\ td = TileDims[i] /\ zd = ZDims[i] /\ q = p[i]
    BY <1>2
  <2>2. PICK c \in Nat, z \in Nat, y \in 0 .. zd - 1 :
           c = t[i] /\ z = x[1][i] /\ y = x[2][i] /\ Fit(i, c, z, y)
    <3> HIDE DEF Fit
    <3> QED
      BY <1>9, <2>1
  <2>3. PICK w \in Nat : w = c * td
    <3>1. c * td \in Nat
      OBVIOUS
    <3> QED
      BY <3>1
  <2>4. tile.at[i] = f + w
    BY <1>14, <2>1, <2>2, <2>3
  <2>5. PICK r \in Int : r = MinOf(f + d - (f + w), td)
    BY DEF MinOf
  <2>6. tile.real[i] = r
    BY <1>14, <2>1, <2>4, <2>5
  <2>7. (z % zd) = 0 /\ z + y < r /\ q = f + w + z + y
    BY <2>1, <2>2, <2>3, <2>5 DEF Place
  <2>8. z \in 0 .. r - 1
    BY <2>7
  <2> QED
    BY <2>1, <2>2, <2>4, <2>6, <2>7, <2>8
<1>16. x \in Voxels(tile, tile.real)
  <2>1. ASSUME NEW i \in Axes
        PROVE  x[1][i] \in {z \in 0 .. tile.real[i] - 1 : z % ZDims[i] = 0}
    BY <1>15
  <2>2. x[1] = <<z1, z2, z3>> /\ x[2] = <<y1, y2, y3>> /\ x = <<x[1], x[2]>>
    BY <1>8
  <2>3. x[1] = <<x[1][1], x[1][2], x[1][3]>> /\ x[2] = <<x[2][1], x[2][2], x[2][3]>>
    BY <2>2
  <2> QED
    BY <1>4, <1>15, <2>1, <2>2, <2>3 DEF Voxels
<1>17. VoxelRow(n, tile, x) = Row(n, p)
  <2>1. p = <<p[1], p[2], p[3]>>
    BY DEF Vectors
  <2>2. p = Each(LAMBDA i : tile.at[i] + x[1][i] + x[2][i])
    BY <1>4, <1>15, <2>1 DEF Each
  <2> QED
    BY <2>2 DEF VoxelRow
<1> QED
  BY <1>1, <1>12, <1>13, <1>16, <1>17

-----------------------------------------------------------------------------
(* The codec's task.                                                       *)

\* The samples a transform starts with.
HasSamples(t) == t.n \in Lengths /\ t.levels \in Nat /\ t.src \in [Indices(t.n) -> Int]

IsCodec(t) ==
    /\ t.kind = "codec" /\ t.n \in Lengths /\ FlatLast(t.n) /\ t.levels \in Nat
    /\ t.src \in [Indices(t.n) -> Int]

\* The tiles that are written, or read, so far.
Earlier(s, k) == s < band \/ (s = band /\ k < step)
TilesIn(s) == 0 .. Prod(NumTiles(Bands[s])) - 1

Coefficients == OldPasses(task)[NPasses]

Filed(s, k) ==
    LET tile == TileOf(Bands, s, k)
    IN tile.id \in DOMAIN file /\ file[tile.id] = CopyForward(Coefficients, task.n, tile)

Restored(s, k) ==
    LET tile == TileOf(Bands, s, k)
    IN \A x \in Voxels(tile, tile.real) :
          VoxelRow(task.n, tile, x) \in Indices(task.n) =>
             vol[VoxelRow(task.n, tile, x)] = Coefficients[VoxelRow(task.n, tile, x)]

\* Going forth, vol is what the passes made so far give, and so it is going
\* back; in between the file holds the coefficients of the tiles written, and
\* the new volume those of the tiles read.
CodecPhases ==
    /\ IsCodec(task)
    /\ phase \in {"forward", "write", "read", "inverse", "done"}
    /\ step \in Nat /\ band \in Nat \ {0}
    /\ vol \in [Indices(task.n) -> Int]
    /\ phase = "forward" => band = 1
    /\ phase \in {"forward", "inverse"} => step <= NPasses /\ vol = OldPasses(task)[step]
    /\ Coding => /\ band \in DOMAIN Bands \/ band - 1 \in DOMAIN Bands
                 /\ band \notin DOMAIN Bands => step = 0
    /\ phase = "write" =>
          /\ vol = Coefficients
          /\ \A s \in DOMAIN Bands : \A k \in TilesIn(s) : Earlier(s, k) => Filed(s, k)
    /\ phase = "read" =>
          /\ \A s \in DOMAIN Bands : \A k \in TilesIn(s) : Filed(s, k)
          /\ \A s \in DOMAIN Bands : \A k \in TilesIn(s) : Earlier(s, k) => Restored(s, k)
    /\ phase = "done" => vol = task.src

CodecInv == task.kind = "codec" => CodecPhases

-----------------------------------------------------------------------------
(* The passes of the codec, one after the other.                           *)

ForwardAt(t, k, v) == ForwardOld(v, t.n, AxisOf(k), DimsLeft(t.n, LevelOf(k)))
InverseAt(t, k, v) == InverseOld(v, t.n, AxisOf(k), DimsLeft(t.n, LevelOf(k)))

\* Every pass of the codec's transform, and the pass back.
LEMMA PassForth ==
    ASSUME NEW t, HasSamples(t), NEW k \in Nat, NEW v \in [Indices(t.n) -> Int]
    PROVE  /\ ForwardAt(t, k, v) \in [Indices(t.n) -> Int]
           /\ InverseAt(t, k, ForwardAt(t, k, v)) = v
<1>1. PICK n, a, l, m : /\ n = t.n /\ a = AxisOf(k) /\ l = LevelOf(k)
                        /\ m = DimsLeft(n, l)
  OBVIOUS
<1>2. n \in Lengths
  BY <1>1 DEF HasSamples
<1>3. a \in Axes /\ l \in Nat
  <2>1. (k % 3) \in 0 .. 2 /\ (k \div 3) \in Nat
    OBVIOUS
  <2> QED
    BY <1>1, <2>1 DEF AxisOf, LevelOf, Axes
<1>4. n \in Sizes /\ \A i \in Axes : n[i] \in Nat
  BY <1>2, LengthsFit
<1>5. m \in Sizes /\ \A i \in Axes : m[i] \in 1 .. n[i]
  BY <1>1, <1>2, <1>3, LeftFacts
<1>6. ASSUME NEW i \in Axes PROVE m[i] <= n[i]
  <2>1. PICK x \in Nat : x = n[i] /\ m[i] \in 1 .. x
    BY <1>4, <1>5
  <2> QED
    BY <2>1
<1>7. /\ ForwardOld(v, n, a, m) \in [Indices(n) -> Int]
      /\ InverseOld(ForwardOld(v, n, a, m), n, a, m) = v
  BY <1>1, <1>3, <1>4, <1>5, <1>6, PassUndone
<1> QED
  BY <1>1, <1>7 DEF ForwardAt, InverseAt

\* The passes of the transform are made one after the other.
LEMMA PassesForth ==
    ASSUME NEW t, HasSamples(t)
    PROVE  /\ OldPasses(t)[0] = t.src
           /\ \A k \in 0 .. 3 * t.levels : OldPasses(t)[k] \in [Indices(t.n) -> Int]
           /\ \A k \in 0 .. 3 * t.levels - 1 :
                OldPasses(t)[k + 1] = ForwardAt(t, k, OldPasses(t)[k])
<1>1. PICK N \in Nat : N = 3 * t.levels
  <2>1. 3 * t.levels \in Nat
    BY DEF HasSamples
  <2> QED
    BY <2>1
<1>2. PICK V : V = [Indices(t.n) -> Int] /\ t.src \in V
  BY DEF HasSamples
<1>3. \A k \in Nat, v \in V : ForwardAt(t, k, v) \in V
  BY <1>2, PassForth
<1> DEFINE Good(m) == \E H \in [0 .. m -> V] :
                         H[0] = t.src /\ \A k \in 0 .. m - 1 : H[k + 1] = ForwardAt(t, k, H[k])
           T == {m \in 0 .. N : ~Good(m)}
<1>4. Good(N)
  <2>1. SUFFICES ASSUME T # {} PROVE FALSE
    <3>1. N \in 0 .. N
      OBVIOUS
    <3> QED
      BY <3>1
  <2>2. PICK m \in T : \A y \in T : m <= y
    <3>1. T \subseteq Nat
      OBVIOUS
    <3> QED
      BY <2>1, <3>1, Least
  <2>3. m \in 0 .. N /\ ~Good(m)
    OBVIOUS
  <2>4. m # 0
    <3>1. PICK H : H = [k \in 0 .. 0 |-> t.src]
      OBVIOUS
    <3>2. H \in [0 .. 0 -> V] /\ H[0] = t.src
      BY <1>2, <3>1
    <3>3. \A k \in 0 .. 0 - 1 : H[k + 1] = ForwardAt(t, k, H[k])
      OBVIOUS
    <3>4. Good(0)
      BY <3>2, <3>3
    <3> QED
      BY <2>3, <3>4
  <2>5. PICK l \in 0 .. N : m = l + 1 /\ Good(l)
    <3>1. m - 1 \in 0 .. N /\ m = (m - 1) + 1
      BY <2>3, <2>4
    <3>2. m - 1 \in T => m <= m - 1
      BY <2>2
    <3>3. m - 1 \notin T
      <4> HIDE DEF T
      <4> QED
        BY <2>3, <3>2
    <3> QED
      BY <3>1, <3>3
  <2>6. PICK H \in [0 .. l -> V] :
           H[0] = t.src /\ \A k \in 0 .. l - 1 : H[k + 1] = ForwardAt(t, k, H[k])
    BY <2>5
  <2>7. PICK J : J = [k \in 0 .. l + 1 |-> IF k = l + 1 THEN ForwardAt(t, l, H[l]) ELSE H[k]]
    OBVIOUS
  <2>8. J \in [0 .. l + 1 -> V]
    <3>1. ForwardAt(t, l, H[l]) \in V
      BY <1>3
    <3> QED
      BY <2>7, <3>1
  <2>9. J[0] = t.src
    BY <2>6, <2>7
  <2>10. ASSUME NEW k \in 0 .. (l + 1) - 1 PROVE J[k + 1] = ForwardAt(t, k, J[k])
    <3>1. CASE k = l
      <4>1. l \in 0 .. l + 1 /\ l + 1 \in 0 .. l + 1 /\ l # l + 1
        OBVIOUS
      <4> QED
        BY <2>7, <3>1, <4>1
    <3>2. CASE k # l
      <4>1. k \in 0 .. l - 1 /\ k + 1 \in 0 .. l + 1 /\ k + 1 # l + 1 /\ k # l + 1 /\ k \in 0 .. l + 1
        BY <3>2
      <4> QED
        BY <2>6, <2>7, <4>1
    <3> QED
      BY <3>1, <3>2
  <2>11. Good(l + 1)
    <3> HIDE DEF T
    <3>1. SUFFICES \E F \in [0 .. l + 1 -> V] :
             F[0] = t.src /\ \A k \in 0 .. (l + 1) - 1 : F[k + 1] = ForwardAt(t, k, F[k])
      OBVIOUS
    <3> WITNESS J \in [0 .. l + 1 -> V]
    <3> QED
      BY <2>9, <2>10
  <2> QED
    BY <2>3, <2>5, <2>11
<1>5. PICK H \in [0 .. N -> V] :
         H[0] = t.src /\ \A k \in 0 .. N - 1 : H[k + 1] = ForwardAt(t, k, H[k])
  BY <1>4
<1> DEFINE Is(v) == v = [k \in 0 .. N |-> IF k = 0 THEN t.src ELSE ForwardAt(t, k - 1, v[k - 1])]
<1>6. Is(H)
  <2>1. ASSUME NEW k \in 0 .. N, k # 0
        PROVE  H[k] = ForwardAt(t, k - 1, H[k - 1])
    <3>1. PICK j \in 0 .. N - 1 : j = k - 1 /\ j + 1 = k
      <4>1. k - 1 \in 0 .. N - 1 /\ (k - 1) + 1 = k
        BY <2>1
      <4> QED
        BY <4>1
    <3> QED
      BY <1>5, <3>1
  <2>2. [k \in 0 .. N |-> H[k]]
          = [k \in 0 .. N |-> IF k = 0 THEN t.src ELSE ForwardAt(t, k - 1, H[k - 1])]
    BY <1>5, <2>1
  <2>3. H = [k \in 0 .. N |-> H[k]]
    OBVIOUS
  <2> QED
    BY <2>2, <2>3
<1>7. PICK P : P = CHOOSE v : Is(v)
  OBVIOUS
<1>8. OldPasses(t) = P
  BY <1>1, <1>7 DEF OldPasses, ForwardAt
<1>9. Is(P)
  BY <1>6, <1>7
<1>10. \A k \in 0 .. N : P[k] = IF k = 0 THEN t.src ELSE ForwardAt(t, k - 1, P[k - 1])
  BY <1>9
<1>11. ASSUME NEW k \in 0 .. N - 1 PROVE P[k + 1] = ForwardAt(t, k, P[k])
  <2>1. PICK j \in 0 .. N : j = k + 1 /\ j - 1 = k /\ j # 0
    <3>1. k + 1 \in 0 .. N /\ (k + 1) - 1 = k /\ k + 1 # 0
      OBVIOUS
    <3> QED
      BY <3>1
  <2> QED
    BY <1>10, <2>1
<1>12. \A k \in 0 .. N : P[k] \in V
  <2> DEFINE S == {k \in 0 .. N : P[k] \notin V}
  <2>1. SUFFICES ASSUME S # {} PROVE FALSE
    OBVIOUS
  <2>2. PICK m \in S : \A y \in S : m <= y
    <3>1. S \subseteq Nat
      OBVIOUS
    <3> QED
      BY <2>1, <3>1, Least
  <2>3. m \in 0 .. N /\ P[m] \notin V
    OBVIOUS
  <2>4. m # 0
    BY <1>2, <1>10, <2>3
  <2>5. PICK l \in 0 .. N - 1 : m = l + 1 /\ l \in 0 .. N
    <3>1. m - 1 \in 0 .. N - 1 /\ m = (m - 1) + 1 /\ m - 1 \in 0 .. N
      BY <2>3, <2>4
    <3> QED
      BY <3>1
  <2>6. P[l] \in V
    <3>1. l \in S => m <= l
      BY <2>2
    <3>2. l \notin S
      <4> HIDE DEF S
      <4> QED
        BY <2>5, <3>1
    <3> QED
      BY <2>5, <3>2
  <2>7. P[m] = ForwardAt(t, l, P[l])
    BY <1>11, <2>5
  <2> QED
    BY <1>3, <2>3, <2>5, <2>6, <2>7
<1>13. P[0] = t.src
  BY <1>10
<1> QED
  BY <1>1, <1>2, <1>8, <1>11, <1>12, <1>13

LEMMA PassAt ==
    ASSUME NEW t, IsCodec(t), NEW k \in Nat, NEW v \in [Indices(t.n) -> Int]
    PROVE  /\ ForwardAt(t, k, v) \in [Indices(t.n) -> Int]
           /\ InverseAt(t, k, ForwardAt(t, k, v)) = v
BY PassForth DEF IsCodec, HasSamples

LEMMA Passes ==
    ASSUME NEW t, IsCodec(t)
    PROVE  /\ OldPasses(t)[0] = t.src
           /\ \A k \in 0 .. 3 * t.levels : OldPasses(t)[k] \in [Indices(t.n) -> Int]
           /\ \A k \in 0 .. 3 * t.levels - 1 :
                OldPasses(t)[k + 1] = ForwardAt(t, k, OldPasses(t)[k])
<1>1. HasSamples(t)
  BY DEF IsCodec, HasSamples
<1> QED
  BY <1>1, PassesForth

-----------------------------------------------------------------------------
(* What reading a tile does to the volume.                                 *)

\* A voxel whose sample is in the volume gets back what was written there, and
\* everything else stays.
LEMMA CopiedBack ==
    ASSUME NEW n, NEW tile, NEW v, NEW h, NEW I, h \in [I -> Int], v \in [I -> Int],
           NEW content, content = CopyForward(h, n, tile),
           Voxels(tile, tile.real) \subseteq Voxels(tile, TileDims)
    PROVE  /\ CopyInverse(v, n, tile, content) \in [I -> Int]
           /\ \A i \in I : CopyInverse(v, n, tile, content)[i] \in {h[i], v[i]}
           /\ \A x \in Voxels(tile, tile.real) :
                VoxelRow(n, tile, x) \in I =>
                   CopyInverse(v, n, tile, content)[VoxelRow(n, tile, x)] = h[VoxelRow(n, tile, x)]
<1> DEFINE xs == Voxels(tile, tile.real)
           to == {VoxelRow(n, tile, x) : x \in xs}
           from(i) == CHOOSE x \in xs : VoxelRow(n, tile, x) = i
<1>1. CopyInverse(v, n, tile, content) = [i \in I |-> IF i \in to THEN content[from(i)] ELSE v[i]]
  BY DEF CopyInverse
<1>2. ASSUME NEW i \in I, i \in to
      PROVE  content[from(i)] = h[i]
  <2>1. from(i) \in xs /\ VoxelRow(n, tile, from(i)) = i
    BY <1>2
  <2>2. from(i) \in Voxels(tile, TileDims)
    BY <2>1
  <2>3. content[from(i)] = Sample(h, i)
    <3> HIDE DEF from
    <3> QED
      BY <2>1, <2>2 DEF CopyForward
  <2> QED
    BY <2>3 DEF Sample
<1>3. PICK w : w = CopyInverse(v, n, tile, content)
  OBVIOUS
<1>4. DOMAIN w = I /\ \A i \in I : w[i] = IF i \in to THEN h[i] ELSE v[i]
  <2> HIDE DEF to, from
  <2> QED
    BY <1>1, <1>2, <1>3
<1>5. w = [i \in I |-> w[i]]
  BY <1>1, <1>3
<1>6. \A i \in I : w[i] \in Int
  <2> HIDE DEF to
  <2> QED
    BY <1>4
<1>7. w \in [I -> Int]
  BY <1>5, <1>6
<1>8. \A i \in I : w[i] \in {h[i], v[i]}
  <2> HIDE DEF to
  <2> QED
    BY <1>4
<1>9. \A x \in xs : VoxelRow(n, tile, x) \in I => w[VoxelRow(n, tile, x)] = h[VoxelRow(n, tile, x)]
  <2>1. \A x \in xs : VoxelRow(n, tile, x) \in to
    OBVIOUS
  <2> HIDE DEF to
  <2> QED
    BY <1>4, <2>1
<1> QED
  BY <1>3, <1>7, <1>8, <1>9

\* What a tile really has is never more than a tile may have.
LEMMA RealFits ==
    ASSUME NEW sbs, NEW s, sbs[s].from \in Vectors, sbs[s].dims \in Vectors,
           NEW k \in Nat, k < Prod(NumTiles(sbs[s]))
    PROVE  Voxels(TileOf(sbs, s, k), TileOf(sbs, s, k).real)
             \subseteq Voxels(TileOf(sbs, s, k), TileDims)
<1>1. PICK sb, t, tile : /\ sb = sbs[s] /\ t = Position(NumTiles(sb), k)
                         /\ tile = TileOf(sbs, s, k)
  OBVIOUS
<1>2. sb = sbs[s] /\ sb.from \in Vectors /\ sb.dims \in Vectors /\ k < Prod(NumTiles(sb))
      /\ t = Position(NumTiles(sb), k)
  BY <1>1
<1>3. /\ t \in Box(NumTiles(sb))
      /\ \A i \in Axes :
           /\ tile.at[i] = sb.from[i] + t[i] * TileDims[i]
           /\ tile.real[i] = MinOf(sb.from[i] + sb.dims[i] - tile.at[i], TileDims[i])
  BY <1>1, <1>2, TileIs
<1>4. NumTiles(sb) \in Vectors
  BY <1>2, TilesOfBand
<1>5. ASSUME NEW i \in Axes
      PROVE  \A y \in Nat : y < tile.real[i] => y < TileDims[i]
  <2>1. t[i] \in Nat
    <3>1. NumTiles(sb)[1] \in Nat /\ NumTiles(sb)[2] \in Nat /\ NumTiles(sb)[3] \in Nat
      BY <1>4 DEF Vectors
    <3> QED
      BY <1>3, <3>1 DEF Box, Axes
  <2>2. PICK f \in Nat, d \in Nat, td \in Nat \ {0}, c \in Nat :
           f = sb.from[i] /\ d = sb.dims[i] /\ td = TileDims[i] /\ c = t[i]
    <3>1. sb.from[i] \in Nat /\ sb.dims[i] \in Nat
      BY <1>2 DEF Vectors, Axes
    <3>2. TileDims[i] \in Nat \ {0}
      BY CasesAssumption
    <3> QED
      BY <2>1, <3>1, <3>2
  <2>3. PICK w \in Nat : w = c * td
    <3>1. c * td \in Nat
      OBVIOUS
    <3> QED
      BY <3>1
  <2>4. tile.at[i] = f + w /\ tile.real[i] = MinOf(f + d - (f + w), td)
    BY <1>3, <2>2, <2>3
  <2>5. PICK r \in Int : r = MinOf(f + d - (f + w), td) /\ r <= td
    BY DEF MinOf
  <2> QED
    BY <2>2, <2>4, <2>5
<1>6. ASSUME NEW x \in Voxels(tile, tile.real)
      PROVE  x \in Voxels(tile, TileDims)
  <2>1. \A i \in Axes : x[1][i] + x[2][i] < tile.real[i]
    BY DEF Voxels
  <2>2. \A i \in Axes : ZDims[i] \in Nat \ {0}
    BY CasesAssumption
  <2>3. \A i \in Axes : x[1][i] \in Nat /\ x[2][i] \in Nat
    <3>1. x \in (Nat \X Nat \X Nat) \X (Nat \X Nat \X Nat)
      <4> DEFINE starts(i) == {z \in 0 .. tile.real[i] - 1 : z % ZDims[i] = 0}
                 voxels(i) == 0 .. ZDims[i] - 1
      <4>1. x \in (starts(1) \X starts(2) \X starts(3)) \X (voxels(1) \X voxels(2) \X voxels(3))
        BY DEF Voxels
      <4>2. starts(1) \subseteq Nat /\ starts(2) \subseteq Nat /\ starts(3) \subseteq Nat
        OBVIOUS
      <4>3. voxels(1) \subseteq Nat /\ voxels(2) \subseteq Nat /\ voxels(3) \subseteq Nat
        OBVIOUS
      <4> HIDE DEF starts, voxels
      <4> QED
        BY <4>1, <4>2, <4>3
    <3> QED
      BY <3>1 DEF Axes
  <2>4. ASSUME NEW i \in Axes PROVE x[1][i] + x[2][i] < TileDims[i]
    <3>1. PICK y \in Nat : y = x[1][i] + x[2][i]
      BY <2>3
    <3> QED
      BY <1>5, <2>1, <3>1
  <2> QED
    BY <2>4 DEF Voxels
<1> QED
  BY <1>1, <1>6

-----------------------------------------------------------------------------
(* The codec's tasks, and how they start.                                  *)

\* The samples that are given are integers.
LEMMA InputsAre ==
    ASSUME NEW n, NEW heights, heights \subseteq Int, NEW s \in Inputs(n, heights)
    PROVE  s \in [Indices(n) -> Int]
<1>1. heights \subseteq Int
  OBVIOUS
<1>2. \A i \in Indices(n) : i \in Int
  BY DEF Indices
<1>3. ASSUME NEW j \in Indices(n), NEW h \in heights,
             s = [i \in Indices(n) |-> IF i = j THEN h ELSE 0]
      PROVE  s \in [Indices(n) -> Int]
  BY <1>1, <1>3
<1>4. ASSUME NEW h \in heights, s = [i \in Indices(n) |-> h * (i + 1)]
      PROVE  s \in [Indices(n) -> Int]
  <2>1. \A i \in Indices(n) : h * (i + 1) \in Int
    BY <1>1, <1>2
  <2> QED
    BY <1>4, <2>1
<1> QED
  BY <1>3, <1>4 DEF Inputs

\* A task is of its kind, and of one of the cases.
LEMMA TaskOf ==
    ASSUME NEW kind, NEW cases, NEW heights, NEW t \in Tasks(kind, cases, heights)
    PROVE  /\ t.kind = kind
           /\ \E c \in cases : \E s \in Inputs(c[1], heights) :
                t = [kind |-> kind, n |-> c[1], levels |-> c[2], src |-> s]
BY DEF Tasks

\* A codec's task has dimensions, levels and samples.
LEMMA CodecTask ==
    ASSUME NEW t \in Tasks("codec", CodecCases, Heights)
    PROVE  IsCodec(t)
<1>1. PICK c \in CodecCases : \E s \in Inputs(c[1], Heights) :
        t = [kind |-> "codec", n |-> c[1], levels |-> c[2], src |-> s]
  BY TaskOf
<1>2. PICK s \in Inputs(c[1], Heights) :
        t = [kind |-> "codec", n |-> c[1], levels |-> c[2], src |-> s]
  BY <1>1
<1>3. c[1] \in Lengths /\ c[2] \in Nat /\ FlatLast(c[1])
  BY CasesAssumption
<1>4. s \in [Indices(c[1]) -> Int]
  <2>1. Heights \subseteq Int
    BY CasesAssumption
  <2> QED
    BY <2>1, InputsAre
<1>5. t.kind = "codec" /\ t.n = c[1] /\ t.levels = c[2] /\ t.src = s
  BY <1>2
<1> QED
  BY <1>3, <1>4, <1>5 DEF IsCodec

\* Only the task in place has room for more.
LEMMA NoRoom ==
    ASSUME NEW t, HasSamples(t), t.kind # "inplace"
    PROVE  Dims(t) = t.n /\ Placed(t) = t.src
<1>1. PICK n : n = t.n /\ n \in Lengths /\ t.kind # "inplace" /\ t.src \in [Indices(n) -> Int]
  BY DEF HasSamples
<1>2. n \in Sizes
  BY <1>1, LengthsFit
<1>3. n = <<n[1], n[2], n[3]>>
  BY <1>2 DEF Sizes
<1>4. Dims(t) = n
  BY <1>1, <1>3 DEF Dims, Each
<1>5. ASSUME NEW i \in Indices(n)
      PROVE  /\ \A a \in Axes : Position(n, i)[a] < n[a]
             /\ Row(n, Position(n, i)) = i
  <2>1. Position(n, i) \in Box(n) /\ Row(n, Position(n, i)) = i
    BY <1>2, PositionAt
  <2>2. n[1] \in Nat /\ n[2] \in Nat /\ n[3] \in Nat
    BY <1>2 DEF Sizes
  <2> QED
    BY <2>1, <2>2 DEF Box, Axes
<1>6. Placed(t) = [i \in Indices(n) |-> t.src[i]]
  BY <1>1, <1>4, <1>5 DEF Placed
<1> QED
  BY <1>1, <1>4, <1>6

LEMMA CodecDims ==
    ASSUME NEW t, IsCodec(t)
    PROVE  Dims(t) = t.n /\ Placed(t) = t.src
<1>1. HasSamples(t) /\ t.kind # "inplace"
  BY DEF IsCodec, HasSamples
<1> QED
  BY <1>1, NoRoom

\* Nothing is transformed yet.
LEMMA CodecInit == Init => CodecInv
<1> SUFFICES ASSUME Init, task.kind = "codec" PROVE CodecPhases
  BY DEF CodecInv
<1>1. task \in Tasks("codec", CodecCases, Heights)
  <2>1. \A t \in Tasks("inplace", InPlaceCases, {Scale}) : t.kind = "inplace"
    BY TaskOf
  <2>2. \A t \in Tasks("form", FormCases, {Scale}) : t.kind = "form"
    BY TaskOf
  <2>3. \A t \in Tasks("tiles", TileCases, {Scale}) : t.kind = "tiles"
    BY TaskOf
  <2>4. \A t \in LookupTasks : t.kind = "lookup"
    BY DEF LookupTasks
  <2> QED
    BY <2>1, <2>2, <2>3, <2>4 DEF Init
<1>2. IsCodec(task)
  BY <1>1, CodecTask
<1>3. phase = "forward" /\ step = 0 /\ band = 1 /\ vol = Placed(task)
  BY DEF Init
<1>4. vol = task.src /\ vol \in [Indices(task.n) -> Int]
  BY <1>2, <1>3, CodecDims DEF IsCodec
<1>5. vol = OldPasses(task)[step] /\ step <= NPasses
  <2>1. OldPasses(task)[0] = task.src
    BY <1>2, Passes
  <2>2. NPasses \in Nat
    BY <1>2 DEF NPasses, IsCodec
  <2> QED
    BY <1>3, <1>4, <2>1, <2>2
<1>6. ~Coding
  BY <1>3 DEF Coding
<1> QED
  BY <1>2, <1>3, <1>4, <1>5, <1>6 DEF CodecPhases

-----------------------------------------------------------------------------
(* The steps of the codec's task.                                          *)

\* What the bands of a codec's task are.
LEMMA CodecBands ==
    ASSUME IsCodec(task)
    PROVE  /\ NPasses \in Nat
           /\ \E K \in Nat \ {0} : DOMAIN Bands = 1 .. K
           /\ \A s \in DOMAIN Bands :
                /\ Bands[s].from \in Vectors /\ Bands[s].dims \in Vectors
                /\ Prod(NumTiles(Bands[s])) \in Nat
                /\ \A k : k \in TilesIn(s) <=> k \in Nat /\ k < Prod(NumTiles(Bands[s]))
<1>1. PICK n \in Lengths, levels \in Nat : n = task.n /\ levels = task.levels
  BY DEF IsCodec
<1>2. Bands = SubbandExtents(n, levels)
  BY <1>1 DEF Bands
<1>3. PerLevel(n) \in Nat /\ levels * PerLevel(n) \in Nat
  BY BandNumbers
<1>4. DOMAIN SubbandExtents(n, levels) = 1 .. 1 + levels * PerLevel(n)
  BY BandNumbers
<1>5. \E K \in Nat \ {0} : DOMAIN Bands = 1 .. K
  BY <1>2, <1>3, <1>4
<1>6. ASSUME NEW s \in DOMAIN Bands
      PROVE  /\ Bands[s].from \in Vectors /\ Bands[s].dims \in Vectors
             /\ Prod(NumTiles(Bands[s])) \in Nat
  <2>1. Bands[s].from \in Vectors /\ Bands[s].dims \in Vectors
    BY <1>2, BandShape
  <2> QED
    BY <2>1, TilesOfBand
<1>7. ASSUME NEW s \in DOMAIN Bands, NEW k
      PROVE  k \in TilesIn(s) <=> k \in Nat /\ k < Prod(NumTiles(Bands[s]))
  <2>1. PICK m \in Nat : m = Prod(NumTiles(Bands[s]))
    BY <1>6
  <2>2. k \in 0 .. m - 1 <=> k \in Nat /\ k < m
    OBVIOUS
  <2> QED
    BY <2>1, <2>2 DEF TilesIn
<1>8. NPasses \in Nat
  BY <1>1 DEF NPasses
<1> QED
  BY <1>5, <1>6, <1>7, <1>8

\* A pass forth.
LEMMA ForwardStep ==
    ASSUME CodecPhases, ForwardAxis
    PROVE  CodecPhases'
<1>1. /\ IsCodec(task) /\ phase = "forward" /\ step \in Nat /\ step < NPasses
      /\ vol = OldPasses(task)[step] /\ band = 1
  BY DEF CodecPhases, ForwardAxis
<1>2. PICK N \in Nat : N = NPasses /\ N = 3 * task.levels
  BY <1>1, CodecBands DEF NPasses
<1>3. step \in 0 .. N - 1 /\ step + 1 \in 0 .. N
  BY <1>1, <1>2
<1>4. vol' = ForwardAt(task, step, vol)
  BY <1>1 DEF ForwardAxis, ForwardPass, ForwardAt, IsCodec
<1>5. OldPasses(task)[step + 1] = ForwardAt(task, step, OldPasses(task)[step])
      /\ OldPasses(task)[step + 1] \in [Indices(task.n) -> Int]
  BY <1>1, <1>2, <1>3, Passes
<1>6. vol' = OldPasses(task)[step + 1] /\ vol' \in [Indices(task.n) -> Int]
  BY <1>1, <1>4, <1>5
<1>7. task' = task /\ phase' = "forward" /\ step' = step + 1 /\ band' = 1
  BY <1>1 DEF ForwardAxis
<1>8. NPasses' = NPasses /\ ~Coding'
  BY <1>7 DEF NPasses, Coding
<1>9. step' \in Nat /\ step' <= NPasses'
  <2>1. step + 1 \in Nat /\ step + 1 <= N
    BY <1>2, <1>3
  <2>2. NPasses' = N /\ step' = step + 1
    BY <1>2, <1>7, <1>8
  <2> QED
    BY <2>1, <2>2
<1> QED
  BY <1>1, <1>6, <1>7, <1>8, <1>9 DEF CodecPhases

\* A pass back gives what there was before the pass forth.
LEMMA InverseStep ==
    ASSUME CodecPhases, InverseAxis
    PROVE  CodecPhases'
<1>1. /\ IsCodec(task) /\ phase = "inverse" /\ step \in Nat /\ step > 0 /\ step <= NPasses
      /\ vol = OldPasses(task)[step] /\ band \in Nat \ {0}
  BY DEF CodecPhases, InverseAxis
<1>2. PICK N \in Nat : N = NPasses /\ N = 3 * task.levels
  BY <1>1, CodecBands DEF NPasses
<1>3. PICK k \in 0 .. N - 1 : k = step - 1 /\ k + 1 = step /\ k \in 0 .. N /\ k \in Nat
  <2>1. step - 1 \in 0 .. N - 1 /\ (step - 1) + 1 = step /\ step - 1 \in 0 .. N /\ step - 1 \in Nat
    BY <1>1, <1>2
  <2> QED
    BY <2>1
<1>4. vol' = InverseAt(task, k, vol)
  BY <1>1, <1>3 DEF InverseAxis, InversePass, InverseAt, IsCodec
<1>5. OldPasses(task)[k + 1] = ForwardAt(task, k, OldPasses(task)[k])
      /\ OldPasses(task)[k] \in [Indices(task.n) -> Int]
  BY <1>1, <1>2, <1>3, Passes
<1>6. InverseAt(task, k, ForwardAt(task, k, OldPasses(task)[k])) = OldPasses(task)[k]
  BY <1>1, <1>3, <1>5, PassAt
<1>7. vol' = OldPasses(task)[k] /\ vol' \in [Indices(task.n) -> Int]
  BY <1>1, <1>3, <1>4, <1>5, <1>6
<1>8. task' = task /\ phase' = "inverse" /\ step' = k /\ band' = band
  BY <1>1, <1>3 DEF InverseAxis
<1>9. NPasses' = NPasses /\ ~Coding'
  BY <1>8 DEF NPasses, Coding
<1>10. step' \in Nat /\ step' <= NPasses'
  <2>1. k \in Nat /\ k <= N
    BY <1>2, <1>3
  <2>2. NPasses' = N /\ step' = k
    BY <1>2, <1>8, <1>9
  <2> QED
    BY <2>1, <2>2
<1> QED
  BY <1>1, <1>7, <1>8, <1>9, <1>10 DEF CodecPhases

\* With no pass left there is the volume that was given to Encode.
LEMMA EndInverseStep ==
    ASSUME CodecPhases, EndInverse
    PROVE  CodecPhases'
<1>1. /\ IsCodec(task) /\ phase = "inverse" /\ step = 0 /\ vol = OldPasses(task)[0]
      /\ band \in Nat \ {0} /\ vol \in [Indices(task.n) -> Int]
  BY DEF CodecPhases, EndInverse
<1>2. vol = task.src
  BY <1>1, Passes
<1>3. task' = task /\ phase' = "done" /\ step' = 0 /\ band' = band /\ vol' = vol
  BY <1>1 DEF EndInverse
<1>4. ~Coding'
  BY <1>3 DEF Coding
<1> QED
  BY <1>1, <1>2, <1>3, <1>4 DEF CodecPhases

\* With all passes made, vol holds the coefficients, and no tile is written.
LEMMA EndForwardStep ==
    ASSUME CodecPhases, EndForward
    PROVE  CodecPhases'
<1>1. /\ IsCodec(task) /\ task.kind = "codec" /\ phase = "forward" /\ step = NPasses
      /\ vol = OldPasses(task)[step] /\ band = 1 /\ vol \in [Indices(task.n) -> Int]
  BY DEF CodecPhases, EndForward, IsCodec
<1>2. phase' = "write" /\ step' = 0
  BY <1>1 DEF EndForward
<1>3. task' = task /\ band' = 1 /\ vol' = vol /\ file' = file
  BY <1>1 DEF EndForward
<1>4. Bands' = Bands /\ Coefficients' = Coefficients /\ vol = Coefficients
  BY <1>1, <1>3 DEF Bands, Coefficients, NPasses
<1>5. 1 \in DOMAIN Bands'
  BY <1>1, <1>4, CodecBands
<1>6. ASSUME NEW s \in DOMAIN Bands', NEW k \in TilesIn(s)'
      PROVE  ~Earlier(s, k)'
  <2>1. s \in Nat /\ s # 0
    BY <1>1, <1>4, CodecBands
  <2>2. k \in Nat
    BY DEF TilesIn
  <2> QED
    BY <1>2, <1>3, <2>1, <2>2 DEF Earlier
<1> QED
  BY <1>1, <1>2, <1>3, <1>4, <1>5, <1>6 DEF CodecPhases

\* A tile is written to a place of its own, so that those written stay.
LEMMA WriteStep ==
    ASSUME CodecPhases, WriteTile
    PROVE  CodecPhases'
<1>1. /\ IsCodec(task) /\ phase = "write" /\ step \in Nat /\ band \in Nat \ {0}
      /\ band \in DOMAIN Bands /\ step < Prod(NumTiles(Bands[band]))
      /\ vol = Coefficients /\ vol \in [Indices(task.n) -> Int]
      /\ \A s \in DOMAIN Bands : \A k \in TilesIn(s) : Earlier(s, k) => Filed(s, k)
  BY DEF CodecPhases, WriteTile
<1>2. PICK tile : tile = TileOf(Bands, band, step)
  OBVIOUS
<1>3. /\ task' = task /\ phase' = phase /\ band' = band /\ vol' = vol /\ step' = step + 1
      /\ file' = [i \in DOMAIN file \cup {tile.id} |->
                    IF i = tile.id THEN CopyForward(vol, task.n, tile) ELSE file[i]]
  BY <1>2 DEF WriteTile
<1>4. Bands' = Bands /\ Coefficients' = Coefficients
  BY <1>3 DEF Bands, Coefficients, NPasses
<1>5. DOMAIN file' = DOMAIN file \cup {tile.id}
  BY <1>3
<1>6. file'[tile.id] = CopyForward(vol, task.n, tile)
  BY <1>3, <1>5
<1>7. \A s : TilesIn(s)' = TilesIn(s)
  BY <1>4 DEF TilesIn
<1>8. ASSUME NEW s \in DOMAIN Bands, NEW k \in TilesIn(s), Earlier(s, k)'
      PROVE  Filed(s, k)'
  <2>1. k \in Nat /\ k < Prod(NumTiles(Bands[s])) /\ s \in Nat
    BY <1>1, CodecBands
  <2>2. PICK t : t = TileOf(Bands, s, k)
    OBVIOUS
  <2>3. SUFFICES t.id \in DOMAIN file' /\ file'[t.id] = CopyForward(Coefficients, task.n, t)
    BY <1>3, <1>4, <2>2 DEF Filed
  <2>4. CASE s = band /\ k = step
    BY <1>1, <1>2, <1>5, <1>6, <2>2, <2>4
  <2>5. CASE ~(s = band /\ k = step)
    <3>1. Earlier(s, k)
      BY <1>1, <1>3, <1>8, <2>1, <2>5 DEF Earlier
    <3>2. t.id \in DOMAIN file /\ file[t.id] = CopyForward(Coefficients, task.n, t)
      BY <1>1, <2>2, <3>1 DEF Filed
    <3>3. t.id # tile.id
      <4>1. PICK n \in Lengths, levels \in Nat : n = task.n /\ levels = task.levels
        BY <1>1 DEF IsCodec
      <4>2. PICK sbs : sbs = Bands /\ sbs = SubbandExtents(n, levels)
        BY <4>1 DEF Bands
      <4>3. /\ s \in DOMAIN sbs /\ k < Prod(NumTiles(sbs[s])) /\ band \in DOMAIN sbs
            /\ step < Prod(NumTiles(sbs[band])) /\ sbs = SubbandExtents(n, levels)
        BY <1>1, <2>1, <4>2
      <4>4. TileOf(sbs, s, k).id = TileOf(sbs, band, step).id => s = band /\ k = step
        BY <1>1, <2>1, <4>3, IdsDiffer
      <4> QED
        BY <1>2, <2>2, <2>5, <4>2, <4>4
    <3>4. file'[t.id] = file[t.id]
      BY <1>3, <1>5, <3>2, <3>3
    <3> QED
      BY <1>5, <3>2, <3>4
  <2> QED
    BY <2>4, <2>5
<1>9. \A s \in DOMAIN Bands' : \A k \in TilesIn(s)' : Earlier(s, k)' => Filed(s, k)'
  BY <1>4, <1>7, <1>8
<1>10. step' \in Nat
  BY <1>1, <1>3
<1>11. Coding' /\ phase' = "write" /\ band' \in DOMAIN Bands'
  BY <1>1, <1>3, <1>4 DEF Coding
<1>12. vol' = Coefficients' /\ vol' \in [Indices(task'.n) -> Int] /\ IsCodec(task')
       /\ band' \in Nat \ {0}
  BY <1>1, <1>3, <1>4
<1> QED
  BY <1>9, <1>10, <1>11, <1>12 DEF CodecPhases

\* A tile that is read brings its coefficients back, and takes none away.
LEMMA ReadStep ==
    ASSUME CodecPhases, ReadTile
    PROVE  CodecPhases'
<1>1. /\ IsCodec(task) /\ phase = "read" /\ step \in Nat /\ band \in Nat \ {0}
      /\ band \in DOMAIN Bands /\ step < Prod(NumTiles(Bands[band]))
      /\ vol \in [Indices(task.n) -> Int]
      /\ \A s \in DOMAIN Bands : \A k \in TilesIn(s) : Filed(s, k)
      /\ \A s \in DOMAIN Bands : \A k \in TilesIn(s) : Earlier(s, k) => Restored(s, k)
  BY DEF CodecPhases, ReadTile
<1>2. PICK tile, n, I, h : /\ tile = TileOf(Bands, band, step) /\ n = task.n
                           /\ I = Indices(task.n) /\ h = Coefficients
  OBVIOUS
<1>3. /\ task' = task /\ phase' = phase /\ band' = band /\ step' = step + 1 /\ file' = file
      /\ vol' = CopyInverse(vol, n, tile, file[tile.id])
  BY <1>2 DEF ReadTile
<1>4. Bands' = Bands /\ Coefficients' = h
  BY <1>2, <1>3 DEF Bands, Coefficients, NPasses
<1>5. \A s : TilesIn(s)' = TilesIn(s)
  BY <1>4 DEF TilesIn
<1>6. h \in [I -> Int]
  <2>1. NPasses \in 0 .. 3 * task.levels
    BY <1>1, CodecBands DEF NPasses
  <2> QED
    BY <1>1, <1>2, <2>1, Passes DEF Coefficients
<1>7. file[tile.id] = CopyForward(h, n, tile)
  <2>1. step \in TilesIn(band)
    BY <1>1, CodecBands
  <2> QED
    BY <1>1, <1>2, <2>1 DEF Filed
<1>8. Voxels(tile, tile.real) \subseteq Voxels(tile, TileDims)
  <2>1. Bands[band].from \in Vectors /\ Bands[band].dims \in Vectors
    BY <1>1, CodecBands
  <2> QED
    BY <1>1, <1>2, <2>1, RealFits
<1>9. /\ vol' \in [I -> Int]
      /\ \A i \in I : vol'[i] \in {h[i], vol[i]}
      /\ \A x \in Voxels(tile, tile.real) :
            VoxelRow(n, tile, x) \in I => vol'[VoxelRow(n, tile, x)] = h[VoxelRow(n, tile, x)]
  <2>1. PICK content : content = CopyForward(h, n, tile) /\ content = file[tile.id]
    BY <1>7
  <2>2. vol \in [I -> Int] /\ content = CopyForward(h, n, tile)
    BY <1>1, <1>2, <2>1
  <2>3. PICK w : w = CopyInverse(vol, n, tile, content) /\ w = vol'
    BY <1>3, <2>1
  <2>4. /\ CopyInverse(vol, n, tile, content) \in [I -> Int]
        /\ \A i \in I : CopyInverse(vol, n, tile, content)[i] \in {h[i], vol[i]}
        /\ \A x \in Voxels(tile, tile.real) :
             VoxelRow(n, tile, x) \in I =>
               CopyInverse(vol, n, tile, content)[VoxelRow(n, tile, x)] = h[VoxelRow(n, tile, x)]
    BY <1>6, <1>8, <2>2, CopiedBack
  <2> QED
    BY <2>3, <2>4
<1>10. ASSUME NEW s \in DOMAIN Bands, NEW k \in TilesIn(s), Earlier(s, k)'
       PROVE  Restored(s, k)'
  <2>1. k \in Nat /\ s \in Nat
    BY <1>1, CodecBands
  <2>2. PICK t : t = TileOf(Bands, s, k)
    OBVIOUS
  <2>3. SUFFICES ASSUME NEW x \in Voxels(t, t.real), VoxelRow(n, t, x) \in I
                 PROVE  vol'[VoxelRow(n, t, x)] = h[VoxelRow(n, t, x)]
    BY <1>2, <1>3, <1>4, <2>2 DEF Restored
  <2>4. CASE s = band /\ k = step
    BY <1>2, <1>9, <2>2, <2>3, <2>4
  <2>5. CASE ~(s = band /\ k = step)
    <3>1. Earlier(s, k)
      BY <1>1, <1>3, <1>10, <2>1, <2>5 DEF Earlier
    <3>2. vol[VoxelRow(n, t, x)] = h[VoxelRow(n, t, x)]
      BY <1>1, <1>2, <2>2, <2>3, <3>1 DEF Restored
    <3> QED
      BY <1>9, <2>3, <3>2
  <2> QED
    BY <2>4, <2>5
<1>11. \A s \in DOMAIN Bands' : \A k \in TilesIn(s)' : Earlier(s, k)' => Restored(s, k)'
  BY <1>4, <1>5, <1>10
<1>12. ASSUME NEW s \in DOMAIN Bands', NEW k \in TilesIn(s)' PROVE Filed(s, k)'
  BY <1>1, <1>2, <1>3, <1>4, <1>5 DEF Filed
<1>13. step' \in Nat
  BY <1>1, <1>3
<1>14. Coding' /\ phase' = "read" /\ band' \in DOMAIN Bands'
  BY <1>1, <1>3, <1>4 DEF Coding
<1>15. vol' \in [Indices(task'.n) -> Int] /\ IsCodec(task') /\ band' \in Nat \ {0}
  BY <1>1, <1>2, <1>3, <1>9
<1> QED
  BY <1>11, <1>12, <1>13, <1>14, <1>15 DEF CodecPhases

\* Within the last tile of a subband and the first of the next nothing is
\* left out.
LEMMA NextSubbandStep ==
    ASSUME CodecPhases, NextSubband
    PROVE  CodecPhases'
<1>1. /\ IsCodec(task) /\ phase \in {"write", "read"} /\ step \in Nat /\ band \in Nat \ {0}
      /\ band \in DOMAIN Bands /\ step = Prod(NumTiles(Bands[band]))
      /\ vol \in [Indices(task.n) -> Int]
  BY DEF CodecPhases, NextSubband, Coding
<1>2. /\ task' = task /\ phase' = phase /\ band' = band + 1 /\ step' = 0 /\ vol' = vol
      /\ file' = file
  BY DEF NextSubband
<1>3. Bands' = Bands /\ Coefficients' = Coefficients
  BY <1>2 DEF Bands, Coefficients, NPasses
<1>4. \A s : TilesIn(s)' = TilesIn(s)
  BY <1>3 DEF TilesIn
<1>5. ASSUME NEW s \in DOMAIN Bands, NEW k \in TilesIn(s), Earlier(s, k)'
      PROVE  Earlier(s, k)
  <2>1. k \in Nat /\ k < Prod(NumTiles(Bands[s])) /\ s \in Nat
    BY <1>1, CodecBands
  <2>2. s < band + 1
    BY <1>2, <1>5, <2>1 DEF Earlier
  <2> QED
    BY <1>1, <2>1, <2>2 DEF Earlier
<1>6. \A s \in DOMAIN Bands : \A k \in TilesIn(s) : Filed(s, k)' <=> Filed(s, k)
  BY <1>2, <1>3 DEF Filed
<1>7. \A s \in DOMAIN Bands : \A k \in TilesIn(s) : Restored(s, k)' <=> Restored(s, k)
  BY <1>2, <1>3 DEF Restored
<1>8. Coding' /\ step' = 0 /\ step' \in Nat /\ band' \in Nat \ {0}
      /\ band' - 1 \in DOMAIN Bands'
  <2>1. band' - 1 = band
    BY <1>1, <1>2
  <2> QED
    BY <1>1, <1>2, <1>3, <2>1 DEF Coding
<1>9. vol' \in [Indices(task'.n) -> Int] /\ IsCodec(task')
      /\ phase' \in {"forward", "write", "read", "inverse", "done"}
      /\ phase' \notin {"forward", "inverse", "done"}
  BY <1>1, <1>2
<1>10. phase' = "write" =>
          /\ vol' = Coefficients'
          /\ \A s \in DOMAIN Bands' : \A k \in TilesIn(s)' : Earlier(s, k)' => Filed(s, k)'
  <2> SUFFICES ASSUME phase = "write"
               PROVE  /\ vol = Coefficients
                      /\ \A s \in DOMAIN Bands : \A k \in TilesIn(s) : Earlier(s, k)' => Filed(s, k)'
    BY <1>2, <1>3, <1>4
  <2>1. /\ vol = Coefficients
        /\ \A s \in DOMAIN Bands : \A k \in TilesIn(s) : Earlier(s, k) => Filed(s, k)
    BY DEF CodecPhases
  <2> QED
    BY <1>5, <1>6, <2>1
<1>11. phase' = "read" =>
          /\ \A s \in DOMAIN Bands' : \A k \in TilesIn(s)' : Filed(s, k)'
          /\ \A s \in DOMAIN Bands' : \A k \in TilesIn(s)' : Earlier(s, k)' => Restored(s, k)'
  <2> SUFFICES ASSUME phase = "read"
               PROVE  /\ \A s \in DOMAIN Bands : \A k \in TilesIn(s) : Filed(s, k)'
                      /\ \A s \in DOMAIN Bands : \A k \in TilesIn(s) :
                            Earlier(s, k)' => Restored(s, k)'
    BY <1>2, <1>3, <1>4
  <2>1. /\ \A s \in DOMAIN Bands : \A k \in TilesIn(s) : Filed(s, k)
        /\ \A s \in DOMAIN Bands : \A k \in TilesIn(s) : Earlier(s, k) => Restored(s, k)
    BY DEF CodecPhases
  <2> QED
    BY <1>5, <1>6, <1>7, <2>1
<1> QED
  BY <1>8, <1>9, <1>10, <1>11 DEF CodecPhases

\* After the last subband all the tiles are done.
LEMMA AllEarlier ==
    ASSUME CodecPhases, Coding, band \notin DOMAIN Bands
    PROVE  \A s \in DOMAIN Bands : \A k \in TilesIn(s) : Earlier(s, k)
<1>1. band - 1 \in DOMAIN Bands /\ band \in Nat \ {0} /\ IsCodec(task)
  BY DEF CodecPhases
<1>2. PICK K \in Nat \ {0} : DOMAIN Bands = 1 .. K
  BY <1>1, CodecBands
<1>3. \A s \in 1 .. K : s < band
  BY <1>1, <1>2
<1> QED
  BY <1>2, <1>3 DEF Earlier

\* The volume that is decoded into holds nothing yet, and the file everything.
LEMMA BeginDecodeStep ==
    ASSUME CodecPhases, BeginDecode
    PROVE  CodecPhases'
<1>1. /\ IsCodec(task) /\ phase = "write" /\ band \notin DOMAIN Bands /\ Coding
      /\ step = 0 /\ vol \in [Indices(task.n) -> Int]
  BY DEF CodecPhases, BeginDecode, Coding
<1>2. /\ task' = task /\ phase' = "read" /\ band' = 1 /\ step' = 0 /\ file' = file
      /\ vol' = [i \in Indices(task.n) |-> Junk]
  <2>1. DOMAIN vol = Indices(task.n)
    BY <1>1
  <2> QED
    BY <1>1, <2>1 DEF BeginDecode
<1>3. Bands' = Bands /\ Coefficients' = Coefficients
  BY <1>2 DEF Bands, Coefficients, NPasses
<1>4. \A s : TilesIn(s)' = TilesIn(s)
  BY <1>3 DEF TilesIn
<1>5. \A s \in DOMAIN Bands : \A k \in TilesIn(s) : Filed(s, k)
  BY <1>1, AllEarlier DEF CodecPhases
<1>6. \A s \in DOMAIN Bands' : \A k \in TilesIn(s)' : Filed(s, k)'
  BY <1>2, <1>3, <1>4, <1>5 DEF Filed
<1>7. ASSUME NEW s \in DOMAIN Bands', NEW k \in TilesIn(s)'
      PROVE  ~Earlier(s, k)'
  <2>1. s \in Nat /\ s # 0
    BY <1>1, <1>3, CodecBands
  <2>2. k \in Nat
    BY DEF TilesIn
  <2> QED
    BY <1>2, <2>1, <2>2 DEF Earlier
<1>8. vol' \in [Indices(task'.n) -> Int]
  BY <1>2 DEF Junk
<1>9. band' \in DOMAIN Bands'
  BY <1>1, <1>2, <1>3, CodecBands
<1> QED
  BY <1>1, <1>2, <1>6, <1>7, <1>8, <1>9 DEF CodecPhases

\* Every sample is a voxel of a tile, so that all of them have been read.
LEMMA AllRestored ==
    ASSUME CodecPhases, phase = "read", band \notin DOMAIN Bands
    PROVE  vol = Coefficients
<1>1. /\ IsCodec(task) /\ Coding /\ vol \in [Indices(task.n) -> Int]
      /\ \A s \in DOMAIN Bands : \A k \in TilesIn(s) : Earlier(s, k) => Restored(s, k)
  BY DEF CodecPhases, Coding
<1>2. \A s \in DOMAIN Bands : \A k \in TilesIn(s) : Restored(s, k)
  BY <1>1, AllEarlier
<1>3. PICK n \in Lengths, levels \in Nat :
         n = task.n /\ levels = task.levels /\ FlatLast(n)
  BY <1>1 DEF IsCodec
<1>4. PICK sbs : sbs = Bands /\ sbs = SubbandExtents(n, levels)
  BY <1>3 DEF Bands
<1>5. n \in Sizes
  BY LengthsFit
<1>6. ASSUME NEW i \in Indices(n)
      PROVE  vol[i] = Coefficients[i]
  <2>1. PICK p \in Box(n) : p = Position(n, i) /\ Row(n, p) = i
    BY <1>5, PositionAt
  <2>2. PICK s \in DOMAIN sbs : In(sbs[s], p)
    BY <1>3, <1>4, Covered
  <2>3. p \in Vectors
    <3>1. n[1] \in Nat /\ n[2] \in Nat /\ n[3] \in Nat
      BY <1>5 DEF Sizes
    <3> QED
      BY <3>1 DEF Box, Vectors
  <2>4. sbs[s].from \in Vectors /\ sbs[s].dims \in Vectors
    BY <1>1, <1>4, CodecBands
  <2>5. \E k \in Nat :
           /\ k < Prod(NumTiles(sbs[s]))
           /\ \E x \in Voxels(TileOf(sbs, s, k), TileOf(sbs, s, k).real) :
                 VoxelRow(n, TileOf(sbs, s, k), x) = Row(n, p)
    BY <2>2, <2>3, <2>4, Tiled
  <2>6. PICK k \in Nat :
           /\ k < Prod(NumTiles(sbs[s]))
           /\ \E x \in Voxels(TileOf(sbs, s, k), TileOf(sbs, s, k).real) :
                 VoxelRow(n, TileOf(sbs, s, k), x) = Row(n, p)
    BY <2>5
  <2>7. k \in TilesIn(s) /\ s \in DOMAIN Bands
    BY <1>1, <1>4, <2>6, CodecBands
  <2>8. PICK x \in Voxels(TileOf(Bands, s, k), TileOf(Bands, s, k).real) :
           VoxelRow(task.n, TileOf(Bands, s, k), x) = i
    BY <1>3, <1>4, <2>1, <2>6
  <2>9. Restored(s, k)
    BY <1>2, <2>7
  <2> QED
    BY <1>3, <2>8, <2>9 DEF Restored
<1>7. Coefficients \in [Indices(n) -> Int]
  <2>1. NPasses \in 0 .. 3 * task.levels
    BY <1>1, CodecBands DEF NPasses
  <2> QED
    BY <1>1, <1>3, <2>1, Passes DEF Coefficients
<1>8. vol = [i \in Indices(n) |-> vol[i]]
  BY <1>1, <1>3
<1>9. Coefficients = [i \in Indices(n) |-> Coefficients[i]]
  BY <1>7
<1> QED
  BY <1>6, <1>8, <1>9

\* With all tiles read there are the coefficients, as after the last pass forth.
LEMMA EndReadStep ==
    ASSUME CodecPhases, EndRead
    PROVE  CodecPhases'
<1>1. /\ IsCodec(task) /\ phase = "read" /\ band \notin DOMAIN Bands /\ band \in Nat \ {0}
      /\ vol \in [Indices(task.n) -> Int]
  BY DEF CodecPhases, EndRead
<1>2. vol = Coefficients
  BY <1>1, AllRestored
<1>3. /\ task' = task /\ phase' = "inverse" /\ step' = NPasses /\ band' = band /\ vol' = vol
      /\ NPasses' = NPasses
  BY DEF EndRead, NPasses
<1>4. NPasses \in Nat /\ NPasses <= NPasses
  BY <1>1, CodecBands
<1>5. vol' = OldPasses(task')[step'] /\ step' <= NPasses' /\ step' \in Nat
  BY <1>2, <1>3, <1>4 DEF Coefficients
<1>6. ~Coding'
  BY <1>3 DEF Coding
<1> QED
  BY <1>1, <1>3, <1>5, <1>6 DEF CodecPhases

\* The inductive invariant.
THEOREM WaveletCodecInv == Spec => []CodecInv
<1>1. Init => CodecInv
  BY CodecInit
<1>2. CodecInv /\ [Next]_vars => CodecInv'
  <2> SUFFICES ASSUME CodecInv, [Next]_vars, task'.kind = "codec"
               PROVE  CodecPhases'
    BY DEF CodecInv
  <2>1. task' = task
    BY DEF Next, vars, ForwardAxis, EndForward, InverseAxis, EndInverse, WriteTile, ReadTile,
           NextSubband, BeginDecode, EndRead, FormSubbands, LiftTile, AddTile, LookUp,
           EndLookUp, Done
  <2>2. CodecPhases
    BY <2>1 DEF CodecInv
  <2>3. phase \in {"forward", "write", "read", "inverse", "done"}
    BY <2>2 DEF CodecPhases
  <2>4. CASE UNCHANGED vars
    BY <2>2, <2>4 DEF vars, CodecPhases, Coding, NPasses, Bands, Coefficients, TilesIn,
                      Earlier, Filed, Restored
  <2>5. CASE ForwardAxis
    BY <2>2, <2>5, ForwardStep
  <2>6. CASE EndForward
    BY <2>2, <2>6, EndForwardStep
  <2>7. CASE InverseAxis
    BY <2>2, <2>7, InverseStep
  <2>8. CASE EndInverse
    BY <2>2, <2>8, EndInverseStep
  <2>9. CASE WriteTile
    BY <2>2, <2>9, WriteStep
  <2>10. CASE ReadTile
    BY <2>2, <2>10, ReadStep
  <2>11. CASE NextSubband
    BY <2>2, <2>11, NextSubbandStep
  <2>12. CASE BeginDecode
    BY <2>2, <2>12, BeginDecodeStep
  <2>13. CASE EndRead
    BY <2>2, <2>13, EndReadStep
  <2>14. CASE FormSubbands \/ LiftTile \/ AddTile \/ LookUp \/ EndLookUp
    <3>1. CASE FormSubbands
      BY <2>3, <3>1 DEF FormSubbands
    <3>2. CASE LiftTile
      BY <2>3, <3>2 DEF LiftTile
    <3>3. CASE AddTile
      BY <2>3, <3>3 DEF AddTile
    <3>4. CASE LookUp
      BY <2>3, <3>4 DEF LookUp
    <3>5. CASE EndLookUp
      BY <2>3, <3>5 DEF EndLookUp
    <3> QED
      BY <2>14, <3>1, <3>2, <3>3, <3>4, <3>5
  <2>15. CASE Done
    BY <2>4, <2>15 DEF Done
  <2> QED
    BY <2>4, <2>5, <2>6, <2>7, <2>8, <2>9, <2>10, <2>11, <2>12, <2>13, <2>14, <2>15 DEF Next
<1> QED
  BY <1>1, <1>2, PTL DEF Spec

\* Decode gives back every sample that Encode was given, for volumes of all
\* dimensions, any number of levels, and tiles and blocks of every size.
THEOREM WaveletReconstructs == Spec => [](task.kind = "codec" => Reconstructs)
<1>1. CodecInv => (task.kind = "codec" => Reconstructs)
  <2> SUFFICES ASSUME CodecPhases, phase = "done"
               PROVE  \A i \in Indices(task.n) :
                        vol[Row(Dims(task), Position(task.n, i))] = task.src[i]
    BY DEF CodecInv, Reconstructs, SamplesReturn
  <2>1. IsCodec(task) /\ vol = task.src
    BY DEF CodecPhases
  <2>2. Dims(task) = task.n
    BY <2>1, CodecDims
  <2>3. task.n \in Sizes
    BY <2>1, LengthsFit DEF IsCodec
  <2>4. \A i \in Indices(task.n) : Row(task.n, Position(task.n, i)) = i
    BY <2>3, PositionAt
  <2> QED
    BY <2>1, <2>2, <2>4
<1> QED
  BY <1>1, WaveletCodecInv, PTL

-----------------------------------------------------------------------------
(* The passes in place.                                                    *)

\* Two powers of two, of which the larger is an even multiple of the other.
LEMMA PowSplit ==
    ASSUME NEW l \in Nat, NEW L \in Nat, l < L
    PROVE  \E e \in Nat \ {0} : 2 ^ L = 2 * (e * 2 ^ l)
<1> DEFINE T == {x \in Nat : l < x /\ ~\E e \in Nat \ {0} : 2 ^ x = 2 * (e * 2 ^ l)}
<1>1. SUFFICES ASSUME T # {} PROVE FALSE
  OBVIOUS
<1>2. PICK m \in T : \A y \in T : m <= y
  <2>1. T \subseteq Nat
    OBVIOUS
  <2> QED
    BY <1>1, <2>1, Least
<1>3. m \in Nat /\ l < m /\ ~\E e \in Nat \ {0} : 2 ^ m = 2 * (e * 2 ^ l)
  OBVIOUS
<1>4. PICK k \in Nat : m = k + 1 /\ l <= k
  <2>1. m - 1 \in Nat /\ m = (m - 1) + 1 /\ l <= m - 1
    BY <1>3
  <2> QED
    BY <2>1
<1>5. PICK a \in Nat, b \in Nat, c \in Nat : a = 2 ^ l /\ b = 2 ^ k /\ c = 2 ^ m /\ c = 2 * b
  BY <1>4, PowNat, PowDouble
<1>6. CASE k = l
  <2>1. c = 2 * (1 * a)
    BY <1>5, <1>6
  <2> QED
    BY <1>3, <1>5, <2>1
<1>7. CASE k # l
  <2>1. k \notin T
    <3>1. k \in T => m <= k
      BY <1>2
    <3> HIDE DEF T
    <3> QED
      BY <1>4, <3>1
  <2>2. PICK e \in Nat \ {0} : b = 2 * (e * a)
    BY <1>4, <1>5, <1>7, <2>1
  <2>3. c = 2 * ((2 * e) * a)
    BY <1>5, <2>2
  <2>4. 2 * e \in Nat \ {0}
    OBVIOUS
  <2> QED
    BY <1>3, <1>5, <2>3, <2>4
<1> QED
  BY <1>6, <1>7

\* The samples of a level along an axis of m: two more than the full steps
\* there are between its first and its last.
Closed(m, l) == IF m = 1 THEN 1 ELSE ((m - 2) \div 2 ^ l) + 2

\* A level has half as many steps as the one before.
LEMMA ClosedStep ==
    ASSUME NEW m \in Nat \ {0}, NEW l \in Nat
    PROVE  /\ Closed(m, 0) = m
           /\ (Closed(m, l) \div 2) + 1 = Closed(m, l + 1)
           /\ Closed(m, l) \in Nat \ {0} /\ Closed(m, l) <= m
           /\ m > 1 => /\ Closed(m, l) >= 2
                       /\ 2 ^ l * (Closed(m, l) - 2) <= m - 2
<1>1. PICK p \in Nat \ {0}, q \in Nat \ {0} : p = 2 ^ l /\ q = 2 ^ (l + 1) /\ q = 2 * p
  <2>1. 2 ^ l \in Nat /\ 2 ^ l >= 1 /\ 2 ^ (l + 1) = 2 * 2 ^ l
    BY PowPos, PowDouble
  <2> QED
    BY <2>1
<1>2. CASE m = 1
  <2>1. (1 \div 2) + 1 = 1
    OBVIOUS
  <2> QED
    BY <1>2, <2>1 DEF Closed
<1>3. CASE m # 1
  <2>1. PICK a \in Nat : a = m - 2 /\ m = a + 2
    <3>1. m - 2 \in Nat /\ m = (m - 2) + 2
      BY <1>3
    <3> QED
      BY <3>1
  <2>2. PICK x \in Nat, r \in 0 .. p - 1 : x = a \div p /\ r = a % p /\ a = x * p + r
    BY Divided
  <2>3. PICK y \in Nat, s \in 0 .. 1 : x = y * 2 + s
    <3>1. 2 \in Nat \ {0} /\ 2 - 1 = 1
      OBVIOUS
    <3>2. PICK y \in Nat, s \in 0 .. 2 - 1 : y = x \div 2 /\ s = x % 2 /\ x = y * 2 + s
      BY <3>1, Divided
    <3> QED
      BY <3>2
  <2>4. (a \div q) = y
    <3>1. PICK t \in 0 .. q - 1 : t = s * p + r
      <4>1. s * p + r \in 0 .. q - 1
        <5>1. CASE s = 0
          BY <1>1, <5>1
        <5>2. CASE s = 1
          BY <1>1, <5>2
        <5> QED
          BY <5>1, <5>2
      <4> QED
        BY <4>1
    <3>2. (y * 2 + s) * p = y * (2 * p) + s * p
      OBVIOUS
    <3>3. x * p = (y * 2 + s) * p /\ y * q = y * (2 * p)
      BY <1>1, <2>3
    <3>4. y * q \in Nat /\ s * p \in Nat /\ x * p \in Nat
      OBVIOUS
    <3>5. a = y * q + t
      BY <2>2, <3>1, <3>2, <3>3, <3>4
    <3> QED
      BY <3>1, <3>5, DivMod
  <2>5. Closed(m, l) = x + 2 /\ Closed(m, l + 1) = y + 2
    BY <1>1, <1>3, <2>1, <2>2, <2>4 DEF Closed
  <2>6. ((x + 2) \div 2) + 1 = y + 2
    BY <2>3
  <2>7. Closed(m, 0) = m
    <3>1. (a \div 1) = a
      OBVIOUS
    <3> QED
      BY <1>3, <2>1, <3>1, SmallPowers DEF Closed
  <2>8. x * p <= a /\ x <= x * p
    BY <2>2
  <2>9. p * ((x + 2) - 2) = x * p
    OBVIOUS
  <2>10. x + 2 <= m /\ p * ((x + 2) - 2) <= m - 2
    BY <2>1, <2>8, <2>9
  <2> QED
    BY <1>1, <2>5, <2>6, <2>7, <2>10
<1> QED
  BY <1>2, <1>3

\* One less than a multiple.
LEMMA JustBefore ==
    ASSUME NEW p \in Nat \ {0}, NEW x \in Nat, NEW a \in Nat, a = x * p + (p - 1)
    PROVE  (a \div p) = x
<1>1. PICK r \in 0 .. p - 1 : r = p - 1
  OBVIOUS
<1>2. a = x * p + r
  BY <1>1
<1> QED
  BY <1>2, DivMod

\* An axis of 2^L steps, or a multiple of them, is odd at all levels below L.
LEMMA StaysOdd ==
    ASSUME NEW m \in Nat \ {0}, NEW l \in Nat, NEW L \in Nat, l < L, ((m - 1) % 2 ^ L) = 0
    PROVE  (Closed(m, l) % 2) = 1
<1>1. CASE m = 1
  <2>1. (1 % 2) = 1
    OBVIOUS
  <2> QED
    BY <1>1, <2>1 DEF Closed
<1>2. CASE m # 1
  <2>1. PICK p \in Nat \ {0}, e \in Nat \ {0}, w \in Nat \ {0} :
           p = 2 ^ l /\ w = 2 ^ L /\ w = 2 * (e * p)
    <3>1. PICK e \in Nat \ {0} : 2 ^ L = 2 * (e * 2 ^ l)
      BY PowSplit
    <3>2. 2 ^ l \in Nat \ {0} /\ 2 ^ L \in Nat \ {0}
      BY PowPos
    <3> QED
      BY <3>1, <3>2
  <2>2. PICK b \in Nat : b = m - 1 /\ b # 0 /\ (b % w) = 0
    BY <1>2, <2>1
  <2>3. PICK c \in Nat : b = c * w /\ c # 0
    <3>1. PICK c \in Nat, r \in 0 .. w - 1 : c = b \div w /\ r = b % w /\ b = c * w + r
      BY Divided
    <3>2. b = c * w
      BY <2>2, <3>1
    <3>3. c # 0
      BY <2>2, <3>2
    <3> QED
      BY <3>2, <3>3
  <2>4. PICK f \in Nat \ {0} : f = c * e
    <3>1. c * e \in Nat \ {0}
      BY <2>3
    <3> QED
      BY <3>1
  <2>5. b = (2 * f) * p
    <3>1. c * (2 * (e * p)) = (2 * (c * e)) * p
      OBVIOUS
    <3> QED
      BY <2>1, <2>3, <2>4, <3>1
  <2>6. PICK x \in Nat : x = 2 * f - 1
    BY <2>4
  <2>7. PICK a \in Nat : a = m - 2 /\ a = b - 1
    BY <1>2, <2>2
  <2>8. a = x * p + (p - 1)
    <3>1. (2 * f - 1) * p = (2 * f) * p - p
      OBVIOUS
    <3> QED
      BY <2>5, <2>6, <2>7, <3>1
  <2>9. (a \div p) = x
    BY <2>8, JustBefore
  <2>10. Closed(m, l) = x + 2
    BY <1>2, <2>1, <2>7, <2>9 DEF Closed
  <2>11. x + 2 = f * 2 + 1
    BY <2>6
  <2>12. ((x + 2) % 2) = 1
    BY <2>11
  <2> QED
    BY <2>10, <2>12
<1> QED
  BY <1>1, <1>2

NextDims(v) == <<(v[1] \div 2) + 1, (v[2] \div 2) + 1, (v[3] \div 2) + 1>>

\* What is left to a level along an axis.
LEMMA GridDimsAre ==
    ASSUME NEW n \in Lengths, NEW l \in Nat
    PROVE  \A i \in Axes : GridDims(n, l)[i] = Closed(n[i], l)
<1>0. n \in Sizes /\ n = <<n[1], n[2], n[3]>>
      /\ n[1] \in Nat \ {0} /\ n[2] \in Nat \ {0} /\ n[3] \in Nat \ {0}
  BY LengthsFit DEF Sizes
<1> DEFINE Is(f) == f = [k \in 0 .. l |-> IF k = 0 THEN n ELSE NextDims(f[k - 1])]
           D(k) == <<Closed(n[1], k), Closed(n[2], k), Closed(n[3], k)>>
<1>1. D(0) = n
  BY <1>0, ClosedStep
<1>2. ASSUME NEW k \in Nat
      PROVE  NextDims(D(k)) = D(k + 1)
  BY <1>0, ClosedStep DEF NextDims
<1> HIDE DEF D
<1>3. Is([k \in 0 .. l |-> D(k)])
  <2>1. PICK f : f = [k \in 0 .. l |-> D(k)]
    OBVIOUS
  <2>2. ASSUME NEW k \in 0 .. l, k # 0
        PROVE  f[k] = NextDims(f[k - 1])
    <3>1. PICK j \in Nat : j = k - 1 /\ j + 1 = k /\ j \in 0 .. l
      <4>1. k - 1 \in Nat /\ (k - 1) + 1 = k /\ k - 1 \in 0 .. l
        BY <2>2
      <4> QED
        BY <4>1
    <3>2. f[k] = D(j + 1) /\ f[k - 1] = D(j)
      BY <2>1, <3>1
    <3> QED
      BY <1>2, <3>2
  <2>3. f[0] = n
    BY <1>1, <2>1
  <2>4. [k \in 0 .. l |-> f[k]] = [k \in 0 .. l |->
           IF k = 0 THEN n ELSE NextDims(f[k - 1])]
    BY <2>2, <2>3
  <2>5. f = [k \in 0 .. l |-> f[k]]
    BY <2>1
  <2> QED
    BY <2>1, <2>4, <2>5
<1>4. PICK f : f = CHOOSE g : Is(g)
  OBVIOUS
<1>5. GridDims(n, l) = f[l]
  BY <1>4 DEF GridDims, Each, NextDims
<1>6. Is(f)
  BY <1>3, <1>4
<1>7. \A k \in 0 .. l : f[k] = IF k = 0 THEN n ELSE NextDims(f[k - 1])
  BY <1>6
<1>8. f[l] = D(l)
  <2> DEFINE T == {k \in 0 .. l : f[k] # D(k)}
  <2>1. SUFFICES ASSUME T # {} PROVE FALSE
    <3>1. l \in 0 .. l
      OBVIOUS
    <3> QED
      BY <3>1
  <2>2. PICK m \in T : \A y \in T : m <= y
    <3>1. T \subseteq Nat
      OBVIOUS
    <3> QED
      BY <2>1, <3>1, Least
  <2>3. m \in 0 .. l /\ f[m] # D(m)
    OBVIOUS
  <2>4. m # 0
    BY <1>1, <1>7, <2>3
  <2>5. PICK j \in 0 .. l : j = m - 1 /\ m = j + 1
    <3>1. m - 1 \in 0 .. l /\ m = (m - 1) + 1
      BY <2>3, <2>4
    <3> QED
      BY <3>1
  <2>6. f[j] = D(j)
    <3>1. j \in T => m <= j
      BY <2>2
    <3>2. j \notin T
      <4> HIDE DEF T
      <4> QED
        BY <2>5, <3>1
    <3> QED
      BY <3>2
  <2>7. f[m] = NextDims(f[j])
    BY <1>7, <2>3, <2>4, <2>5
  <2> QED
    BY <1>2, <2>3, <2>5, <2>6, <2>7
<1> QED
  BY <1>5, <1>8 DEF D, Axes

\* The grid of a pass along its own axis.
LEMMA PassGridIs ==
    ASSUME NEW n \in Lengths, NEW k \in Nat,
           NEW a \in Axes, a = AxisOf(k), NEW l \in Nat, l = LevelOf(k)
    PROVE  /\ PassGrid(n, k).from[a] = 0
           /\ PassGrid(n, k).dims[a] = Closed(n[a], l)
           /\ PassGrid(n, k).strd[a] \in Int
           /\ 2 ^ l < PackLimit => PassGrid(n, k).strd[a] = 2 ^ l
<1>1. PICK d : d = GridDims(n, l) /\ d[a] = Closed(n[a], l)
  BY GridDimsAre
<1>2. PICK c \in Nat, m \in Nat : c = Closed(n[a], l) /\ m = n[a] /\ c < PackLimit
  <2>1. n[a] \in Nat \ {0} /\ n[a] < PackLimit
    BY LengthsFit
  <2>2. Closed(n[a], l) \in Nat \ {0} /\ Closed(n[a], l) <= n[a]
    BY <2>1, ClosedStep
  <2> QED
    BY <2>1, <2>2, LimitNat
<1> DEFINE ext(i) == IF i < AxisOf(k) /\ Extrapolates(d[i]) THEN 1 ELSE 0
           sums == <<d[1] + ext(1), d[2] + ext(2), d[3] + ext(3)>>
<1>3. PassGrid(n, k) = Grid(Vec(0), sums, Vec(2 ^ l))
  BY <1>1 DEF PassGrid, Each
<1>4. sums[a] = c
  <2>1. ext(a) = 0
    BY DEF Axes
  <2> HIDE DEF ext
  <2>2. sums[a] = d[a] + ext(a)
    BY DEF Axes
  <2>3. c + 0 = c
    OBVIOUS
  <2> HIDE DEF sums
  <2> QED
    BY <1>1, <1>2, <2>1, <2>2, <2>3
<1> HIDE DEF sums
<1>5. \A v : Packed(v)[a] = ((v[a] + PackLimit) % (2 * PackLimit)) - PackLimit
  BY DEF Packed, Each, Axes
<1>6. Vec(0)[a] = 0 /\ Vec(2 ^ l)[a] = 2 ^ l
  BY DEF Vec, Axes
<1>7. PassGrid(n, k).from[a] = 0
  <2>1. Packed(Vec(0))[a] = ((0 + PackLimit) % (2 * PackLimit)) - PackLimit
    BY <1>5, <1>6
  <2>2. ((0 + PackLimit) % (2 * PackLimit)) - PackLimit = 0
    BY LimitNat, PackedAxis
  <2> QED
    BY <1>3, <2>1, <2>2 DEF Grid
<1>8. PassGrid(n, k).dims[a] = c
  <2>1. Packed(sums)[a] = ((c + PackLimit) % (2 * PackLimit)) - PackLimit
    BY <1>4, <1>5
  <2>2. ((c + PackLimit) % (2 * PackLimit)) - PackLimit = c
    BY <1>2, PackedAxis
  <2> QED
    BY <1>3, <2>1, <2>2 DEF Grid
<1>9. PICK p \in Nat : p = 2 ^ l
  BY PowNat
<1>10. PassGrid(n, k).strd[a] = ((p + PackLimit) % (2 * PackLimit)) - PackLimit
  <2>1. Packed(Vec(2 ^ l))[a] = ((p + PackLimit) % (2 * PackLimit)) - PackLimit
    BY <1>5, <1>6, <1>9
  <2> QED
    BY <1>3, <2>1 DEF Grid
<1>11. ((p + PackLimit) % (2 * PackLimit)) - PackLimit \in Int
  <2>1. PICK x \in Nat : x = PackLimit /\ x > 1
    BY LimitNat
  <2>2. p + x \in Nat /\ 2 * x \in Nat \ {0}
    BY <2>1
  <2>3. ((p + x) % (2 * x)) \in Int
    BY <2>2
  <2> QED
    BY <2>1, <2>3
<1>12. p < PackLimit => ((p + PackLimit) % (2 * PackLimit)) - PackLimit = p
  BY PackedAxis
<1> QED
  BY <1>2, <1>7, <1>8, <1>9, <1>10, <1>11, <1>12

\* The tasks whose passes are in place: n is what fits a volume, and nothing is
\* extrapolated where there is no room for it.
InPlaceTask(t) ==
    /\ t.n \in Lengths /\ t.levels \in Nat
    /\ t.kind = "inplace" \/ (t.kind = "form" /\ NeverExtrapolates(t.n, t.levels))

\* What FLiftCdf53 and ILiftCdf53 assert, at pass k.
LEMMA LegalPass ==
    ASSUME NEW t, InPlaceTask(t), NEW k \in 0 .. 3 * t.levels - 1, NEW a \in Axes, a = AxisOf(k)
    PROVE  LET g == PassGrid(t.n, k)
           IN LiftAsserts(g.from[a], g.dims[a], g.strd[a], t.n[a], Dims(t)[a])
<1>1. PICK n \in Lengths, L \in Nat : n = t.n /\ L = t.levels
  BY DEF InPlaceTask
<1>2. PICK m \in Nat \ {0} : m = n[a] /\ m < PackLimit
  BY LengthsFit
<1>3. PICK l \in Nat : l = LevelOf(k) /\ l < L /\ k \in Nat
  <2>1. PICK j \in Nat : j = k /\ j < 3 * L
    BY <1>1
  <2>2. (j \div 3) \in Nat /\ (j \div 3) < L
    BY <2>1
  <2> QED
    BY <2>1, <2>2 DEF LevelOf
<1>4. PICK g \in {PassGrid(n, k)}, d \in Nat, s \in Int :
         /\ g = PassGrid(n, k) /\ d = g.dims[a] /\ s = g.strd[a]
         /\ g.from[a] = 0 /\ d = Closed(m, l)
         /\ (2 ^ l < PackLimit => s = 2 ^ l)
  <2>1. /\ PassGrid(n, k).from[a] = 0
        /\ PassGrid(n, k).dims[a] = Closed(m, l)
        /\ PassGrid(n, k).strd[a] \in Int
        /\ 2 ^ l < PackLimit => PassGrid(n, k).strd[a] = 2 ^ l
    BY <1>2, <1>3, PassGridIs
  <2>2. Closed(m, l) \in Nat
    BY ClosedStep
  <2> QED
    BY <2>1, <2>2
<1>5. PICK N : N = Dims(t)[a]
  OBVIOUS
<1>6. N = IF t.kind = "inplace" /\ m > 1 THEN m + 1 ELSE m
  BY <1>1, <1>2, <1>5 DEF Dims, Each, Axes
<1>7. LiftAsserts(0, d, s, m, N)
  <2>1. CASE m = 1
    BY <1>4, <2>1 DEF Closed, LiftAsserts
  <2>2. CASE m # 1
    <3>1. PICK p \in Nat, e \in Nat : p = 2 ^ l /\ d = e + 2 /\ p * e <= m - 2
      <4>1. 2 ^ l \in Nat /\ d \in Nat /\ d >= 2 /\ 2 ^ l * (d - 2) <= m - 2
        <5>1. 2 ^ l \in Nat /\ m > 1
          BY <2>2, PowNat
        <5>2. Closed(m, l) >= 2 /\ 2 ^ l * (Closed(m, l) - 2) <= m - 2
          BY <5>1, ClosedStep
        <5> QED
          BY <1>4, <5>1, <5>2
      <4>2. d - 2 \in Nat /\ d = (d - 2) + 2
        BY <4>1
      <4> QED
        BY <4>1, <4>2
    <3>2. s * (d - 2) < m
      <4>1. CASE e = 0
        <5>1. d - 2 = 0 /\ s * 0 = 0
          BY <3>1, <4>1
        <5> QED
          BY <5>1
      <4>2. CASE e # 0
        <5>1. p <= p * e
          BY <4>2
        <5>2. p < PackLimit
          BY <1>2, <3>1, <5>1, LimitNat
        <5>3. s = p /\ d - 2 = e
          BY <1>4, <3>1, <5>2
        <5>4. p * e \in Nat
          OBVIOUS
        <5> QED
          BY <3>1, <5>3, <5>4
      <4> QED
        BY <4>1, <4>2
    <3>3. Extrapolates(d) => m < N
      <4>1. CASE t.kind = "inplace"
        BY <1>6, <2>2, <4>1
      <4>2. CASE t.kind # "inplace"
        <5>1. ((m - 1) % 2 ^ L) = 0
          BY <1>1, <1>2, <4>2 DEF InPlaceTask, NeverExtrapolates
        <5>2. (Closed(m, l) % 2) = 1
          BY <1>3, <5>1, StaysOdd
        <5> QED
          BY <1>4, <5>2 DEF Extrapolates
      <4> QED
        BY <4>1, <4>2
    <3>4. m <= N
      BY <1>6
    <3>5. (0 % 2) = 0 /\ 0 + s * (d - 2) = s * (d - 2)
      <4>1. s * (d - 2) \in Int
        BY <3>1
      <4> QED
        BY <4>1
    <3> QED
      BY <3>2, <3>3, <3>4, <3>5 DEF LiftAsserts
  <2> QED
    BY <2>1, <2>2
<1> QED
  BY <1>1, <1>2, <1>4, <1>5, <1>7

\* Whoever lifts has one of the tasks for it.
LegalInv ==
    phase \in {"forward", "write", "read", "inverse"} /\ task.kind # "codec" => InPlaceTask(task)

\* The assertions of the lifting functions hold for every volume that has room
\* for an extrapolated sample, and for those of the other tasks, which need
\* none: at every level there is, and whatever the dimensions.
THEOREM WaveletLegal == Spec => []LiftsAreLegal
<1>1. Init => LegalInv
  <2> SUFFICES ASSUME Init, phase \in {"forward", "write", "read", "inverse"}, task.kind # "codec"
               PROVE  InPlaceTask(task)
    BY DEF LegalInv
  <2>1. CASE task \in Tasks("codec", CodecCases, Heights)
    BY <2>1, TaskOf
  <2>2. CASE task \in Tasks("inplace", InPlaceCases, {Scale})
    <3>1. PICK c \in InPlaceCases : task.kind = "inplace" /\ task.n = c[1] /\ task.levels = c[2]
      BY <2>2, TaskOf
    <3> QED
      BY <3>1, CasesAssumption DEF InPlaceTask
  <2>3. CASE task \in Tasks("form", FormCases, {Scale})
    <3>1. PICK c \in FormCases : task.kind = "form" /\ task.n = c[1] /\ task.levels = c[2]
      BY <2>3, TaskOf
    <3> QED
      BY <3>1, CasesAssumption DEF InPlaceTask
  <2>4. CASE task \in Tasks("tiles", TileCases, {Scale})
    <3>1. task.kind = "tiles"
      BY <2>4, TaskOf
    <3> QED
      BY <3>1 DEF Init
  <2>5. CASE task \in LookupTasks
    <3>1. task.kind = "lookup"
      BY <2>5 DEF LookupTasks
    <3> QED
      BY <3>1 DEF Init
  <2> QED
    BY <2>1, <2>2, <2>3, <2>4, <2>5 DEF Init
<1>2. LegalInv /\ [Next]_vars => LegalInv'
  <2> SUFFICES ASSUME LegalInv, [Next]_vars
               PROVE  LegalInv'
    OBVIOUS
  <2>1. task' = task
    BY DEF Next, vars, ForwardAxis, EndForward, InverseAxis, EndInverse, WriteTile, ReadTile,
           NextSubband, BeginDecode, EndRead, FormSubbands, LiftTile, AddTile, LookUp,
           EndLookUp, Done
  <2>2. phase' \in {"forward", "write", "read", "inverse"}
          => phase \in {"forward", "write", "read", "inverse"}
    BY DEF Next, vars, ForwardAxis, EndForward, InverseAxis, EndInverse, WriteTile, ReadTile,
           NextSubband, BeginDecode, EndRead, FormSubbands, LiftTile, AddTile, LookUp,
           EndLookUp, Done, Coding
  <2> QED
    BY <2>1, <2>2 DEF LegalInv, InPlaceTask
<1>3. LegalInv => LiftsAreLegal
  <2> SUFFICES ASSUME InPlaceTask(task), NEW k \in 0 .. 3 * task.levels - 1, NEW a \in Axes,
                      a = AxisOf(k)
               PROVE  LET g == PassGrid(task.n, k)
                      IN LiftAsserts(g.from[a], g.dims[a], g.strd[a], task.n[a], Dims(task)[a])
    BY DEF LegalInv, LiftsAreLegal, NPasses
  <2> QED
    BY LegalPass
<1> QED
  BY <1>1, <1>2, <1>3, PTL DEF Spec

-----------------------------------------------------------------------------
(* The subbands partition the volume.                                      *)

\* k steps of b stay below a as long as k is less than (a + b - 1) / b.
LEMMA Fewer ==
    ASSUME NEW a \in Nat \ {0}, NEW b \in Nat \ {0}, NEW k \in Nat
    PROVE  k < ((a + b - 1) \div b) <=> k * b < a
<1>1. PICK x \in Nat \ {0} : /\ x = (a + b - 1) \div b
                             /\ \A m \in Nat : a <= m * b => x <= m
                             /\ a <= x * b
  BY RoundedUp
<1>2. k * b \in Nat /\ x * b \in Nat
  OBVIOUS
<1>3. ASSUME x <= k PROVE x * b <= k * b
  BY <1>3, Product
<1> QED
  BY <1>1, <1>2, <1>3

\* The dimensions there are left in steps of b.
Steps(a, b) == (a + b - 1) \div b

\* What two levels leave of an axis, one after the other.
LEMMA LeftTwice ==
    ASSUME NEW a \in Nat \ {0}, NEW p \in Nat \ {0}, NEW q \in Nat \ {0}, q = 2 * p
    PROVE  /\ Steps(a, p) \in Nat /\ Steps(a, q) \in Nat
           /\ 1 <= Steps(a, q) /\ Steps(a, q) <= Steps(a, p) /\ Steps(a, p) <= a
           /\ \A k \in Nat : (k < Steps(a, p) <=> k * p < a) /\ (k < Steps(a, q) <=> k * q < a)
           /\ \A k \in Nat : k < Steps(a, p) - Steps(a, q) <=> k * q + p < a
<1>0. PICK x \in Nat \ {0}, y \in Nat \ {0} : /\ x = Steps(a, p) /\ x <= a
                                            /\ y = Steps(a, q)
  BY RoundedUp DEF Steps
<1>2. \A k \in Nat : (k < x <=> k * p < a) /\ (k < y <=> k * q < a)
  BY <1>0, Fewer DEF Steps
<1>4. ASSUME NEW k \in Nat
      PROVE  k < y <=> 2 * k < x
  <2>1. (2 * k) * p = k * q /\ 2 * k \in Nat
    OBVIOUS
  <2> QED
    BY <1>2, <2>1
<1>5. 2 * (y - 1) < x
  <2>1. y - 1 \in Nat /\ y - 1 < y
    OBVIOUS
  <2> QED
    BY <1>4, <2>1
<1>6. x <= 2 * y
  BY <1>4
<1>7. x = 2 * y \/ x = 2 * y - 1
  BY <1>5, <1>6
<1>9. ASSUME NEW k \in Nat
      PROVE  k < x - y <=> k * q + p < a
  <2>1. k < x - y <=> 2 * k + 1 < x
    BY <1>7
  <2>2. 2 * k + 1 \in Nat /\ (2 * k + 1) * p = k * q + p
    OBVIOUS
  <2>3. 2 * k + 1 < x <=> (2 * k + 1) * p < a
    BY <1>2, <2>2
  <2> QED
    BY <2>1, <2>2, <2>3
<1>10. 1 <= y /\ y <= x
  BY <1>7
<1>11. \A k \in Nat : k < x - y <=> k * q + p < a
  BY <1>9
<1> QED
  BY <1>0, <1>2, <1>10, <1>11

\* v is one of d places of an axis that start with f and are q apart.
Run(f, q, d, v) == \E k \in 0 .. d - 1 : v = f + k * q

\* The positions of an axis that a level keeps for the next: the multiples of
\* its stride.
LEMMA LowerHalf ==
    ASSUME NEW a \in Nat \ {0}, NEW q \in Nat \ {0}, NEW v
    PROVE  Run(0, q, Steps(a, q), v) <=> (v \in 0 .. a - 1 /\ v % q = 0)
<1>0. PICK y \in Nat : y = Steps(a, q) /\ \A k \in Nat : k < y <=> k * q < a
  BY RoundedUp, Fewer DEF Steps
<1>1. ASSUME NEW k \in 0 .. y - 1, v = 0 + k * q
      PROVE  v \in 0 .. a - 1 /\ v % q = 0
  <2>1. k \in Nat /\ k < y
    OBVIOUS
  <2>2. k * q < a /\ k * q \in Nat
    BY <1>0, <2>1
  <2>3. v \in Nat /\ v < a /\ v = k * q + 0
    BY <1>1, <2>2
  <2>4. 0 \in 0 .. q - 1
    OBVIOUS
  <2>5. (v % q) = 0
    BY <2>1, <2>3, <2>4, DivMod
  <2> QED
    BY <2>3, <2>5
<1>2. ASSUME v \in 0 .. a - 1, v % q = 0
      PROVE  \E k \in 0 .. y - 1 : v = 0 + k * q
  <2>0. v \in Nat
    BY <1>2
  <2>1. PICK k \in Nat, r \in 0 .. q - 1 : k = v \div q /\ r = v % q /\ v = k * q + r
    BY <2>0, Divided
  <2>2. v = k * q /\ k * q < a
    BY <1>2, <2>1
  <2>3. k < y
    BY <1>0, <2>2
  <2> QED
    BY <2>2, <2>3
<1> QED
  BY <1>0, <1>1, <1>2 DEF Run

\* The positions of an axis in the upper half: the odd multiples of half the
\* stride.
LEMMA UpperHalf ==
    ASSUME NEW a \in Nat \ {0}, NEW p \in Nat \ {0}, NEW q \in Nat \ {0}, q = 2 * p, NEW v
    PROVE  Run(p, q, Steps(a, p) - Steps(a, q), v) <=> (v \in 0 .. a - 1 /\ v % q = p)
<1>0. PICK d \in Nat : /\ d = Steps(a, p) - Steps(a, q)
                       /\ \A k \in Nat : k < d <=> k * q + p < a
  <2>1. PICK x \in Nat, y \in Nat :
           /\ x = Steps(a, p) /\ y = Steps(a, q) /\ y <= x
           /\ \A k \in Nat : k < x - y <=> k * q + p < a
    BY LeftTwice
  <2>2. x - y \in Nat
    BY <2>1
  <2> QED
    BY <2>1, <2>2
<1>1. ASSUME NEW k \in 0 .. d - 1, v = p + k * q
      PROVE  v \in 0 .. a - 1 /\ v % q = p
  <2>1. k \in Nat /\ k < d
    OBVIOUS
  <2>2. k * q + p < a /\ k * q \in Nat
    BY <1>0, <2>1
  <2>4. v \in Nat /\ v < a /\ v = k * q + p
    BY <1>1, <2>2
  <2>5. p \in 0 .. q - 1
    OBVIOUS
  <2>6. (v % q) = p
    BY <2>1, <2>4, <2>5, DivMod, ZenonT(60)
  <2> QED
    BY <2>4, <2>6
<1>2. ASSUME v \in 0 .. a - 1, v % q = p
      PROVE  \E k \in 0 .. d - 1 : v = p + k * q
  <2>1. v \in Nat
    BY <1>2
  <2>2. PICK k \in Nat, r \in 0 .. q - 1 : k = v \div q /\ r = v % q /\ v = k * q + r
    BY <2>1, Divided
  <2>3. v = k * q + p /\ k * q \in Nat
    BY <1>2, <2>2
  <2>5. k < d
    BY <1>0, <1>2, <2>3
  <2> QED
    BY <2>3, <2>5
<1> QED
  BY <1>0, <1>1, <1>2 DEF Run

LEMMA LeftIs ==
    ASSUME NEW n \in Lengths, NEW l \in Nat, NEW i \in Axes
    PROVE  DimsLeft(n, l)[i] = Steps(n[i], 2 ^ l)
BY DEF DimsLeft, Each, Steps, Axes

\* A component as it is read back from 64 bits.
Pack(a) == ((a + PackLimit) % (2 * PackLimit)) - PackLimit

LEMMA PackInt ==
    ASSUME NEW a \in Nat
    PROVE  Pack(a) \in Int /\ (a < PackLimit => Pack(a) = a)
<1>1. PackLimit \in Nat /\ PackLimit > 0
  BY LimitNat
<1>2. PICK m \in Nat \ {0} : m = 2 * PackLimit
  BY <1>1
<1>3. ((a + PackLimit) % m) \in Int
  BY <1>1, <1>2
<1>4. a < PackLimit => Pack(a) = a
  BY PackedAxis DEF Pack
<1> QED
  BY <1>1, <1>2, <1>3, <1>4 DEF Pack

\* v is one of the places of g along axis i.
On(g, i, v) == Run(g.from[i], g.strd[i], g.dims[i], v)

\* Positions are given by their places along the axes.
LEMMA PointsAre ==
    ASSUME NEW g
    PROVE  /\ \A p \in Points(g) : p = <<p[1], p[2], p[3]>>
           /\ \A x, y, z : <<x, y, z>> \in Points(g) <=> On(g, 1, x) /\ On(g, 2, y) /\ On(g, 3, z)
<1>1. PICK f1, f2, f3, s1, s2, s3 : /\ f1 = g.from[1] /\ f2 = g.from[2] /\ f3 = g.from[3]
                                    /\ s1 = g.strd[1] /\ s2 = g.strd[2] /\ s3 = g.strd[3]
  OBVIOUS
<1>2. PICK A, B, C : /\ A = 0 .. g.dims[1] - 1 /\ B = 0 .. g.dims[2] - 1 /\ C = 0 .. g.dims[3] - 1
  OBVIOUS
<1>3. Points(g) = {<<f1 + k[1] * s1, f2 + k[2] * s2, f3 + k[3] * s3>> : k \in A \X B \X C}
  BY <1>1, <1>2 DEF Points, Each
<1>4. \A p \in Points(g) : p = <<p[1], p[2], p[3]>>
  BY <1>3
<1>5. ASSUME NEW x, NEW y, NEW z, <<x, y, z>> \in Points(g)
      PROVE  On(g, 1, x) /\ On(g, 2, y) /\ On(g, 3, z)
  <2>1. PICK k \in A \X B \X C : <<x, y, z>> = <<f1 + k[1] * s1, f2 + k[2] * s2, f3 + k[3] * s3>>
    BY <1>3, <1>5
  <2>2. k[1] \in A /\ k[2] \in B /\ k[3] \in C
    OBVIOUS
  <2>3. x = f1 + k[1] * s1 /\ y = f2 + k[2] * s2 /\ z = f3 + k[3] * s3
    BY <2>1
  <2> QED
    BY <1>1, <1>2, <2>2, <2>3 DEF On, Run
<1>6. ASSUME NEW x, NEW y, NEW z, On(g, 1, x) /\ On(g, 2, y) /\ On(g, 3, z)
      PROVE  <<x, y, z>> \in Points(g)
  <2>1. PICK a \in A : x = f1 + a * s1
    BY <1>1, <1>2, <1>6 DEF On, Run
  <2>2. PICK b \in B : y = f2 + b * s2
    BY <1>1, <1>2, <1>6 DEF On, Run
  <2>3. PICK c \in C : z = f3 + c * s3
    BY <1>1, <1>2, <1>6 DEF On, Run
  <2>4. PICK k : k = <<a, b, c>>
    OBVIOUS
  <2>5. k \in A \X B \X C /\ <<x, y, z>> = <<f1 + k[1] * s1, f2 + k[2] * s2, f3 + k[3] * s3>>
    BY <2>1, <2>2, <2>3, <2>4
  <2> QED
    BY <1>3, <2>5
<1> QED
  BY <1>4, <1>5, <1>6

\* A run of places is read back as it was when what there is of it fits.
LEMMA PackedRun ==
    ASSUME NEW f \in Nat, NEW d \in Nat, NEW q \in Nat, NEW v,
           d < PackLimit, d > 0 => f < PackLimit, d > 1 => q < PackLimit
    PROVE  Run(Pack(f), Pack(q), Pack(d), v) <=> Run(f, q, d, v)
<1>1. Pack(d) = d
  BY PackInt
<1>2. PICK F \in Int, Q \in Int : F = Pack(f) /\ Q = Pack(q)
  BY PackInt
<1>3. CASE d = 0
  BY <1>1, <1>3 DEF Run
<1>4. CASE d = 1
  <2>1. F = f
    BY <1>2, <1>4, PackInt
  <2>2. \A k \in 0 .. d - 1 : k = 0
    BY <1>4
  <2>3. 0 * Q = 0 /\ 0 * q = 0
    OBVIOUS
  <2> QED
    BY <1>1, <1>2, <2>1, <2>2, <2>3 DEF Run
<1>5. CASE d > 1
  <2>1. F = f /\ Q = q
    BY <1>2, <1>5, PackInt
  <2> QED
    BY <1>1, <1>2, <2>1
<1> QED
  BY <1>3, <1>4, <1>5

\* Along axis i, g has D places that start with F and are Q apart.
Spans(g, i, F, D, Q) ==
    /\ \A v : On(g, i, v) <=> Run(F, Q, D, v)
    /\ g.dims[i] = D
    /\ D > 0 => g.from[i] = F

\* The places of a grid along an axis, and what is read back of it, when it fits.
LEMMA OnGrid ==
    ASSUME NEW f, NEW d, NEW q, NEW i \in Axes, NEW F \in Nat, NEW D \in Nat, NEW Q \in Nat,
           f[i] = F, d[i] = D, q[i] = Q,
           D < PackLimit, D > 0 => F < PackLimit, D > 1 => Q < PackLimit
    PROVE  Spans(Grid(f, d, q), i, F, D, Q)
<1>1. /\ Grid(f, d, q).dims[i] = Pack(D) /\ Grid(f, d, q).from[i] = Pack(F)
      /\ Grid(f, d, q).strd[i] = Pack(Q)
  BY DEF Grid, Packed, Each, Pack, Axes
<1>2. \A v : On(Grid(f, d, q), i, v) <=> Run(Pack(F), Pack(Q), Pack(D), v)
  BY <1>1 DEF On
<1>3. \A v : Run(Pack(F), Pack(Q), Pack(D), v) <=> Run(F, Q, D, v)
  BY PackedRun
<1>4. Pack(D) = D /\ (D > 0 => Pack(F) = F)
  BY PackInt
<1> QED
  BY <1>1, <1>2, <1>3, <1>4 DEF Spans

\* A subband of the transform in place, along one axis: the positions that a
\* level leaves to the next, or those it takes from it.
LEMMA GridShape ==
    ASSUME NEW n \in Lengths, FlatLast(n), NEW l \in Nat, NEW j \in 1 .. PerLevel(n),
           NEW i \in Axes
    PROVE  LET nd == NumDims(n)
               h == Halves(nd, j)
               g == GridOf(n, l, j)
           IN /\ \A v : On(g, i, v) <=>
                     (v \in 0 .. n[i] - 1 /\ (i <= nd => v % 2 ^ (l + 1) = h[i] * 2 ^ l))
              /\ g.dims[i] = IF i > nd THEN 1
                             ELSE IF h[i] = 0 THEN DimsLeft(n, l + 1)[i]
                             ELSE DimsLeft(n, l)[i] - DimsLeft(n, l + 1)[i]
              /\ g.dims[i] # 0 => g.from[i] = IF i <= nd THEN h[i] * 2 ^ l ELSE 0
<1>1. PICK nd \in 0 .. 3 : nd = NumDims(n)
  BY Dimensions
<1>2. PICK h \in {0, 1} \X {0, 1} \X {0, 1} : h = Halves(nd, j)
  BY <1>1, HalvesType DEF PerLevel
<1>3. PICK sm : sm = SubbandDims(n, l, h)
  OBVIOUS
<1>4. PICK p \in Nat \ {0}, q \in Nat \ {0} : p = 2 ^ l /\ q = 2 ^ (l + 1) /\ q = 2 * p
  <2>1. 2 ^ l \in Nat /\ 2 ^ l >= 1 /\ 2 ^ (l + 1) = 2 * 2 ^ l
    BY PowPos, PowDouble
  <2> QED
    BY <2>1
<1>5. PICK a \in Nat \ {0} : a = n[i] /\ a < PackLimit
  BY LengthsFit
<1>6. PackLimit \in Nat /\ PackLimit > 1
  BY LimitNat
<1>7. PICK x \in Nat, y \in Nat :
         /\ x = Steps(a, p) /\ y = Steps(a, q)
         /\ 1 <= y /\ y <= x /\ x <= a
         /\ \A k \in Nat : (k < x <=> k * p < a) /\ (k < y <=> k * q < a)
         /\ \A k \in Nat : k < x - y <=> k * q + p < a
  BY <1>4, LeftTwice
<1>8. DimsLeft(n, l)[i] = x /\ DimsLeft(n, l + 1)[i] = y
  <2>1. DimsLeft(n, l)[i] = Steps(n[i], 2 ^ l)
    BY LeftIs
  <2>2. DimsLeft(n, l + 1)[i] = Steps(n[i], 2 ^ (l + 1))
    <3>1. l + 1 \in Nat
      OBVIOUS
    <3> QED
      BY <3>1, LeftIs
  <2> QED
    BY <1>4, <1>5, <1>7, <2>1, <2>2
<1>9. PICK hi \in {0, 1} : hi = h[i]
  BY DEF Axes
<1>10. sm[i] = IF hi = 0 THEN y ELSE x - y
  BY <1>3, <1>8, <1>9 DEF SubbandDims, Each, Axes
<1>11. PICK f, d : /\ f = Each(LAMBDA k : IF k <= nd THEN h[k] * p ELSE 0)
                   /\ d = Each(LAMBDA k : IF k <= nd THEN sm[k] ELSE 1)
  OBVIOUS
<1>12. GridOf(n, l, j) = Grid(f, d, Vec(q))
  BY <1>1, <1>2, <1>3, <1>4, <1>11 DEF GridOf, Each
<1>13. /\ f[i] = IF i <= nd THEN hi * p ELSE 0
       /\ d[i] = IF i <= nd THEN sm[i] ELSE 1
       /\ Vec(q)[i] = q
  BY <1>9, <1>11 DEF Each, Vec, Axes
<1>14. i \in Nat
  BY DEF Axes
<1>15. CASE i > nd
  <2>1. f[i] = 0 /\ d[i] = 1 /\ Vec(q)[i] = q
    BY <1>13, <1>14, <1>15
  <2>2. PICK g : g = Grid(f, d, Vec(q))
    OBVIOUS
  <2>3. Spans(g, i, 0, 1, q)
    <3>1. 1 < PackLimit /\ (1 > 0 => 0 < PackLimit) /\ (1 > 1 => q < PackLimit)
          /\ 0 \in Nat /\ 1 \in Nat /\ q \in Nat
      BY <1>6
    <3> QED
      BY <2>1, <2>2, <3>1, OnGrid
  <2>4. \A v : Run(0, q, 1, v) <=> v = 0
    <3>1. \A k \in 0 .. 1 - 1 : k = 0 /\ 0 + k * q = 0
      OBVIOUS
    <3> QED
      BY <3>1 DEF Run
  <2>5. n[i] = 1
    BY <1>1, <1>15 DEF FlatLast
  <2>6. \A v : v \in 0 .. n[i] - 1 <=> v = 0
    BY <2>5
  <2>7. ~(i <= nd)
    BY <1>14, <1>15
  <2>8. GridOf(n, l, j) = g
    BY <1>12, <2>2
  <2>9. (\A v : On(g, i, v) <=> v = 0) /\ g.dims[i] = 1 /\ g.from[i] = 0
    BY <2>3, <2>4 DEF Spans
  <2>20. SUFFICES /\ \A v : On(g, i, v) <=>
                         (v \in 0 .. n[i] - 1 /\ (i <= nd => v % 2 ^ (l + 1) = h[i] * 2 ^ l))
                  /\ g.dims[i] = IF i > nd THEN 1 ELSE IF h[i] = 0 THEN y ELSE x - y
                  /\ g.dims[i] # 0 => g.from[i] = IF i <= nd THEN h[i] * 2 ^ l ELSE 0
    BY <1>1, <1>2, <1>8, <2>8
  <2>21. ASSUME NEW v
         PROVE  On(g, i, v) <=>
                    (v \in 0 .. n[i] - 1 /\ (i <= nd => v % 2 ^ (l + 1) = h[i] * 2 ^ l))
    BY <1>15, <2>9, <2>6, <2>7
  <2>22. g.dims[i] = IF i > nd THEN 1 ELSE IF h[i] = 0 THEN y ELSE x - y
    BY <1>15, <2>9, <2>6, <2>7
  <2>23. g.dims[i] # 0 => g.from[i] = IF i <= nd THEN h[i] * 2 ^ l ELSE 0
    BY <1>15, <2>9, <2>6, <2>7
  <2> QED
    BY <2>21, <2>22, <2>23
<1>16. CASE i <= nd /\ hi = 0
  <2>1. f[i] = 0 /\ d[i] = y /\ Vec(q)[i] = q /\ hi * p = 0
    BY <1>10, <1>13, <1>16
  <2>2. PICK g : g = Grid(f, d, Vec(q))
    OBVIOUS
  <2>3. Spans(g, i, 0, y, q)
    <3>1. y > 1 => q < PackLimit
      <4>1. 1 < y => 1 * q < a
        BY <1>7
      <4> QED
        BY <1>5, <1>6, <4>1
    <3>2. y < PackLimit /\ (y > 0 => 0 < PackLimit) /\ 0 \in Nat /\ q \in Nat
      BY <1>5, <1>6, <1>7
    <3> QED
      BY <2>1, <2>2, <3>1, <3>2, OnGrid
  <2>4. \A v : Run(0, q, y, v) <=> (v \in 0 .. a - 1 /\ v % q = 0)
    BY <1>7, LowerHalf
  <2>5. \A v : On(g, i, v) <=> (v \in 0 .. a - 1 /\ v % q = 0)
    BY <2>3, <2>4 DEF Spans
  <2>6. ~(i > nd) /\ y > 0
    BY <1>7, <1>14, <1>16
  <2>7. GridOf(n, l, j) = g
    BY <1>12, <2>2
  <2>9. g.dims[i] = y /\ g.from[i] = 0
    BY <2>3, <2>6 DEF Spans
  <2>8. h[i] = 0 /\ h[i] * 2 ^ l = 0
    BY <1>4, <1>9, <1>16, <2>1
  <2>20. SUFFICES /\ \A v : On(g, i, v) <=>
                         (v \in 0 .. n[i] - 1 /\ (i <= nd => v % 2 ^ (l + 1) = h[i] * 2 ^ l))
                  /\ g.dims[i] = IF i > nd THEN 1 ELSE IF h[i] = 0 THEN y ELSE x - y
                  /\ g.dims[i] # 0 => g.from[i] = IF i <= nd THEN h[i] * 2 ^ l ELSE 0
    BY <1>1, <1>2, <1>8, <2>7
  <2>21. ASSUME NEW v
         PROVE  On(g, i, v) <=>
                    (v \in 0 .. n[i] - 1 /\ (i <= nd => v % 2 ^ (l + 1) = h[i] * 2 ^ l))
    BY <1>4, <1>5, <1>16, <2>5, <2>6, <2>8, <2>9
  <2>22. g.dims[i] = IF i > nd THEN 1 ELSE IF h[i] = 0 THEN y ELSE x - y
    BY <1>4, <1>5, <1>16, <2>5, <2>6, <2>8, <2>9
  <2>23. g.dims[i] # 0 => g.from[i] = IF i <= nd THEN h[i] * 2 ^ l ELSE 0
    BY <1>4, <1>5, <1>16, <2>5, <2>6, <2>8, <2>9
  <2> QED
    BY <2>21, <2>22, <2>23
<1>17. CASE i <= nd /\ hi = 1
  <2>1. f[i] = p /\ d[i] = x - y /\ Vec(q)[i] = q /\ hi * p = p
    BY <1>10, <1>13, <1>17
  <2>2. PICK g : g = Grid(f, d, Vec(q))
    OBVIOUS
  <2>9. PICK z \in Nat : z = x - y
    <3>1. x - y \in Nat
      BY <1>7
    <3> QED
      BY <3>1
  <2>3. Spans(g, i, p, z, q)
    <3>1. (z > 0 => p < PackLimit) /\ (z > 1 => q < PackLimit)
      <4>1. 0 < x - y => 0 * q + p < a
        BY <1>7
      <4>2. 1 < x - y => 1 * q + p < a
        BY <1>7
      <4> QED
        BY <1>5, <1>6, <2>9, <4>1, <4>2
    <3>2. z < PackLimit
      BY <1>5, <1>6, <1>7, <2>9
    <3>3. d[i] = z /\ p \in Nat /\ q \in Nat
      BY <2>1, <2>9
    <3> QED
      BY <2>1, <2>2, <3>1, <3>2, <3>3, OnGrid
  <2>4. \A v : Run(p, q, z, v) <=> (v \in 0 .. a - 1 /\ v % q = p)
    <3>0. q = 2 * p
      BY <1>4
    <3>1. \A v : Run(p, q, Steps(a, p) - Steps(a, q), v) <=> (v \in 0 .. a - 1 /\ v % q = p)
      BY <3>0, UpperHalf
    <3> QED
      BY <1>7, <2>9, <3>1
  <2>5. \A v : On(g, i, v) <=> (v \in 0 .. a - 1 /\ v % q = p)
    BY <2>3, <2>4 DEF Spans
  <2>6. ~(i > nd) /\ (z # 0 => z > 0)
    BY <1>7, <1>14, <1>17
  <2>7. GridOf(n, l, j) = g
    BY <1>12, <2>2
  <2>10. g.dims[i] = x - y /\ (g.dims[i] # 0 => g.from[i] = p)
    BY <2>3, <2>6, <2>9 DEF Spans
  <2>8. h[i] = 1 /\ h[i] * 2 ^ l = p
    BY <1>4, <1>9, <1>17, <2>1
  <2>20. SUFFICES /\ \A v : On(g, i, v) <=>
                         (v \in 0 .. n[i] - 1 /\ (i <= nd => v % 2 ^ (l + 1) = h[i] * 2 ^ l))
                  /\ g.dims[i] = IF i > nd THEN 1 ELSE IF h[i] = 0 THEN y ELSE x - y
                  /\ g.dims[i] # 0 => g.from[i] = IF i <= nd THEN h[i] * 2 ^ l ELSE 0
    BY <1>1, <1>2, <1>8, <2>7
  <2>21. ASSUME NEW v
         PROVE  On(g, i, v) <=>
                    (v \in 0 .. n[i] - 1 /\ (i <= nd => v % 2 ^ (l + 1) = h[i] * 2 ^ l))
    BY <1>4, <1>5, <1>17, <2>5, <2>6, <2>8, <2>10
  <2>22. g.dims[i] = IF i > nd THEN 1 ELSE IF h[i] = 0 THEN y ELSE x - y
    BY <1>4, <1>5, <1>17, <2>5, <2>6, <2>8, <2>10
  <2>23. g.dims[i] # 0 => g.from[i] = IF i <= nd THEN h[i] * 2 ^ l ELSE 0
    BY <1>4, <1>5, <1>17, <2>5, <2>6, <2>8, <2>10
  <2> QED
    BY <2>21, <2>22, <2>23
<1> QED
  BY <1>1, <1>14, <1>15, <1>16, <1>17

CoarsestGrid(n, levels) == Grid(Vec(0), DimsLeft(n, levels), Vec(2 ^ levels))

\* The coarsest subband: the positions that the last level leaves.
LEMMA CoarsestShape ==
    ASSUME NEW n \in Lengths, NEW levels \in Nat, NEW i \in Axes
    PROVE  LET g == CoarsestGrid(n, levels)
           IN /\ \A v : On(g, i, v) <=> (v \in 0 .. n[i] - 1 /\ v % 2 ^ levels = 0)
              /\ g.dims[i] = DimsLeft(n, levels)[i] /\ g.dims[i] > 0
              /\ g.from[i] = 0
<1>1. PICK q \in Nat \ {0} : q = 2 ^ levels
  BY PowPos
<1>2. PICK a \in Nat \ {0} : a = n[i] /\ a < PackLimit
  BY LengthsFit
<1>3. PackLimit \in Nat /\ PackLimit > 1
  BY LimitNat
<1>4. PICK y \in Nat \ {0} : /\ y = Steps(a, q) /\ y <= a
                             /\ \A k \in Nat : k < y <=> k * q < a
  BY RoundedUp, Fewer DEF Steps
<1>5. DimsLeft(n, levels)[i] = y
  BY <1>1, <1>2, <1>4, LeftIs
<1>6. PICK d : d = DimsLeft(n, levels)
  OBVIOUS
<1>7. PICK g : g = Grid(Vec(0), d, Vec(q))
  OBVIOUS
<1>8. Vec(0)[i] = 0 /\ Vec(q)[i] = q /\ d[i] = y
  BY <1>5, <1>6 DEF Vec, Axes
<1>9. Spans(g, i, 0, y, q)
  <2>1. y > 1 => q < PackLimit
    <3>1. 1 < y => 1 * q < a
      BY <1>4
    <3> QED
      BY <1>2, <1>3, <3>1
  <2>2. y < PackLimit /\ (y > 0 => 0 < PackLimit) /\ 0 \in Nat /\ q \in Nat /\ y \in Nat
    BY <1>2, <1>3, <1>4
  <2> QED
    BY <1>7, <1>8, <2>1, <2>2, OnGrid
<1>10. \A v : Run(0, q, y, v) <=> (v \in 0 .. a - 1 /\ v % q = 0)
  BY <1>4, LowerHalf
<1>11. \A v : On(g, i, v) <=> (v \in 0 .. a - 1 /\ v % q = 0)
  BY <1>9, <1>10 DEF Spans
<1>12. g.dims[i] = y /\ g.from[i] = 0
  BY <1>9 DEF Spans
<1>13. CoarsestGrid(n, levels) = g
  BY <1>1, <1>6, <1>7 DEF CoarsestGrid
<1> QED
  BY <1>1, <1>2, <1>5, <1>11, <1>12, <1>13

\* v is q times b and r more.
IsSum(v, q, b, r) == v = q * b + r

LEMMA RestIs ==
    ASSUME NEW b \in Nat \ {0}, NEW q \in Nat, NEW r \in 0 .. b - 1, NEW v, IsSum(v, q, b, r)
    PROVE  v % b = r
BY DivMod DEF IsSum

\* A multiple of a power of two is one of every lower power.
LEMMA Coarser ==
    ASSUME NEW v \in Nat, NEW l \in Nat, NEW m \in Nat, l <= m, v % 2 ^ m = 0
    PROVE  v % 2 ^ l = 0
<1>1. CASE l = m
  BY <1>1
<1>2. CASE l # m
  <2>0. l < m
    BY <1>2
  <2>1. PICK e \in Nat \ {0} : 2 ^ m = 2 * (e * 2 ^ l)
    BY <2>0, PowSplit
  <2>2. PICK a \in Nat \ {0}, b \in Nat \ {0} : a = 2 ^ l /\ b = 2 ^ m
    BY PowPos
  <2>3. b = 2 * (e * a)
    BY <2>1, <2>2
  <2>4. PICK k \in Nat, r \in 0 .. b - 1 : k = v \div b /\ r = v % b /\ v = k * b + r
    BY Divided
  <2>5. r = 0
    BY <2>2, <2>4
  <2>6. PICK t \in Nat : t = 2 * (k * e)
    OBVIOUS
  <2>7. IsSum(v, t, a, 0)
    <3>1. v = k * (2 * (e * a))
      BY <2>3, <2>4, <2>5
    <3>2. k * (2 * (e * a)) = (2 * (k * e)) * a
      OBVIOUS
    <3> QED
      BY <2>6, <3>1, <3>2 DEF IsSum
  <2>8. 0 \in 0 .. a - 1
    OBVIOUS
  <2>9. (v % a) = 0
    BY <2>7, <2>8, RestIs
  <2> QED
    BY <2>2, <2>9
<1> QED
  BY <1>1, <1>2

\* A multiple of 2^l is an even or an odd one.
LEMMA HalfIs ==
    ASSUME NEW v \in Nat, NEW l \in Nat, v % 2 ^ l = 0
    PROVE  \E b \in {0, 1} : v % 2 ^ (l + 1) = b * 2 ^ l
<1>1. PICK p \in Nat \ {0}, q \in Nat \ {0} : p = 2 ^ l /\ q = 2 ^ (l + 1) /\ q = 2 * p
  <2>1. 2 ^ l \in Nat /\ 2 ^ l >= 1 /\ 2 ^ (l + 1) = 2 * 2 ^ l
    BY PowPos, PowDouble
  <2> QED
    BY <2>1
<1>2. PICK k \in Nat, r \in 0 .. p - 1 : k = v \div p /\ r = v % p /\ v = k * p + r
  BY Divided
<1>3. r = 0
  BY <1>1, <1>2
<1>4. PICK m \in Nat, b \in {0, 1} : k = m * 2 + b
  <2>1. k = (k \div 2) * 2 + (k % 2) /\ (k \div 2) \in Nat /\ (k % 2) \in {0, 1}
    OBVIOUS
  <2> QED
    BY <2>1
<1>5. PICK x \in Nat : x = b * p /\ x \in 0 .. q - 1
  <2>1. 0 * p = 0 /\ 1 * p = p
    OBVIOUS
  <2> QED
    BY <1>1, <1>4, <2>1
<1>6. IsSum(v, m, q, x)
  <2>1. v = (m * 2 + b) * p
    BY <1>2, <1>3, <1>4
  <2>2. (m * 2 + b) * p = m * (2 * p) + b * p
    OBVIOUS
  <2> QED
    BY <1>1, <1>5, <2>1, <2>2 DEF IsSum
<1>7. (v % q) = x
  BY <1>5, <1>6, RestIs
<1> QED
  BY <1>1, <1>5, <1>7

\* One half of the multiples of 2^l is that of the multiples of 2^(l + 1), the
\* other has none of them.
LEMMA HalfOf ==
    ASSUME NEW v \in Nat, NEW l \in Nat, NEW b \in {0, 1}, v % 2 ^ (l + 1) = b * 2 ^ l
    PROVE  /\ v % 2 ^ l = 0
           /\ b = 1 => v % 2 ^ (l + 1) # 0
<1>1. PICK p \in Nat \ {0}, q \in Nat \ {0} : p = 2 ^ l /\ q = 2 ^ (l + 1) /\ q = 2 * p
  <2>1. 2 ^ l \in Nat /\ 2 ^ l >= 1 /\ 2 ^ (l + 1) = 2 * 2 ^ l
    BY PowPos, PowDouble
  <2> QED
    BY <2>1
<1>2. PICK k \in Nat, r \in 0 .. q - 1 : k = v \div q /\ r = v % q /\ v = k * q + r
  BY Divided
<1>3. r = b * p
  BY <1>1, <1>2
<1>4. b = 1 => r = p
  BY <1>3
<1>5. PICK t \in Nat : t = 2 * k + b
  OBVIOUS
<1>6. IsSum(v, t, p, 0)
  <2>1. v = k * (2 * p) + b * p
    BY <1>1, <1>2, <1>3
  <2>2. k * (2 * p) + b * p = (2 * k + b) * p
    OBVIOUS
  <2> QED
    BY <1>5, <2>1, <2>2 DEF IsSum
<1>7. 0 \in 0 .. p - 1
  OBVIOUS
<1>8. (v % p) = 0
  BY <1>6, <1>7, RestIs
<1> QED
  BY <1>1, <1>2, <1>4, <1>8

\* The number of a subband in its level, from its halves.
LEMMA HalvesNumber ==
    ASSUME NEW nd \in 1 .. 3, NEW j \in 1 .. 2 ^ nd - 1
    PROVE  LET h == Halves(nd, j)
           IN /\ nd = 1 => Orders[1][j] = h[1]
              /\ nd = 2 => Orders[2][j] = 2 * h[1] + h[2]
              /\ nd = 3 => Orders[3][j] = 4 * h[1] + 2 * h[2] + h[3]
              /\ j \in 1 .. 7 /\ j = Orders[nd][Orders[nd][j]] /\ Orders[nd][j] \in 1 .. 7
<1>1. \A x \in 0 .. 7 : /\ x < 2 => (x \div 1) % 2 = x
                        /\ x < 4 => 2 * ((x \div 2) % 2) + ((x \div 1) % 2) = x
                        /\ 4 * ((x \div 4) % 2) + 2 * ((x \div 2) % 2) + ((x \div 1) % 2) = x
  OBVIOUS
<1>2. \A x \in Nat : /\ Bit(x, 0) = (x \div 1) % 2
                     /\ Bit(x, 1) = (x \div 2) % 2
                     /\ Bit(x, 2) = (x \div 4) % 2
  BY SmallPowers DEF Bit
<1>3. /\ MaxOf(1 - 1, 0) = 0 /\ MaxOf(2 - 1, 0) = 1 /\ MaxOf(2 - 2, 0) = 0
      /\ MaxOf(3 - 1, 0) = 2 /\ MaxOf(3 - 2, 0) = 1 /\ MaxOf(3 - 3, 0) = 0
  BY DEF MaxOf
<1>4. /\ \A i \in Axes : Halves(nd, j)[i] = Bit(Orders[nd][j], MaxOf(nd - i, 0))
      /\ 1 \in Axes /\ 2 \in Axes /\ 3 \in Axes
  BY DEF Halves, Each, Axes
<1>5. CASE nd = 1
  <2>1. j = 1
    BY <1>5, SmallPowers
  <2>2. Orders[1] = [k \in 0 .. 1 |-> k]
    BY DEF Orders
  <2>3. Orders[1][1] = 1
    BY <2>2
  <2>4. Halves(nd, j)[1] = Bit(1, 0)
    BY <1>3, <1>4, <1>5, <2>1, <2>3
  <2>5. Bit(1, 0) = 1
    BY <1>1, <1>2
  <2> QED
    BY <1>5, <2>1, <2>3, <2>4, <2>5
<1>6. CASE nd = 2
  <2>1. j \in 1 .. 3
    BY <1>6, SmallPowers
  <2>2. Orders[2] = [k \in 0 .. 3 |-> k]
    BY DEF Orders
  <2>3. Orders[2][j] = j
    BY <2>1, <2>2
  <2>4. Halves(nd, j)[1] = Bit(j, 1) /\ Halves(nd, j)[2] = Bit(j, 0)
    BY <1>3, <1>4, <1>6, <2>3
  <2>5. 2 * Bit(j, 1) + Bit(j, 0) = j
    <3>1. 2 * ((j \div 2) % 2) + ((j \div 1) % 2) = j /\ j \in Nat
      BY <1>1, <2>1
    <3>2. Bit(j, 0) = (j \div 1) % 2 /\ Bit(j, 1) = (j \div 2) % 2
      BY <1>2, <3>1
    <3> QED
      BY <3>1, <3>2
  <2> QED
    BY <1>6, <2>1, <2>3, <2>4, <2>5
<1>7. CASE nd = 3
  <2>1. j \in 1 .. 7
    BY <1>7, SmallPowers
  <2>2. Orders[3] = [k \in 0 .. 7 |-> IF k = 3 THEN 4 ELSE IF k = 4 THEN 3 ELSE k]
    BY DEF Orders
  <2>3. PICK o \in 1 .. 7 : o = Orders[3][j] /\ j = Orders[3][o]
    <3>1. Orders[3][j] = IF j = 3 THEN 4 ELSE IF j = 4 THEN 3 ELSE j
      BY <2>1, <2>2
    <3>2. Orders[3][Orders[3][j]] = j /\ Orders[3][j] \in 1 .. 7
      BY <2>1, <2>2, <3>1
    <3> QED
      BY <3>2
  <2>4. Halves(nd, j)[1] = Bit(o, 2) /\ Halves(nd, j)[2] = Bit(o, 1) /\ Halves(nd, j)[3] = Bit(o, 0)
    BY <1>3, <1>4, <1>7, <2>3
  <2>5. 4 * Bit(o, 2) + 2 * Bit(o, 1) + Bit(o, 0) = o
    <3>1. /\ 4 * ((o \div 4) % 2) + 2 * ((o \div 2) % 2) + ((o \div 1) % 2) = o
          /\ o \in Nat
      BY <1>1
    <3>2. /\ Bit(o, 0) = (o \div 1) % 2 /\ Bit(o, 1) = (o \div 2) % 2
          /\ Bit(o, 2) = (o \div 4) % 2
      BY <1>2, <3>1
    <3> QED
      BY <3>1, <3>2
  <2> QED
    BY <1>7, <2>1, <2>3, <2>4, <2>5
<1> QED
  BY <1>5, <1>6, <1>7

\* Different subbands of a level have different halves, and each of them the
\* upper half of some axis.
LEMMA HalvesDiffer ==
    ASSUME NEW nd \in 1 .. 3, NEW j \in 1 .. 2 ^ nd - 1
    PROVE  /\ \E i \in 1 .. nd : Halves(nd, j)[i] = 1
           /\ \A k \in 1 .. 2 ^ nd - 1 :
                (\A i \in 1 .. nd : Halves(nd, j)[i] = Halves(nd, k)[i]) => j = k
<1>1. ASSUME NEW k \in 1 .. 2 ^ nd - 1, \A i \in 1 .. nd : Halves(nd, j)[i] = Halves(nd, k)[i]
      PROVE  j = k
  <2>1. PICK g, h : g = Halves(nd, j) /\ h = Halves(nd, k)
    OBVIOUS
  <2>2. /\ nd = 1 => Orders[nd][j] = g[1]
        /\ nd = 2 => Orders[nd][j] = 2 * g[1] + g[2]
        /\ nd = 3 => Orders[nd][j] = 4 * g[1] + 2 * g[2] + g[3]
        /\ j = Orders[nd][Orders[nd][j]]
    BY <2>1, HalvesNumber
  <2>3. /\ nd = 1 => Orders[nd][k] = h[1]
        /\ nd = 2 => Orders[nd][k] = 2 * h[1] + h[2]
        /\ nd = 3 => Orders[nd][k] = 4 * h[1] + 2 * h[2] + h[3]
        /\ k = Orders[nd][Orders[nd][k]]
    BY <2>1, HalvesNumber, ZenonT(60)
  <2>4. /\ g[1] = h[1] /\ (nd > 1 => g[2] = h[2]) /\ (nd > 2 => g[3] = h[3])
    BY <1>1, <2>1
  <2>5. Orders[nd][j] = Orders[nd][k]
    BY <2>2, <2>3, <2>4
  <2> QED
    BY <2>2, <2>3, <2>5
<1>2. \E i \in 1 .. nd : Halves(nd, j)[i] = 1
  <2>1. SUFFICES ASSUME \A i \in 1 .. nd : Halves(nd, j)[i] # 1 PROVE FALSE
    OBVIOUS
  <2>2. PICK h : h = Halves(nd, j)
    OBVIOUS
  <2>3. \A i \in 1 .. nd : h[i] \in {0, 1}
    <3>1. \A i \in Axes : h[i] = Bit(Orders[nd][j], MaxOf(nd - i, 0))
      BY <2>2 DEF Halves, Each, Axes
    <3>2. Orders[nd][j] \in Nat
      <4>1. Orders[nd][j] \in 1 .. 7
        BY HalvesNumber
      <4> QED
        BY <4>1
    <3>3. \A i \in 1 .. nd : i \in Axes /\ MaxOf(nd - i, 0) \in Nat
      BY DEF MaxOf, Axes
    <3> QED
      BY <3>1, <3>2, <3>3, BitType
  <2>4. h[1] = 0 /\ (nd > 1 => h[2] = 0) /\ (nd > 2 => h[3] = 0)
    BY <2>1, <2>2, <2>3
  <2>5. /\ nd = 1 => Orders[nd][j] = h[1]
        /\ nd = 2 => Orders[nd][j] = 2 * h[1] + h[2]
        /\ nd = 3 => Orders[nd][j] = 4 * h[1] + 2 * h[2] + h[3]
        /\ Orders[nd][j] \in 1 .. 7
    BY <2>2, HalvesNumber
  <2> QED
    BY <2>4, <2>5
<1> QED
  BY <1>1, <1>2

\* The level that subband s comes from, and its number there.
LvlOf(n, levels, s) == levels - 1 - ((s - 2) \div PerLevel(n))
NumOf(n, s) == ((s - 2) % PerLevel(n)) + 1
NBands(n, levels) == 1 + levels * PerLevel(n)

\* The subbands after the coarsest one are numbered by level and number.
LEMMA Numbered ==
    ASSUME NEW n \in Lengths, NEW levels \in Nat, NEW s \in 2 .. NBands(n, levels)
    PROVE  /\ LvlOf(n, levels, s) \in 0 .. levels - 1
           /\ NumOf(n, s) \in 1 .. PerLevel(n)
           /\ s = ((levels - 1 - LvlOf(n, levels, s)) * PerLevel(n) + NumOf(n, s)) + 1
           /\ SubbandExtents(n, levels)[s] = ExtentOf(n, LvlOf(n, levels, s), NumOf(n, s))
           /\ AllGrids(n, levels)[s] = GridOf(n, LvlOf(n, levels, s), NumOf(n, s))
<1>1. PICK c \in Nat : c = PerLevel(n)
  BY OfLevel DEF PerLevel
<1>2. PICK t \in Nat : t = levels * c
  OBVIOUS
<1>3. s \in 2 .. 1 + t
  BY <1>1, <1>2 DEF NBands
<1>4. c # 0
  BY <1>2, <1>3
<1>5. PICK k \in Nat : k = s - 2 /\ k < levels * c
  BY <1>2, <1>3
<1>6. PICK q \in Nat, r \in 0 .. c - 1 : q = k \div c /\ r = k % c /\ k = q * c + r
  <2>1. c \in Nat \ {0}
    BY <1>4
  <2> QED
    BY <2>1, Divided
<1>7. q < levels
  <2>1. SUFFICES ASSUME levels <= q PROVE FALSE
    OBVIOUS
  <2>2. levels * c <= q * c
    BY <2>1, Product
  <2>3. levels * c \in Nat /\ q * c \in Nat
    OBVIOUS
  <2> QED
    BY <1>5, <1>6, <2>2, <2>3
<1>8. LvlOf(n, levels, s) = levels - 1 - q /\ NumOf(n, s) = r + 1
  BY <1>1, <1>5, <1>6 DEF LvlOf, NumOf
<1>9. levels - 1 - q \in 0 .. levels - 1 /\ r + 1 \in 1 .. c
  BY <1>7
<1>10. s = ((levels - 1 - (levels - 1 - q)) * c + (r + 1)) + 1
  <2>1. levels - 1 - (levels - 1 - q) = q
    OBVIOUS
  <2>2. \A w : w = q => s = (w * c + (r + 1)) + 1
    BY <1>5, <1>6
  <2> QED
    BY <2>1, <2>2
<1>11. s \in 1 .. 1 + t /\ s # 1 /\ c = 2 ^ NumDims(n) - 1
  BY <1>1, <1>3 DEF PerLevel
<1>12. SubbandExtents(n, levels)[s] = ExtentOf(n, LvlOf(n, levels, s), NumOf(n, s))
  <2>1. SubbandExtents(n, levels) =
           [u \in 1 .. 1 + t |->
               IF u = 1 THEN Extent(Vec(0), DimsLeft(n, levels))
               ELSE ExtentOf(n, levels - 1 - (u - 2) \div c, ((u - 2) % c) + 1)]
    BY <1>2, <1>11 DEF SubbandExtents, Levels
  <2>2. SubbandExtents(n, levels)[s] = ExtentOf(n, levels - 1 - (s - 2) \div c, ((s - 2) % c) + 1)
    BY <1>11, <2>1
  <2> QED
    BY <1>5, <1>6, <1>8, <2>2
<1>13. AllGrids(n, levels)[s] = GridOf(n, LvlOf(n, levels, s), NumOf(n, s))
  <2>1. AllGrids(n, levels) =
           [u \in 1 .. 1 + t |->
               IF u = 1 THEN Grid(Vec(0), DimsLeft(n, levels), Vec(2 ^ levels))
               ELSE GridOf(n, levels - 1 - (u - 2) \div c, ((u - 2) % c) + 1)]
    BY <1>2, <1>11 DEF AllGrids, Levels
  <2>2. AllGrids(n, levels)[s] = GridOf(n, levels - 1 - (s - 2) \div c, ((s - 2) % c) + 1)
    BY <1>11, <2>1
  <2> QED
    BY <1>5, <1>6, <1>8, <2>2
<1> QED
  BY <1>1, <1>8, <1>9, <1>10, <1>12, <1>13

\* Every level and number there is has a subband.
LEMMA NumberedBack ==
    ASSUME NEW n \in Lengths, NEW levels \in Nat,
           NEW l \in 0 .. levels - 1, NEW j \in 1 .. PerLevel(n)
    PROVE  \E s \in 2 .. NBands(n, levels) : LvlOf(n, levels, s) = l /\ NumOf(n, s) = j
<1>1. PICK c \in Nat \ {0} : c = PerLevel(n)
  <2>1. PerLevel(n) \in Nat
    BY OfLevel DEF PerLevel
  <2> QED
    BY <2>1
<1>2. PICK q \in Nat, r \in 0 .. c - 1, k \in Nat :
         q = levels - 1 - l /\ r = j - 1 /\ k = q * c + r
  <2>1. PICK x \in Nat, y \in 0 .. c - 1 : x = levels - 1 - l /\ y = j - 1
    BY <1>1
  <2>2. x * c + y \in Nat
    OBVIOUS
  <2> QED
    BY <2>1, <2>2
<1>3. (k \div c) = q /\ (k % c) = r
  <2>1. q \in Nat /\ r \in Nat /\ r < c /\ k = q * c + r
    BY <1>2
  <2> QED
    BY <2>1, DivMod
<1>4. k < levels * c
  <2>1. q + 1 <= levels /\ q + 1 \in Nat
    BY <1>2
  <2>2. (q + 1) * c <= levels * c
    BY <2>1, Product
  <2>3. (q + 1) * c = q * c + c /\ q * c \in Nat /\ levels * c \in Nat
    OBVIOUS
  <2> QED
    BY <1>2, <2>2, <2>3
<1>5. k + 2 \in 2 .. NBands(n, levels) /\ k + 2 - 2 = k
  <2>1. levels * c \in Nat
    OBVIOUS
  <2> QED
    BY <1>1, <1>4, <2>1 DEF NBands
<1>6. LvlOf(n, levels, k + 2) = l /\ NumOf(n, k + 2) = j
  <2>1. LvlOf(n, levels, k + 2) = levels - 1 - (k \div c) /\ NumOf(n, k + 2) = (k % c) + 1
    BY <1>1, <1>5 DEF LvlOf, NumOf
  <2>2. levels - 1 - q = l /\ r + 1 = j
    BY <1>2
  <2> QED
    BY <1>3, <2>1, <2>2
<1> QED
  BY <1>5, <1>6

\* The number of subbands, and the first of them.
LEMMA FirstBands ==
    ASSUME NEW n \in Lengths, NEW levels \in Nat
    PROVE  /\ NBands(n, levels) \in Nat \ {0} /\ PerLevel(n) \in Nat
           /\ DOMAIN SubbandExtents(n, levels) = 1 .. NBands(n, levels)
           /\ SubbandExtents(n, levels)[1] = Extent(Vec(0), DimsLeft(n, levels))
           /\ DOMAIN AllGrids(n, levels) = 1 .. NBands(n, levels)
           /\ Len(AllGrids(n, levels)) = NBands(n, levels)
           /\ AllGrids(n, levels)[1] = CoarsestGrid(n, levels)
<1>1. PICK c \in Nat : c = PerLevel(n)
  BY OfLevel DEF PerLevel
<1>2. PICK t \in Nat : t = levels * c
  OBVIOUS
<1>3. NBands(n, levels) = 1 + t /\ c = 2 ^ NumDims(n) - 1
  BY <1>1, <1>2 DEF NBands, PerLevel
<1>4. AllGrids(n, levels) =
         [u \in 1 .. 1 + t |->
             IF u = 1 THEN Grid(Vec(0), DimsLeft(n, levels), Vec(2 ^ levels))
             ELSE GridOf(n, levels - 1 - (u - 2) \div c, ((u - 2) % c) + 1)]
  BY <1>2, <1>3 DEF AllGrids, Levels
<1>5. DOMAIN AllGrids(n, levels) = 1 .. 1 + t /\ AllGrids(n, levels)[1] = CoarsestGrid(n, levels)
  BY <1>4 DEF CoarsestGrid
<1>6. Len(AllGrids(n, levels)) = 1 + t
  BY <1>5
<1>7. /\ DOMAIN SubbandExtents(n, levels) = 1 .. 1 + levels * PerLevel(n)
      /\ SubbandExtents(n, levels)[1] = Extent(Vec(0), DimsLeft(n, levels))
  BY BandNumbers
<1>8. DOMAIN SubbandExtents(n, levels) = 1 .. NBands(n, levels)
  BY <1>7 DEF NBands
<1>9. NBands(n, levels) \in Nat \ {0}
  BY <1>3
<1> QED
  BY <1>1, <1>3, <1>5, <1>6, <1>7, <1>8, <1>9

\* k collects, number by number, those of the sequence all whose number is in K.
KeptIs(k, N, K, all) ==
    k = [s \in 0 .. N |-> IF s = 0 THEN <<>>
                          ELSE IF s \in K THEN Append(k[s - 1], all[s]) ELSE k[s - 1]]

\* There is such a collection.
LEMMA KeptExists ==
    ASSUME NEW N \in Nat, NEW K, NEW all
    PROVE  \E k : KeptIs(k, N, K, all)
<1> DEFINE T == {m \in Nat : ~\E k : KeptIs(k, m, K, all)}
<1>1. SUFFICES ASSUME T # {} PROVE FALSE
  OBVIOUS
<1>2. PICK m \in T : \A y \in T : m <= y
  <2>1. T \subseteq Nat
    OBVIOUS
  <2> QED
    BY <1>1, <2>1, Least
<1>3. m \in Nat /\ ~\E k : KeptIs(k, m, K, all)
  OBVIOUS
<1>4. m # 0
  <2>1. SUFFICES ASSUME m = 0 PROVE \E k : KeptIs(k, m, K, all)
    BY <1>3
  <2>2. PICK k : k = [s \in 0 .. 0 |-> <<>>]
    OBVIOUS
  <2>3. \A s \in 0 .. 0 : s = 0
    OBVIOUS
  <2>4. KeptIs(k, 0, K, all)
    BY <2>2, <2>3 DEF KeptIs
  <2> QED
    BY <2>1, <2>4
<1>5. PICK l \in Nat : m = l + 1
  <2>1. m - 1 \in Nat /\ m = (m - 1) + 1
    BY <1>3, <1>4
  <2> QED
    BY <2>1
<1>6. PICK k : KeptIs(k, l, K, all)
  <2>1. l \in T => m <= l
    BY <1>2
  <2> HIDE DEF T
  <2>2. l \notin T
    BY <1>5, <2>1
  <2> QED
    BY <2>2 DEF T
<1>7. \A s \in 0 .. l : k[s] = IF s = 0 THEN <<>>
                               ELSE IF s \in K THEN Append(k[s - 1], all[s]) ELSE k[s - 1]
  BY <1>6 DEF KeptIs
<1>8. PICK next : next = IF m \in K THEN Append(k[l], all[m]) ELSE k[l]
  OBVIOUS
<1>9. PICK g : g = [s \in 0 .. m |-> IF s = m THEN next ELSE k[s]]
  OBVIOUS
<1>10. ASSUME NEW s \in 0 .. m
       PROVE  g[s] = IF s = 0 THEN <<>>
                     ELSE IF s \in K THEN Append(g[s - 1], all[s]) ELSE g[s - 1]
  <2>1. CASE s = m
    <3>1. s # 0 /\ s - 1 = l /\ l \in 0 .. m /\ l # m
      BY <1>5, <2>1
    <3>2. g[s] = next /\ g[s - 1] = k[l]
      BY <1>9, <2>1, <3>1
    <3> QED
      BY <1>8, <2>1, <3>1, <3>2
  <2>2. CASE s # m /\ s # 0
    <3>1. s \in 0 .. l /\ s - 1 \in 0 .. m /\ s - 1 # m
      BY <1>5, <2>2
    <3>2. g[s] = k[s] /\ g[s - 1] = k[s - 1]
      BY <1>9, <2>2, <3>1
    <3> QED
      BY <1>7, <2>2, <3>1, <3>2
  <2>3. CASE s # m /\ s = 0
    <3>1. s \in 0 .. l /\ g[s] = k[s]
      BY <1>9, <2>3
    <3> QED
      BY <1>7, <2>3, <3>1
  <2> QED
    BY <2>1, <2>2, <2>3
<1>11. [s \in 0 .. m |-> g[s]] =
          [s \in 0 .. m |-> IF s = 0 THEN <<>>
                            ELSE IF s \in K THEN Append(g[s - 1], all[s]) ELSE g[s - 1]]
  BY <1>10
<1>12. g = [s \in 0 .. m |-> g[s]]
  BY <1>9
<1>13. KeptIs(g, m, K, all)
  BY <1>11, <1>12 DEF KeptIs
<1> QED
  BY <1>3, <1>13

\* The sequence q has, one for one and in order, those of all whose numbers up
\* to s are in K.
OneForOne(f, q, m, s, K, all) ==
    /\ f \in [1 .. m -> 1 .. s]
    /\ \A x \in 1 .. m : f[x] \in K /\ q[x] = all[f[x]]
    /\ \A x, y \in 1 .. m : f[x] = f[y] => x = y
    /\ \A t \in 1 .. s : t \in K => \E x \in 1 .. m : f[x] = t

Selects(q, s, K, all, S) ==
    /\ q \in Seq(S)
    /\ \E f : OneForOne(f, q, Len(q), s, K, all)
    /\ 1 .. s \subseteq K => Len(q) = s /\ \A x \in 1 .. s : q[x] = all[x]

\* One more is kept ...
LEMMA SelectsMore ==
    ASSUME NEW S, NEW N \in Nat, NEW all \in [1 .. N -> S], NEW K, NEW s \in 0 .. N - 1,
           NEW q, Selects(q, s, K, all, S), s + 1 \in K
    PROVE  Selects(Append(q, all[s + 1]), s + 1, K, all, S)
<1>1. q \in Seq(S)
  BY DEF Selects
<1>2. PICK m \in Nat : m = Len(q)
  BY <1>1
<1>3. PICK f \in [1 .. m -> 1 .. s] :
          /\ \A x \in 1 .. m : f[x] \in K /\ q[x] = all[f[x]]
          /\ \A x, y \in 1 .. m : f[x] = f[y] => x = y
          /\ \A t \in 1 .. s : t \in K => \E x \in 1 .. m : f[x] = t
  BY <1>2, SMTT(20) DEF Selects, OneForOne
<1>4. PICK e \in S : e = all[s + 1]
  <2>1. s + 1 \in 1 .. N
    OBVIOUS
  <2> QED
    BY <2>1
<1>5. PICK r : r = Append(q, e)
  OBVIOUS
<1>6. r \in Seq(S) /\ Len(r) = m + 1 /\ r[m + 1] = e /\ \A x \in 1 .. m : r[x] = q[x]
  BY <1>1, <1>2, <1>5
<1>7. PICK g : g = [x \in 1 .. m + 1 |-> IF x = m + 1 THEN s + 1 ELSE f[x]]
  OBVIOUS
<1>8. g[m + 1] = s + 1 /\ \A x \in 1 .. m : g[x] = f[x] /\ f[x] \in 1 .. s
  <2>1. m + 1 \in 1 .. m + 1 /\ \A x \in 1 .. m : x \in 1 .. m + 1 /\ x # m + 1
    OBVIOUS
  <2> QED
    BY <1>7, <2>1
<1>9. \A x \in 1 .. m + 1 : x = m + 1 \/ x \in 1 .. m
  OBVIOUS
<1>10. g \in [1 .. m + 1 -> 1 .. s + 1]
  <2>1. \A x \in 1 .. m + 1 : g[x] \in 1 .. s + 1
    BY <1>8, <1>9
  <2> QED
    BY <1>7, <2>1
<1>11. \A x \in 1 .. m + 1 : g[x] \in K /\ r[x] = all[g[x]]
  BY <1>3, <1>4, <1>6, <1>8, <1>9
<1>12. \A x, y \in 1 .. m + 1 : g[x] = g[y] => x = y
  <2>1. \A x \in 1 .. m : g[x] # s + 1
    BY <1>8
  <2>2. \A x, y \in 1 .. m : g[x] = g[y] => x = y
    BY <1>3, <1>8
  <2> QED
    BY <1>8, <1>9, <2>1, <2>2
<1>13. ASSUME NEW t \in 1 .. s + 1, t \in K
       PROVE  \E x \in 1 .. m + 1 : g[x] = t
  <2>1. CASE t = s + 1
    <3>1. m + 1 \in 1 .. m + 1
      OBVIOUS
    <3> QED
      BY <1>8, <2>1, <3>1
  <2>2. CASE t # s + 1
    <3>1. t \in 1 .. s
      BY <2>2
    <3>2. PICK x \in 1 .. m : f[x] = t
      BY <1>3, <1>13, <3>1
    <3>3. x \in 1 .. m + 1 /\ g[x] = t
      BY <1>8, <3>2
    <3> QED
      BY <3>3
  <2> QED
    BY <2>1, <2>2
<1>14. ASSUME 1 .. s + 1 \subseteq K
       PROVE  Len(r) = s + 1 /\ \A x \in 1 .. s + 1 : r[x] = all[x]
  <2>1. 1 .. s \subseteq K
    BY <1>14
  <2>2. m = s /\ \A x \in 1 .. s : q[x] = all[x]
    BY <1>2, <2>1 DEF Selects
  <2> QED
    BY <1>4, <1>6, <1>9, <2>2
<1>15. Selects(r, s + 1, K, all, S)
  <2>1. OneForOne(g, r, m + 1, s + 1, K, all)
    BY <1>10, <1>11, <1>12, <1>13 DEF OneForOne
  <2> QED
    BY <1>6, <1>14, <2>1 DEF Selects
<1> QED
  BY <1>4, <1>5, <1>15

\* ... or it is not.
LEMMA SelectsSame ==
    ASSUME NEW S, NEW N \in Nat, NEW all \in [1 .. N -> S], NEW K, NEW s \in 0 .. N - 1,
           NEW q, Selects(q, s, K, all, S), s + 1 \notin K
    PROVE  Selects(q, s + 1, K, all, S)
<1>1. q \in Seq(S)
  BY DEF Selects
<1>2. PICK m \in Nat : m = Len(q)
  BY <1>1
<1>3. PICK f \in [1 .. m -> 1 .. s] :
          /\ \A x \in 1 .. m : f[x] \in K /\ q[x] = all[f[x]]
          /\ \A x, y \in 1 .. m : f[x] = f[y] => x = y
          /\ \A t \in 1 .. s : t \in K => \E x \in 1 .. m : f[x] = t
  BY <1>2, SMTT(20) DEF Selects, OneForOne
<1>4. f \in [1 .. m -> 1 .. s + 1]
  <2>1. 1 .. s \subseteq 1 .. s + 1
    OBVIOUS
  <2> QED
    BY <2>1
<1>5. \A t \in 1 .. s + 1 : t \in K => \E x \in 1 .. m : f[x] = t
  <2>1. \A t \in 1 .. s + 1 : t = s + 1 \/ t \in 1 .. s
    OBVIOUS
  <2> QED
    BY <1>3, <2>1
<1>6. ~(1 .. s + 1 \subseteq K)
  <2>1. s + 1 \in 1 .. s + 1
    OBVIOUS
  <2> QED
    BY <2>1
<1>7. OneForOne(f, q, m, s + 1, K, all)
  BY <1>3, <1>4, <1>5 DEF OneForOne
<1> QED
  BY <1>1, <1>2, <1>6, <1>7 DEF Selects

\* The collection has what it should have.
LEMMA KeptSelects ==
    ASSUME NEW S, NEW N \in Nat, NEW all \in [1 .. N -> S], NEW K,
           NEW k, KeptIs(k, N, K, all)
    PROVE  Selects(k[N], N, K, all, S)
<1>1. \A s \in 0 .. N : k[s] = IF s = 0 THEN <<>>
                               ELSE IF s \in K THEN Append(k[s - 1], all[s]) ELSE k[s - 1]
  BY DEF KeptIs
<1> DEFINE T == {s \in 0 .. N : ~Selects(k[s], s, K, all, S)}
<1>2. SUFFICES ASSUME T # {} PROVE FALSE
  <2>1. N \in 0 .. N
    OBVIOUS
  <2> QED
    BY <2>1
<1>3. PICK m \in T : \A y \in T : m <= y
  <2>1. T \subseteq Nat
    OBVIOUS
  <2> QED
    BY <1>2, <2>1, Least
<1>4. m \in 0 .. N /\ ~Selects(k[m], m, K, all, S)
  OBVIOUS
<1>5. m # 0
  <2>1. SUFFICES ASSUME m = 0 PROVE FALSE
    OBVIOUS
  <2>2. k[m] = <<>>
    BY <1>1, <2>1
  <2>3. PICK q : q = <<>>
    OBVIOUS
  <2>8. q \in Seq(S) /\ Len(q) = 0
    BY <2>3
  <2>4. 1 .. 0 = {}
    OBVIOUS
  <2>5. PICK f : f = [x \in 1 .. 0 |-> 0]
    OBVIOUS
  <2>6. f \in [1 .. 0 -> 1 .. 0]
    BY <2>4, <2>5
  <2>9. OneForOne(f, q, 0, 0, K, all)
    BY <2>4, <2>6 DEF OneForOne
  <2>7. Selects(q, 0, K, all, S)
    BY <2>4, <2>8, <2>9 DEF Selects
  <2> QED
    BY <1>4, <2>1, <2>2, <2>3, <2>7
<1>6. PICK l \in 0 .. N - 1 : m = l + 1
  <2>1. m - 1 \in 0 .. N - 1 /\ m = (m - 1) + 1
    BY <1>4, <1>5
  <2> QED
    BY <2>1
<1>7. Selects(k[l], l, K, all, S)
  <2>1. l \in T => m <= l
    BY <1>3
  <2> HIDE DEF T
  <2>2. l \notin T
    BY <1>6, <2>1
  <2>3. l \in 0 .. N
    OBVIOUS
  <2> QED
    BY <2>2, <2>3 DEF T
<1>8. k[m] = IF m \in K THEN Append(k[l], all[m]) ELSE k[l]
  BY <1>1, <1>4, <1>5, <1>6
<1>9. CASE m \in K
  <2>1. k[m] = Append(k[l], all[l + 1])
    BY <1>6, <1>8, <1>9
  <2>2. Selects(Append(k[l], all[l + 1]), l + 1, K, all, S)
    BY <1>6, <1>7, <1>9, SelectsMore
  <2> QED
    BY <1>4, <1>6, <2>1, <2>2
<1>10. CASE m \notin K
  <2>1. k[m] = k[l]
    BY <1>8, <1>10
  <2>2. Selects(k[l], l + 1, K, all, S)
    BY <1>6, <1>7, <1>10, SelectsSame
  <2> QED
    BY <1>4, <1>6, <2>1, <2>2
<1> QED
  BY <1>9, <1>10

\* SubbandGrids keeps just the grids that have a position.
LEMMA GridsKept ==
    ASSUME NEW n \in Lengths, NEW levels \in Nat
    PROVE  \E K : /\ K = {s \in 1 .. NBands(n, levels) :
                             Exists(NumDims(n), AllGrids(n, levels)[s].dims)}
                  /\ \E S : Selects(SubbandGrids(n, levels), NBands(n, levels), K,
                                    AllGrids(n, levels), S)
<1>1. PICK N \in Nat : N = NBands(n, levels)
  BY FirstBands
<1>2. PICK all : all = AllGrids(n, levels)
  OBVIOUS
<1>3. DOMAIN all = 1 .. N /\ Len(all) = N
  BY <1>1, <1>2, FirstBands
<1>4. PICK S : S = {all[s] : s \in 1 .. N}
  OBVIOUS
<1>5. all \in [1 .. N -> S]
  <2>1. all = [s \in 1 .. N |-> all[s]]
    <3>1. \E F : all = [s \in 1 .. N |-> F[s]]
      BY <1>1, <1>2 DEF AllGrids, Levels, NBands, PerLevel
    <3> QED
      BY <3>1
  <2> QED
    BY <1>4, <2>1
<1>6. PICK nd : nd = NumDims(n)
  OBVIOUS
<1>7. PICK K : K = {s \in 1 .. N : Exists(nd, all[s].dims)}
  OBVIOUS
<1> DEFINE Is(k) == k = [s \in 0 .. N |->
                           IF s = 0 THEN <<>>
                           ELSE IF Exists(nd, all[s].dims) THEN Append(k[s - 1], all[s])
                           ELSE k[s - 1]]
<1>8. ASSUME NEW k
      PROVE  Is(k) <=> KeptIs(k, N, K, all)
  <2>1. \A s \in 0 .. N : s # 0 => (s \in K <=> Exists(nd, all[s].dims))
    BY <1>7
  <2>2. [s \in 0 .. N |-> IF s = 0 THEN <<>>
                          ELSE IF Exists(nd, all[s].dims) THEN Append(k[s - 1], all[s])
                          ELSE k[s - 1]]
         = [s \in 0 .. N |-> IF s = 0 THEN <<>>
                             ELSE IF s \in K THEN Append(k[s - 1], all[s]) ELSE k[s - 1]]
    BY <2>1
  <2> QED
    BY <2>2 DEF KeptIs
<1>9. \E k : Is(k)
  <2> HIDE DEF Is
  <2> QED
    BY <1>8, KeptExists
<1>10. PICK k : k = CHOOSE g : Is(g)
  OBVIOUS
<1>11. SubbandGrids(n, levels) = k[N]
  BY <1>2, <1>3, <1>6, <1>10 DEF SubbandGrids
<1>12. KeptIs(k, N, K, all)
  <2> HIDE DEF Is
  <2> QED
    BY <1>8, <1>9, <1>10
<1>13. Selects(k[N], N, K, all, S)
  BY <1>5, <1>12, KeptSelects
<1> QED
  BY <1>1, <1>2, <1>6, <1>7, <1>11, <1>13

\* A position of a grid is on it along every axis.
LEMMA PointOn ==
    ASSUME NEW g, NEW p
    PROVE  p \in Points(g) <=> (p = <<p[1], p[2], p[3]>> /\ \A i \in Axes : On(g, i, p[i]))
<1>1. p \in Points(g) => p = <<p[1], p[2], p[3]>>
  BY PointsAre
<1>2. <<p[1], p[2], p[3]>> \in Points(g) <=> On(g, 1, p[1]) /\ On(g, 2, p[2]) /\ On(g, 3, p[3])
  BY PointsAre
<1>3. (\A i \in Axes : On(g, i, p[i])) <=> On(g, 1, p[1]) /\ On(g, 2, p[2]) /\ On(g, 3, p[3])
  BY DEF Axes
<1> QED
  BY <1>1, <1>2, <1>3

\* An extent that fits has the positions from its start to its end.
LEMMA ExtentOn ==
    ASSUME NEW f \in Vectors, NEW d \in Vectors, NEW e,
           e = [from |-> f, dims |-> d, strd |-> Vec(1)], NEW i \in Axes
    PROVE  \A v : On(e, i, v) <=> (v \in Nat /\ f[i] <= v /\ v < f[i] + d[i])
<1>1. PICK a \in Nat, b \in Nat : a = f[i] /\ b = d[i]
  BY DEF Vectors, Axes
<1>2. e.from[i] = a /\ e.dims[i] = b /\ e.strd[i] = 1
  BY <1>1 DEF Vec, Axes
<1>3. ASSUME NEW v
      PROVE  Run(a, 1, b, v) <=> (v \in Nat /\ a <= v /\ v < a + b)
  <2>1. ASSUME NEW k \in 0 .. b - 1, v = a + k * 1
        PROVE  v \in Nat /\ a <= v /\ v < a + b
    BY <2>1
  <2>2. ASSUME v \in Nat, a <= v, v < a + b
        PROVE  \E k \in 0 .. b - 1 : v = a + k * 1
    <3>1. v - a \in 0 .. b - 1 /\ v = a + (v - a) * 1
      BY <2>2
    <3> QED
      BY <3>1
  <2> QED
    BY <2>1, <2>2 DEF Run
<1> QED
  BY <1>1, <1>2, <1>3 DEF On

\* The whole volume.
LEMMA WholeVolume ==
    ASSUME NEW n \in Lengths
    PROVE  Points(Extent(Vec(0), n)) = Box(n)
<1>1. n \in Vectors /\ Vec(0) \in Vectors /\ n \in Sizes
  BY LengthsFit DEF Vectors, Vec, Sizes
<1>2. \A i \in Axes : Vec(0)[i] = 0 /\ n[i] \in Nat
  BY LengthsFit DEF Vec, Axes
<1>3. PICK e : e = Extent(Vec(0), n)
  OBVIOUS
<1>4. e = [from |-> Vec(0), dims |-> n, strd |-> Vec(1)]
  <2>1. ASSUME NEW i \in Axes
        PROVE  Vec(0)[i] <= n[i] /\ n[i] <= n[i]
    <3>1. Vec(0)[i] = 0 /\ n[i] \in Nat
      BY <1>2
    <3> QED
      BY <3>1
  <2> QED
    BY <1>1, <1>3, <2>1, ExtentFits
<1>5. ASSUME NEW i \in Axes
      PROVE  \A v : On(e, i, v) <=> (v \in Nat /\ Vec(0)[i] <= v /\ v < Vec(0)[i] + n[i])
  BY <1>1, <1>4, ExtentOn
<1>6. ASSUME NEW i \in Axes, NEW v
      PROVE  On(e, i, v) <=> v \in 0 .. n[i] - 1
  BY <1>2, <1>5
<1>7. ASSUME NEW p
      PROVE  p \in Points(e) <=> p \in Box(n)
  <2>1. p \in Points(e) <=> (p = <<p[1], p[2], p[3]>> /\ \A i \in Axes : On(e, i, p[i]))
    BY PointOn
  <2>2. (\A i \in Axes : On(e, i, p[i])) <=> \A i \in Axes : p[i] \in 0 .. n[i] - 1
    BY <1>6
  <2>3. p \in Box(n) <=> (p = <<p[1], p[2], p[3]>> /\ \A i \in Axes : p[i] \in 0 .. n[i] - 1)
    BY DEF Box, Axes
  <2> QED
    BY <2>1, <2>2, <2>3
<1> QED
  BY <1>3, <1>7

\* There are subbands besides the coarsest only where there are axes.
LEMMA SomeAxes ==
    ASSUME NEW n \in Lengths, PerLevel(n) > 0
    PROVE  NumDims(n) \in 1 .. 3 /\ \A i \in 1 .. NumDims(n) : i \in Axes
<1>1. NumDims(n) \in 0 .. 3
  BY Dimensions
<1>2. NumDims(n) # 0
  BY OfLevel DEF PerLevel
<1> QED
  BY <1>1, <1>2 DEF Axes

\* Where the positions of a subband are.
LEMMA InLevel ==
    ASSUME NEW n \in Lengths, FlatLast(n), NEW levels \in Nat,
           NEW s \in 2 .. NBands(n, levels), NEW p \in Points(AllGrids(n, levels)[s])
    PROVE  /\ p \in Box(n)
           /\ \A i \in 1 .. NumDims(n) :
                 /\ p[i] \in Nat
                 /\ p[i] % 2 ^ (LvlOf(n, levels, s) + 1)
                      = Halves(NumDims(n), NumOf(n, s))[i] * 2 ^ LvlOf(n, levels, s)
                 /\ Halves(NumDims(n), NumOf(n, s))[i] \in {0, 1}
<1>1. PICK l \in Nat : l = LvlOf(n, levels, s)
  <2>1. LvlOf(n, levels, s) \in Nat
    BY Numbered
  <2> QED
    BY <2>1
<1>2. PICK j \in 1 .. PerLevel(n) : j = NumOf(n, s)
  BY Numbered
<1>3. PICK g : g = GridOf(n, l, j)
  OBVIOUS
<1>4. p \in Points(g)
  BY <1>1, <1>2, <1>3, Numbered
<1>5. p = <<p[1], p[2], p[3]>> /\ \A i \in Axes : On(g, i, p[i])
  BY <1>4, PointOn
<1>6. PerLevel(n) > 0
  <2>1. PerLevel(n) \in Nat
    BY FirstBands
  <2> QED
    BY <2>1
<1>7. PICK nd \in 1 .. 3 : nd = NumDims(n) /\ \A i \in 1 .. nd : i \in Axes
  BY <1>6, SomeAxes
<1>8. PICK h \in {0, 1} \X {0, 1} \X {0, 1} : h = Halves(nd, j)
  BY <1>7, HalvesType DEF PerLevel
<1>9. ASSUME NEW i \in Axes
      PROVE  \A v : On(g, i, v) <=>
                (v \in 0 .. n[i] - 1 /\ (i <= nd => v % 2 ^ (l + 1) = h[i] * 2 ^ l))
  <2>1. \A v : On(GridOf(n, l, j), i, v) <=>
                (v \in 0 .. n[i] - 1
                   /\ (i <= NumDims(n) => v % 2 ^ (l + 1) = Halves(NumDims(n), j)[i] * 2 ^ l))
    BY GridShape
  <2> QED
    BY <1>3, <1>7, <1>8, <2>1
<1>10. \A i \in Axes : p[i] \in 0 .. n[i] - 1 /\ (i <= nd => p[i] % 2 ^ (l + 1) = h[i] * 2 ^ l)
  BY <1>5, <1>9
<1>11. p \in Box(n)
  BY <1>5, <1>10 DEF Box, Axes
<1>12. \A i \in 1 .. nd : p[i] \in Nat /\ h[i] \in {0, 1}
  BY <1>7, <1>10 DEF Axes
<1>13. \A i \in 1 .. nd : p[i] % 2 ^ (l + 1) = h[i] * 2 ^ l
  <2>1. \A i \in 1 .. nd : i <= nd
    OBVIOUS
  <2> QED
    BY <1>7, <1>10, <2>1
<1> QED
  BY <1>1, <1>2, <1>7, <1>8, <1>11, <1>12, <1>13

\* Where the positions of the coarsest subband are.
LEMMA InCoarsest ==
    ASSUME NEW n \in Lengths, NEW levels \in Nat, NEW p \in Points(AllGrids(n, levels)[1])
    PROVE  p \in Box(n) /\ \A i \in Axes : p[i] \in Nat /\ p[i] % 2 ^ levels = 0
<1>1. PICK g : g = CoarsestGrid(n, levels)
  OBVIOUS
<1>2. p \in Points(g)
  BY <1>1, FirstBands
<1>3. p = <<p[1], p[2], p[3]>> /\ \A i \in Axes : On(g, i, p[i])
  BY <1>2, PointOn
<1>4. \A i \in Axes : p[i] \in 0 .. n[i] - 1 /\ p[i] % 2 ^ levels = 0
  BY <1>1, <1>3, CoarsestShape, ZenonT(60)
<1>5. p \in Box(n)
  BY <1>3, <1>4 DEF Box, Axes
<1> QED
  BY <1>4, <1>5

\* A position of a level's subband is not one of a coarser subband.
LEMMA NotCoarser ==
    ASSUME NEW n \in Lengths, FlatLast(n), NEW levels \in Nat,
           NEW s \in 2 .. NBands(n, levels), NEW p \in Points(AllGrids(n, levels)[s]),
           NEW m \in Nat, LvlOf(n, levels, s) < m
    PROVE  \E i \in 1 .. NumDims(n) : p[i] % 2 ^ m # 0
<1>1. PICK l \in Nat : l = LvlOf(n, levels, s)
  <2>1. LvlOf(n, levels, s) \in Nat
    BY Numbered
  <2> QED
    BY <2>1
<1>2. PICK j \in 1 .. PerLevel(n) : j = NumOf(n, s)
  BY Numbered
<1>3. PerLevel(n) > 0
  <2>1. PerLevel(n) \in Nat
    BY FirstBands
  <2> QED
    BY <2>1
<1>4. PICK nd \in 1 .. 3 : nd = NumDims(n)
  BY <1>3, SomeAxes
<1>5. PICK i \in 1 .. nd : Halves(nd, j)[i] = 1
  BY <1>4, HalvesDiffer DEF PerLevel
<1>6. p[i] \in Nat /\ p[i] % 2 ^ (l + 1) = 1 * 2 ^ l
  BY <1>1, <1>2, <1>4, <1>5, InLevel
<1>7. p[i] % 2 ^ (l + 1) # 0
  BY <1>6, HalfOf
<1>8. l + 1 \in Nat /\ l + 1 <= m
  BY <1>1
<1>9. p[i] % 2 ^ m # 0
  BY <1>6, <1>7, <1>8, Coarser
<1> QED
  BY <1>4, <1>9

\* No position is in two subbands.
LEMMA GridsApart ==
    ASSUME NEW n \in Lengths, FlatLast(n), NEW levels \in Nat,
           NEW s \in 1 .. NBands(n, levels), NEW t \in 1 .. NBands(n, levels),
           NEW p \in Points(AllGrids(n, levels)[s]), p \in Points(AllGrids(n, levels)[t])
    PROVE  s = t
<1>1. PICK N \in Nat : N = NBands(n, levels)
  BY FirstBands
<1>2. PICK nd : nd = NumDims(n)
  OBVIOUS
<1>3. ASSUME NEW u \in 2 .. N, p \in Points(AllGrids(n, levels)[u]),
             p \in Points(AllGrids(n, levels)[1])
      PROVE  FALSE
  <2>1. PICK l \in 0 .. levels - 1 : l = LvlOf(n, levels, u)
    BY <1>1, Numbered
  <2>2. l < levels
    OBVIOUS
  <2>3. PICK i \in 1 .. NumDims(n) : p[i] % 2 ^ levels # 0
    BY <1>1, <1>3, <2>1, <2>2, NotCoarser
  <2>4. NumDims(n) \in 0 .. 3
    BY Dimensions
  <2>5. i \in Axes
    BY <2>4 DEF Axes
  <2> QED
    BY <1>3, <2>3, <2>5, InCoarsest
<1>4. ASSUME NEW u \in 2 .. N, NEW w \in 2 .. N, p \in Points(AllGrids(n, levels)[u]),
             p \in Points(AllGrids(n, levels)[w]), LvlOf(n, levels, u) < LvlOf(n, levels, w)
      PROVE  FALSE
  <2>1. PICK m \in Nat : m = LvlOf(n, levels, w)
    <3>1. LvlOf(n, levels, w) \in Nat
      BY <1>1, Numbered
    <3> QED
      BY <3>1
  <2>2. PICK i \in 1 .. NumDims(n) : p[i] % 2 ^ m # 0
    BY <1>1, <1>4, <2>1, NotCoarser
  <2>3. PICK b \in {0, 1} : b = Halves(NumDims(n), NumOf(n, w))[i]
    BY <1>1, <1>4, InLevel
  <2>4. p[i] \in Nat /\ p[i] % 2 ^ (m + 1) = b * 2 ^ m
    BY <1>1, <1>4, <2>1, <2>3, InLevel
  <2>5. p[i] % 2 ^ m = 0
    BY <2>4, HalfOf
  <2> QED
    BY <2>2, <2>5
<1>5. ASSUME NEW u \in 2 .. N, NEW w \in 2 .. N, p \in Points(AllGrids(n, levels)[u]),
             p \in Points(AllGrids(n, levels)[w]), LvlOf(n, levels, u) = LvlOf(n, levels, w)
      PROVE  u = w
  <2>1. PICK l \in Nat : l = LvlOf(n, levels, u) /\ l = LvlOf(n, levels, w)
    <3>1. LvlOf(n, levels, u) \in Nat
      BY <1>1, Numbered
    <3> QED
      BY <1>5, <3>1
  <2>2. PICK j \in 1 .. PerLevel(n), k \in 1 .. PerLevel(n) : j = NumOf(n, u) /\ k = NumOf(n, w)
    BY <1>1, Numbered
  <2>3. PICK a \in Nat \ {0} : a = 2 ^ l
    BY PowPos
  <2>4. ASSUME NEW i \in 1 .. nd
        PROVE  Halves(nd, j)[i] = Halves(nd, k)[i]
    <3>1. PICK b \in {0, 1}, c \in {0, 1} : b = Halves(nd, j)[i] /\ c = Halves(nd, k)[i]
      BY <1>1, <1>2, <1>5, <2>2, InLevel
    <3>2. p[i] % 2 ^ (l + 1) = b * 2 ^ l
      BY <1>1, <1>2, <1>5, <2>1, <2>2, <3>1, InLevel
    <3>3. p[i] % 2 ^ (l + 1) = c * 2 ^ l
      BY <1>1, <1>2, <1>5, <2>1, <2>2, <3>1, InLevel
    <3>4. b * a = c * a
      BY <2>3, <3>2, <3>3
    <3>5. 0 * a = 0 /\ 1 * a = a
      OBVIOUS
    <3> QED
      BY <3>1, <3>4, <3>5
  <2>5. PerLevel(n) \in Nat /\ PerLevel(n) > 0
    <3>1. PerLevel(n) \in Nat
      BY FirstBands
    <3> QED
      BY <3>1
  <2>6. nd \in 1 .. 3
    BY <1>2, <2>5, SomeAxes
  <2>7. j = k
    BY <1>2, <2>4, <2>6, HalvesDiffer DEF PerLevel
  <2>8. /\ u = ((levels - 1 - LvlOf(n, levels, u)) * PerLevel(n) + NumOf(n, u)) + 1
        /\ w = ((levels - 1 - LvlOf(n, levels, w)) * PerLevel(n) + NumOf(n, w)) + 1
    BY <1>1, Numbered
  <2> QED
    BY <2>1, <2>2, <2>7, <2>8
<1>6. \A u \in 2 .. N : LvlOf(n, levels, u) \in Nat
  <2>1. \A u \in 2 .. N : LvlOf(n, levels, u) \in 0 .. levels - 1
    BY <1>1, Numbered
  <2> QED
    BY <2>1
<1>7. \A u \in 1 .. N : u = 1 \/ u \in 2 .. N
  OBVIOUS
<1>8. CASE s = 1 \/ t = 1
  BY <1>1, <1>3, <1>7, <1>8
<1>9. CASE s # 1 /\ t # 1
  <2>1. s \in 2 .. N /\ t \in 2 .. N
    BY <1>1, <1>7, <1>9
  <2>2. PICK a \in Nat, b \in Nat : a = LvlOf(n, levels, s) /\ b = LvlOf(n, levels, t)
    BY <1>6, <2>1
  <2>3. a < b \/ b < a \/ a = b
    OBVIOUS
  <2> QED
    BY <1>4, <1>5, <2>1, <2>2, <2>3
<1> QED
  BY <1>8, <1>9

\* Every position of the volume is in a subband.
LEMMA GridsCover ==
    ASSUME NEW n \in Lengths, FlatLast(n), NEW levels \in Nat, NEW p \in Box(n)
    PROVE  \E s \in 1 .. NBands(n, levels) : p \in Points(AllGrids(n, levels)[s])
<1>1. PICK nd \in 0 .. 3 : nd = NumDims(n)
  BY Dimensions
<1>2. \A i \in Axes : n[i] \in Nat /\ p[i] \in 0 .. n[i] - 1 /\ p[i] \in Nat
  BY LengthsFit DEF Box, Axes
<1>3. p = <<p[1], p[2], p[3]>>
  BY DEF Box
<1>4. \A i \in Axes : i > nd => p[i] = 0
  <2>1. \A i \in Axes : i > nd => n[i] = 1
    BY <1>1 DEF FlatLast
  <2> QED
    BY <1>2, <2>1
<1>5. \A i \in 1 .. nd : i \in Axes
  BY DEF Axes
<1>6. CASE \A i \in 1 .. nd : p[i] % 2 ^ levels = 0
  <2>1. ASSUME NEW i \in Axes
        PROVE  p[i] % 2 ^ levels = 0
    <3>1. CASE i \in 1 .. nd
      BY <1>6, <3>1
    <3>2. CASE i \notin 1 .. nd
      <4>1. p[i] = 0
        BY <1>4, <3>2 DEF Axes
      <4>2. PICK a \in Nat \ {0} : a = 2 ^ levels
        BY PowPos
      <4>3. 0 % a = 0
        OBVIOUS
      <4> QED
        BY <4>1, <4>2, <4>3
    <3> QED
      BY <3>1, <3>2
  <2>2. PICK g : g = CoarsestGrid(n, levels)
    OBVIOUS
  <2>3. \A i \in Axes : On(g, i, p[i])
    BY <1>2, <2>1, <2>2, CoarsestShape
  <2>4. p \in Points(g)
    BY <1>3, <2>3, PointOn
  <2>5. 1 \in 1 .. NBands(n, levels) /\ AllGrids(n, levels)[1] = g
    BY <2>2, FirstBands
  <2> QED
    BY <2>4, <2>5
<1>7. CASE \E i \in 1 .. nd : p[i] % 2 ^ levels # 0
  <2> DEFINE T == {l \in Nat : l <= levels /\ \E i \in 1 .. nd : p[i] % 2 ^ l # 0}
  <2>1. levels \in T /\ T \subseteq Nat
    BY <1>7
  <2>2. PICK k \in T : \A l \in T : k <= l
    BY <2>1, Least
  <2>3. k \in Nat /\ k <= levels /\ \E i \in 1 .. nd : p[i] % 2 ^ k # 0
    OBVIOUS
  <2>4. k # 0
    <3>1. \A v \in Nat : v % 1 = 0
      OBVIOUS
    <3>2. \A i \in 1 .. nd : p[i] \in Nat
      BY <1>2, <1>5
    <3>3. \A i \in 1 .. nd : p[i] % 2 ^ 0 = 0
      BY <3>1, <3>2, SmallPowers
    <3> QED
      BY <2>3, <3>3
  <2>5. PICK l \in Nat : k = l + 1
    <3>1. k - 1 \in Nat /\ k = (k - 1) + 1
      BY <2>3, <2>4
    <3> QED
      BY <3>1
  <2>6. \A i \in 1 .. nd : p[i] % 2 ^ l = 0
    <3>1. l \in T => k <= l
      BY <2>2
    <3>2. l <= levels
      BY <2>3, <2>5
    <3> HIDE DEF T
    <3>3. l \notin T
      BY <2>5, <3>1
    <3> QED
      BY <3>2, <3>3 DEF T
  <2>7. \A i \in 1 .. nd : \E b \in {0, 1} : p[i] % 2 ^ (l + 1) = b * 2 ^ l
    BY <1>2, <1>5, <2>6, HalfIs
  <2>8. PICK hf : hf = [i \in Axes |-> IF i \in 1 .. nd
                                      THEN CHOOSE b \in {0, 1} : p[i] % 2 ^ (l + 1) = b * 2 ^ l
                                      ELSE 0]
    OBVIOUS
  <2>9. \A i \in 1 .. nd : hf[i] \in {0, 1} /\ p[i] % 2 ^ (l + 1) = hf[i] * 2 ^ l
    BY <1>5, <2>7, <2>8
  <2>10. \A i \in Axes : hf[i] \in {0, 1}
    BY <2>8, <2>9
  <2>11. PICK h : h = <<hf[1], hf[2], hf[3]>>
    OBVIOUS
  <2>12. h \in {0, 1} \X {0, 1} \X {0, 1} /\ \A i \in Axes : h[i] = hf[i]
    BY <2>10, <2>11 DEF Axes
  <2>13. \E i \in 1 .. nd : h[i] = 1
    <3>1. PICK i \in 1 .. nd : p[i] % 2 ^ (l + 1) # 0
      BY <2>3, <2>5
    <3>2. PICK a \in Nat : a = 2 ^ l
      BY PowNat
    <3>3. 0 * a = 0
      OBVIOUS
    <3>4. hf[i] # 0
      BY <2>9, <3>1, <3>2, <3>3
    <3> QED
      BY <1>5, <2>9, <2>12, <3>4
  <2>14. nd \in 1 .. 3
    BY <2>13
  <2>15. PICK j \in 1 .. 2 ^ nd - 1 : \A i \in 1 .. nd : Halves(nd, j)[i] = h[i]
    BY <2>12, <2>13, <2>14, AllHalves
  <2>16. j \in 1 .. PerLevel(n)
    BY <1>1, <2>15 DEF PerLevel
  <2>17. PICK g : g = GridOf(n, l, j)
    OBVIOUS
  <2>18. ASSUME NEW i \in Axes
         PROVE  On(g, i, p[i])
    <3>1. \A v : On(GridOf(n, l, j), i, v) <=>
                (v \in 0 .. n[i] - 1
                   /\ (i <= NumDims(n) => v % 2 ^ (l + 1) = Halves(NumDims(n), j)[i] * 2 ^ l))
      BY <2>16, GridShape
    <3>2. i <= nd => i \in 1 .. nd
      BY DEF Axes
    <3>3. i <= nd => p[i] % 2 ^ (l + 1) = Halves(nd, j)[i] * 2 ^ l
      BY <2>9, <2>12, <2>15, <3>2
    <3> QED
      BY <1>1, <1>2, <2>17, <3>1, <3>3
  <2>19. p \in Points(g)
    BY <1>3, <2>18, PointOn
  <2>20. l \in 0 .. levels - 1
    BY <2>3, <2>5
  <2>21. PICK s \in 2 .. NBands(n, levels) : LvlOf(n, levels, s) = l /\ NumOf(n, s) = j
    BY <2>16, <2>20, NumberedBack
  <2>22. AllGrids(n, levels)[s] = g
    BY <2>17, <2>21, Numbered
  <2>23. s \in 1 .. NBands(n, levels)
    OBVIOUS
  <2> QED
    BY <2>19, <2>22, <2>23
<1> QED
  BY <1>6, <1>7

\* What is left to a level is no more than what was left to an earlier one.
LEMMA LeftShrinks ==
    ASSUME NEW n \in Lengths, NEW l \in Nat, NEW m \in Nat, l <= m, NEW i \in Axes
    PROVE  /\ DimsLeft(n, m)[i] \in Nat \ {0} /\ DimsLeft(n, l)[i] \in Nat \ {0}
           /\ DimsLeft(n, m)[i] <= DimsLeft(n, l)[i]
<1>1. PICK a \in Nat \ {0} : a = n[i]
  BY LengthsFit
<1>2. PICK p \in Nat \ {0}, q \in Nat \ {0} : p = 2 ^ l /\ q = 2 ^ m
  BY PowPos
<1>3. p <= q
  <2>1. CASE l = m
    BY <1>2, <2>1
  <2>2. CASE l # m
    <3>1. l < m
      BY <2>2
    <3>2. PICK e \in Nat \ {0} : 2 ^ m = 2 * (e * 2 ^ l)
      BY <3>1, PowSplit
    <3>3. q = 2 * (e * p)
      BY <1>2, <3>2
    <3>4. 1 * p <= e * p /\ 1 * p = p /\ e * p \in Nat
      BY Product
    <3> QED
      BY <3>3, <3>4
  <2> QED
    BY <2>1, <2>2
<1>4. PICK x \in Nat \ {0} : x = Steps(a, p) /\ \A k \in Nat : k < x <=> k * p < a
  BY RoundedUp, Fewer DEF Steps
<1>5. PICK y \in Nat \ {0} : y = Steps(a, q) /\ \A k \in Nat : k < y <=> k * q < a
  BY RoundedUp, Fewer DEF Steps
<1>6. y <= x
  <2>1. SUFFICES ASSUME x < y PROVE FALSE
    OBVIOUS
  <2>2. x * q < a /\ ~(x * p < a)
    BY <1>4, <1>5, <2>1
  <2>3. p * x <= q * x
    BY <1>3, Product
  <2>4. p * x = x * p /\ q * x = x * q /\ x * p \in Nat /\ x * q \in Nat
    OBVIOUS
  <2> QED
    BY <2>2, <2>3, <2>4
<1>7. DimsLeft(n, l)[i] = Steps(n[i], 2 ^ l) /\ DimsLeft(n, m)[i] = Steps(n[i], 2 ^ m)
  BY LeftIs
<1> QED
  BY <1>1, <1>2, <1>4, <1>5, <1>6, <1>7

\* The axes with two samples or more are the first ones.
LEMMA LongAxes ==
    ASSUME NEW n \in Lengths, FlatLast(n), NEW i \in 1 .. NumDims(n)
    PROVE  i \in Axes /\ n[i] > 1
<1>1. PICK a \in Nat \ {0}, b \in Nat \ {0}, c \in Nat \ {0} : a = n[1] /\ b = n[2] /\ c = n[3]
  BY LengthsFit DEF Axes
<1>2. PICK x \in {0, 1}, y \in {0, 1}, z \in {0, 1} :
         /\ x = (IF a > 1 THEN 1 ELSE 0) /\ y = (IF b > 1 THEN 1 ELSE 0)
         /\ z = (IF c > 1 THEN 1 ELSE 0)
  OBVIOUS
<1>3. NumDims(n) = x + y + z
  BY <1>1, <1>2 DEF NumDims
<1>4. /\ NumDims(n) < 1 => a = 1
      /\ NumDims(n) < 2 => b = 1
      /\ NumDims(n) < 3 => c = 1
  BY <1>1, <1>3 DEF FlatLast, Axes
<1>5. (i = 1 => a > 1) /\ (i = 2 => b > 1) /\ (i = 3 => c > 1)
  BY <1>2, <1>3, <1>4
<1>6. i = 1 \/ i = 2 \/ i = 3
  BY <1>2, <1>3
<1> QED
  BY <1>1, <1>5, <1>6 DEF Axes

\* Unless an axis is used up, every level takes something of every axis.
LEMMA Shortened ==
    ASSUME NEW n \in Lengths, FlatLast(n), NEW levels \in Nat, ~Collapses(n, levels),
           NEW l \in 0 .. levels - 1, NEW i \in 1 .. NumDims(n)
    PROVE  DimsLeft(n, l + 1)[i] < DimsLeft(n, l)[i]
<1>1. i \in Axes /\ n[i] > 1
  BY LongAxes
<1>2. PICK a \in Nat \ {0} : a = n[i]
  BY <1>1, LengthsFit
<1>3. levels - 1 \in Nat /\ l \in Nat /\ l <= levels - 1 /\ levels > 0
  OBVIOUS
<1>4. DimsLeft(n, levels - 1)[i] # 1
  BY <1>1, <1>3 DEF Collapses
<1>5. PICK p \in Nat \ {0}, q \in Nat \ {0} : p = 2 ^ l /\ q = 2 ^ (l + 1) /\ q = 2 * p
  <2>1. 2 ^ l \in Nat /\ 2 ^ l >= 1 /\ 2 ^ (l + 1) = 2 * 2 ^ l
    BY <1>3, PowPos, PowDouble
  <2> QED
    BY <2>1
<1>6. PICK x \in Nat, y \in Nat :
         /\ x = Steps(a, p) /\ y = Steps(a, q) /\ 1 <= y /\ y <= x
         /\ \A k \in Nat : (k < x <=> k * p < a) /\ (k < y <=> k * q < a)
  BY <1>5, LeftTwice, ZenonT(60)
<1>7. DimsLeft(n, l)[i] = x /\ DimsLeft(n, l + 1)[i] = y
  <2>1. DimsLeft(n, l)[i] = Steps(n[i], 2 ^ l)
    BY <1>1, <1>3, LeftIs
  <2>2. DimsLeft(n, l + 1)[i] = Steps(n[i], 2 ^ (l + 1))
    <3>1. l + 1 \in Nat
      BY <1>3
    <3> QED
      BY <1>1, <3>1, LeftIs
  <2> QED
    BY <1>2, <1>5, <1>6, <2>1, <2>2
<1>8. x > 1
  <2>1. /\ DimsLeft(n, levels - 1)[i] \in Nat \ {0}
        /\ DimsLeft(n, levels - 1)[i] <= DimsLeft(n, l)[i]
    BY <1>1, <1>3, LeftShrinks
  <2> QED
    BY <1>4, <1>7, <2>1
<1>9. y < x
  <2>1. SUFFICES ASSUME y = x PROVE FALSE
    BY <1>6
  <2>2. PICK k \in Nat : k = x - 1 /\ k < y /\ 2 * k >= x /\ 2 * k \in Nat
    <3>1. x - 1 \in Nat /\ x - 1 < y /\ 2 * (x - 1) >= x
      BY <1>8, <2>1
    <3> QED
      BY <3>1
  <2>3. k * q < a
    BY <1>6, <2>2
  <2>4. (2 * k) * p = k * q
    BY <1>5
  <2>5. 2 * k < x
    BY <1>6, <2>2, <2>3, <2>4
  <2> QED
    BY <2>2, <2>5
<1> QED
  BY <1>7, <1>9

\* An extent has stride one.
LEMMA ExtentRecord ==
    ASSUME NEW f, NEW d
    PROVE  Extent(f, d) = [from |-> Extent(f, d).from, dims |-> Extent(f, d).dims, strd |-> Vec(1)]
<1>1. Packed(Vec(1)) = Vec(1)
  <2>1. Vec(1) \in Nat \X Nat \X Nat /\ \A i \in Axes : Vec(1)[i] < PackLimit
    BY LimitNat DEF Vec, Axes
  <2> QED
    BY <2>1, PackedVector
<1> QED
  BY <1>1 DEF Extent, Grid

\* The positions of a subband of the codec.
LEMMA BandPoints ==
    ASSUME NEW n \in Lengths, NEW levels \in Nat, NEW sbs, sbs = SubbandExtents(n, levels),
           NEW s \in DOMAIN sbs, NEW p
    PROVE  p \in Points(sbs[s]) <=> (p \in Vectors /\ In(sbs[s], p))
<1>1. PICK e : e = sbs[s]
  OBVIOUS
<1>2. PICK f \in Vectors, d \in Vectors : f = e.from /\ d = e.dims
  BY <1>1, BandShape
<1>3. s \in 1 .. NBands(n, levels)
  BY FirstBands
<1>4. e = [from |-> f, dims |-> d, strd |-> Vec(1)]
  <2>1. CASE s = 1
    <3>1. e = Extent(Vec(0), DimsLeft(n, levels))
      BY <1>1, <2>1, FirstBands
    <3> QED
      BY <1>2, <3>1, ExtentRecord
  <2>2. CASE s # 1
    <3>1. s \in 2 .. NBands(n, levels)
      BY <1>3, <2>2, FirstBands
    <3>2. e = ExtentOf(n, LvlOf(n, levels, s), NumOf(n, s))
      BY <1>1, <3>1, Numbered
    <3>3. \E g, b : e = Extent(g, b)
      BY <3>2 DEF ExtentOf
    <3> QED
      BY <1>2, <3>3, ExtentRecord
  <2> QED
    BY <2>1, <2>2
<1>5. ASSUME NEW i \in Axes
      PROVE  \A v : On(e, i, v) <=> (v \in Nat /\ f[i] <= v /\ v < f[i] + d[i])
  BY <1>2, <1>4, ExtentOn
<1>6. p \in Points(e) <=> (p = <<p[1], p[2], p[3]>> /\ \A i \in Axes : On(e, i, p[i]))
  BY PointOn
<1>7. (\A i \in Axes : On(e, i, p[i]))
         <=> ((\A i \in Axes : p[i] \in Nat) /\ In(e, p))
  BY <1>2, <1>5 DEF In
<1>8. p \in Vectors <=> (p = <<p[1], p[2], p[3]>> /\ \A i \in Axes : p[i] \in Nat)
  BY DEF Vectors, Axes
<1> QED
  BY <1>1, <1>6, <1>7, <1>8

\* The coarsest subband of the codec.
LEMMA CoarsestBand ==
    ASSUME NEW n \in Lengths, NEW levels \in Nat
    PROVE  LET e == SubbandExtents(n, levels)[1]
           IN e.from = Vec(0) /\ e.dims = DimsLeft(n, levels)
<1>1. PICK x \in Sizes : x = DimsLeft(n, levels) /\ \A i \in Axes : x[i] \in 1 .. n[i]
  BY LeftFacts
<1>2. Vec(0) \in Vectors /\ x \in Vectors
  BY DEF Vec, Vectors, Sizes
<1>3. \A i \in Axes : Vec(0)[i] = 0 /\ n[i] \in Nat
  BY LengthsFit DEF Vec, Axes
<1>4. ASSUME NEW i \in Axes
      PROVE  Vec(0)[i] <= n[i] /\ x[i] <= n[i]
  <2>1. Vec(0)[i] = 0 /\ n[i] \in Nat /\ x[i] \in 1 .. n[i]
    BY <1>1, <1>3
  <2> QED
    BY <2>1
<1>5. Extent(Vec(0), x) = [from |-> Vec(0), dims |-> x, strd |-> Vec(1)]
  BY <1>2, <1>4, ExtentFits
<1>6. SubbandExtents(n, levels)[1] = Extent(Vec(0), x)
  BY <1>1, FirstBands
<1> QED
  BY <1>1, <1>5, <1>6

\* A level's subband along an axis: it is inside the volume, and what remains to
\* the level is split when there is something to split along every axis.
LEMMA BandAxis ==
    ASSUME NEW n \in Lengths, NEW levels \in Nat, NEW s \in 2 .. NBands(n, levels),
           NEW i \in Axes
    PROVE  LET e == SubbandExtents(n, levels)[s]
               l == LvlOf(n, levels, s)
               nd == NumDims(n)
               h == Halves(nd, NumOf(n, s))
           IN /\ e.from[i] \in Nat /\ e.dims[i] \in Nat /\ e.from[i] + e.dims[i] <= n[i]
              /\ (\A k \in 1 .. nd : DimsLeft(n, l + 1)[k] < DimsLeft(n, l)[k]) =>
                    /\ e.from[i] = IF i <= nd /\ h[i] = 1 THEN DimsLeft(n, l + 1)[i] ELSE 0
                    /\ e.dims[i] = IF i > nd THEN 1
                                   ELSE IF h[i] = 0 THEN DimsLeft(n, l + 1)[i]
                                   ELSE DimsLeft(n, l)[i] - DimsLeft(n, l + 1)[i]
                    /\ e.dims[i] > 0
<1>1. PICK l \in Nat : l = LvlOf(n, levels, s)
  <2>1. LvlOf(n, levels, s) \in Nat
    BY Numbered
  <2> QED
    BY <2>1
<1>2. PICK j \in 1 .. PerLevel(n) : j = NumOf(n, s)
  BY Numbered
<1>3. PICK e : e = ExtentOf(n, l, j)
  OBVIOUS
<1>4. SubbandExtents(n, levels)[s] = e
  BY <1>1, <1>2, <1>3, Numbered
<1>5. PerLevel(n) > 0
  <2>1. PerLevel(n) \in Nat
    BY FirstBands
  <2> QED
    BY <2>1
<1>6. PICK nd \in 1 .. 3 : nd = NumDims(n) /\ \A k \in 1 .. nd : k \in Axes
  BY <1>5, SomeAxes
<1>7. PICK h \in {0, 1} \X {0, 1} \X {0, 1} : h = Halves(nd, j)
  BY <1>6, HalvesType DEF PerLevel
<1>8. PICK sm : sm = SubbandDims(n, l, h)
  OBVIOUS
<1>9. PICK kept \in 1 .. 3 : kept = IF nd \in {2, 3} /\ Exists(nd, sm) THEN nd ELSE 1
  BY <1>6
<1>10. PICK x, y : x = DimsLeft(n, l) /\ y = DimsLeft(n, l + 1)
  OBVIOUS
<1>11. \A k \in Axes : n[k] \in Nat /\ x[k] \in 1 .. n[k] /\ y[k] \in 1 .. x[k] /\ h[k] \in {0, 1}
  BY <1>7, <1>10, LeftFacts, LengthsFit DEF Axes
<1>12. j \in 1 .. 2 ^ NumDims(n) - 1
  BY DEF PerLevel
<1>13. /\ e.from[i] = IF i <= kept /\ h[i] = 1 THEN y[i] ELSE 0
       /\ e.dims[i] = IF i > kept THEN 1 ELSE IF h[i] = 0 THEN y[i] ELSE x[i] - y[i]
  <2>1. LET mnd == NumDims(n)
            mh == Halves(mnd, j)
            msm == SubbandDims(n, l, mh)
            mkept == IF mnd \in {2, 3} /\ Exists(mnd, msm) THEN mnd ELSE 1
        IN \A m \in Axes :
             /\ ExtentOf(n, l, j).from[m] =
                  IF m <= mkept /\ mh[m] = 1 THEN DimsLeft(n, l + 1)[m] ELSE 0
             /\ ExtentOf(n, l, j).dims[m] =
                  IF m > mkept THEN 1
                  ELSE IF mh[m] = 0 THEN DimsLeft(n, l + 1)[m]
                  ELSE DimsLeft(n, l)[m] - DimsLeft(n, l + 1)[m]
    BY <1>12, BandOf
  <2> QED
    BY <1>3, <1>6, <1>7, <1>8, <1>9, <1>10, <2>1
<1>14. PICK X \in Nat, Y \in Nat : X = x[i] /\ Y = y[i] /\ 1 <= Y /\ Y <= X /\ X <= n[i]
  BY <1>11
<1>15. i \in Nat /\ n[i] \in Nat /\ h[i] \in {0, 1}
  BY <1>11 DEF Axes
<1>16. e.from[i] \in Nat /\ e.dims[i] \in Nat /\ e.from[i] + e.dims[i] <= n[i]
  BY <1>13, <1>14, <1>15
<1>17. ASSUME \A k \in 1 .. nd : y[k] < x[k]
       PROVE  kept = nd /\ (i <= nd => Y < X)
  <2>1. ASSUME NEW k \in 1 .. nd
        PROVE  sm[k] # 0
    <3>1. k \in Axes
      BY <1>6
    <3>2. sm[k] = IF h[k] = 0 THEN y[k] ELSE x[k] - y[k]
      BY <1>8, <1>10, <3>1 DEF SubbandDims, Each, Axes
    <3>3. y[k] < x[k] /\ x[k] \in Nat /\ y[k] \in Nat /\ 1 <= y[k]
      BY <1>11, <1>17, <3>1
    <3> QED
      BY <3>2, <3>3
  <2>2. Exists(nd, sm)
    BY <2>1 DEF Exists
  <2>3. nd = 1 \/ nd = 2 \/ nd = 3
    OBVIOUS
  <2>4. kept = nd
    BY <1>9, <2>2, <2>3
  <2>5. i <= nd => i \in 1 .. nd
    BY DEF Axes
  <2> QED
    BY <1>14, <1>17, <2>4, <2>5
<1>18. ASSUME \A k \in 1 .. nd : y[k] < x[k]
       PROVE  /\ e.from[i] = IF i <= nd /\ h[i] = 1 THEN y[i] ELSE 0
              /\ e.dims[i] = IF i > nd THEN 1 ELSE IF h[i] = 0 THEN y[i] ELSE x[i] - y[i]
              /\ e.dims[i] > 0
  BY <1>13, <1>14, <1>15, <1>17, <1>18
<1> QED
  BY <1>1, <1>2, <1>4, <1>6, <1>7, <1>10, <1>16, <1>18

\* Two subbands of the codec have the dimensions of the transform in place ...
LEMMA SameDims ==
    ASSUME NEW n \in Lengths, FlatLast(n), NEW levels \in Nat, ~Collapses(n, levels),
           NEW s \in 1 .. NBands(n, levels)
    PROVE  /\ SubbandExtents(n, levels)[s].dims = AllGrids(n, levels)[s].dims
           /\ Exists(NumDims(n), AllGrids(n, levels)[s].dims)
<1>1. PICK e, g : e = SubbandExtents(n, levels)[s] /\ g = AllGrids(n, levels)[s]
  OBVIOUS
<1>2. ASSUME NEW i \in Axes
      PROVE  e.dims[i] = g.dims[i] /\ g.dims[i] # 0
  <2>1. CASE s = 1
    <3>1. e.dims = DimsLeft(n, levels)
      BY <1>1, <2>1, CoarsestBand
    <3>2. g = CoarsestGrid(n, levels)
      BY <1>1, <2>1, FirstBands
    <3>3. g.dims[i] = DimsLeft(n, levels)[i] /\ g.dims[i] > 0
      BY <3>2, CoarsestShape
    <3>4. DimsLeft(n, levels)[i] \in Nat
      BY LeftShrinks
    <3> QED
      BY <3>1, <3>3, <3>4
  <2>2. CASE s # 1
    <3>1. s \in 2 .. NBands(n, levels)
      BY <2>2, FirstBands
    <3>2. PICK l \in 0 .. levels - 1 : l = LvlOf(n, levels, s)
      BY <3>1, Numbered
    <3>3. PICK j \in 1 .. PerLevel(n) : j = NumOf(n, s)
      BY <3>1, Numbered
    <3>4. \A k \in 1 .. NumDims(n) : DimsLeft(n, l + 1)[k] < DimsLeft(n, l)[k]
      BY Shortened
    <3>5. PICK h, nd : h = Halves(nd, j) /\ nd = NumDims(n)
      OBVIOUS
    <3>6. /\ e.dims[i] = IF i > nd THEN 1 ELSE IF h[i] = 0 THEN DimsLeft(n, l + 1)[i]
                         ELSE DimsLeft(n, l)[i] - DimsLeft(n, l + 1)[i]
          /\ e.dims[i] > 0 /\ e.dims[i] \in Nat
      BY <1>1, <3>1, <3>2, <3>3, <3>4, <3>5, BandAxis
    <3>7. g = GridOf(n, l, j) /\ l \in Nat
      BY <1>1, <3>1, <3>2, <3>3, Numbered
    <3>8. g.dims[i] = IF i > nd THEN 1 ELSE IF h[i] = 0 THEN DimsLeft(n, l + 1)[i]
                      ELSE DimsLeft(n, l)[i] - DimsLeft(n, l + 1)[i]
      BY <3>5, <3>7, GridShape
    <3> QED
      BY <3>6, <3>8
  <2> QED
    BY <2>1, <2>2
<1>3. e.dims = <<e.dims[1], e.dims[2], e.dims[3]>>
  <2>1. DOMAIN SubbandExtents(n, levels) = 1 .. NBands(n, levels)
    BY FirstBands
  <2>2. e.dims \in Vectors
    BY <1>1, <2>1, BandShape
  <2> QED
    BY <2>2 DEF Vectors
<1>4. g.dims = <<g.dims[1], g.dims[2], g.dims[3]>>
  <2>1. \E f, d, q : g = Grid(f, d, q)
    <3>1. CASE s = 1
      BY <1>1, <3>1, FirstBands DEF CoarsestGrid
    <3>2. CASE s # 1
      <4>1. s \in 2 .. NBands(n, levels)
        BY <3>2, FirstBands
      <4>2. g = GridOf(n, LvlOf(n, levels, s), NumOf(n, s))
        BY <1>1, <4>1, Numbered
      <4> QED
        BY <4>2 DEF GridOf
    <3> QED
      BY <3>1, <3>2
  <2> QED
    BY <2>1 DEF Grid, Packed, Each
<1>5. e.dims = g.dims
  BY <1>2, <1>3, <1>4 DEF Axes
<1>6. Exists(NumDims(n), g.dims)
  <2>1. \A i \in 1 .. NumDims(n) : i \in Axes
    BY LongAxes
  <2> QED
    BY <1>2, <2>1 DEF Exists
<1> QED
  BY <1>1, <1>5, <1>6

\* ... and no position is in two of them.
LEMMA BandsApart ==
    ASSUME NEW n \in Lengths, FlatLast(n), NEW levels \in Nat, ~Collapses(n, levels),
           NEW s \in 1 .. NBands(n, levels), NEW t \in 1 .. NBands(n, levels), NEW p \in Vectors,
           In(SubbandExtents(n, levels)[s], p), In(SubbandExtents(n, levels)[t], p)
    PROVE  s = t
<1>1. PICK N \in Nat : N = NBands(n, levels)
  BY FirstBands
<1>2. PICK sbs : sbs = SubbandExtents(n, levels)
  OBVIOUS
<1>3. PICK nd : nd = NumDims(n)
  OBVIOUS
<1>4. \A i \in 1 .. nd : i \in Axes /\ p[i] \in Nat
  BY <1>3, LongAxes DEF Vectors, Axes
<1>5. ASSUME NEW u \in 2 .. N, In(sbs[u], p), NEW l \in 0 .. levels - 1, l = LvlOf(n, levels, u),
             NEW j \in 1 .. PerLevel(n), j = NumOf(n, u), NEW i \in 1 .. nd
      PROVE  /\ Halves(nd, j)[i] = 0 => p[i] < DimsLeft(n, l + 1)[i]
             /\ Halves(nd, j)[i] # 0 => DimsLeft(n, l + 1)[i] <= p[i]
             /\ p[i] < DimsLeft(n, l)[i]
             /\ Halves(nd, j)[i] \in {0, 1}
  <2>1. \A k \in 1 .. nd : DimsLeft(n, l + 1)[k] < DimsLeft(n, l)[k]
    BY <1>3, Shortened
  <2>2. PICK h : h = Halves(nd, j)
    OBVIOUS
  <2>3. PICK e : e = sbs[u]
    OBVIOUS
  <2>4. i \in Axes /\ i <= nd /\ ~(i > nd)
    <3>1. nd \in 0 .. 3
      BY <1>3, Dimensions
    <3> QED
      BY <1>4, <3>1
  <2>5. PICK x \in Nat, y \in Nat : x = DimsLeft(n, l)[i] /\ y = DimsLeft(n, l + 1)[i] /\ y < x
    <3>1. l \in Nat /\ l + 1 \in Nat /\ l <= l + 1
      OBVIOUS
    <3>2. DimsLeft(n, l)[i] \in Nat /\ DimsLeft(n, l + 1)[i] \in Nat
      BY <2>4, <3>1, LeftShrinks
    <3> QED
      BY <2>1, <3>2
  <2>6. /\ e.from[i] = IF i <= nd /\ h[i] = 1 THEN y ELSE 0
        /\ e.dims[i] = IF i > nd THEN 1 ELSE IF h[i] = 0 THEN y ELSE x - y
    BY <1>1, <1>2, <1>3, <1>5, <2>1, <2>2, <2>3, <2>4, <2>5, BandAxis
  <2>7. h[i] \in {0, 1}
    <3>1. j \in 1 .. 2 ^ NumDims(n) - 1
      BY DEF PerLevel
    <3>2. h \in {0, 1} \X {0, 1} \X {0, 1}
      BY <1>3, <2>2, <3>1, HalvesType
    <3> QED
      BY <2>4, <3>2 DEF Axes
  <2>8. e.from[i] <= p[i] /\ p[i] < e.from[i] + e.dims[i] /\ p[i] \in Nat
    BY <1>4, <1>5, <2>3, <2>4 DEF In
  <2>9. (h[i] = 0 => p[i] < y) /\ (h[i] # 0 => y <= p[i]) /\ p[i] < x
    BY <2>4, <2>5, <2>6, <2>7, <2>8
  <2> QED
    BY <2>2, <2>5, <2>7, <2>9
<1>6. ASSUME NEW u \in 2 .. N, In(sbs[u], p), NEW m \in Nat, LvlOf(n, levels, u) < m
      PROVE  \E i \in 1 .. nd : ~(p[i] < DimsLeft(n, m)[i])
  <2>1. PICK l \in 0 .. levels - 1 : l = LvlOf(n, levels, u)
    BY <1>1, Numbered
  <2>2. PICK j \in 1 .. PerLevel(n) : j = NumOf(n, u)
    BY <1>1, Numbered
  <2>3. PerLevel(n) > 0
    <3>1. PerLevel(n) \in Nat
      BY FirstBands
    <3> QED
      BY <3>1
  <2>4. nd \in 1 .. 3
    BY <1>3, <2>3, SomeAxes
  <2>5. PICK i \in 1 .. nd : Halves(nd, j)[i] = 1
    BY <1>3, <2>4, HalvesDiffer DEF PerLevel
  <2>6. DimsLeft(n, l + 1)[i] <= p[i]
    BY <1>5, <1>6, <2>1, <2>2, <2>5
  <2>7. l + 1 \in Nat /\ l + 1 <= m
    BY <1>6, <2>1
  <2>8. /\ DimsLeft(n, m)[i] \in Nat /\ DimsLeft(n, l + 1)[i] \in Nat
        /\ DimsLeft(n, m)[i] <= DimsLeft(n, l + 1)[i]
    BY <1>4, <2>7, LeftShrinks
  <2>9. p[i] \in Nat
    BY <1>4
  <2> QED
    BY <2>6, <2>8, <2>9
<1>7. ASSUME NEW u \in 2 .. N, In(sbs[u], p), In(sbs[1], p)
      PROVE  FALSE
  <2>1. PICK l \in 0 .. levels - 1 : l = LvlOf(n, levels, u)
    BY <1>1, Numbered
  <2>2. l < levels
    OBVIOUS
  <2>3. PICK i \in 1 .. nd : ~(p[i] < DimsLeft(n, levels)[i])
    BY <1>6, <1>7, <2>1, <2>2
  <2>4. sbs[1].from = Vec(0) /\ sbs[1].dims = DimsLeft(n, levels)
    BY <1>2, CoarsestBand
  <2>5. i \in Axes /\ Vec(0)[i] = 0
    BY <1>4 DEF Vec, Axes
  <2>6. p[i] < 0 + DimsLeft(n, levels)[i]
    BY <1>7, <2>4, <2>5 DEF In
  <2>7. DimsLeft(n, levels)[i] \in Nat
    BY <2>5, LeftShrinks
  <2> QED
    BY <2>3, <2>6, <2>7
<1>8. ASSUME NEW u \in 2 .. N, NEW w \in 2 .. N, In(sbs[u], p), In(sbs[w], p),
             LvlOf(n, levels, u) < LvlOf(n, levels, w)
      PROVE  FALSE
  <2>1. PICK m \in 0 .. levels - 1 : m = LvlOf(n, levels, w)
    BY <1>1, Numbered
  <2>2. PICK k \in 1 .. PerLevel(n) : k = NumOf(n, w)
    BY <1>1, Numbered
  <2>3. PICK i \in 1 .. nd : ~(p[i] < DimsLeft(n, m)[i])
    BY <1>6, <1>8, <2>1
  <2> QED
    BY <1>5, <1>8, <2>1, <2>2, <2>3
<1>9. ASSUME NEW u \in 2 .. N, NEW w \in 2 .. N, In(sbs[u], p), In(sbs[w], p),
             LvlOf(n, levels, u) = LvlOf(n, levels, w)
      PROVE  u = w
  <2>1. PICK l \in 0 .. levels - 1 : l = LvlOf(n, levels, u) /\ l = LvlOf(n, levels, w)
    BY <1>1, <1>9, Numbered
  <2>2. PICK j \in 1 .. PerLevel(n), k \in 1 .. PerLevel(n) : j = NumOf(n, u) /\ k = NumOf(n, w)
    BY <1>1, Numbered
  <2>3. ASSUME NEW i \in 1 .. nd
        PROVE  Halves(nd, j)[i] = Halves(nd, k)[i]
    <3>1. PICK b \in {0, 1}, c \in {0, 1} : b = Halves(nd, j)[i] /\ c = Halves(nd, k)[i]
      BY <1>5, <1>9, <2>1, <2>2
    <3>2. PICK y \in Nat : y = DimsLeft(n, l + 1)[i]
      <4>1. l + 1 \in Nat /\ i \in Axes
        BY <1>4
      <4>2. DimsLeft(n, l + 1)[i] \in Nat
        BY <4>1, LeftShrinks
      <4> QED
        BY <4>2
    <3>3. (b = 0 => p[i] < y) /\ (b # 0 => y <= p[i])
      BY <1>5, <1>9, <2>1, <2>2, <3>1, <3>2
    <3>4. (c = 0 => p[i] < y) /\ (c # 0 => y <= p[i])
      BY <1>5, <1>9, <2>1, <2>2, <3>1, <3>2
    <3>5. p[i] \in Nat
      BY <1>4
    <3> QED
      BY <3>1, <3>2, <3>3, <3>4, <3>5
  <2>4. PerLevel(n) \in Nat /\ PerLevel(n) > 0
    <3>1. PerLevel(n) \in Nat
      BY FirstBands
    <3> QED
      BY <3>1
  <2>5. nd \in 1 .. 3
    BY <1>3, <2>4, SomeAxes
  <2>6. j = k
    BY <1>3, <2>3, <2>5, HalvesDiffer DEF PerLevel
  <2>7. /\ u = ((levels - 1 - LvlOf(n, levels, u)) * PerLevel(n) + NumOf(n, u)) + 1
        /\ w = ((levels - 1 - LvlOf(n, levels, w)) * PerLevel(n) + NumOf(n, w)) + 1
    BY <1>1, Numbered
  <2> QED
    BY <2>1, <2>2, <2>6, <2>7
<1>10. \A u \in 2 .. N : LvlOf(n, levels, u) \in Nat
  <2>1. \A u \in 2 .. N : LvlOf(n, levels, u) \in 0 .. levels - 1
    BY <1>1, Numbered
  <2> QED
    BY <2>1
<1>11. \A u \in 1 .. N : u = 1 \/ u \in 2 .. N
  OBVIOUS
<1>12. CASE s = 1 \/ t = 1
  BY <1>1, <1>2, <1>7, <1>11, <1>12
<1>13. CASE s # 1 /\ t # 1
  <2>1. s \in 2 .. N /\ t \in 2 .. N
    BY <1>1, <1>11, <1>13
  <2>2. PICK a \in Nat, b \in Nat : a = LvlOf(n, levels, s) /\ b = LvlOf(n, levels, t)
    BY <1>10, <2>1
  <2>3. a < b \/ b < a \/ a = b
    OBVIOUS
  <2> QED
    BY <1>2, <1>8, <1>9, <2>1, <2>2, <2>3
<1> QED
  BY <1>12, <1>13

\* What has a position exists.
LEMMA OnExists ==
    ASSUME NEW g, NEW i, NEW v, On(g, i, v)
    PROVE  g.dims[i] # 0
BY DEF On, Run

\* f numbers the m grids that are kept among all of them.
KeptAs(n, levels, m, f) ==
    /\ DOMAIN SubbandGrids(n, levels) = 1 .. m
    /\ f \in [1 .. m -> 1 .. NBands(n, levels)]
    /\ \A x \in 1 .. m : SubbandGrids(n, levels)[x] = AllGrids(n, levels)[f[x]]
    /\ \A x, y \in 1 .. m : f[x] = f[y] => x = y
    /\ \A s \in 1 .. NBands(n, levels) :
          Exists(NumDims(n), AllGrids(n, levels)[s].dims) => \E x \in 1 .. m : f[x] = s
    /\ ~Collapses(n, levels) =>
          /\ m = NBands(n, levels)
          /\ \A x \in 1 .. m : SubbandGrids(n, levels)[x] = AllGrids(n, levels)[x]

\* The grids that are kept, one for one.
LEMMA KeptGrids ==
    ASSUME NEW n \in Lengths, FlatLast(n), NEW levels \in Nat
    PROVE  \E m \in Nat : \E f : KeptAs(n, levels, m, f)
<1>1. PICK N \in Nat : N = NBands(n, levels)
  BY FirstBands
<1>2. PICK q, all : q = SubbandGrids(n, levels) /\ all = AllGrids(n, levels)
  OBVIOUS
<1>3. PICK K : /\ K = {s \in 1 .. N : Exists(NumDims(n), all[s].dims)}
               /\ \E S : Selects(q, N, K, all, S)
  BY <1>1, <1>2, GridsKept
<1>4. PICK S : Selects(q, N, K, all, S)
  BY <1>3
<1>5. q \in Seq(S)
  BY <1>4 DEF Selects
<1>6. PICK m \in Nat : m = Len(q) /\ DOMAIN q = 1 .. m
  BY <1>5
<1>7. PICK f : OneForOne(f, q, m, N, K, all)
  BY <1>4, <1>6 DEF Selects
<1>8. ~Collapses(n, levels) => 1 .. N \subseteq K
  BY <1>1, <1>2, <1>3, SameDims
<1>9. 1 .. N \subseteq K => m = N /\ \A x \in 1 .. N : q[x] = all[x]
  BY <1>4, <1>6 DEF Selects
<1>10. /\ f \in [1 .. m -> 1 .. N]
       /\ \A x \in 1 .. m : q[x] = all[f[x]]
       /\ \A x, y \in 1 .. m : f[x] = f[y] => x = y
       /\ \A s \in 1 .. N : s \in K => \E x \in 1 .. m : f[x] = s
  BY <1>7 DEF OneForOne
<1>11. \A s \in 1 .. N : s \in K <=> Exists(NumDims(n), all[s].dims)
  BY <1>3
<1>12. ~Collapses(n, levels) => m = N /\ \A x \in 1 .. m : q[x] = all[x]
  BY <1>8, <1>9
<1>13. KeptAs(n, levels, m, f)
  BY <1>1, <1>2, <1>6, <1>10, <1>11, <1>12 DEF KeptAs
<1> QED
  BY <1>13

\* The subbands of any volume that is flat along its last axes.
LEMMA Partitioned ==
    ASSUME NEW n \in Lengths, FlatLast(n), NEW levels \in Nat,
           NEW extents, extents = SubbandExtents(n, levels),
           NEW grids, grids = SubbandGrids(n, levels)
    PROVE  /\ UNION {Points(extents[s]) : s \in DOMAIN extents} = Box(n)
           /\ UNION {Points(grids[s]) : s \in DOMAIN grids} = Box(n)
           /\ \A s, u \in DOMAIN grids : s # u => Points(grids[s]) \cap Points(grids[u]) = {}
           /\ ~Collapses(n, levels) =>
                 /\ \A s, u \in DOMAIN extents :
                       s # u => Points(extents[s]) \cap Points(extents[u]) = {}
                 /\ [s \in DOMAIN extents |-> extents[s].dims]
                      = [s \in DOMAIN grids |-> grids[s].dims]
<1>1. PICK N \in Nat : N = NBands(n, levels) /\ DOMAIN extents = 1 .. N
  BY FirstBands
<1>2. PICK all : all = AllGrids(n, levels)
  OBVIOUS
<1>16. PICK m \in Nat : \E f : KeptAs(n, levels, m, f)
  BY KeptGrids
<1>17. PICK f : KeptAs(n, levels, m, f)
  BY <1>16
<1>3. /\ DOMAIN grids = 1 .. m
      /\ f \in [1 .. m -> 1 .. N]
      /\ \A x \in 1 .. m : grids[x] = all[f[x]]
      /\ \A x, y \in 1 .. m : f[x] = f[y] => x = y
      /\ \A s \in 1 .. N : Exists(NumDims(n), all[s].dims) => \E x \in 1 .. m : f[x] = s
      /\ ~Collapses(n, levels) => (m = N /\ \A x \in 1 .. m : grids[x] = all[x])
  BY <1>1, <1>2, <1>17 DEF KeptAs
<1>4. \A s \in DOMAIN extents : \A p : p \in Points(extents[s]) <=> (p \in Vectors /\ In(extents[s], p))
  BY BandPoints
<1>5. ASSUME NEW p \in Box(n)
      PROVE  \E s \in DOMAIN extents : p \in Points(extents[s])
  <2>1. PICK s \in DOMAIN extents : In(extents[s], p)
    BY Covered
  <2>2. p \in Vectors
    <3>1. p = <<p[1], p[2], p[3]>> /\ p[1] \in Nat /\ p[2] \in Nat /\ p[3] \in Nat
      BY DEF Box
    <3> QED
      BY <3>1 DEF Vectors
  <2> QED
    BY <1>4, <2>1, <2>2
<1>6. ASSUME NEW s \in DOMAIN extents, NEW p \in Points(extents[s])
      PROVE  p \in Box(n)
  <2>1. p \in Vectors /\ In(extents[s], p)
    BY <1>4
  <2>2. ASSUME NEW i \in Axes
        PROVE  extents[s].from[i] + extents[s].dims[i] <= n[i]
    <3>1. CASE s = 1
      <4>1. extents[s].from = Vec(0) /\ extents[s].dims = DimsLeft(n, levels)
        BY <3>1, CoarsestBand
      <4>2. Vec(0)[i] = 0
        BY DEF Vec, Axes
      <4>3. DimsLeft(n, levels)[i] \in 1 .. n[i] /\ n[i] \in Nat
        BY LeftFacts, LengthsFit
      <4> QED
        BY <4>1, <4>2, <4>3
    <3>2. CASE s # 1
      <4>1. s \in 2 .. NBands(n, levels)
        BY <1>1, <3>2
      <4> QED
        BY <4>1, BandAxis
    <3> QED
      BY <3>1, <3>2
  <2>3. extents[s].from \in Vectors /\ extents[s].dims \in Vectors
    BY BandShape
  <2>4. ASSUME NEW i \in Axes
        PROVE  p[i] \in 0 .. n[i] - 1
    <3>1. PICK a \in Nat, b \in Nat, v \in Nat :
             a = extents[s].from[i] /\ b = extents[s].dims[i] /\ v = p[i]
      BY <2>1, <2>3 DEF Vectors, Axes
    <3>2. a <= v /\ v < a + b /\ a + b <= n[i]
      BY <2>1, <2>2, <3>1 DEF In
    <3>3. n[i] \in Nat
      BY LengthsFit
    <3> QED
      BY <3>1, <3>2, <3>3
  <2> QED
    BY <2>1, <2>4 DEF Box, Vectors, Axes
<1>7. UNION {Points(extents[s]) : s \in DOMAIN extents} = Box(n)
  BY <1>5, <1>6
<1>8. ASSUME NEW p \in Box(n)
      PROVE  \E x \in DOMAIN grids : p \in Points(grids[x])
  <2>1. PICK s \in 1 .. N : p \in Points(all[s])
    BY <1>1, <1>2, GridsCover
  <2>2. \A i \in Axes : On(all[s], i, p[i])
    BY <2>1, PointOn
  <2>3. \A i \in 1 .. NumDims(n) : all[s].dims[i] # 0
    BY <2>2, LongAxes, OnExists
  <2>4. PICK x \in 1 .. m : f[x] = s
    BY <1>3, <2>3 DEF Exists
  <2> QED
    BY <1>3, <2>1, <2>4
<1>9. ASSUME NEW s \in 1 .. N, NEW p \in Points(all[s])
      PROVE  p \in Box(n)
  <2>1. CASE s = 1
    BY <1>2, <2>1, InCoarsest
  <2>2. CASE s # 1
    <3>1. s \in 2 .. NBands(n, levels)
      BY <1>1, <2>2
    <3> QED
      BY <1>2, <3>1, InLevel
  <2> QED
    BY <2>1, <2>2
<1>10. \A x \in 1 .. m : f[x] \in 1 .. N /\ grids[x] = all[f[x]]
  BY <1>3
<1>11. \A x \in DOMAIN grids : \A p \in Points(grids[x]) : p \in Box(n)
  BY <1>3, <1>9, <1>10
<1>12. UNION {Points(grids[s]) : s \in DOMAIN grids} = Box(n)
  BY <1>8, <1>11
<1>13. ASSUME NEW x \in DOMAIN grids, NEW y \in DOMAIN grids, x # y,
              NEW p \in Points(grids[x]), p \in Points(grids[y])
       PROVE  FALSE
  <2>1. PICK s \in 1 .. N, t \in 1 .. N : s = f[x] /\ t = f[y] /\ s # t
    BY <1>3, <1>10, <1>13
  <2>2. p \in Points(all[s]) /\ p \in Points(all[t])
    BY <1>3, <1>13, <2>1
  <2> QED
    BY <1>1, <1>2, <2>1, <2>2, GridsApart
<1>14. \A s, u \in DOMAIN grids : s # u => Points(grids[s]) \cap Points(grids[u]) = {}
  BY <1>13
<1>15. ASSUME ~Collapses(n, levels)
       PROVE  /\ \A s, u \in DOMAIN extents :
                    s # u => Points(extents[s]) \cap Points(extents[u]) = {}
              /\ [s \in DOMAIN extents |-> extents[s].dims]
                   = [s \in DOMAIN grids |-> grids[s].dims]
  <2>1. ASSUME NEW s \in DOMAIN extents, NEW u \in DOMAIN extents, s # u,
               NEW p \in Points(extents[s]), p \in Points(extents[u])
        PROVE  FALSE
    <3>1. p \in Vectors /\ In(extents[s], p) /\ In(extents[u], p)
      BY <1>4, <2>1
    <3>2. s \in 1 .. NBands(n, levels) /\ u \in 1 .. NBands(n, levels)
      BY <1>1
    <3> QED
      BY <1>15, <2>1, <3>1, <3>2, BandsApart
  <2>2. m = N /\ \A x \in 1 .. N : grids[x] = all[x]
    BY <1>3, <1>15
  <2>3. \A s \in 1 .. N : extents[s].dims = all[s].dims
    BY <1>1, <1>2, <1>15, SameDims
  <2>4. DOMAIN extents = DOMAIN grids /\ \A s \in DOMAIN extents : extents[s].dims = grids[s].dims
    BY <1>1, <1>3, <2>2, <2>3
  <2>5. [s \in DOMAIN extents |-> extents[s].dims] = [s \in DOMAIN grids |-> grids[s].dims]
    BY <2>4
  <2> QED
    BY <2>1, <2>5
<1> QED
  BY <1>7, <1>12, <1>14, <1>15

\* What a transform is asked for.
HasBands == task.n \in Lengths /\ FlatLast(task.n) /\ task.levels \in Nat
BandsInv == phase = "forward" => HasBands

LEMMA WaveletBandsInv == Spec => []BandsInv
<1>1. Init => BandsInv
  <2> SUFFICES ASSUME Init, phase = "forward" PROVE HasBands
    BY DEF BandsInv
  <2>1. ASSUME NEW kind, NEW cases, NEW heights, task \in Tasks(kind, cases, heights),
               cases \subseteq CodecCases \cup InPlaceCases \cup FormCases
        PROVE  HasBands
    <3>1. PICK c \in cases : task.n = c[1] /\ task.levels = c[2]
      BY <2>1, TaskOf
    <3>2. c \in Lengths \X Nat /\ FlatLast(c[1])
      BY <2>1, CasesAssumption
    <3> QED
      BY <3>1, <3>2 DEF HasBands
  <2>2. CASE task \in Tasks("codec", CodecCases, Heights)
    BY <2>1, <2>2
  <2>3. CASE task \in Tasks("inplace", InPlaceCases, {Scale})
    BY <2>1, <2>3
  <2>4. CASE task \in Tasks("form", FormCases, {Scale})
    BY <2>1, <2>4
  <2>5. CASE task \in Tasks("tiles", TileCases, {Scale})
    <3>1. task.kind = "tiles"
      BY <2>5, TaskOf
    <3> QED
      BY <3>1 DEF Init
  <2>6. CASE task \in LookupTasks
    <3>1. task.kind = "lookup"
      BY <2>6 DEF LookupTasks
    <3> QED
      BY <3>1 DEF Init
  <2> QED
    BY <2>2, <2>3, <2>4, <2>5, <2>6 DEF Init
<1>2. BandsInv /\ [Next]_vars => BandsInv'
  <2> SUFFICES ASSUME BandsInv, [Next]_vars
               PROVE  BandsInv'
    OBVIOUS
  <2>1. task' = task /\ (phase' = "forward" => phase = "forward")
    BY DEF Next, vars, ForwardAxis, EndForward, InverseAxis, EndInverse, WriteTile, ReadTile,
           NextSubband, BeginDecode, EndRead, FormSubbands, LiftTile, AddTile, LookUp,
           EndLookUp, Done, Coding
  <2> QED
    BY <2>1 DEF BandsInv, HasBands
<1> QED
  BY <1>1, <1>2, PTL DEF Spec

\* The subbands of the transform in place are a partition of the volume; those
\* of the codec cover it, and are one too unless an axis is used up: for every
\* volume that is flat along its last axes, and any number of levels.
THEOREM WaveletPartition == Spec => []SubbandsPartition
<1>1. BandsInv => SubbandsPartition
  <2> SUFFICES ASSUME HasBands PROVE SubbandsPartition
    BY DEF BandsInv, SubbandsPartition
  <2>1. PICK n \in Lengths, levels \in Nat : n = task.n /\ levels = task.levels /\ FlatLast(n)
    BY DEF HasBands
  <2>2. PICK extents, grids : /\ extents = SubbandExtents(n, levels)
                              /\ grids = SubbandGrids(n, levels)
    OBVIOUS
  <2>3. /\ UNION {Points(extents[s]) : s \in DOMAIN extents} = Box(n)
        /\ UNION {Points(grids[s]) : s \in DOMAIN grids} = Box(n)
        /\ \A s, u \in DOMAIN grids : s # u => Points(grids[s]) \cap Points(grids[u]) = {}
        /\ ~Collapses(n, levels) =>
              /\ \A s, u \in DOMAIN extents :
                    s # u => Points(extents[s]) \cap Points(extents[u]) = {}
              /\ [s \in DOMAIN extents |-> extents[s].dims]
                   = [s \in DOMAIN grids |-> grids[s].dims]
    BY <2>1, <2>2, Partitioned
  <2>4. Points(Extent(Vec(0), n)) = Box(n)
    BY WholeVolume
  <2> QED
    BY <2>1, <2>2, <2>3, <2>4 DEF SubbandsPartition
<1> QED
  BY <1>1, WaveletBandsInv, PTL

\* SubbandToLevel and LevelToSubband of a subband after the coarsest one.
LEMMA LevelOfBand ==
    ASSUME NEW n \in Lengths, NEW levels \in Nat, NEW s \in 2 .. NBands(n, levels),
           NEW nd, nd = NumDims(n), nd \in {2, 3}
    PROVE  /\ SubbandToLevel(nd, s - 1, TRUE) = Halves(nd, NumOf(n, s))
           /\ nd = 3 => LevelToSubband(SubbandToLevel(3, s - 1, FALSE)) = s - 1
<1>1. PICK c \in Nat \ {0} : c = PerLevel(n) /\ c = 2 ^ nd - 1
  BY OfLevel DEF PerLevel
<1>2. PICK l \in 0 .. levels - 1 : l = LvlOf(n, levels, s)
  BY Numbered
<1>3. PICK j \in 1 .. c : j = NumOf(n, s)
  BY <1>1, Numbered
<1>4. PICK q \in Nat : q = levels - 1 - l
  OBVIOUS
<1>5. s = (q * c + j) + 1
  <2>1. s = ((levels - 1 - LvlOf(n, levels, s)) * PerLevel(n) + NumOf(n, s)) + 1
    BY Numbered
  <2> QED
    BY <1>1, <1>2, <1>3, <1>4, <2>1
<1>6. PICK sb \in Nat, qc \in Nat : sb = s - 1 /\ qc = q * c /\ sb = qc + j
  <2>1. q * c \in Nat
    OBVIOUS
  <2> QED
    BY <1>5, <2>1
<1>7. sb # 0
  BY <1>6
<1>8. (sb + c - 1) \div c = q + 1
  <2>1. PICK r \in 0 .. c - 1 : r = j - 1
    OBVIOUS
  <2>2. PICK v \in Nat : v = sb + c - 1
    BY <1>6
  <2>3. v = (q + 1) * c + r
    <3>1. (q + 1) * c = q * c + c
      OBVIOUS
    <3> QED
      BY <1>6, <2>1, <2>2, <3>1
  <2>4. v \div c = q + 1
    <3>1. PICK x \in Nat : x = q + 1
      OBVIOUS
    <3>2. v = x * c + r
      BY <2>3, <3>1
    <3>3. v \div c = x
      BY <3>2, DivMod
    <3> QED
      BY <3>1, <3>3
  <2> QED
    BY <2>2, <2>4
<1>9. sb - c * (q + 1 - 1) = j
  <2>1. q + 1 - 1 = q /\ c * q = q * c
    OBVIOUS
  <2> QED
    BY <1>6, <2>1
<1>10. PICK b \in 1 .. 7 : b = Orders[nd][j]
  <2>1. nd \in 1 .. 3 /\ j \in 1 .. 2 ^ nd - 1
    BY <1>1
  <2> QED
    BY <2>1, HalvesNumber
<1>11. PICK lvl \in Nat : lvl = q + 1
  OBVIOUS
<1>12. PICK bits : bits = <<Bit(b, nd - 1), Bit(b, nd - 2), Bit(b, 0)>>
  OBVIOUS
<1>13. /\ SubbandToLevel(nd, sb, TRUE) = bits
       /\ SubbandToLevel(nd, sb, FALSE) =
            <<lvl - (1 - bits[1]), lvl - (1 - bits[2]), lvl - (1 - bits[3])>>
  <2>1. (sb + (2 ^ nd - 1) - 1) \div (2 ^ nd - 1) = lvl
    BY <1>1, <1>8, <1>11
  <2>2. sb - (2 ^ nd - 1) * (lvl - 1) = j
    BY <1>1, <1>9, <1>11
  <2> QED
    BY <1>7, <1>10, <1>12, <2>1, <2>2 DEF SubbandToLevel, Each
<1>14. Halves(nd, j) = bits
  <2>1. /\ nd = 3 => MaxOf(nd - 1, 0) = 2 /\ MaxOf(nd - 2, 0) = 1 /\ MaxOf(nd - 3, 0) = 0
        /\ nd = 2 => MaxOf(nd - 1, 0) = 1 /\ MaxOf(nd - 2, 0) = 0 /\ MaxOf(nd - 3, 0) = 0
    BY DEF MaxOf
  <2>2. MaxOf(nd - 1, 0) = nd - 1 /\ MaxOf(nd - 2, 0) = nd - 2 /\ MaxOf(nd - 3, 0) = 0
    BY <2>1
  <2>3. Halves(nd, j) = <<Bit(b, MaxOf(nd - 1, 0)), Bit(b, MaxOf(nd - 2, 0)), Bit(b, MaxOf(nd - 3, 0))>>
    BY <1>10 DEF Halves, Each
  <2> QED
    BY <1>12, <2>2, <2>3
<1>15. ASSUME nd = 3
       PROVE  LevelToSubband(SubbandToLevel(3, sb, FALSE)) = sb
  <2>1. PICK x \in {0, 1}, y \in {0, 1}, z \in {0, 1} : bits = <<x, y, z>>
    <3>1. bits[1] \in {0, 1} /\ bits[2] \in {0, 1} /\ bits[3] \in {0, 1}
      <4>1. b \in Nat /\ nd - 1 \in Nat /\ nd - 2 \in Nat /\ 0 \in Nat
        BY <1>15
      <4>2. Bit(b, nd - 1) \in {0, 1} /\ Bit(b, nd - 2) \in {0, 1} /\ Bit(b, 0) \in {0, 1}
        BY <4>1, BitType
      <4> QED
        BY <1>12, <4>2
    <3> QED
      BY <1>12, <3>1
  <2>2. b = 4 * x + 2 * y + z /\ j = Orders[3][b]
    <3>1. nd \in 1 .. 3 /\ j \in 1 .. 2 ^ nd - 1
      BY <1>1
    <3>2. PICK h : h = Halves(nd, j)
      OBVIOUS
    <3>3. Orders[3][j] = 4 * h[1] + 2 * h[2] + h[3] /\ j = Orders[3][Orders[3][j]]
      BY <1>15, <3>1, <3>2, HalvesNumber
    <3>4. h[1] = x /\ h[2] = y /\ h[3] = z
      BY <1>14, <2>1, <3>2
    <3> QED
      BY <1>10, <1>15, <3>3, <3>4
  <2>3. SubbandToLevel(3, sb, FALSE) = <<lvl - (1 - x), lvl - (1 - y), lvl - (1 - z)>>
    <3>1. bits[1] = x /\ bits[2] = y /\ bits[3] = z
      BY <2>1
    <3> QED
      BY <1>13, <1>15, <3>1
  <2>4. x = 1 \/ y = 1 \/ z = 1
    BY <2>2
  <2>5. PICK X \in Nat, Y \in Nat, Z \in Nat :
           X = lvl - (1 - x) /\ Y = lvl - (1 - y) /\ Z = lvl - (1 - z)
    <3>1. lvl - (1 - x) \in Nat /\ lvl - (1 - y) \in Nat /\ lvl - (1 - z) \in Nat
      BY <1>11
    <3> QED
      BY <3>1
  <2>6. PICK w : w = <<X, Y, Z>>
    OBVIOUS
  <2>7. w[1] = X /\ w[2] = Y /\ w[3] = Z
    BY <2>6
  <2>8. MaxOf(MaxOf(X, Y), Z) = lvl
    BY <2>4, <2>5 DEF MaxOf
  <2>9. w # Vec(0)
    <3>1. Vec(0) = <<0, 0, 0>>
      BY DEF Vec
    <3> QED
      BY <1>11, <2>4, <2>5, <2>6, <3>1
  <2>10. /\ (IF X = lvl THEN 1 ELSE 0) = x /\ (IF Y = lvl THEN 1 ELSE 0) = y
         /\ (IF Z = lvl THEN 1 ELSE 0) = z
    BY <2>5
  <2>11. LevelToSubband(w) = 7 * (lvl - 1) + Orders[3][4 * x + 2 * y + z]
    BY <2>7, <2>8, <2>9, <2>10 DEF LevelToSubband
  <2>12. 7 * (lvl - 1) = qc
    <3>1. c = 7
      BY <1>1, <1>15, SmallPowers
    <3> QED
      BY <1>6, <1>11, <3>1
  <2>13. LevelToSubband(w) = qc + j
    BY <2>2, <2>11, <2>12
  <2> QED
    BY <1>6, <2>3, <2>5, <2>6, <2>13
<1> QED
  BY <1>3, <1>6, <1>13, <1>14, <1>15

\* SubbandToLevel and LevelToSubband agree with BuildSubbands, for every volume
\* that is flat along its last axes and any number of levels.
THEOREM WaveletLevelsAgree == Spec => []LevelsAgree
<1>1. BandsInv => LevelsAgree
  <2> SUFFICES ASSUME HasBands, NumDims(task.n) > 1, ~Collapses(task.n, task.levels),
                      NEW s \in DOMAIN SubbandGrids(task.n, task.levels)
               PROVE  LET grids == SubbandGrids(task.n, task.levels)
                          nd == NumDims(task.n)
                      IN /\ \A i \in 1 .. nd :
                               (SubbandToLevel(nd, s - 1, TRUE)[i] = 1) <=> (grids[s].from[i] > 0)
                         /\ nd = 3 => LevelToSubband(SubbandToLevel(3, s - 1, FALSE)) = s - 1
    BY DEF BandsInv, LevelsAgree
  <2>1. PICK n \in Lengths, levels \in Nat : n = task.n /\ levels = task.levels /\ FlatLast(n)
    BY DEF HasBands
  <2>2. PICK nd \in {2, 3} : nd = NumDims(n)
    <3>1. NumDims(n) \in 0 .. 3 /\ NumDims(n) > 1
      BY <2>1, Dimensions
    <3> QED
      BY <3>1
  <2>3. PICK grids, all : /\ grids = SubbandGrids(n, levels)
                          /\ all = AllGrids(n, levels)
    OBVIOUS
  <2>4. PICK m \in Nat : \E f : KeptAs(n, levels, m, f)
    BY <2>1, KeptGrids
  <2>5. s \in 1 .. NBands(n, levels) /\ grids[s] = all[s]
    BY <2>1, <2>3, <2>4 DEF KeptAs
  <2>6. \A i \in 1 .. nd : i \in Axes /\ i <= nd
    BY DEF Axes
  <2>7. CASE s = 1
    <3>9. s - 1 = 0
      BY <2>7
    <3>1. SubbandToLevel(nd, 0, TRUE) = Vec(0)
      BY DEF SubbandToLevel
    <3>2. SubbandToLevel(3, 0, FALSE) = Vec(0)
      BY DEF SubbandToLevel
    <3>3. \A i \in Axes : Vec(0)[i] = 0
      BY DEF Vec, Axes
    <3>4. LevelToSubband(Vec(0)) = 0
      BY DEF LevelToSubband
    <3>5. all[s] = CoarsestGrid(n, levels)
      BY <2>3, <2>7, FirstBands
    <3>6. \A i \in Axes : all[s].from[i] = 0
      BY <3>5, CoarsestShape
    <3>7. \A i \in 1 .. nd : (SubbandToLevel(nd, s - 1, TRUE)[i] = 1) <=> (grids[s].from[i] > 0)
      <4>1. \A i \in 1 .. nd : Vec(0)[i] = 0 /\ grids[s].from[i] = 0
        BY <2>5, <2>6, <3>3, <3>6
      <4>2. SubbandToLevel(nd, s - 1, TRUE) = Vec(0)
        BY <3>1, <3>9
      <4>3. ASSUME NEW i \in 1 .. nd
            PROVE  (Vec(0)[i] = 1) <=> (grids[s].from[i] > 0)
        <5>1. Vec(0)[i] = 0 /\ grids[s].from[i] = 0
          BY <4>1
        <5>2. 0 # 1 /\ ~(0 > 0)
          OBVIOUS
        <5> QED
          BY <5>1, <5>2
      <4> QED
        BY <4>2, <4>3, Zenon
    <3>8. LevelToSubband(SubbandToLevel(3, s - 1, FALSE)) = s - 1
      BY <3>2, <3>4, <3>9
    <3> QED
      BY <2>1, <2>2, <2>3, <3>7, <3>8
  <2>8. CASE s # 1
    <3>1. s \in 2 .. NBands(n, levels)
      BY <2>5, <2>8, FirstBands
    <3>2. PICK l \in 0 .. levels - 1 : l = LvlOf(n, levels, s)
      BY <3>1, Numbered
    <3>3. PICK j \in 1 .. PerLevel(n) : j = NumOf(n, s)
      BY <3>1, Numbered
    <3>4. PICK h \in {0, 1} \X {0, 1} \X {0, 1} : h = Halves(nd, j)
      BY <2>2, HalvesType DEF PerLevel
    <3>5. SubbandToLevel(nd, s - 1, TRUE) = h
      BY <2>2, <3>1, <3>3, <3>4, LevelOfBand
    <3>6. nd = 3 => LevelToSubband(SubbandToLevel(3, s - 1, FALSE)) = s - 1
      BY <2>2, <3>1, LevelOfBand
    <3>7. PICK a \in Nat \ {0} : a = 2 ^ l
      BY PowPos
    <3>8. ASSUME NEW i \in 1 .. nd
          PROVE  (h[i] = 1) <=> (grids[s].from[i] > 0)
      <4>1. i \in Axes /\ i <= nd
        BY <2>6
      <4>2. all[s] = GridOf(n, l, j) /\ l \in Nat
        BY <2>3, <3>1, <3>2, <3>3, Numbered
      <4>3. Exists(nd, all[s].dims)
        BY <2>1, <2>2, <2>3, <2>5, SameDims
      <4>4. all[s].dims[i] # 0
        BY <4>3 DEF Exists
      <4>5. GridOf(n, l, j).dims[i] # 0 =>
               GridOf(n, l, j).from[i] = IF i <= NumDims(n) THEN Halves(NumDims(n), j)[i] * 2 ^ l
                                         ELSE 0
        BY <2>1, <4>1, <4>2, GridShape
      <4>6. all[s].from[i] = h[i] * a
        BY <2>2, <3>4, <3>7, <4>1, <4>2, <4>4, <4>5
      <4>7. h[i] = 0 \/ h[i] = 1
        BY <4>1 DEF Axes
      <4>8. 0 * a = 0 /\ 1 * a = a /\ a > 0
        OBVIOUS
      <4> QED
        BY <2>5, <4>6, <4>7, <4>8
    <3> QED
      BY <2>1, <2>2, <2>3, <3>5, <3>6, <3>8
  <2> QED
    BY <2>7, <2>8
<1> QED
  BY <1>1, WaveletBandsInv, PTL

-----------------------------------------------------------------------------
(* Looking coefficients up.                                                *)

\* The number of steps down to the last multiple that is not behind a.
LEMMA Down ==
    ASSUME NEW a \in Nat, NEW s \in Nat \ {0}
    PROVE  \E q \in Nat : q = Quot(a, s) /\ \A m \in Int : m * s <= a <=> m <= q
<1>1. PICK q \in Nat, r \in 0 .. s - 1 : q = a \div s /\ r = a % s /\ a = q * s + r
  BY Divided
<1>2. Quot(a, s) = q
  BY <1>1 DEF Quot
<1>3. ASSUME NEW m \in Int
      PROVE  m * s <= a <=> m <= q
  <2>1. m * s \in Int /\ q * s \in Int /\ (q + 1) * s = q * s + s
    OBVIOUS
  <2>2. m <= q <=> m * s <= q * s
    BY Ordered
  <2>3. q + 1 <= m <=> (q + 1) * s <= m * s
    BY Ordered
  <2> QED
    BY <1>1, <2>1, <2>2, <2>3
<1> QED
  BY <1>2, <1>3

\* The number of steps up to the first multiple that is not before a.
LEMMA Up ==
    ASSUME NEW a \in Nat, NEW s \in Nat \ {0}
    PROVE  \E q \in Nat : q = Quot(a + s - 1, s) /\ \A m \in Int : a <= m * s <=> q <= m
<1>1. PICK b \in Nat : b = a + s - 1
  OBVIOUS
<1>2. PICK q \in Nat : q = Quot(b, s) /\ \A m \in Int : m * s <= b <=> m <= q
  BY Down
<1>3. ASSUME NEW m \in Int
      PROVE  a <= m * s <=> q <= m
  <2>1. m * s \in Int /\ (m + 1) * s = m * s + s
    OBVIOUS
  <2>2. (m + 1) * s <= b <=> m + 1 <= q
    BY <1>2
  <2> QED
    BY <1>1, <2>1, <2>2
<1> QED
  BY <1>1, <1>2, <1>3

\* v is at one of the multiples x to y of s, counted from f.
Among(f, s, x, y, v) == \E m \in x .. y : v = f + m * s

\* A run of places as multiples.
SamePlaces(a, d, f, s, x, y) == \A v : Run(a, s, d, v) <=> Among(f, s, x, y, v)

LEMMA RunAmong ==
    ASSUME NEW f \in Int, NEW s \in Nat \ {0}, NEW x \in Int, NEW d \in Int,
           NEW a \in Int, a = f + x * s, NEW y \in Int, y = x + d - 1
    PROVE  SamePlaces(a, d, f, s, x, y)
<1> SUFFICES ASSUME NEW v PROVE Run(a, s, d, v) <=> Among(f, s, x, y, v)
  BY DEF SamePlaces
<1>1. ASSUME NEW k \in 0 .. d - 1, v = a + k * s
      PROVE  Among(f, s, x, y, v)
  <2>1. x + k \in x .. y
    OBVIOUS
  <2>2. x * s \in Int /\ k * s \in Int /\ (x + k) * s = x * s + k * s
    OBVIOUS
  <2>3. v = f + (x + k) * s
    BY <1>1, <2>2
  <2> QED
    BY <2>1, <2>3 DEF Among
<1>2. ASSUME NEW m \in x .. y, v = f + m * s
      PROVE  Run(a, s, d, v)
  <2>1. PICK k \in 0 .. d - 1 : m = x + k
    <3>1. m - x \in 0 .. d - 1 /\ m = x + (m - x)
      OBVIOUS
    <3> QED
      BY <3>1
  <2>2. x * s \in Int /\ k * s \in Int /\ m * s = x * s + k * s
    BY <2>1
  <2>3. v = a + k * s
    BY <1>2, <2>2
  <2> QED
    BY <2>3 DEF Run
<1> QED
  BY <1>1, <1>2 DEF Run, Among

\* How far it is from one multiple to another.
LEMMA StepsBetween ==
    ASSUME NEW f \in Int, NEW s \in Nat \ {0}, NEW x \in Int, NEW y \in Int, x <= y + 1
    PROVE  Quot((f + y * s) - (f + x * s), s) = y - x
<1>1. x * s \in Int /\ y * s \in Int /\ (y - x) * s = y * s - x * s
  OBVIOUS
<1>2. PICK d \in Int : d = y - x /\ -1 <= d
  OBVIOUS
<1>3. (f + y * s) - (f + x * s) = d * s
  BY <1>1, <1>2
<1>4. CASE d \in Nat
  <2>1. d * s \in Nat /\ d * s >= 0 /\ d * s = d * s + 0 /\ 0 \in 0 .. s - 1
    BY <1>4
  <2>2. (d * s) \div s = d
    BY <1>4, <2>1, DivMod
  <2> QED
    BY <1>2, <1>3, <2>1, <2>2 DEF Quot
<1>5. CASE d = -1
  <2>1. d * s = -s /\ ~(-s >= 0) /\ -(-s) = s
    BY <1>5
  <2>2. s = 1 * s + 0 /\ 0 \in 0 .. s - 1
    OBVIOUS
  <2>3. s \div s = 1
    BY <2>2, DivMod
  <2> QED
    BY <1>2, <1>3, <1>5, <2>1, <2>3 DEF Quot
<1> QED
  BY <1>2, <1>4, <1>5

\* The first and the last coefficient of ReachRange along an axis are numbers x and y.
BoundsAt(f, s, r, v, w, x, y) ==
    /\ f + s * Quot(MaxOf(v, f + r) - r - f + s - 1, s) = f + x * s
    /\ f + s * Quot(MaxOf(w, f - r) + r - f, s) = f + y * s

\* These, and no others between them, reach the values.
ReachAt(f, s, r, v, w, x, y) ==
    \A m \in Nat : /\ v <= (f + m * s) + r <=> x <= m
                   /\ (f + m * s) - r <= w <=> m <= y

\* What ReachRange finds along an axis: with f where the subband starts, a
\* coefficient at f + m * s reaches a value from v on for m from x on, and one up to
\* w for m up to y.
LEMMA Reached ==
    ASSUME NEW f \in Nat, NEW s \in Nat \ {0}, f < s, NEW r \in Nat, s - 1 <= r,
           NEW v \in Nat, NEW w \in Nat
    PROVE  \E x \in Nat, y \in Nat : BoundsAt(f, s, r, v, w, x, y) /\ ReachAt(f, s, r, v, w, x, y)
<1>1. PICK a \in Nat : a = MaxOf(v, f + r) - r - f
  BY DEF MaxOf
<1>2. PICK b \in Nat : b = MaxOf(w, f - r) + r - f
  BY DEF MaxOf
<1>3. PICK x \in Nat : x = Quot(a + s - 1, s) /\ \A m \in Int : a <= m * s <=> x <= m
  BY Up
<1>4. PICK y \in Nat : y = Quot(b, s) /\ \A m \in Int : m * s <= b <=> m <= y
  BY Down
<1>5. ASSUME NEW m \in Nat
      PROVE  /\ v <= (f + m * s) + r <=> x <= m
             /\ (f + m * s) - r <= w <=> m <= y
  <2>1. PICK k \in Nat : k = m * s
    OBVIOUS
  <2>2. a <= k <=> x <= m
    BY <1>3, <2>1
  <2>3. k <= b <=> m <= y
    BY <1>4, <2>1
  <2>4. v <= (f + k) + r <=> a <= k
    BY <1>1 DEF MaxOf
  <2>5. (f + k) - r <= w <=> k <= b
    BY <1>2 DEF MaxOf
  <2> QED
    BY <2>1, <2>2, <2>3, <2>4, <2>5
<1>6. s * x = x * s /\ s * y = y * s
  OBVIOUS
<1>7. BoundsAt(f, s, r, v, w, x, y)
  BY <1>1, <1>2, <1>3, <1>4, <1>6 DEF BoundsAt
<1>8. ReachAt(f, s, r, v, w, x, y)
  BY <1>5 DEF ReachAt
<1> QED
  BY <1>7, <1>8

\* The footprint of the coefficient at p meets the values v to w.
Meets(p, r, v, w) == p - r <= w /\ v <= p + r

\* What is kept of a block, as numbers: those from x to y among those from q to t.
NumbersKept(f, s, r, v, w, x, y, q, t) ==
    \A p : Among(f, s, MaxOf(x, q), MinOf(y, t), p)
              <=> (Among(f, s, q, t, p) /\ Meets(p, r, v, w))

LEMMA KeptNumbers ==
    ASSUME NEW f \in Nat, NEW s \in Nat \ {0}, NEW r \in Nat, NEW v \in Nat, NEW w \in Nat,
           NEW x \in Nat, NEW y \in Nat, ReachAt(f, s, r, v, w, x, y),
           NEW q \in Nat, NEW t \in Int
    PROVE  NumbersKept(f, s, r, v, w, x, y, q, t)
<1> SUFFICES ASSUME NEW p
             PROVE  Among(f, s, MaxOf(x, q), MinOf(y, t), p)
                       <=> (Among(f, s, q, t, p) /\ Meets(p, r, v, w))
  BY DEF NumbersKept
<1>0. PICK X \in Nat, Y \in Int : X = MaxOf(x, q) /\ Y = MinOf(y, t)
  BY DEF MaxOf, MinOf
<1>1. ASSUME NEW m \in q .. t, p = f + m * s, p - r <= w, v <= p + r
      PROVE  Among(f, s, X, Y, p)
  <2>1. m \in Nat
    OBVIOUS
  <2>2. x <= m /\ m <= y
    BY <1>1, <2>1 DEF ReachAt
  <2>3. m \in X .. Y
    BY <1>0, <2>2 DEF MaxOf, MinOf
  <2> QED
    BY <1>1, <2>3 DEF Among
<1>2. ASSUME NEW m \in X .. Y, p = f + m * s
      PROVE  Among(f, s, q, t, p) /\ p - r <= w /\ v <= p + r
  <2>1. m \in q .. t /\ m \in Nat /\ x <= m /\ m <= y
    BY <1>0 DEF MaxOf, MinOf
  <2>2. v <= (f + m * s) + r /\ (f + m * s) - r <= w
    BY <2>1 DEF ReachAt
  <2> QED
    BY <1>2, <2>1, <2>2 DEF Among
<1>3. Among(f, s, q, t, p) /\ p - r <= w /\ v <= p + r => Among(f, s, X, Y, p)
  <2> SUFFICES ASSUME Among(f, s, q, t, p), p - r <= w, v <= p + r
               PROVE  Among(f, s, X, Y, p)
    OBVIOUS
  <2>1. PICK m \in q .. t : p = f + m * s
    BY DEF Among
  <2> QED
    BY <1>1, <2>1
<1>4. Among(f, s, X, Y, p) => Among(f, s, q, t, p) /\ p - r <= w /\ v <= p + r
  <2> SUFFICES ASSUME Among(f, s, X, Y, p)
               PROVE  Among(f, s, q, t, p) /\ p - r <= w /\ v <= p + r
    OBVIOUS
  <2>1. PICK m \in X .. Y : p = f + m * s
    BY DEF Among
  <2> QED
    BY <1>2, <2>1
<1> QED
  BY <1>0, <1>3, <1>4 DEF Meets

\* Of d places of a block from a on, Span makes those from F to L that meet the values.
KeptOf(a, s, d, r, v, w, F, L) ==
    /\ F \in Nat /\ L \in Int /\ L <= a + d * s - s
    /\ F <= L => Quot(L - F, s) + 1 \in Nat /\ Quot(L - F, s) + 1 <= d
    /\ \A p : (F <= L /\ Run(F, s, Quot(L - F, s) + 1, p))
                 <=> (Run(a, s, d, p) /\ Meets(p, r, v, w))

\* The places of a block of d are numbered from q to t.
BlockIs(a, d, f, s, q, t) ==
    a = f + q * s /\ t = q + d - 1 /\ a + d * s - s = f + t * s

\* The same with F and L as ComputeWavGrids computes them.
RunKept(f, s, r, v, w, x, y, q, d, t, a) ==
    KeptOf(a, s, d, r, v, w, MaxOf(f + x * s, f + q * s), MinOf(f + y * s, f + t * s))

LEMMA KeptRun ==
    ASSUME NEW f \in Nat, NEW s \in Nat \ {0}, NEW r \in Nat, NEW v \in Nat, NEW w \in Nat,
           NEW x \in Nat, NEW y \in Nat, ReachAt(f, s, r, v, w, x, y),
           NEW q \in Nat, NEW d \in Nat, NEW t \in Int, NEW a \in Nat,
           BlockIs(a, d, f, s, q, t)
    PROVE  RunKept(f, s, r, v, w, x, y, q, d, t, a)
<1>0. \A p : Among(f, s, MaxOf(x, q), MinOf(y, t), p)
             <=> (Among(f, s, q, t, p) /\ Meets(p, r, v, w))
  <2>1. NumbersKept(f, s, r, v, w, x, y, q, t)
    BY KeptNumbers
  <2> QED
    BY <2>1 DEF NumbersKept
<1>13. a = f + q * s /\ t = q + d - 1 /\ a + d * s - s = f + t * s
  BY DEF BlockIs
<1>14. PICK F, L : F = MaxOf(f + x * s, f + q * s) /\ L = MinOf(f + y * s, f + t * s)
  OBVIOUS
<1>1. PICK X \in Nat : X = MaxOf(x, q)
  BY DEF MaxOf
<1>2. PICK Y \in Int : Y = MinOf(y, t)
  BY DEF MinOf
<1>3. /\ x * s \in Nat /\ y * s \in Nat /\ q * s \in Nat /\ t * s \in Int
      /\ X * s \in Nat /\ Y * s \in Int
  OBVIOUS
<1>4. F = f + X * s
  <2>1. x <= q <=> x * s <= q * s
    BY Ordered
  <2> QED
    BY <1>1, <1>3, <1>14, <2>1 DEF MaxOf
<1>5. L = f + Y * s
  <2>1. y <= t <=> y * s <= t * s
    BY Ordered
  <2>2. CASE y <= t
    BY <1>2, <1>3, <1>14, <2>1, <2>2 DEF MinOf
  <2>3. CASE ~(y <= t)
    BY <1>2, <1>3, <1>14, <2>1, <2>3 DEF MinOf
  <2> QED
    BY <2>2, <2>3
<1>6. F <= L <=> X <= Y
  <2>1. X <= Y <=> X * s <= Y * s
    BY Ordered
  <2> QED
    BY <1>3, <1>4, <1>5, <2>1
<1>7. X <= Y + 1 => Quot(L - F, s) = Y - X
  BY <1>4, <1>5, StepsBetween
<1>8. F \in Nat /\ L \in Int /\ L <= f + t * s
  <2>1. Y <= t => Y * s <= t * s
    BY Ordered
  <2>2. Y <= t
    BY <1>2 DEF MinOf
  <2> QED
    BY <1>3, <1>4, <1>5, <2>1, <2>2
<1>9. F <= L => Quot(L - F, s) + 1 \in Nat /\ Quot(L - F, s) + 1 <= d
  <2>1. q <= X /\ Y <= t
    BY <1>1, <1>2 DEF MaxOf, MinOf
  <2> QED
    BY <1>6, <1>7, <1>13, <2>1
<1>10. ASSUME NEW p
       PROVE  (F <= L /\ Run(F, s, Quot(L - F, s) + 1, p))
                 <=> (Run(a, s, d, p) /\ Meets(p, r, v, w))
  <2>1. Among(f, s, X, Y, p) <=> (Among(f, s, q, t, p) /\ Meets(p, r, v, w))
    BY <1>0, <1>1, <1>2
  <2>2. Run(a, s, d, p) <=> Among(f, s, q, t, p)
    <3>1. SamePlaces(a, d, f, s, q, t)
      BY <1>13, RunAmong
    <3> QED
      BY <3>1 DEF SamePlaces
  <2>3. CASE X <= Y
    <3>1. PICK D \in Int : D = Quot(L - F, s) + 1 /\ Y = X + D - 1
      BY <1>7, <2>3
    <3>2. Run(F, s, D, p) <=> Among(f, s, X, Y, p)
      <4>1. SamePlaces(F, D, f, s, X, Y)
        BY <1>4, <1>8, <3>1, RunAmong
      <4> QED
        BY <4>1 DEF SamePlaces
    <3> QED
      BY <1>6, <2>1, <2>2, <2>3, <3>1, <3>2
  <2>4. CASE ~(X <= Y)
    <3>1. ~Among(f, s, X, Y, p)
      BY <2>4 DEF Among
    <3> QED
      BY <1>6, <2>1, <2>2, <2>4, <3>1
  <2> QED
    BY <2>3, <2>4
<1> QED
  BY <1>8, <1>9, <1>10, <1>14, <1>13 DEF KeptOf, RunKept

\* Along an axis, with F the first and L the last place ComputeWavGrids keeps of a
\* block: what Span makes of them are the places whose footprint meets the values.
LEMMA KeptAxis ==
    ASSUME NEW a \in Nat, NEW s \in Nat \ {0}, NEW d \in Nat, NEW r \in Nat, s - 1 <= r,
           NEW v \in Nat, NEW w \in Nat, NEW f, f = a % s
    PROVE  KeptOf(a, s, d, r, v, w,
                  MaxOf(f + s * Quot(MaxOf(v, f + r) - r - f + s - 1, s), a),
                  MinOf(f + s * Quot(MaxOf(w, f - r) + r - f, s), a + d * s - s))
<1>1. PICK q \in Nat, e \in 0 .. s - 1 : e = a % s /\ a = q * s + e
  BY Divided
<1>2. PICK g \in Nat : g = f /\ g < s /\ a = g + q * s
  BY <1>1
<1>3. PICK x \in Nat, y \in Nat : BoundsAt(g, s, r, v, w, x, y) /\ ReachAt(g, s, r, v, w, x, y)
  BY <1>2, Reached
<1>4. PICK t \in Int : t = q + d - 1
  OBVIOUS
<1>5. a + d * s - s = g + t * s
  <2>1. q * s \in Nat /\ d * s \in Nat /\ t * s = q * s + d * s - s
    BY <1>4
  <2> QED
    BY <1>2, <2>1
<1>6. /\ MaxOf(f + s * Quot(MaxOf(v, f + r) - r - f + s - 1, s), a) = MaxOf(g + x * s, g + q * s)
      /\ MinOf(f + s * Quot(MaxOf(w, f - r) + r - f, s), a + d * s - s)
            = MinOf(g + y * s, g + t * s)
  BY <1>2, <1>3, <1>5 DEF BoundsAt
<1>7. ReachAt(g, s, r, v, w, x, y) /\ BlockIs(a, d, g, s, q, t)
  BY <1>2, <1>3, <1>4, <1>5 DEF BlockIs
<1>8. RunKept(g, s, r, v, w, x, y, q, d, t, a)
  BY <1>7, KeptRun
<1> QED
  BY <1>6, <1>8 DEF RunKept

\* The multiples of t between v and w are numbered from X to Y.
LEMMA ValueNumbers ==
    ASSUME NEW t \in Nat \ {0}, NEW v \in Nat, NEW w \in Nat, NEW X \in Nat, NEW Y \in Nat,
           \A m \in Int : v <= m * t <=> X <= m, \A m \in Int : m * t <= w <=> m <= Y, NEW p
    PROVE  Among(0, t, X, Y, p) <=> (p \in v .. w /\ p % t = 0)
<1>1. ASSUME Among(0, t, X, Y, p)
      PROVE  p \in v .. w /\ p % t = 0
  <2>1. PICK m \in X .. Y : p = 0 + m * t
    BY <1>1 DEF Among
  <2>2. v <= m * t /\ m * t <= w
    BY <2>1
  <2>3. m \in Nat /\ m * t \in Nat /\ 0 \in 0 .. t - 1
    OBVIOUS
  <2>4. p \in Nat /\ p = m * t + 0
    BY <2>1, <2>3
  <2>5. (p % t) = 0
    BY <2>3, <2>4, DivMod
  <2> QED
    BY <2>2, <2>3, <2>4, <2>5
<1>2. ASSUME p \in v .. w, p % t = 0
      PROVE  Among(0, t, X, Y, p)
  <2>1. p \in Nat
    BY <1>2
  <2>2. PICK m \in Nat, e \in 0 .. t - 1 : e = p % t /\ p = m * t + e
    BY <2>1, Divided
  <2>3. p = m * t /\ p = 0 + m * t
    BY <1>2, <2>1, <2>2
  <2>4. m \in X .. Y
    BY <1>2, <2>3
  <2> QED
    BY <2>3, <2>4 DEF Among
<1> QED
  BY <1>1, <1>2

\* The values at the multiples of t, along an axis.
ValuesOf(t, v, w, F, D) ==
    /\ F \in Nat /\ D \in Nat /\ F < v + t /\ D <= w + 1
    /\ \A p : Run(F, t, D, p) <=> (p \in v .. w /\ p % t = 0)

LEMMA ValueAxis ==
    ASSUME NEW t \in Nat \ {0}, NEW v \in Nat, NEW w \in Nat, v <= w
    PROVE  ValuesOf(t, v, w, t * Quot(v + t - 1, t),
                    Quot(t * Quot(w, t) - t * Quot(v + t - 1, t), t) + 1)
<1>1. PICK X \in Nat : X = Quot(v + t - 1, t) /\ \A m \in Int : v <= m * t <=> X <= m
  BY Up
<1>2. PICK Y \in Nat : Y = Quot(w, t) /\ \A m \in Int : m * t <= w <=> m <= Y
  BY Down
<1>3. PICK F \in Nat, L \in Nat : /\ F = t * Quot(v + t - 1, t) /\ L = t * Quot(w, t)
                                  /\ F = X * t /\ L = Y * t
                                  /\ F = 0 + X * t /\ L = 0 + Y * t
  <2>1. X * t \in Nat /\ Y * t \in Nat /\ t * X = X * t /\ t * Y = Y * t
    OBVIOUS
  <2>2. t * Quot(v + t - 1, t) = X * t /\ t * Quot(w, t) = Y * t
    BY <1>1, <1>2, <2>1
  <2> QED
    BY <2>1, <2>2
<1>4. (X - 1) * t < v /\ w < (Y + 1) * t /\ L <= w
  <2>1. (X - 1) * t \in Int /\ (Y + 1) * t \in Int
    OBVIOUS
  <2>2. ~(v <= (X - 1) * t)
    BY <1>1
  <2>3. ~((Y + 1) * t <= w) /\ L <= w
    BY <1>2, <1>3
  <2> QED
    BY <2>1, <2>2, <2>3
<1>5. X <= Y + 1
  <2>1. (Y + 1) * t \in Int
    OBVIOUS
  <2>2. v <= (Y + 1) * t
    BY <1>4, <2>1
  <2> QED
    BY <1>1, <2>2
<1>6. Quot(L - F, t) = Y - X
  BY <1>3, <1>5, StepsBetween
<1>7. PICK D \in Nat : D = Y - X + 1
  BY <1>5
<1>12. D = Quot(t * Quot(w, t) - t * Quot(v + t - 1, t), t) + 1
  BY <1>3, <1>6, <1>7
<1>8. F < v + t
  <2>1. (X - 1) * t = X * t - t
    OBVIOUS
  <2> QED
    BY <1>3, <1>4, <2>1
<1>9. D <= w + 1
  <2>1. Y * 1 <= Y * t
    OBVIOUS
  <2>2. Y <= L
    BY <1>3, <2>1
  <2> QED
    BY <1>4, <1>7, <2>2
<1>10. ASSUME NEW p
       PROVE  Run(F, t, D, p) <=> (p \in v .. w /\ p % t = 0)
  <2>1. Y = X + D - 1
    BY <1>7
  <2>2. Run(F, t, D, p) <=> Among(0, t, X, Y, p)
    <3>1. F = 0 + X * t
      BY <1>3
    <3>2. F \in Int /\ D \in Int /\ X \in Int /\ Y \in Int /\ 0 \in Int
      OBVIOUS
    <3>3. SamePlaces(F, D, 0, t, X, Y)
      BY <2>1, <3>1, <3>2, RunAmong
    <3> QED
      BY <3>3 DEF SamePlaces
  <2>3. Among(0, t, X, Y, p) <=> (p \in v .. w /\ p % t = 0)
    BY <1>1, <1>2, ValueNumbers
  <2> QED
    BY <2>2, <2>3
<1>11. ValuesOf(t, v, w, F, D)
  BY <1>8, <1>9, <1>10 DEF ValuesOf
<1> QED
  BY <1>3, <1>11, <1>12

\* A component is read back as it was when it fits, negative or not.
LEMMA PackSigned ==
    ASSUME NEW a \in Int, 0 - PackLimit <= a, a < PackLimit
    PROVE  Pack(a) = a
<1>1. PICK P \in Nat \ {0} : P = PackLimit
  BY LimitNat
<1>2. PICK m \in Nat \ {0} : m = 2 * P
  OBVIOUS
<1>3. PICK x \in 0 .. m - 1 : x = a + P
  BY <1>1, <1>2
<1>4. x = 0 * m + x
  OBVIOUS
<1>5. (x % m) = x
  BY <1>4, DivMod
<1>6. (a + P) % (2 * P) = a + P
  BY <1>2, <1>3, <1>5
<1> QED
  BY <1>1, <1>6 DEF Pack

\* Along an axis of len samples, a block of d coefficients from a on, s apart, in
\* half h of the axis; top is the largest stride there is.
BlockAxis(len, top, h, a, d, s) ==
    /\ a \in Nat /\ d \in Nat \ {0} /\ s \in Nat \ {0}
    /\ s <= top /\ (h = 1 => s >= 2)
    /\ a + d * s - s < len

\* Which half of an axis subband sb is.
HalfIn(sb, i) == SubbandToLevel(2, sb, TRUE)[i]

IsBlock(n, levels, sb, g) ==
    /\ g = [from |-> g.from, dims |-> g.dims, strd |-> g.strd]
    /\ \A i \in Axes : BlockAxis(n[i], 2 ^ levels, HalfIn(sb, i),
                                 g.from[i], g.dims[i], g.strd[i])

\* The values from v to w.
WindowAxis(len, v, w) == v \in Nat /\ w \in Nat /\ v <= w /\ w < len

IsWindow(n, values) ==
    /\ \A i \in Axes : WindowAxis(n[i], values.from[i], LastOf(values)[i])
    /\ \A p : p \in Points(values) <=>
                 (/\ p = <<p[1], p[2], p[3]>>
                  /\ \A i \in Axes : p[i] \in values.from[i] .. LastOf(values)[i])

\* What a volume that can be searched leaves room for.
LEMMA ComponentsFit ==
    ASSUME NEW n, NEW levels, Searchable(n, levels), NEW i \in Axes
    PROVE  /\ n[i] \in Nat \ {0} /\ 2 ^ levels \in Nat \ {0} /\ n[i] < PackLimit
           /\ 3 * 2 ^ levels <= PackLimit /\ n[i] + 2 ^ levels <= PackLimit
<1>1. n \in Lengths /\ levels \in Nat /\ 3 * 2 ^ levels <= PackLimit
      /\ n[i] + 2 ^ levels <= PackLimit
  BY DEF Searchable
<1> QED
  BY <1>1, LengthsFit, PowPos

LEMMA ReachFits ==
    ASSUME NEW s \in Nat \ {0}, NEW h, NEW r, r = IF h = 1 THEN (3 * s) \div 2 - 1 ELSE s - 1
    PROVE  r \in Nat /\ s - 1 <= r /\ 2 * r + 1 < 3 * s
OBVIOUS

LEMMA ReachAxis ==
    ASSUME NEW n, NEW levels, Searchable(n, levels), NEW sb, NEW g, IsBlock(n, levels, sb, g),
           NEW i \in Axes, NEW r, r = Reach(2, sb, g.strd)[i]
    PROVE  /\ r \in Nat /\ g.strd[i] - 1 <= r /\ 2 * r + 1 < PackLimit
           /\ g.strd[i] \in Nat \ {0} /\ g.strd[i] < PackLimit
<1>1. PICK s \in Nat \ {0} : s = g.strd[i] /\ s <= 2 ^ levels
  BY DEF IsBlock, BlockAxis
<1>2. r = IF SubbandToLevel(2, sb, TRUE)[i] = 1 THEN (3 * s) \div 2 - 1 ELSE s - 1
  <2>1. PICK H, S : H = SubbandToLevel(2, sb, TRUE) /\ S = g.strd
    OBVIOUS
  <2>2. Reach(2, sb, g.strd) = <<IF H[1] = 1 THEN (3 * S[1]) \div 2 - 1 ELSE S[1] - 1,
                                 IF H[2] = 1 THEN (3 * S[2]) \div 2 - 1 ELSE S[2] - 1,
                                 IF H[3] = 1 THEN (3 * S[3]) \div 2 - 1 ELSE S[3] - 1>>
    BY <2>1 DEF Reach, Each
  <2>3. Reach(2, sb, g.strd)[i] = IF H[i] = 1 THEN (3 * S[i]) \div 2 - 1 ELSE S[i] - 1
    BY <2>2 DEF Axes
  <2> QED
    BY <1>1, <2>1, <2>3
<1>3. r \in Nat /\ s - 1 <= r /\ 2 * r + 1 < 3 * s
  BY <1>2, ReachFits
<1>4. PICK t \in Nat, P \in Nat : t = 2 ^ levels /\ P = PackLimit /\ 3 * t <= P /\ s <= t
  BY <1>1, ComponentsFit, LimitNat
<1> QED
  BY <1>1, <1>3, <1>4

\* The first and the last coefficient ComputeWavGrids keeps, along an axis.
FrstKept(a, s, r, v) ==
    MaxOf((a % s) + s * Quot(MaxOf(v, (a % s) + r) - r - (a % s) + s - 1, s), a)
LastKept(a, s, d, r, w) ==
    MinOf((a % s) + s * Quot(MaxOf(w, (a % s) - r) + r - (a % s), s), a + d * s - s)

LEMMA RangeIs ==
    ASSUME NEW sb, NEW values, NEW g, NEW i \in Axes
    PROVE  LET range == ReachRange(2, sb, values, g)
               r == Reach(2, sb, g.strd)[i]
           IN /\ MaxOf(range.frst[i], g.from[i])
                   = FrstKept(g.from[i], g.strd[i], r, values.from[i])
              /\ MinOf(range.last[i], LastOf(g)[i])
                   = LastKept(g.from[i], g.strd[i], g.dims[i], r, LastOf(values)[i])
<1>1. LastOf(g)[i] = g.from[i] + g.dims[i] * g.strd[i] - g.strd[i]
  BY DEF LastOf, Each, Axes
<1>2. PICK R, W : R = Reach(2, sb, g.strd) /\ W = LastOf(values)
  OBVIOUS
<1>3. /\ ReachRange(2, sb, values, g).frst[i]
           = (g.from[i] % g.strd[i]) + g.strd[i] *
               Quot(MaxOf(values.from[i], (g.from[i] % g.strd[i]) + R[i]) - R[i]
                      - (g.from[i] % g.strd[i]) + g.strd[i] - 1, g.strd[i])
      /\ ReachRange(2, sb, values, g).last[i]
           = (g.from[i] % g.strd[i]) + g.strd[i] *
               Quot(MaxOf(W[i], (g.from[i] % g.strd[i]) - R[i]) + R[i]
                      - (g.from[i] % g.strd[i]), g.strd[i])
  BY <1>2 DEF ReachRange, Each, Axes
<1> QED
  BY <1>1, <1>2, <1>3 DEF FrstKept, LastKept

LEMMA KeptOnAxis ==
    ASSUME NEW n, NEW levels, Searchable(n, levels), NEW sb, NEW g, IsBlock(n, levels, sb, g),
           NEW values, IsWindow(n, values), NEW i \in Axes, NEW r, r = Reach(2, sb, g.strd)[i],
           NEW F, F = FrstKept(g.from[i], g.strd[i], r, values.from[i]),
           NEW L, L = LastKept(g.from[i], g.strd[i], g.dims[i], r, LastOf(values)[i])
    PROVE  /\ KeptOf(g.from[i], g.strd[i], g.dims[i], r, values.from[i], LastOf(values)[i], F, L)
           /\ L < PackLimit /\ g.dims[i] < PackLimit
<1>1. PICK a \in Nat, d \in Nat \ {0}, s \in Nat \ {0}, v \in Nat, w \in Nat :
         /\ a = g.from[i] /\ d = g.dims[i] /\ s = g.strd[i]
         /\ v = values.from[i] /\ w = LastOf(values)[i]
         /\ a + d * s - s < n[i]
  BY DEF IsBlock, BlockAxis, IsWindow, WindowAxis
<1>2. r \in Nat /\ s - 1 <= r
  BY <1>1, ReachAxis
<1>3. KeptOf(a, s, d, r, v, w, FrstKept(a, s, r, v), LastKept(a, s, d, r, w))
  BY <1>2, KeptAxis DEF FrstKept, LastKept
<1>4. KeptOf(a, s, d, r, v, w, F, L)
  BY <1>1, <1>3
<1>5. PICK P \in Nat : P = PackLimit /\ n[i] \in Nat /\ n[i] < P
  BY ComponentsFit, LimitNat
<1>6. L < P
  BY <1>1, <1>4, <1>5 DEF KeptOf
<1>7. d < P
  <2>1. PICK k \in Nat : d = k + 1
    <3>1. d - 1 \in Nat /\ d = (d - 1) + 1
      OBVIOUS
    <3> QED
      BY <3>1
  <2>2. k * s \in Nat /\ k * 1 <= k * s /\ d * s = k * s + s
    BY <2>1
  <2> QED
    BY <1>1, <1>5, <2>1, <2>2
<1> QED
  BY <1>1, <1>4, <1>5, <1>6, <1>7

\* All along its axes, the footprint of the coefficient at p meets the values.
Reaches(sb, g, values, p) ==
    \A i \in Axes : Meets(p[i], Reach(2, sb, g.strd)[i], values.from[i], LastOf(values)[i])

\* Where a grid has no place along an axis it has no position.
LEMMA NoPoints ==
    ASSUME NEW p
    PROVE  p \notin Points(Invalid)
<1>1. 0 < PackLimit /\ 1 < PackLimit /\ 1 \in Axes
  BY LimitNat DEF Axes
<1>2. Vec(0)[1] = 0 /\ Vec(1)[1] = 1
  BY DEF Vec
<1>3. Spans(Grid(Vec(0), Vec(0), Vec(1)), 1, 0, 0, 1)
  BY <1>1, <1>2, OnGrid
<1>4. \A v : ~On(Invalid, 1, v)
  <2>1. \A v : ~Run(0, 1, 0, v)
    BY DEF Run
  <2> QED
    BY <1>3, <2>1 DEF Spans, Invalid, Extent
<1> QED
  BY <1>1, <1>4, PointOn

\* The coefficients that ComputeWavGrids keeps of a block.
LEMMA WavIs ==
    ASSUME NEW n, NEW levels, Searchable(n, levels), NEW sb, NEW g, IsBlock(n, levels, sb, g),
           NEW values, IsWindow(n, values),
           NEW grids, grids = ComputeWavGrids(2, sb, values, g, Vec(1000)), NEW p
    PROVE  p \in Points(grids.wav) <=> (p \in Points(g) /\ Reaches(sb, g, values, p))
<1>1. PICK frst, last :
         /\ frst = Each(LAMBDA i : MaxOf(ReachRange(2, sb, values, g).frst[i], g.from[i]))
         /\ last = Each(LAMBDA i : MinOf(ReachRange(2, sb, values, g).last[i], LastOf(g)[i]))
  OBVIOUS
<1>2. PICK R : R = Reach(2, sb, g.strd)
  OBVIOUS
<1>3. ASSUME NEW i \in Axes
      PROVE  /\ frst[i] = FrstKept(g.from[i], g.strd[i], R[i], values.from[i])
             /\ last[i] = LastKept(g.from[i], g.strd[i], g.dims[i], R[i], LastOf(values)[i])
  <2>1. frst[i] = MaxOf(ReachRange(2, sb, values, g).frst[i], g.from[i])
    BY <1>1 DEF Each, Axes
  <2>2. last[i] = MinOf(ReachRange(2, sb, values, g).last[i], LastOf(g)[i])
    BY <1>1 DEF Each, Axes
  <2> QED
    BY <1>2, <2>1, <2>2, RangeIs
<1>4. ASSUME NEW i \in Axes
      PROVE  /\ KeptOf(g.from[i], g.strd[i], g.dims[i], R[i], values.from[i], LastOf(values)[i],
                       frst[i], last[i])
             /\ last[i] < PackLimit /\ g.dims[i] < PackLimit
  BY <1>2, <1>3, KeptOnAxis
<1>5. p \in Points(g) <=> (/\ p = <<p[1], p[2], p[3]>>
                           /\ \A i \in Axes : Run(g.from[i], g.strd[i], g.dims[i], p[i]))
  BY PointOn DEF On
<1>6. ASSUME NEW i \in Axes
      PROVE  (/\ frst[i] <= last[i]
              /\ Run(frst[i], g.strd[i], Quot(last[i] - frst[i], g.strd[i]) + 1, p[i]))
               <=> (/\ Run(g.from[i], g.strd[i], g.dims[i], p[i])
                    /\ Meets(p[i], R[i], values.from[i], LastOf(values)[i]))
  BY <1>4 DEF KeptOf
<1>7. CASE AllLeq(frst, last)
  <2>1. \A i \in Axes : frst[i] <= last[i]
    BY <1>7 DEF AllLeq
  <2>2. PICK D : D = Each(LAMBDA i : Quot(last[i] - frst[i], g.strd[i]) + 1)
    OBVIOUS
  <2>3. grids.wav = Grid(frst, D, g.strd)
    <3>1. grids.wav = Span(frst, last, g.strd)
      BY <1>1, <1>7 DEF ComputeWavGrids
    <3> QED
      BY <2>2, <3>1 DEF Span
  <2>4. ASSUME NEW i \in Axes
        PROVE  /\ D[i] = Quot(last[i] - frst[i], g.strd[i]) + 1
               /\ On(grids.wav, i, p[i]) <=> Run(frst[i], g.strd[i], D[i], p[i])
    <3>1. D[i] = Quot(last[i] - frst[i], g.strd[i]) + 1
      BY <2>2 DEF Each, Axes
    <3>2. PICK F \in Nat, E \in Nat, Q \in Nat : F = frst[i] /\ E = D[i] /\ Q = g.strd[i]
      BY <1>4, <2>1, <3>1, ReachAxis DEF KeptOf
    <3>3. F < PackLimit /\ E < PackLimit /\ Q < PackLimit
      <4>1. PICK d \in Nat, P \in Nat : d = g.dims[i] /\ d < PackLimit /\ P = PackLimit
        BY <1>4, LimitNat DEF IsBlock, BlockAxis
      <4>2. last[i] \in Int /\ last[i] < P
        BY <1>4, <4>1 DEF KeptOf
      <4>3. E <= d
        BY <1>4, <2>1, <3>1, <3>2, <4>1 DEF KeptOf
      <4>4. Q < P
        BY <3>2, <4>1, ReachAxis
      <4> QED
        BY <2>1, <3>2, <4>1, <4>2, <4>3, <4>4
    <3>4. Spans(Grid(frst, D, g.strd), i, F, E, Q)
      BY <3>2, <3>3, OnGrid
    <3> QED
      BY <2>3, <3>1, <3>2, <3>4 DEF Spans
  <2>5. p \in Points(grids.wav) <=> (/\ p = <<p[1], p[2], p[3]>>
                                     /\ \A i \in Axes : On(grids.wav, i, p[i]))
    BY PointOn
  <2>6. ASSUME NEW i \in Axes
        PROVE  On(grids.wav, i, p[i])
                 <=> (/\ Run(g.from[i], g.strd[i], g.dims[i], p[i])
                      /\ Meets(p[i], R[i], values.from[i], LastOf(values)[i]))
    BY <1>6, <2>1, <2>4
  <2> QED
    BY <1>2, <1>5, <2>5, <2>6 DEF Reaches
<1>8. CASE ~AllLeq(frst, last)
  <2>1. grids.wav = Invalid
    BY <1>1, <1>8 DEF ComputeWavGrids, NoGrids
  <2>2. PICK i \in Axes : ~(frst[i] <= last[i])
    BY <1>8 DEF AllLeq
  <2>3. ~(/\ Run(g.from[i], g.strd[i], g.dims[i], p[i])
          /\ Meets(p[i], R[i], values.from[i], LastOf(values)[i]))
    BY <1>6, <2>2
  <2> QED
    BY <1>2, <1>5, <2>1, <2>3, NoPoints DEF Reaches
<1> QED
  BY <1>7, <1>8

\* What ComputeWavGrids makes the value grid of.
ValueGrid(sb, g, values, val, strd, F, L, D) ==
    /\ val = Grid(F, D, strd)
    /\ \A i \in Axes :
          /\ strd[i] = MinOf(g.strd[i] \div 2 ^ HalfIn(sb, i), 1000)
          /\ F[i] = strd[i] * Quot(values.from[i] + strd[i] - 1, strd[i])
          /\ L[i] = strd[i] * Quot(LastOf(values)[i], strd[i])
          /\ D[i] = Quot(L[i] - F[i], strd[i]) + 1

LEMMA ValShape ==
    ASSUME NEW sb, NEW g, NEW values,
           NEW grids, grids = ComputeWavGrids(2, sb, values, g, Vec(1000)), grids # NoGrids
    PROVE  \E strd, F, L, D : ValueGrid(sb, g, values, grids.val, strd, F, L, D)
<1> DEFINE strd == Each(LAMBDA i : MinOf(g.strd[i] \div 2 ^ SubbandToLevel(2, sb, TRUE)[i],
                                        Vec(1000)[i]))
           F == Each(LAMBDA i : strd[i] * Quot(values.from[i] + strd[i] - 1, strd[i]))
           L == Each(LAMBDA i : strd[i] * Quot(LastOf(values)[i], strd[i]))
           D == Each(LAMBDA i : Quot(L[i] - F[i], strd[i]) + 1)
<1>1. grids.val = Span(F, L, strd)
  BY DEF ComputeWavGrids
<1>2. Span(F, L, strd) = Grid(F, D, strd)
  BY DEF Span
<1>3. ASSUME NEW i \in Axes
      PROVE  strd[i] = MinOf(g.strd[i] \div 2 ^ HalfIn(sb, i), 1000)
  <2>1. Vec(1000)[i] = 1000
    BY DEF Vec, Axes
  <2>2. PICK H : H = SubbandToLevel(2, sb, TRUE)
    OBVIOUS
  <2>3. strd = Each(LAMBDA a : MinOf(g.strd[a] \div 2 ^ H[a], Vec(1000)[a]))
    BY <2>2
  <2>4. strd[i] = MinOf(g.strd[i] \div 2 ^ H[i], Vec(1000)[i])
    <3> HIDE DEF strd
    <3> QED
      BY <2>3 DEF Each, Axes
  <2>5. H[i] = HalfIn(sb, i)
    BY <2>2 DEF HalfIn
  <2> QED
    BY <2>1, <2>4, <2>5
<1> HIDE DEF strd
<1>4. ASSUME NEW i \in Axes
      PROVE  /\ F[i] = strd[i] * Quot(values.from[i] + strd[i] - 1, strd[i])
             /\ L[i] = strd[i] * Quot(LastOf(values)[i], strd[i])
  BY DEF Each, Axes
<1> HIDE DEF F, L
<1>5. ASSUME NEW i \in Axes
      PROVE  D[i] = Quot(L[i] - F[i], strd[i]) + 1
  BY DEF Each, Axes
<1> HIDE DEF D
<1>6. ValueGrid(sb, g, values, grids.val, strd, F, L, D)
  BY <1>1, <1>2, <1>3, <1>4, <1>5 DEF ValueGrid
<1> QED
  BY <1>6

\* The value grid, where any coefficient is kept.
LEMMA ValIs ==
    ASSUME NEW n, NEW levels, Searchable(n, levels), NEW sb, NEW g, IsBlock(n, levels, sb, g),
           \A i \in Axes : HalfIn(sb, i) \in {0, 1},
           NEW values, IsWindow(n, values),
           NEW grids, grids = ComputeWavGrids(2, sb, values, g, Vec(1000)),
           NEW q \in Points(grids.wav), NEW p
    PROVE  p \in Points(grids.val)
             <=> (p \in Points(values) /\ \A i \in Axes : p[i] % grids.val.strd[i] = 0)
<1>1. grids # NoGrids
  <2>1. \A x : x \notin Points(NoGrids.wav)
    BY NoPoints DEF NoGrids
  <2> QED
    BY <2>1
<1>2. PICK strd, F, L, D : ValueGrid(sb, g, values, grids.val, strd, F, L, D)
  BY <1>1, ValShape
<1>3. /\ grids.val = Grid(F, D, strd)
      /\ \A i \in Axes : strd[i] = MinOf(g.strd[i] \div 2 ^ HalfIn(sb, i), 1000)
  BY <1>2 DEF ValueGrid
<1>4. grids.val = Grid(F, D, strd)
  BY <1>3
<1>5. ASSUME NEW i \in Axes
      PROVE  strd[i] \in Nat \ {0} /\ strd[i] <= 2 ^ levels
  <2>1. strd[i] = MinOf(g.strd[i] \div 2 ^ HalfIn(sb, i), 1000)
    BY <1>3
  <2>2. PICK s \in Nat \ {0}, t \in Nat, h \in {0, 1} :
           /\ s = g.strd[i] /\ t = 2 ^ levels /\ h = HalfIn(sb, i)
           /\ s <= t /\ (h = 1 => s >= 2)
    BY ComponentsFit DEF IsBlock, BlockAxis
  <2>3. 2 ^ 0 = 1 /\ 2 ^ 1 = 2
    OBVIOUS
  <2>4. PICK m \in Nat \ {0} : m = s \div 2 ^ h /\ m <= s
    <3>1. CASE h = 0
      <4>1. s \div 1 = s
        OBVIOUS
      <4> QED
        BY <2>3, <3>1, <4>1
    <3>2. CASE h = 1
      <4>1. s >= 2
        BY <2>2, <3>2
      <4>2. PICK m \in Nat, e \in 0 .. 1 : m = s \div 2 /\ s = m * 2 + e
        BY Divided
      <4>3. m \in Nat \ {0} /\ m <= s
        BY <4>1, <4>2
      <4> QED
        BY <2>3, <3>2, <4>2, <4>3
    <3> QED
      BY <3>1, <3>2
  <2>5. strd[i] = MinOf(m, 1000)
    BY <2>1, <2>2, <2>4
  <2>6. MinOf(m, 1000) \in Nat \ {0} /\ MinOf(m, 1000) <= m
    BY DEF MinOf
  <2>7. strd[i] \in Nat \ {0} /\ strd[i] <= s
    BY <2>4, <2>5, <2>6
  <2> QED
    BY <2>2, <2>7
<1>6. ASSUME NEW i \in Axes
      PROVE  /\ F[i] = strd[i] * Quot(values.from[i] + strd[i] - 1, strd[i])
             /\ L[i] = strd[i] * Quot(LastOf(values)[i], strd[i])
             /\ D[i] = Quot(L[i] - F[i], strd[i]) + 1
  BY <1>2 DEF ValueGrid
<1>7. ASSUME NEW i \in Axes
      PROVE  /\ ValuesOf(strd[i], values.from[i], LastOf(values)[i], F[i], D[i])
             /\ On(grids.val, i, p[i]) <=> Run(F[i], strd[i], D[i], p[i])
             /\ grids.val.strd[i] = strd[i]
  <2>1. PICK v \in Nat, w \in Nat, len \in Nat, top \in Nat, P \in Nat :
           /\ v = values.from[i] /\ w = LastOf(values)[i] /\ len = n[i] /\ top = 2 ^ levels
           /\ P = PackLimit /\ v <= w /\ w < len /\ len + top <= P /\ len < P
    BY ComponentsFit, LimitNat DEF IsWindow, WindowAxis
  <2>2. PICK t \in Nat \ {0} : t = strd[i] /\ t <= top
    BY <1>5, <2>1
  <2>3. ValuesOf(t, v, w, t * Quot(v + t - 1, t),
                 Quot(t * Quot(w, t) - t * Quot(v + t - 1, t), t) + 1)
    BY <2>1, ValueAxis
  <2>4. ValuesOf(t, v, w, F[i], D[i])
    BY <1>6, <2>1, <2>2, <2>3
  <2>5. PICK f \in Nat, d \in Nat : f = F[i] /\ d = D[i] /\ f < v + t /\ d <= w + 1
    BY <2>4 DEF ValuesOf
  <2>6. f < P /\ d < P /\ 2 ^ levels \in Nat \ {0} /\ 3 * top <= P
    BY <2>1, <2>2, <2>5, ComponentsFit
  <2>7. t < P
    BY <2>1, <2>2, <2>6
  <2>8. Spans(Grid(F, D, strd), i, f, d, t)
    BY <2>1, <2>2, <2>5, <2>6, <2>7, OnGrid
  <2>9. grids.val.strd[i] = strd[i]
    <3>1. grids.val.strd[i] = Pack(strd[i])
      BY <1>4 DEF Grid, Packed, Each, Pack, Axes
    <3>2. Pack(t) = t
      BY <2>1, <2>7, PackInt
    <3> QED
      BY <2>2, <3>1, <3>2
  <2> QED
    BY <1>4, <2>1, <2>2, <2>4, <2>5, <2>8, <2>9 DEF Spans
<1>8. p \in Points(grids.val) <=> (/\ p = <<p[1], p[2], p[3]>>
                                   /\ \A i \in Axes : On(grids.val, i, p[i]))
  BY PointOn
<1>9. ASSUME NEW i \in Axes
      PROVE  On(grids.val, i, p[i])
               <=> (p[i] \in values.from[i] .. LastOf(values)[i] /\ p[i] % grids.val.strd[i] = 0)
  BY <1>7 DEF ValuesOf
<1>10. p \in Points(values) <=>
          (/\ p = <<p[1], p[2], p[3]>>
           /\ \A i \in Axes : p[i] \in values.from[i] .. LastOf(values)[i])
  BY DEF IsWindow
<1> QED
  BY <1>8, <1>9, <1>10

\* A higher power of two is no less.
LEMMA PowersGrow ==
    ASSUME NEW l \in Nat, NEW m \in Nat, l <= m
    PROVE  2 ^ l <= 2 ^ m
<1>1. CASE l = m
  BY <1>1, PowPos
<1>2. CASE l < m
  <2>1. PICK e \in Nat \ {0} : 2 ^ m = 2 * (e * 2 ^ l)
    BY <1>2, PowSplit
  <2>2. PICK p \in Nat : p = 2 ^ l
    BY PowPos
  <2>3. p <= 2 * (e * p)
    OBVIOUS
  <2> QED
    BY <2>1, <2>2, <2>3
<1> QED
  BY <1>1, <1>2

\* The last of d places that are all among the first len.
LEMMA LastWithin ==
    ASSUME NEW a \in Nat, NEW d \in Nat \ {0}, NEW s \in Nat, NEW len \in Nat,
           \A v : Run(a, s, d, v) => v \in 0 .. len - 1
    PROVE  a + d * s - s < len
<1>1. d - 1 \in 0 .. d - 1
  OBVIOUS
<1>2. Run(a, s, d, a + (d - 1) * s)
  BY <1>1 DEF Run
<1>3. a + (d - 1) * s \in 0 .. len - 1
  BY <1>2
<1>4. (d - 1) * s = d * s - s
  OBVIOUS
<1> QED
  BY <1>3, <1>4

\* A subband along an axis: the codec puts it at x, in place it is a block.
BandFits(n, levels, sb, e, g) ==
    \A i \in Axes :
       /\ e.from[i] \in Nat /\ e.dims[i] = g.dims[i] /\ e.from[i] + e.dims[i] <= n[i]
       /\ BlockAxis(n[i], 2 ^ levels, HalfIn(sb, i), g.from[i], g.dims[i], g.strd[i])

LEMMA CoarsestFits ==
    ASSUME NEW n, NEW levels, Searchable(n, levels), NEW e, e = SubbandExtents(n, levels)[1],
           NEW g, g = CoarsestGrid(n, levels)
    PROVE  BandFits(n, levels, 0, e, g)
<1>1. n \in Lengths /\ levels \in Nat
  BY DEF Searchable
<1>2. ASSUME NEW i \in Axes
      PROVE  /\ e.from[i] \in Nat /\ e.dims[i] = g.dims[i] /\ e.from[i] + e.dims[i] <= n[i]
             /\ BlockAxis(n[i], 2 ^ levels, HalfIn(0, i), g.from[i], g.dims[i], g.strd[i])
  <2>1. PICK x \in Nat \ {0} : x = DimsLeft(n, levels)[i] /\ x <= n[i]
    <3>1. DimsLeft(n, levels)[i] \in 1 .. n[i] /\ n[i] \in Nat
      BY <1>1, LeftFacts, LengthsFit
    <3> QED
      BY <3>1
  <2>2. e.from[i] = 0 /\ e.dims[i] = x
    <3>1. e.from = Vec(0) /\ e.dims = DimsLeft(n, levels)
      BY <1>1, CoarsestBand
    <3> QED
      BY <2>1, <3>1 DEF Vec, Axes
  <2>3. /\ \A v : On(g, i, v) => v \in 0 .. n[i] - 1
        /\ g.dims[i] = x /\ g.from[i] = 0
    BY <1>1, <2>1, CoarsestShape
  <2>4. g.strd[i] = Pack(2 ^ levels)
    BY DEF CoarsestGrid, Grid, Packed, Vec, Each, Pack, Axes
  <2>5. PICK t \in Nat \ {0}, len \in Nat : t = 2 ^ levels /\ len = n[i] /\ t < PackLimit
    BY ComponentsFit, LimitNat
  <2>6. g.strd[i] = t
    BY <2>4, <2>5, PackInt
  <2>7. 0 + x * t - t < len
    <3>1. \A v : Run(0, t, x, v) => v \in 0 .. len - 1
      BY <2>3, <2>5, <2>6 DEF On
    <3> QED
      BY <3>1, LastWithin
  <2>8. HalfIn(0, i) = 0
    <3>1. SubbandToLevel(2, 0, TRUE) = Vec(0)
      BY DEF SubbandToLevel
    <3>2. Vec(0)[i] = 0
      BY DEF Vec, Axes
    <3> QED
      BY <3>1, <3>2 DEF HalfIn
  <2>9. BlockAxis(len, t, 0, 0, x, t)
    BY <2>7 DEF BlockAxis
  <2> QED
    BY <2>1, <2>2, <2>3, <2>5, <2>6, <2>8, <2>9
<1> QED
  BY <1>2 DEF BandFits

LEMMA FinerFits ==
    ASSUME NEW n, NEW levels, Searchable(n, levels), NEW s \in 2 .. NBands(n, levels),
           NEW e, e = SubbandExtents(n, levels)[s], NEW g, g = AllGrids(n, levels)[s]
    PROVE  BandFits(n, levels, s - 1, e, g)
<1>1. /\ n \in Lengths /\ levels \in Nat /\ FlatLast(n) /\ NumDims(n) = 2 /\ ~Collapses(n, levels)
  BY DEF Searchable
<1>2. PICK l \in 0 .. levels - 1 : l = LvlOf(n, levels, s)
  BY <1>1, Numbered
<1>3. PICK j \in 1 .. PerLevel(n) : j = NumOf(n, s)
  BY <1>1, Numbered
<1>4. PICK h \in {0, 1} \X {0, 1} \X {0, 1} : h = Halves(2, j)
  BY <1>1, <1>3, HalvesType DEF PerLevel
<1>5. SubbandToLevel(2, s - 1, TRUE) = h
  BY <1>1, <1>3, <1>4, LevelOfBand
<1>6. g = GridOf(n, l, j) /\ l \in Nat
  BY <1>1, <1>2, <1>3, Numbered
<1>7. \A k \in 1 .. NumDims(n) : DimsLeft(n, l + 1)[k] < DimsLeft(n, l)[k]
  BY <1>1, Shortened
<1>8. e.dims = g.dims
  <2>1. s \in 1 .. NBands(n, levels)
    OBVIOUS
  <2>2. SubbandExtents(n, levels)[s].dims = AllGrids(n, levels)[s].dims
    BY <1>1, <2>1, SameDims
  <2> QED
    BY <2>2
<1>9. PICK p \in Nat \ {0}, t \in Nat \ {0} :
         p = 2 ^ l /\ t = 2 ^ (l + 1) /\ t = 2 * p /\ t <= 2 ^ levels
  <2>1. l + 1 \in Nat /\ l + 1 <= levels
    BY <1>1
  <2> QED
    BY <1>1, <1>6, <2>1, PowPos, PowDouble, PowersGrow
<1>10. ASSUME NEW i \in Axes
       PROVE  /\ e.from[i] \in Nat /\ e.dims[i] = g.dims[i] /\ e.from[i] + e.dims[i] <= n[i]
              /\ BlockAxis(n[i], 2 ^ levels, HalfIn(s - 1, i), g.from[i], g.dims[i], g.strd[i])
  <2>1. e.from[i] \in Nat /\ e.dims[i] \in Nat /\ e.from[i] + e.dims[i] <= n[i] /\ e.dims[i] > 0
    BY <1>1, <1>2, <1>7, BandAxis
  <2>2. PICK d \in Nat \ {0} : d = g.dims[i] /\ d = e.dims[i]
    BY <1>8, <2>1
  <2>3. PICK b \in {0, 1} : b = h[i] /\ b = HalfIn(s - 1, i)
    <3>1. h[i] \in {0, 1}
      BY DEF Axes
    <3>2. HalfIn(s - 1, i) = h[i]
      BY <1>5 DEF HalfIn
    <3> QED
      BY <3>1, <3>2
  <2>4. /\ \A v : On(g, i, v) => v \in 0 .. n[i] - 1
        /\ g.from[i] = IF i <= 2 THEN h[i] * 2 ^ l ELSE 0
    <3>0. n \in Lengths /\ FlatLast(n) /\ l \in Nat
      BY <1>1, <1>6
    <3>1. \A v : On(GridOf(n, l, j), i, v) <=>
                (v \in 0 .. n[i] - 1
                   /\ (i <= NumDims(n) => v % 2 ^ (l + 1) = Halves(NumDims(n), j)[i] * 2 ^ l))
      BY <3>0, GridShape
    <3>2. GridOf(n, l, j).dims[i] # 0 =>
             GridOf(n, l, j).from[i] = IF i <= NumDims(n) THEN Halves(NumDims(n), j)[i] * 2 ^ l
                                       ELSE 0
      BY <3>0, GridShape
    <3>3. GridOf(n, l, j).dims[i] # 0
      BY <1>6, <2>2
    <3>4. GridOf(n, l, j).from[i] = IF i <= 2 THEN h[i] * 2 ^ l ELSE 0
      BY <1>1, <1>4, <3>2, <3>3
    <3>5. \A v : On(g, i, v) => v \in 0 .. n[i] - 1
      BY <1>6, <3>1
    <3> QED
      BY <1>6, <3>4, <3>5
  <2>5. g.from[i] \in Nat
    <3>1. b * p \in Nat
      OBVIOUS
    <3>2. g.from[i] = b * p \/ g.from[i] = 0
      BY <1>9, <2>3, <2>4
    <3> QED
      BY <3>1, <3>2
  <2>6. g.strd[i] = Pack(t)
    BY <1>6, <1>9 DEF GridOf, Grid, Packed, Vec, Each, Pack, Axes
  <2>7. g.strd[i] = t
    <3>1. 2 ^ levels \in Nat \ {0} /\ 3 * 2 ^ levels <= PackLimit
      BY ComponentsFit
    <3>2. t < PackLimit
      BY <1>9, <3>1, LimitNat
    <3> QED
      BY <2>6, <3>2, PackInt
  <2>8. PICK a \in Nat, len \in Nat : a = g.from[i] /\ len = n[i]
    BY <2>5, ComponentsFit
  <2>9. a + d * t - t < len
    <3>1. \A v : Run(a, t, d, v) => v \in 0 .. len - 1
      BY <2>2, <2>4, <2>7, <2>8 DEF On
    <3> QED
      BY <3>1, LastWithin
  <2>10. PICK top : top = 2 ^ levels /\ t <= top
    BY <1>9
  <2>11. BlockAxis(len, top, b, a, d, t)
    <3>1. t >= 2
      BY <1>9
    <3> QED
      BY <2>9, <2>10, <3>1 DEF BlockAxis
  <2> QED
    BY <2>1, <2>2, <2>3, <2>7, <2>8, <2>10, <2>11
<1> QED
  BY <1>10 DEF BandFits

\* Every subband of a volume that can be searched.
LEMMA EveryFits ==
    ASSUME NEW n, NEW levels, Searchable(n, levels), NEW s \in DOMAIN SubbandExtents(n, levels)
    PROVE  BandFits(n, levels, s - 1, SubbandExtents(n, levels)[s], SubbandGrids(n, levels)[s])
<1>1. n \in Lengths /\ levels \in Nat /\ FlatLast(n) /\ ~Collapses(n, levels)
  BY DEF Searchable
<1>2. s \in 1 .. NBands(n, levels) /\ NBands(n, levels) \in Nat
  BY <1>1, FirstBands
<1>3. SubbandGrids(n, levels)[s] = AllGrids(n, levels)[s]
  <2>1. PICK m \in Nat : \E f : KeptAs(n, levels, m, f)
    BY <1>1, KeptGrids
  <2> QED
    BY <1>1, <1>2, <2>1 DEF KeptAs
<1>4. CASE s = 1
  <2>1. AllGrids(n, levels)[1] = CoarsestGrid(n, levels)
    BY <1>1, FirstBands
  <2>2. BandFits(n, levels, 0, SubbandExtents(n, levels)[1], CoarsestGrid(n, levels))
    BY CoarsestFits
  <2>3. s - 1 = 0
    BY <1>4
  <2> QED
    BY <1>3, <1>4, <2>1, <2>2, <2>3
<1>5. CASE s # 1
  <2>1. s \in 2 .. NBands(n, levels)
    BY <1>2, <1>5
  <2> QED
    BY <1>3, <2>1, FinerFits
<1> QED
  BY <1>4, <1>5

\* A subband of the codec is an extent.
LEMMA BandsAreExtents ==
    ASSUME NEW n \in Lengths, NEW levels \in Nat, NEW s \in DOMAIN SubbandExtents(n, levels)
    PROVE  SubbandExtents(n, levels)[s].strd = Vec(1)
<1>1. \A f, d : Extent(f, d).strd = Vec(1)
  BY ExtentRecord
<1>2. s \in 1 .. NBands(n, levels) /\ NBands(n, levels) \in Nat
  BY FirstBands
<1>3. CASE s = 1
  BY <1>1, <1>3, FirstBands
<1>4. CASE s # 1
  <2>1. s \in 2 .. NBands(n, levels)
    BY <1>2, <1>4
  <2>2. SubbandExtents(n, levels)[s] = ExtentOf(n, LvlOf(n, levels, s), NumOf(n, s))
    BY <2>1, Numbered
  <2>3. \A l, j : ExtentOf(n, l, j).strd = Vec(1)
    BY <1>1 DEF ExtentOf
  <2> QED
    BY <2>2, <2>3
<1> QED
  BY <1>3, <1>4

\* What Crop makes along an axis of the b places from f on, in one of the d from a on.
CropFrst(f, a) == Quot(MaxOf(f, a) - f + 1 - 1, 1) * 1 + f
CropLast(f, b, a, d) == Quot(MinOf(f + b * 1 - 1, a + d * 1 - 1) - f, 1) * 1 + f

LEMMA CropAxis ==
    ASSUME NEW a \in Nat, NEW d \in Nat \ {0}, NEW b \in Nat \ {0},
           NEW f \in Nat, a <= f, f < a + d
    PROVE  /\ CropFrst(f, a) = f
           /\ CropFrst(f, a) <= CropLast(f, b, a, d)
           /\ \E m \in Nat \ {0} : /\ m = Quot(CropLast(f, b, a, d) - CropFrst(f, a), 1) + 1
                                   /\ f + m <= a + d
<1>0. PICK c \in Nat : c = f - a /\ f = a + c /\ c < d
  OBVIOUS
<1>1. \A x \in Nat : Quot(x, 1) = x
  BY DEF Quot
<1>2. MaxOf(f, a) - f + 1 - 1 = 0
  BY DEF MaxOf
<1>3. CropFrst(f, a) = f
  <2>1. Quot(0, 1) = 0
    BY <1>1
  <2> QED
    BY <1>2, <2>1 DEF CropFrst
<1>4. PICK m \in Nat \ {0} : m - 1 = MinOf(f + b * 1 - 1, a + d * 1 - 1) - f /\ f + m <= a + d
  <2>1. MinOf(f + b * 1 - 1, a + d * 1 - 1) - f = IF c + b <= d THEN b - 1 ELSE d - c - 1
    BY <1>0 DEF MinOf
  <2>2. CASE c + b <= d
    BY <1>0, <2>1, <2>2
  <2>3. CASE ~(c + b <= d)
    <3>1. d - c \in Nat \ {0}
      BY <1>0
    <3> QED
      BY <1>0, <2>1, <2>3, <3>1
  <2> QED
    BY <2>2, <2>3
<1>5. CropLast(f, b, a, d) = f + m - 1
  <2>1. Quot(m - 1, 1) = m - 1
    <3>1. m - 1 \in Nat
      OBVIOUS
    <3> QED
      BY <1>1, <3>1
  <2> QED
    BY <1>4, <2>1 DEF CropLast
<1>6. CropLast(f, b, a, d) - CropFrst(f, a) = m - 1 /\ Quot(m - 1, 1) = m - 1
  <2>1. m - 1 \in Nat /\ (f + m - 1) - f = m - 1
    OBVIOUS
  <2> QED
    BY <1>1, <1>3, <1>5, <2>1
<1>7. m = Quot(CropLast(f, b, a, d) - CropFrst(f, a), 1) + 1
  BY <1>6
<1>8. f <= f + m - 1
  OBVIOUS
<1>9. CropFrst(f, a) <= CropLast(f, b, a, d)
  BY <1>3, <1>5, <1>8
<1> QED
  BY <1>3, <1>4, <1>7, <1>9

\* Of extents, along all axes.
LEMMA CropIs ==
    ASSUME NEW x, NEW e, x.strd = Vec(1), e.strd = Vec(1), NEW crop, crop = Crop(x, e),
           x = [from |-> x.from, dims |-> x.dims, strd |-> x.strd],
           \A i \in Axes : CropFrst(x.from[i], e.from[i])
                             <= CropLast(x.from[i], x.dims[i], e.from[i], e.dims[i]),
           NEW i \in Axes
    PROVE  /\ crop.from[i] = CropFrst(x.from[i], e.from[i])
           /\ crop.dims[i] = Quot(CropLast(x.from[i], x.dims[i], e.from[i], e.dims[i])
                                    - CropFrst(x.from[i], e.from[i]), 1) + 1
<1>1. PICK F, L :
         /\ F = Each(LAMBDA a : Quot(MaxOf(x.from[a], e.from[a]) - x.from[a] + x.strd[a] - 1,
                                     x.strd[a]) * x.strd[a] + x.from[a])
         /\ L = Each(LAMBDA a : Quot(MinOf(LastOf(x)[a], LastOf(e)[a]) - x.from[a], x.strd[a])
                                  * x.strd[a] + x.from[a])
  OBVIOUS
<1>2. crop = [x EXCEPT !.from = F,
                       !.dims = IF AllLeq(F, L)
                                THEN Each(LAMBDA a : Quot(L[a] - F[a], x.strd[a]) + 1)
                                ELSE Vec(0)]
  BY <1>1 DEF Crop, Each
<1>3. \A a \in Axes : x.strd[a] = 1 /\ e.strd[a] = 1
  BY DEF Vec, Axes
<1>4. ASSUME NEW a \in Axes
      PROVE  F[a] = CropFrst(x.from[a], e.from[a])
  <2>1. F[a] = Quot(MaxOf(x.from[a], e.from[a]) - x.from[a] + x.strd[a] - 1, x.strd[a])
                 * x.strd[a] + x.from[a]
    BY <1>1 DEF Each, Axes
  <2> QED
    BY <1>3, <2>1 DEF CropFrst
<1>5. ASSUME NEW a \in Axes
      PROVE  L[a] = CropLast(x.from[a], x.dims[a], e.from[a], e.dims[a])
  <2>1. L[a] = Quot(MinOf(LastOf(x)[a], LastOf(e)[a]) - x.from[a], x.strd[a])
                 * x.strd[a] + x.from[a]
    BY <1>1 DEF Each, Axes
  <2>2. /\ LastOf(x)[a] = x.from[a] + x.dims[a] * x.strd[a] - x.strd[a]
        /\ LastOf(e)[a] = e.from[a] + e.dims[a] * e.strd[a] - e.strd[a]
    BY DEF LastOf, Each, Axes
  <2> QED
    BY <1>3, <2>1, <2>2 DEF CropLast
<1>6. AllLeq(F, L)
  BY <1>4, <1>5 DEF AllLeq
<1>7. crop.from = F /\ crop.dims = Each(LAMBDA a : Quot(L[a] - F[a], x.strd[a]) + 1)
  BY <1>2, <1>6
<1>8. crop.dims[i] = Quot(L[i] - F[i], x.strd[i]) + 1
  BY <1>7 DEF Each, Axes
<1> QED
  BY <1>3, <1>4, <1>5, <1>7, <1>8

\* The components of a grid that fits.
LEMMA GridAxis ==
    ASSUME NEW f, NEW d, NEW q, NEW i \in Axes, NEW F \in Nat, NEW D \in Nat, NEW Q \in Nat,
           f[i] = F, d[i] = D, q[i] = Q, F < PackLimit, D < PackLimit, Q < PackLimit
    PROVE  Grid(f, d, q).from[i] = F /\ Grid(f, d, q).dims[i] = D /\ Grid(f, d, q).strd[i] = Q
<1>1. /\ Grid(f, d, q).dims[i] = Pack(D) /\ Grid(f, d, q).from[i] = Pack(F)
      /\ Grid(f, d, q).strd[i] = Pack(Q)
  BY DEF Grid, Packed, Each, Pack, Axes
<1> QED
  BY <1>1, PackInt

\* A part of a block is one.
LEMMA PartFits ==
    ASSUME NEW len \in Nat, NEW top, NEW h, NEW A, NEW D, NEW S, BlockAxis(len, top, h, A, D, S),
           NEW c \in Nat, NEW m \in Nat \ {0}, c + m <= D
    PROVE  BlockAxis(len, top, h, A + S * c, m, S) /\ A + S * c <= A + D * S - S /\ m <= D
<1>1. /\ A \in Nat /\ D \in Nat \ {0} /\ S \in Nat \ {0} /\ A + D * S - S < len
      /\ S <= top /\ (h = 1 => S >= 2)
  BY DEF BlockAxis
<1>2. c * S + m * S <= D * S
  <2>1. (c + m) * S <= D * S
    BY <1>1
  <2>2. (c + m) * S = c * S + m * S
    BY <1>1
  <2> QED
    BY <2>1, <2>2
<1>3. S <= m * S
  BY <1>1
<1>4. S * c = c * S /\ c * S \in Nat /\ m * S \in Nat /\ D * S \in Nat
  BY <1>1
<1>5. A + S * c \in Nat /\ (A + S * c) + m * S - S <= A + D * S - S
  BY <1>1, <1>2, <1>4
<1>6. A + S * c <= A + D * S - S /\ m <= D
  BY <1>1, <1>2, <1>3, <1>4
<1>7. (A + S * c) + m * S - S < len
  <2>1. PICK x \in Int, y \in Int : x = (A + S * c) + m * S - S /\ y = A + D * S - S
    BY <1>4, <1>5, <1>1
  <2> QED
    BY <1>1, <1>5, <2>1
<1> QED
  BY <1>1, <1>5, <1>6, <1>7 DEF BlockAxis

\* A block of two by two coefficients, as BlockOf takes it: k counts the blocks of
\* the subband that is e in the codec's volume and sub in place.
Corner(e, k) == Each(LAMBDA i : e.from[i] + 2 * k[i])
Cropped(e, k) == Crop(Extent(Corner(e, k), <<2, 2, 1>>), e)
Taken(e, sub, k) ==
    SubGrid(sub, Extent(Each(LAMBDA i : Cropped(e, k).from[i] - e.from[i]), Cropped(e, k).dims))

LEMMA BlockAt ==
    ASSUME NEW n, NEW levels, Searchable(n, levels), NEW sb, NEW e, NEW sub,
           BandFits(n, levels, sb, e, sub), e.strd = Vec(1),
           NEW k, \A i \in Axes : k[i] \in Nat /\ 2 * k[i] < e.dims[i],
           NEW g, g = Taken(e, sub, k)
    PROVE  IsBlock(n, levels, sb, g)
<1>1. PICK f, b, x, crop : /\ f = Corner(e, k) /\ b = <<2, 2, 1>> /\ x = Extent(f, b)
                           /\ crop = Crop(x, e) /\ crop = Cropped(e, k)
  BY DEF Cropped
<1>2. ASSUME NEW i \in Axes
      PROVE  /\ e.from[i] \in Nat /\ e.dims[i] \in Nat \ {0} /\ 2 * k[i] \in Nat
             /\ b[i] \in {1, 2} /\ n[i] \in Nat
             /\ 2 * k[i] < e.dims[i] /\ e.from[i] + e.dims[i] <= n[i] /\ n[i] < PackLimit
             /\ f[i] = e.from[i] + 2 * k[i]
  <2>1. e.from[i] \in Nat /\ e.dims[i] = sub.dims[i] /\ e.from[i] + e.dims[i] <= n[i]
    BY DEF BandFits
  <2>2. sub.dims[i] \in Nat \ {0}
    BY DEF BandFits, BlockAxis
  <2>3. n[i] \in Nat \ {0} /\ n[i] < PackLimit
    BY ComponentsFit
  <2>4. b[i] \in {1, 2}
    BY <1>1 DEF Axes
  <2>5. f[i] = e.from[i] + 2 * k[i]
    BY <1>1 DEF Corner, Each, Axes
  <2>6. k[i] \in Nat /\ 2 * k[i] < e.dims[i] /\ 2 * k[i] \in Nat
    OBVIOUS
  <2> QED
    BY <2>1, <2>2, <2>3, <2>4, <2>5, <2>6
<1>3. x.strd = Vec(1) /\ x = [from |-> x.from, dims |-> x.dims, strd |-> x.strd]
  BY <1>1, ExtentRecord
<1>4. ASSUME NEW i \in Axes
      PROVE  x.from[i] = f[i] /\ x.dims[i] = b[i]
  <2>1. PICK a \in Nat, d \in Nat \ {0}, c \in Nat, w \in {1, 2}, len \in Nat :
                /\ a = e.from[i] /\ d = e.dims[i] /\ c = 2 * k[i] /\ w = b[i] /\ len = n[i]
                /\ c < d /\ a + d <= len /\ len < PackLimit /\ f[i] = a + c
    BY <1>2
  <2>2. a + c \in Nat /\ a + c < PackLimit /\ w < PackLimit /\ 1 < PackLimit /\ w \in Nat
    <3>1. w <= 2 /\ 2 < PackLimit
      BY ComponentsFit, LimitNat DEF PackLimit
    <3> QED
      BY <2>1, <3>1, LimitNat
  <2>3. Vec(1)[i] = 1
    BY DEF Vec, Axes
  <2> QED
    <3>1. x = Grid(f, b, Vec(1)) /\ 1 \in Nat
      BY <1>1 DEF Extent
    <3>2. PICK F \in Nat : F = a + c /\ F < PackLimit /\ f[i] = F
      BY <2>1, <2>2
    <3>3. Grid(f, b, Vec(1)).from[i] = F /\ Grid(f, b, Vec(1)).dims[i] = w
      BY <2>1, <2>2, <2>3, <3>1, <3>2, GridAxis
    <3> QED
      BY <2>1, <3>1, <3>2, <3>3
<1>5. ASSUME NEW i \in Axes
      PROVE  /\ CropFrst(x.from[i], e.from[i])
                  <= CropLast(x.from[i], x.dims[i], e.from[i], e.dims[i])
             /\ \E m \in Nat \ {0} :
                   /\ m = Quot(CropLast(x.from[i], x.dims[i], e.from[i], e.dims[i])
                                 - CropFrst(x.from[i], e.from[i]), 1) + 1
                   /\ 2 * k[i] + m <= e.dims[i]
             /\ CropFrst(x.from[i], e.from[i]) = e.from[i] + 2 * k[i]
  <2>1. PICK a \in Nat, d \in Nat \ {0}, c \in Nat, w \in {1, 2} :
                /\ a = e.from[i] /\ d = e.dims[i] /\ c = 2 * k[i] /\ w = b[i]
                /\ c < d /\ f[i] = a + c
    BY <1>2
  <2>2. /\ CropFrst(a + c, a) = a + c
        /\ CropFrst(a + c, a) <= CropLast(a + c, w, a, d)
        /\ \E m \in Nat \ {0} : /\ m = Quot(CropLast(a + c, w, a, d) - CropFrst(a + c, a), 1) + 1
                                /\ c + m <= d
    <3>1. w \in Nat \ {0}
      OBVIOUS
    <3>2. ASSUME NEW p, p = a + c
          PROVE  /\ CropFrst(p, a) = p
                 /\ CropFrst(p, a) <= CropLast(p, w, a, d)
                 /\ \E m \in Nat \ {0} : /\ m = Quot(CropLast(p, w, a, d) - CropFrst(p, a), 1) + 1
                                         /\ c + m <= d
      <4>1. p \in Nat /\ a <= p /\ p < a + d
        BY <2>1, <3>2
      <4>2. \A m \in Nat : p + m <= a + d => c + m <= d
        BY <3>2
      <4>3. CropFrst(p, a) = p /\ CropFrst(p, a) <= CropLast(p, w, a, d)
        BY <3>1, <4>1, CropAxis
      <4>4. PICK m \in Nat \ {0} : /\ m = Quot(CropLast(p, w, a, d) - CropFrst(p, a), 1) + 1
                                   /\ p + m <= a + d
        BY <3>1, <4>1, CropAxis
      <4>5. c + m <= d
        BY <4>2, <4>4
      <4> QED
        BY <4>3, <4>4, <4>5
    <3> QED
      BY <3>2
  <2>3. x.from[i] = a + c /\ x.dims[i] = w
    BY <1>4, <2>1
  <2> QED
    BY <2>1, <2>2, <2>3
<1>6. ASSUME NEW i \in Axes
      PROVE  \E m \in Nat \ {0} : crop.dims[i] = m /\ 2 * k[i] + m <= e.dims[i]
                                  /\ crop.from[i] = e.from[i] + 2 * k[i]
  <2>1. /\ crop.from[i] = CropFrst(x.from[i], e.from[i])
        /\ crop.dims[i] = Quot(CropLast(x.from[i], x.dims[i], e.from[i], e.dims[i])
                                 - CropFrst(x.from[i], e.from[i]), 1) + 1
    <3>1. crop = Crop(x, e)
      BY <1>1
    <3> QED
      BY <1>3, <1>5, <3>1, CropIs
  <2> QED
    BY <1>5, <2>1
<1>7. PICK hf, hd, h : /\ hf = Each(LAMBDA i : crop.from[i] - e.from[i]) /\ hd = crop.dims
                       /\ h = Extent(hf, hd)
  OBVIOUS
<1>8. PICK gf, gs : /\ gf = Each(LAMBDA i : sub.from[i] + sub.strd[i] * h.from[i])
                    /\ gs = Each(LAMBDA i : sub.strd[i] * h.strd[i])
                    /\ g = Grid(gf, h.dims, gs)
  BY <1>1, <1>7 DEF SubGrid, Taken, Each
<1>9. ASSUME NEW i \in Axes
      PROVE  BlockAxis(n[i], 2 ^ levels, HalfIn(sb, i), g.from[i], g.dims[i], g.strd[i])
  <2>1. PICK m \in Nat \ {0} : crop.dims[i] = m /\ 2 * k[i] + m <= e.dims[i]
                               /\ crop.from[i] = e.from[i] + 2 * k[i]
    BY <1>6
  <2>2. PICK a \in Nat, d \in Nat \ {0}, c \in Nat, len \in Nat :
           /\ a = e.from[i] /\ d = e.dims[i] /\ c = 2 * k[i] /\ len = n[i]
           /\ c < d /\ a + d <= len /\ len < PackLimit
    BY <1>2
  <2>3. hf[i] = c /\ hd[i] = m
    <3>1. hf[i] = crop.from[i] - e.from[i]
      BY <1>7 DEF Each, Axes
    <3>2. crop.from[i] = a + c /\ (a + c) - a = c
      BY <2>1, <2>2
    <3> QED
      BY <1>7, <2>1, <2>2, <3>1, <3>2
  <2>4. c < PackLimit /\ m < PackLimit /\ 1 < PackLimit /\ c + m <= d
    BY <2>1, <2>2, LimitNat
  <2>5. h.from[i] = c /\ h.dims[i] = m /\ h.strd[i] = 1
    <3>1. Vec(1)[i] = 1
      BY DEF Vec, Axes
    <3>2. h = Grid(hf, hd, Vec(1)) /\ m \in Nat /\ 1 \in Nat
      BY <1>7 DEF Extent
    <3> QED
      BY <2>3, <2>4, <3>1, <3>2, GridAxis
  <2>6. PICK A \in Nat, S \in Nat \ {0} :
           /\ A = sub.from[i] /\ S = sub.strd[i]
           /\ BlockAxis(len, 2 ^ levels, HalfIn(sb, i), A, d, S)
    BY <2>2 DEF BandFits, BlockAxis
  <2>7. BlockAxis(len, 2 ^ levels, HalfIn(sb, i), A + S * c, m, S) /\ A + S * c <= A + d * S - S
    BY <2>4, <2>6, PartFits
  <2>8. A + d * S - S < len /\ S <= 2 ^ levels
    BY <2>6 DEF BlockAxis
  <2>9. gf[i] = A + S * c /\ gs[i] = S
    <3>1. gf[i] = sub.from[i] + sub.strd[i] * h.from[i] /\ gs[i] = sub.strd[i] * h.strd[i]
      BY <1>8 DEF Each, Axes
    <3>2. S * 1 = S
      OBVIOUS
    <3> QED
      BY <2>5, <2>6, <3>1, <3>2
  <2>10. PICK F \in Nat : F = A + S * c /\ F < PackLimit
    <3>1. A + S * c \in Nat /\ A + d * S - S \in Int
      OBVIOUS
    <3> QED
      BY <2>2, <2>7, <2>8, <3>1, LimitNat
  <2>11. S < PackLimit
    <3>1. 2 ^ levels \in Nat \ {0} /\ 3 * 2 ^ levels <= PackLimit
      BY ComponentsFit
    <3> QED
      BY <2>8, <3>1, LimitNat
  <2>12. g.from[i] = F /\ g.dims[i] = m /\ g.strd[i] = S
    <3>1. m \in Nat /\ S \in Nat /\ m < PackLimit /\ h.dims[i] = m
      BY <2>4, <2>5
    <3>2. gf[i] = F /\ gs[i] = S
      BY <2>9, <2>10
    <3>3. Grid(gf, h.dims, gs).from[i] = F /\ Grid(gf, h.dims, gs).dims[i] = m
          /\ Grid(gf, h.dims, gs).strd[i] = S
      BY <2>10, <2>11, <3>1, <3>2, GridAxis
    <3> QED
      BY <1>8, <3>3
  <2> QED
    BY <2>2, <2>7, <2>10, <2>12
<1>10. g = [from |-> g.from, dims |-> g.dims, strd |-> g.strd]
  BY <1>8 DEF Grid
<1> QED
  BY <1>9, <1>10 DEF IsBlock

\* The values from one position of the volume to another.
Asked(from, to) == Extent(from, Each(LAMBDA i : to[i] - from[i] + 1))

LEMMA WindowIs ==
    ASSUME NEW n \in Lengths, NEW from \in Box(n), NEW to \in Box(n), AllLeq(from, to),
           NEW values, values = Asked(from, to)
    PROVE  IsWindow(n, values)
<1>1. PICK d : d = Each(LAMBDA i : to[i] - from[i] + 1) /\ values = Extent(from, d)
  BY DEF Asked
<1>2. ASSUME NEW i \in Axes
      PROVE  \E a \in Nat, b \in Nat, len \in Nat :
                /\ a = from[i] /\ b = to[i] /\ len = n[i] /\ a <= b /\ b < len
  <2>1. n[i] \in Nat /\ from[i] \in 0 .. n[i] - 1 /\ to[i] \in 0 .. n[i] - 1
    BY LengthsFit DEF Box, Axes
  <2>2. from[i] <= to[i]
    BY DEF AllLeq
  <2> QED
    BY <2>1, <2>2
<1>3. ASSUME NEW i \in Axes
      PROVE  d[i] \in Nat /\ from[i] \in Nat /\ from[i] <= n[i] /\ d[i] <= n[i]
             /\ d[i] = to[i] - from[i] + 1
  <2>1. d[i] = to[i] - from[i] + 1
    BY <1>1 DEF Each, Axes
  <2> QED
    BY <1>2, <2>1
<1>4. from \in Vectors /\ d \in Vectors
  <2>1. from = <<from[1], from[2], from[3]>>
    BY DEF Box
  <2>2. d = <<d[1], d[2], d[3]>>
    BY <1>1 DEF Each
  <2> QED
    BY <1>3, <2>1, <2>2 DEF Vectors, Axes
<1>5. values = [from |-> from, dims |-> d, strd |-> Vec(1)]
  BY <1>1, <1>3, <1>4, ExtentFits
<1>6. ASSUME NEW i \in Axes
      PROVE  /\ values.from[i] = from[i] /\ LastOf(values)[i] = to[i]
             /\ \A v : On(values, i, v) <=> v \in values.from[i] .. LastOf(values)[i]
  <2>1. PICK a \in Nat, b \in Nat : a = from[i] /\ b = to[i] /\ a <= b
    BY <1>2
  <2>2. d[i] = b - a + 1
    BY <1>3, <2>1
  <2>3. LastOf(values)[i] = values.from[i] + values.dims[i] * values.strd[i] - values.strd[i]
    BY DEF LastOf, Each, Axes
  <2>4. values.from[i] = a /\ values.dims[i] = d[i] /\ values.strd[i] = 1
    BY <1>5, <2>1 DEF Vec, Axes
  <2>5. LastOf(values)[i] = b
    BY <2>1, <2>2, <2>3, <2>4
  <2>6. \A v : On(values, i, v) <=> (v \in Nat /\ from[i] <= v /\ v < from[i] + d[i])
    BY <1>4, <1>5, ExtentOn
  <2>7. ASSUME NEW v
        PROVE  On(values, i, v) <=> v \in a .. b
    BY <2>1, <2>2, <2>6
  <2> QED
    BY <2>1, <2>4, <2>5, <2>7
<1>7. \A i \in Axes : WindowAxis(n[i], values.from[i], LastOf(values)[i])
  BY <1>2, <1>6 DEF WindowAxis
<1>8. ASSUME NEW p
      PROVE  p \in Points(values) <=>
                (/\ p = <<p[1], p[2], p[3]>>
                 /\ \A i \in Axes : p[i] \in values.from[i] .. LastOf(values)[i])
  <2>1. p \in Points(values) <=> (p = <<p[1], p[2], p[3]>> /\ \A i \in Axes : On(values, i, p[i]))
    BY PointOn
  <2> QED
    BY <1>6, <2>1
<1> QED
  BY <1>7, <1>8 DEF IsWindow

\* The footprint of one coefficient of a block meets the values.
FootprintMeets(sb, g, values, p) ==
    LET f == WavFootprint(2, sb, [g EXCEPT !.from = p, !.dims = Vec(1)])
    IN AllLeq(f.from, LastOf(values)) /\ AllLeq(values.from, LastOf(f))

LEMMA Footprint ==
    ASSUME NEW n, NEW levels, Searchable(n, levels), NEW sb, NEW g, IsBlock(n, levels, sb, g),
           NEW values, NEW p \in Points(g)
    PROVE  FootprintMeets(sb, g, values, p) <=> Reaches(sb, g, values, p)
<1>1. PICK c : c = [g EXCEPT !.from = p, !.dims = Vec(1)]
  OBVIOUS
<1>2. c.from = p /\ c.dims = Vec(1) /\ c.strd = g.strd
  <2>1. g = [from |-> g.from, dims |-> g.dims, strd |-> g.strd]
    BY DEF IsBlock
  <2> QED
    BY <1>1, <2>1
<1>3. PICK r, f : r = Reach(2, sb, g.strd) /\ f = WavFootprint(2, sb, c)
  OBVIOUS
<1>4. PICK a, d : /\ a = Each(LAMBDA i : c.from[i] - r[i])
                  /\ d = Each(LAMBDA i : LastOf(c)[i] - c.from[i] + 2 * r[i] + 1)
                  /\ f = Extent(a, d)
  BY <1>2, <1>3 DEF WavFootprint, Each
<1>5. ASSUME NEW i \in Axes
      PROVE  f.from[i] = p[i] - r[i] /\ LastOf(f)[i] = p[i] + r[i]
  <2>1. PICK A \in Nat, D \in Nat \ {0}, S \in Nat \ {0}, len \in Nat :
           /\ A = g.from[i] /\ D = g.dims[i] /\ S = g.strd[i] /\ len = n[i]
           /\ A + D * S - S < len /\ len < PackLimit
    BY ComponentsFit DEF IsBlock, BlockAxis
  <2>2. PICK R \in Nat : R = r[i] /\ 2 * R + 1 < PackLimit
    BY <1>3, ReachAxis
  <2>3. PICK v \in Nat : v = p[i] /\ v < len
    <3>1. Run(A, S, D, p[i])
      BY <2>1, PointOn DEF On
    <3>2. PICK k \in 0 .. D - 1 : p[i] = A + k * S
      BY <3>1 DEF Run
    <3>3. k * S <= D * S - S
      <4>1. k * S <= (D - 1) * S
        BY Ordered
      <4>2. (D - 1) * S = D * S - S
        OBVIOUS
      <4> QED
        BY <4>1, <4>2
    <3>4. k * S \in Nat /\ D * S \in Nat
      OBVIOUS
    <3> QED
      BY <2>1, <3>2, <3>3, <3>4
  <2>4. LastOf(c)[i] = v
    <3>1. LastOf(c)[i] = c.from[i] + c.dims[i] * c.strd[i] - c.strd[i]
      BY DEF LastOf, Each, Axes
    <3>2. c.from[i] = v /\ c.dims[i] = 1 /\ c.strd[i] = S
      BY <1>2, <2>1, <2>3 DEF Vec, Axes
    <3> QED
      BY <3>1, <3>2
  <2>5. a[i] = v - R /\ d[i] = 2 * R + 1
    <3>1. a[i] = c.from[i] - r[i] /\ d[i] = LastOf(c)[i] - c.from[i] + 2 * r[i] + 1
      BY <1>4 DEF Each, Axes
    <3>2. c.from[i] = v
      BY <1>2, <2>3
    <3> QED
      BY <2>2, <2>4, <3>1, <3>2
  <2>6. Vec(1)[i] = 1
    BY DEF Vec, Axes
  <2>7. f.from[i] = Pack(a[i]) /\ f.dims[i] = Pack(d[i]) /\ f.strd[i] = Pack(Vec(1)[i])
    BY <1>4 DEF Extent, Grid, Packed, Each, Pack, Axes
  <2>8. Pack(v - R) = v - R
    <3>1. 0 - PackLimit <= v - R /\ v - R < PackLimit /\ v - R \in Int
      BY <2>1, <2>2, <2>3, LimitNat
    <3> QED
      BY <3>1, PackSigned
  <2>9. Pack(2 * R + 1) = 2 * R + 1 /\ Pack(1) = 1
    <3>1. 2 * R + 1 \in Nat /\ 1 < PackLimit
      BY LimitNat
    <3> QED
      BY <2>2, <3>1, PackInt
  <2>10. LastOf(f)[i] = f.from[i] + f.dims[i] * f.strd[i] - f.strd[i]
    BY DEF LastOf, Each, Axes
  <2>11. f.from[i] = v - R /\ f.dims[i] = 2 * R + 1 /\ f.strd[i] = 1
    BY <2>5, <2>6, <2>7, <2>8, <2>9
  <2> QED
    BY <2>2, <2>3, <2>10, <2>11
<1>6. Reaches(sb, g, values, p) <=>
         \A i \in Axes : p[i] - r[i] <= LastOf(values)[i] /\ values.from[i] <= p[i] + r[i]
  BY <1>3 DEF Reaches, Meets
<1>7. FootprintMeets(sb, g, values, p) <=>
         (AllLeq(f.from, LastOf(values)) /\ AllLeq(values.from, LastOf(f)))
  BY <1>1, <1>3 DEF FootprintMeets
<1> QED
  BY <1>5, <1>6, <1>7 DEF AllLeq

\* What LookUp can have found.
Found(n, levels, sb, g, values, grids) ==
    /\ IsBlock(n, levels, sb, g) /\ IsWindow(n, values)
    /\ \A i \in Axes : HalfIn(sb, i) \in {0, 1}
    /\ grids = ComputeWavGrids(2, sb, values, g, Vec(1000))

LookupInv ==
    /\ phase = "lookup" => Searchable(task.n, task.levels)
    /\ look # NoLookup =>
          /\ phase = "lookup"
          /\ Found(task.n, task.levels, look.sb, look.g, look.values, look.grids)

\* It is exact.
LEMMA FoundExact ==
    ASSUME NEW n, NEW levels, Searchable(n, levels), NEW sb, NEW g, NEW values, NEW grids,
           Found(n, levels, sb, g, values, grids)
    PROVE  LET reaching == {p \in Points(g) : FootprintMeets(sb, g, values, p)}
           IN /\ Points(grids.wav) = reaching
              /\ reaching # {} =>
                   Points(grids.val) =
                     {p \in Points(values) : \A i \in Axes : p[i] % grids.val.strd[i] = 0}
<1>1. /\ IsBlock(n, levels, sb, g) /\ IsWindow(n, values)
      /\ \A i \in Axes : HalfIn(sb, i) \in {0, 1}
      /\ grids = ComputeWavGrids(2, sb, values, g, Vec(1000))
  BY DEF Found
<1>2. ASSUME NEW p
      PROVE  p \in Points(grids.wav) <=> (p \in Points(g) /\ FootprintMeets(sb, g, values, p))
  <2>1. p \in Points(grids.wav) <=> (p \in Points(g) /\ Reaches(sb, g, values, p))
    BY <1>1, WavIs
  <2>2. p \in Points(g) => (FootprintMeets(sb, g, values, p) <=> Reaches(sb, g, values, p))
    BY <1>1, Footprint
  <2> QED
    BY <2>1, <2>2
<1>3. ASSUME NEW q \in Points(grids.wav), NEW p
      PROVE  p \in Points(grids.val)
               <=> (p \in Points(values) /\ \A i \in Axes : p[i] % grids.val.strd[i] = 0)
  BY <1>1, <1>3, ValIs
<1>4. Points(grids.wav) = {p \in Points(g) : FootprintMeets(sb, g, values, p)}
  BY <1>2
<1>5. ASSUME NEW q \in Points(grids.wav)
      PROVE  Points(grids.val) =
                {p \in Points(values) : \A i \in Axes : p[i] % grids.val.strd[i] = 0}
  BY <1>3, <1>5
<1> QED
  BY <1>4, <1>5

\* A subband is the lower or the upper half of an axis.
LEMMA HalfOfBand ==
    ASSUME NEW n, NEW levels, Searchable(n, levels), NEW s \in DOMAIN SubbandExtents(n, levels),
           NEW i \in Axes
    PROVE  HalfIn(s - 1, i) \in {0, 1}
<1>1. n \in Lengths /\ levels \in Nat /\ NumDims(n) = 2
  BY DEF Searchable
<1>2. s \in 1 .. NBands(n, levels) /\ NBands(n, levels) \in Nat
  BY <1>1, FirstBands
<1>3. CASE s = 1
  <2>1. SubbandToLevel(2, 0, TRUE) = Vec(0)
    BY DEF SubbandToLevel
  <2>2. Vec(0)[i] = 0 /\ s - 1 = 0
    BY <1>3 DEF Vec, Axes
  <2> QED
    BY <2>1, <2>2 DEF HalfIn
<1>4. CASE s # 1
  <2>1. s \in 2 .. NBands(n, levels)
    BY <1>2, <1>4
  <2>2. PICK j \in 1 .. PerLevel(n) : j = NumOf(n, s)
    BY <1>1, <2>1, Numbered
  <2>3. PICK h \in {0, 1} \X {0, 1} \X {0, 1} : h = Halves(2, j)
    BY <1>1, <2>2, HalvesType DEF PerLevel
  <2>4. SubbandToLevel(2, s - 1, TRUE) = h
    BY <1>1, <2>1, <2>2, <2>3, LevelOfBand
  <2>5. h[i] \in {0, 1}
    BY DEF Axes
  <2> QED
    BY <2>4, <2>5 DEF HalfIn
<1> QED
  BY <1>3, <1>4

\* k is one of the first blocks of two that d coefficients start with.
LEMMA InHalves ==
    ASSUME NEW d \in Nat \ {0}, NEW k \in 0 .. (d - 1) \div 2
    PROVE  k \in Nat /\ 2 * k < d
<1>1. PICK q \in Nat, r \in 0 .. 1 : q = (d - 1) \div 2 /\ d - 1 = q * 2 + r
  BY Divided
<1> QED
  BY <1>1

\* A lookup finds something.
LEMMA LookUpStep ==
    ASSUME LookUp, Searchable(task.n, task.levels)
    PROVE  Found(task.n, task.levels, look'.sb, look'.g, look'.values, look'.grids)
<1>1. PICK n \in Lengths, levels \in Nat : n = task.n /\ levels = task.levels
  BY DEF Searchable
<1> DEFINE Extents == SubbandExtents(task.n, task.levels)
           halves(m) == 0 .. (m - 1) \div 2
           Finds(s, k, from, to) ==
              /\ AllLeq(from, to)
              /\ look' = [sb |-> s - 1, g |-> BlockOf(s, k), values |-> Asked(from, to),
                          grids |-> ComputeWavGrids(2, s - 1, Asked(from, to), BlockOf(s, k),
                                                    Vec(1000))]
<1>2. PICK s \in DOMAIN Extents :
         \E k \in halves(Extents[s].dims[1]) \X halves(Extents[s].dims[2]) \X {0},
            from \in Points(Extent(Vec(0), task.n)), to \in Points(Extent(Vec(0), task.n)) :
            Finds(s, k, from, to)
  BY Zenon DEF LookUp, Asked
<1>12. PICK k \in halves(Extents[s].dims[1]) \X halves(Extents[s].dims[2]) \X {0},
            from \in Points(Extent(Vec(0), task.n)), to \in Points(Extent(Vec(0), task.n)) :
            Finds(s, k, from, to)
  BY <1>2
<1>13. PICK e, g, values :
         /\ e = SubbandExtents(n, levels)[s] /\ g = BlockOf(s, k) /\ values = Asked(from, to)
         /\ s \in DOMAIN SubbandExtents(n, levels)
         /\ k \in (0 .. (e.dims[1] - 1) \div 2) \X (0 .. (e.dims[2] - 1) \div 2) \X {0}
  BY <1>1, <1>12
<1>3. /\ AllLeq(from, to) /\ from \in Box(n) /\ to \in Box(n)
      /\ look' = [sb |-> s - 1, g |-> g, values |-> values,
                  grids |-> ComputeWavGrids(2, s - 1, values, g, Vec(1000))]
  BY <1>1, <1>12, <1>13, WholeVolume
<1> HIDE DEF Extents, halves, Finds
<1>4. PICK sub : sub = SubbandGrids(n, levels)[s]
  OBVIOUS
<1>5. g = Taken(e, sub, k)
  BY <1>1, <1>13, <1>4 DEF BlockOf, Taken, Cropped, Corner, Each
<1>6. BandFits(n, levels, s - 1, e, sub) /\ e.strd = Vec(1)
  <2>1. BandFits(n, levels, s - 1, SubbandExtents(n, levels)[s], SubbandGrids(n, levels)[s])
    BY <1>1, <1>13, EveryFits
  <2>2. SubbandExtents(n, levels)[s].strd = Vec(1)
    BY <1>13, BandsAreExtents
  <2> QED
    BY <1>4, <1>13, <2>1, <2>2
<1>7. ASSUME NEW i \in Axes
      PROVE  k[i] \in Nat /\ 2 * k[i] < e.dims[i]
  <2>1. e.dims[i] \in Nat \ {0}
    BY <1>6 DEF BandFits, BlockAxis
  <2>2. CASE i = 3
    BY <1>13, <2>1, <2>2
  <2>3. CASE i # 3
    <3>1. k[i] \in 0 .. (e.dims[i] - 1) \div 2
      BY <1>13, <2>3 DEF Axes
    <3> QED
      BY <2>1, <3>1, InHalves
  <2> QED
    BY <2>2, <2>3
<1>8. IsBlock(n, levels, s - 1, g)
  BY <1>1, <1>5, <1>6, <1>7, BlockAt
<1>9. IsWindow(n, values)
  BY <1>3, <1>13, WindowIs
<1>10. \A i \in Axes : HalfIn(s - 1, i) \in {0, 1}
  BY <1>1, <1>13, HalfOfBand
<1>11. /\ look'.sb = s - 1 /\ look'.g = g /\ look'.values = values
       /\ look'.grids = ComputeWavGrids(2, s - 1, values, g, Vec(1000))
  BY <1>3
<1> QED
  BY <1>1, <1>8, <1>9, <1>10, <1>11 DEF Found

LEMMA WaveletLookupInv == Spec => []LookupInv
<1>1. Init => LookupInv
  <2> SUFFICES ASSUME Init PROVE LookupInv
    OBVIOUS
  <2>1. look = NoLookup
    BY DEF Init
  <2>2. ASSUME phase = "lookup" PROVE Searchable(task.n, task.levels)
    <3>1. ASSUME NEW kind, NEW cases, NEW heights, task \in Tasks(kind, cases, heights)
          PROVE  task.kind = kind
      BY <3>1, TaskOf
    <3>2. task.kind = "lookup"
      BY <2>2 DEF Init
    <3>3. task \in LookupTasks
      BY <3>1, <3>2 DEF Init
    <3>4. PICK c \in LookupCases : task.n = c[1] /\ task.levels = c[2]
      BY <3>3 DEF LookupTasks
    <3> QED
      BY <3>4, CasesAssumption
  <2> QED
    BY <2>1, <2>2 DEF LookupInv
<1>2. LookupInv /\ [Next]_vars => LookupInv'
  <2> SUFFICES ASSUME LookupInv, [Next]_vars
               PROVE  LookupInv'
    OBVIOUS
  <2>1. CASE LookUp
    <3>1. phase = "lookup" /\ task' = task /\ phase' = phase
      BY <2>1 DEF LookUp
    <3>2. Searchable(task.n, task.levels)
      BY <3>1 DEF LookupInv
    <3>3. Found(task.n, task.levels, look'.sb, look'.g, look'.values, look'.grids)
      BY <2>1, <3>2, LookUpStep
    <3> QED
      BY <3>1, <3>2, <3>3 DEF LookupInv
  <2>2. CASE EndLookUp
    BY <2>2 DEF EndLookUp, LookupInv
  <2>3. CASE ~LookUp /\ ~EndLookUp
    <3>1. /\ task' = task /\ look' = look
          /\ phase' = phase \/ (phase # "lookup" /\ phase' # "lookup")
      BY <2>3 DEF Next, vars, ForwardAxis, EndForward, InverseAxis, EndInverse, WriteTile,
             ReadTile, NextSubband, BeginDecode, EndRead, FormSubbands, LiftTile, AddTile,
             Done, Coding
    <3> QED
      BY <3>1 DEF LookupInv
  <2> QED
    BY <2>1, <2>2, <2>3
<1> QED
  BY <1>1, <1>2, PTL DEF Spec

\* ComputeWavGrids finds just the coefficients whose footprint meets the values
\* that are asked for, and the values at the multiples of its stride: for every
\* volume of two dimensions that can be searched, any block of a subband and any
\* part of the volume.
THEOREM WaveletLookups == Spec => []LookupsExact
<1>1. LookupInv => LookupsExact
  <2> SUFFICES ASSUME LookupInv, look # NoLookup PROVE LookupsExact
    BY DEF LookupsExact
  <2>1. Searchable(task.n, task.levels)
        /\ Found(task.n, task.levels, look.sb, look.g, look.values, look.grids)
    BY DEF LookupInv
  <2>2. LET reaching == {p \in Points(look.g) : FootprintMeets(look.sb, look.g, look.values, p)}
        IN /\ Points(look.grids.wav) = reaching
           /\ reaching # {} =>
                Points(look.grids.val) =
                  {p \in Points(look.values) : \A i \in Axes : p[i] % look.grids.val.strd[i] = 0}
    BY <2>1, FoundExact
  <2> QED
    BY <2>2 DEF LookupsExact, FootprintMeets
<1> QED
  BY <1>1, WaveletLookupInv, PTL

-----------------------------------------------------------------------------
(* The transform in place is that of the codec, but for the places.        *)

\* The length of an axis at level l, where nothing is extrapolated.
FormAxis(m, L, l, c) ==
    /\ c \in Nat \ {0} /\ Spot(0, 2 ^ l, c - 1) = m - 1 /\ Closed(m, l) = c
    /\ m = 1 => c = 1
    /\ m > 1 => c > 1 /\ 2 ^ l < m
    /\ l < L => c % 2 = 1 /\ Steps(m, 2 ^ (l + 1)) = (c + 1) \div 2

LEMMA FormLength ==
    ASSUME NEW m \in Nat \ {0}, NEW L \in Nat, (m - 1) % 2 ^ L = 0, NEW l \in 0 .. L
    PROVE  FormAxis(m, L, l, Steps(m, 2 ^ l))
<1>1. PICK b \in Nat : b = m - 1 /\ (b % 2 ^ L) = 0
  OBVIOUS
<1>2. ASSUME NEW k \in 0 .. L
      PROVE  \E P \in Nat \ {0}, q \in Nat : /\ P = 2 ^ k /\ b = q * P /\ b = q * P + 0
                                             /\ Steps(m, P) = q + 1
  <2>1. PICK P \in Nat \ {0} : P = 2 ^ k
    BY PowPos
  <2>2. (b % P) = 0
    BY <1>1, <2>1, Coarser
  <2>3. PICK q \in Nat, e \in 0 .. P - 1 : e = b % P /\ b = q * P + e
    BY Divided
  <2>4. b = q * P /\ b = q * P + 0
    BY <2>2, <2>3
  <2>5. PICK a \in Nat, d \in Nat : a = m + P - 1 /\ d = q + 1
    OBVIOUS
  <2>6. a = d * P + 0 /\ 0 \in 0 .. P - 1
    <3>1. d * P = q * P + P
      BY <2>5
    <3> QED
      BY <1>1, <2>4, <2>5, <3>1
  <2>7. (a \div P) = d
    BY <2>6, DivMod
  <2> QED
    BY <2>1, <2>4, <2>5, <2>7 DEF Steps
<1>3. PICK P \in Nat \ {0}, q \in Nat : P = 2 ^ l /\ b = q * P /\ Steps(m, P) = q + 1
  BY <1>2
<1>4. PICK c \in Nat \ {0} : c = q + 1 /\ c - 1 = q /\ c = Steps(m, 2 ^ l)
  BY <1>3
<1>5. Spot(0, 2 ^ l, c - 1) = m - 1
  BY <1>1, <1>3, <1>4 DEF Spot
<1>6. ASSUME m = 1
      PROVE  c = 1 /\ Closed(m, l) = c
  <2>1. q * P = 0
    BY <1>1, <1>3, <1>6
  <2>2. q = 0
    BY <2>1
  <2> QED
    BY <1>4, <1>6, <2>2 DEF Closed
<1>7. ASSUME m > 1
      PROVE  c > 1 /\ P < m /\ Closed(m, l) = c
  <2>1. q # 0
    <3>1. q * P # 0
      BY <1>1, <1>3, <1>7
    <3> QED
      BY <3>1
  <2>2. PICK x \in Nat : x = q - 1
    BY <2>1
  <2>3. P <= q * P
    <3>1. 1 <= q
      BY <2>1
    <3>2. 1 * P <= q * P
      BY <3>1, Ordered
    <3> QED
      BY <3>2
  <2>4. PICK a \in Nat : a = m - 2
    BY <1>7
  <2>5. a = x * P + (P - 1)
    <3>1. x * P = q * P - P
      BY <2>2
    <3> QED
      BY <1>1, <1>3, <2>4, <3>1
  <2>6. (a \div P) = x
    BY <2>5, JustBefore
  <2>7. Closed(m, l) = x + 2
    BY <1>3, <1>7, <2>4, <2>6 DEF Closed
  <2> QED
    BY <1>1, <1>3, <1>4, <2>1, <2>2, <2>3, <2>7
<1>8. ASSUME l < L
      PROVE  c % 2 = 1 /\ Steps(m, 2 ^ (l + 1)) = (c + 1) \div 2
  <2>1. l + 1 \in 0 .. L
    BY <1>8
  <2>2. PICK Q \in Nat \ {0}, h \in Nat : Q = 2 ^ (l + 1) /\ b = h * Q /\ Steps(m, Q) = h + 1
    BY <1>2, <2>1
  <2>3. Q = 2 * P
    BY <1>3, <2>2, PowDouble
  <2>4. q = 2 * h
    <3>1. PICK e \in Nat : e = 2 * h
      OBVIOUS
    <3>2. h * (2 * P) = (2 * h) * P
      OBVIOUS
    <3>3. q * P = e * P
      BY <1>3, <2>2, <2>3, <3>1, <3>2
    <3>4. q <= e /\ e <= q
      BY <3>3, Ordered
    <3> QED
      BY <3>1, <3>4
  <2>5. c = h * 2 + 1 /\ c + 1 = (h + 1) * 2 + 0
    BY <1>4, <2>4
  <2>6. c % 2 = 1 /\ (c + 1) \div 2 = h + 1
    BY <2>5
  <2> QED
    BY <2>2, <2>6
<1>9. m = 1 \/ m > 1
  OBVIOUS
<1> QED
  BY <1>3, <1>4, <1>5, <1>6, <1>7, <1>8, <1>9 DEF FormAxis

-----------------------------------------------------------------------------
(* Where a pass of either transform leaves the samples.                    *)

\* A row of what is left to a level of the codec's transform.
RowLeft(v, n, a, m, q) == [x \in 0 .. m[a] - 1 |-> v[Row(n, Put(q, a, x))]]
Moves(m, a, q) == Put(q, a, HalfPlace((m[a] + 1) \div 2, q[a]))

PassedOld(w, v, n, a, m) ==
    /\ w \in [Indices(n) -> Int]
    /\ \A q \in Box(m) :
          w[Row(n, Moves(m, a, q))] = LiftedAt(RowLeft(v, n, a, m, q), m[a], q[a])
    /\ \A p \in Box(n) : p \notin Box(m) => w[Row(n, p)] = v[Row(n, p)]

LEMMA HalfFits ==
    ASSUME NEW c \in Nat \ {0}, NEW x \in 0 .. c - 1
    PROVE  HalfPlace((c + 1) \div 2, x) \in 0 .. c - 1
<1>1. PICK h \in Nat : h = (c + 1) \div 2 /\ (c = 2 * h \/ c = 2 * h - 1)
  OBVIOUS
<1>2. CASE x % 2 = 0
  <2>1. (x \div 2) \in 0 .. c - 1
    OBVIOUS
  <2> QED
    BY <1>1, <1>2, <2>1 DEF HalfPlace
<1>3. CASE x % 2 = 1
  <2>1. PICK y \in Nat : y = x \div 2 /\ x = 2 * y + 1
    BY <1>3
  <2>2. h + y \in 0 .. c - 1
    BY <1>1, <2>1
  <2> QED
    BY <1>1, <1>3, <2>1, <2>2 DEF HalfPlace
<1> QED
  BY <1>2, <1>3

LEMMA OldSingle ==
    ASSUME NEW n \in Sizes, NEW m \in Sizes, NEW a \in Axes, m[a] = 1,
           \A i \in Axes : m[i] <= n[i], NEW v \in [Indices(n) -> Int]
    PROVE  PassedOld(v, v, n, a, m)
<1>1. ASSUME NEW q \in Box(m)
      PROVE  v[Row(n, Moves(m, a, q))] = LiftedAt(RowLeft(v, n, a, m, q), m[a], q[a])
  <2>1. Triple(q) /\ \A i \in Axes : q[i] \in 0 .. m[i] - 1
    BY InBox
  <2>2. q[a] = 0
    BY <2>1
  <2>3. Put(q, a, 0) = q
    BY <2>1, <2>2, PutAgain
  <2>4. HalfPlace((1 + 1) \div 2, 0) = 0
    BY DEF HalfPlace
  <2>5. Moves(m, a, q) = q
    BY <2>2, <2>3, <2>4 DEF Moves
  <2>6. q \in Box(n)
    <3>1. \A i \in Axes : n[i] \in Nat /\ m[i] \in Nat
      BY DEF Sizes, Axes
    <3>2. ASSUME NEW i \in Axes
          PROVE  q[i] \in 0 .. n[i] - 1
      <4>1. n[i] \in Nat /\ m[i] \in Nat /\ m[i] <= n[i] /\ q[i] \in 0 .. m[i] - 1
        BY <2>1, <3>1
      <4> QED
        BY <4>1
    <3> QED
      BY <2>1, <3>2, InBox
  <2>7. PICK y \in Int : y = v[Row(n, q)]
    BY <2>6, RowAt
  <2>8. PICK r : r = RowLeft(v, n, a, m, q)
    OBVIOUS
  <2>9. r[0] = y
    BY <2>3, <2>7, <2>8 DEF RowLeft
  <2>10. FromLeft(r, 0) = 0 /\ FromRight(r, 1, 0) = 0
    BY DEF FromLeft, FromRight
  <2>11. LiftedAt(r, 1, 0) = y + (0 + 0)
    BY <2>9, <2>10 DEF LiftedAt
  <2> QED
    BY <2>2, <2>5, <2>7, <2>8, <2>11
<1> QED
  BY <1>1 DEF PassedOld

LEMMA PassOld ==
    ASSUME NEW n \in Sizes, NEW m \in Sizes, NEW a \in Axes, m[a] % 2 = 1,
           \A i \in Axes : m[i] <= n[i], NEW v \in [Indices(n) -> Int]
    PROVE  PassedOld(ForwardOld(v, n, a, m), v, n, a, m)
<1>1. \A i \in Axes : n[i] \in Nat \ {0} /\ m[i] \in Nat \ {0}
  BY DEF Sizes, Axes
<1>2. CASE m[a] = 1
  <2>1. ForwardOld(v, n, a, m) = v
    BY <1>2 DEF ForwardOld
  <2> QED
    BY <1>2, <2>1, OldSingle
<1>3. CASE m[a] # 1
  <2>1. PICK c \in Nat \ {0}, N \in Nat \ {0} : c = m[a] /\ N = n[a] /\ c > 1 /\ c % 2 = 1 /\ c <= N
    BY <1>1, <1>3
  <2>2. PICK w \in [Indices(n) -> Int] : w = ForwardOld(v, n, a, m)
    BY PassUndone
  <2> DEFINE FL(q) == FLiftOld(RowOf(v, n, a, q), c)
  <2>3. w = [i \in DOMAIN v |-> IF StartOf(n, a, i) \in Starts(m, a)
                                THEN FL(StartOf(n, a, i))[Position(n, i)[a]] ELSE v[i]]
    BY <2>1, <2>2, ForwardIs
  <2> HIDE DEF FL
  <2>4. ASSUME NEW e \in Box(n)
        PROVE  /\ Row(n, e) \in Indices(n) /\ e[a] \in 0 .. N - 1
               /\ w[Row(n, e)] = IF Put(e, a, 0) \in Starts(m, a)
                                 THEN FL(Put(e, a, 0))[e[a]] ELSE v[Row(n, e)]
    <3>1. Row(n, e) \in Indices(n) /\ Position(n, Row(n, e)) = e
      BY RowAt
    <3>2. StartOf(n, a, Row(n, e)) = Put(e, a, 0)
      BY <3>1 DEF StartOf, Put
    <3>3. e[a] \in 0 .. N - 1
      BY <2>1, InBox
    <3> QED
      BY <2>3, <3>1, <3>2, <3>3
  <2>5. ASSUME NEW e \in Box(n)
        PROVE  Put(e, a, 0) \in Starts(m, a) <=> \A i \in Axes : i # a => e[i] \in 0 .. m[i] - 1
    <3>1. Triple(e)
      BY InBox
    <3>2. PICK q : /\ q = Put(e, a, 0) /\ Triple(q)
                   /\ \A i \in Axes : q[i] = IF i = a THEN 0 ELSE e[i]
      BY <3>1, Replaced
    <3>3. q \in Starts(m, a) <=> (q \in Box(m) /\ q[a] = 0)
      BY DEF Starts, Box
    <3>4. q \in Box(m) <=> \A i \in Axes : q[i] \in 0 .. m[i] - 1
      BY <3>2, InBox
    <3>5. q[a] = 0 /\ 0 \in 0 .. m[a] - 1
      BY <1>1, <3>2
    <3>6. (\A i \in Axes : q[i] \in 0 .. m[i] - 1)
            <=> (\A i \in Axes : i # a => e[i] \in 0 .. m[i] - 1)
      BY <3>2, <3>5
    <3> QED
      BY <3>2, <3>3, <3>4, <3>5, <3>6
  <2>6. ASSUME NEW e \in Box(n), NEW r, r = RowOf(v, n, a, Put(e, a, 0))
        PROVE  /\ LiftsOld(FL(Put(e, a, 0)), r, c) /\ DOMAIN r = 0 .. N - 1
               /\ \A x \in 0 .. N - 1 : r[x] = v[Row(n, Put(e, a, x))]
    <3>1. r \in [0 .. N - 1 -> Int] /\ \A x \in 0 .. N - 1 : r[x] = v[Row(n, Put(e, a, x))]
      BY <2>1, <2>6, RowThrough
    <3>2. LiftsOld(FLiftOld(r, c), r, c)
      BY <2>1, <3>1, OldRow
    <3> QED
      BY <2>6, <3>1, <3>2 DEF FL
  <2>7. ASSUME NEW q \in Box(m)
        PROVE  w[Row(n, Moves(m, a, q))] = LiftedAt(RowLeft(v, n, a, m, q), c, q[a])
    <3>1. Triple(q) /\ \A i \in Axes : q[i] \in 0 .. m[i] - 1
      BY InBox
    <3>2. PICK h \in 0 .. c - 1 : h = HalfPlace((c + 1) \div 2, q[a])
      BY <2>1, <3>1, HalfFits
    <3>3. PICK e : /\ e = Put(q, a, h) /\ Triple(e)
                   /\ \A i \in Axes : e[i] = IF i = a THEN h ELSE q[i]
      BY <3>1, Replaced
    <3>4. Moves(m, a, q) = e
      BY <2>1, <3>2, <3>3 DEF Moves
    <3>5. ASSUME NEW i \in Axes
          PROVE  e[i] \in 0 .. n[i] - 1
      <4>1. n[i] \in Nat /\ m[i] \in Nat /\ m[i] <= n[i] /\ q[i] \in 0 .. m[i] - 1
        BY <1>1, <3>1
      <4>2. e[i] = IF i = a THEN h ELSE q[i]
        BY <3>3
      <4>3. CASE i = a
        BY <2>1, <4>2, <4>3
      <4>4. CASE i # a
        BY <4>1, <4>2, <4>4
      <4> QED
        BY <4>3, <4>4
    <3>6. e \in Box(n)
      BY <3>3, <3>5, InBox
    <3>7. Put(e, a, 0) \in Starts(m, a)
      BY <2>5, <3>1, <3>3, <3>6
    <3>8. PICK r : r = RowOf(v, n, a, Put(e, a, 0))
      OBVIOUS
    <3>9. e[a] = h
      BY <3>3
    <3>10. w[Row(n, e)] = FL(Put(e, a, 0))[h]
      BY <2>4, <3>6, <3>7, <3>9
    <3>11. FL(Put(e, a, 0))[h] = LiftedAt(Strided(r, 0, 1, c), c, q[a])
      <4>1. LiftsOld(FL(Put(e, a, 0)), r, c)
        BY <2>6, <3>6, <3>8
      <4> QED
        BY <2>1, <3>1, <3>2, <4>1 DEF LiftsOld
    <3>12. ASSUME NEW x \in 0 .. c - 1
           PROVE  r[Spot(0, 1, x)] = v[Row(n, Put(q, a, x))]
      <4>1. Spot(0, 1, x) = x /\ x \in 0 .. N - 1
        BY <2>1 DEF Spot
      <4>2. r[x] = v[Row(n, Put(e, a, x))]
        BY <2>6, <3>6, <3>8, <4>1
      <4>3. Put(e, a, x) = Put(q, a, x)
        BY <3>1, <3>3, PutAgain
      <4> QED
        BY <4>1, <4>2, <4>3
    <3>13. Strided(r, 0, 1, c) = RowLeft(v, n, a, m, q)
      BY <2>1, <3>12 DEF Strided, RowLeft
    <3> QED
      BY <3>4, <3>10, <3>11, <3>13
  <2>8. ASSUME NEW e \in Box(n), e \notin Box(m)
        PROVE  w[Row(n, e)] = v[Row(n, e)]
    <3>1. CASE Put(e, a, 0) \in Starts(m, a)
      <4>1. Triple(e) /\ \A i \in Axes : e[i] \in 0 .. n[i] - 1
        BY InBox
      <4>2. ~(e[a] \in 0 .. m[a] - 1)
        BY <2>5, <2>8, <3>1, <4>1, InBox
      <4>3. e[a] \in 0 .. N - 1 /\ e[a] >= c
        BY <2>1, <4>1, <4>2
      <4>4. PICK r : r = RowOf(v, n, a, Put(e, a, 0))
        OBVIOUS
      <4>5. FL(Put(e, a, 0))[e[a]] = r[e[a]] /\ r[e[a]] = v[Row(n, Put(e, a, e[a]))]
        BY <2>6, <4>3, <4>4 DEF LiftsOld
      <4>6. Put(e, a, e[a]) = e
        BY <4>1, PutAgain
      <4> QED
        BY <2>4, <3>1, <4>5, <4>6
    <3>2. CASE Put(e, a, 0) \notin Starts(m, a)
      BY <2>4, <3>2
    <3> QED
      BY <3>1, <3>2
  <2> QED
    BY <2>1, <2>2, <2>7, <2>8 DEF PassedOld
<1> QED
  BY <1>2, <1>3

\* A volume that is transformed without an extrapolated sample.
FormVolume(n, L) == n \in Lengths /\ FlatLast(n) /\ L \in Nat /\ NeverExtrapolates(n, L)

LEMMA FormLeft ==
    ASSUME NEW n, NEW L, FormVolume(n, L), NEW l \in 0 .. L, NEW i \in Axes
    PROVE  /\ FormAxis(n[i], L, l, DimsLeft(n, l)[i])
           /\ l < L => DimsLeft(n, l + 1)[i] = (DimsLeft(n, l)[i] + 1) \div 2
<1>1. n \in Lengths /\ L \in Nat /\ l \in Nat /\ l + 1 \in Nat
  BY DEF FormVolume
<1>2. PICK m \in Nat \ {0} : m = n[i]
  BY <1>1, LengthsFit
<1>3. (m - 1) % 2 ^ L = 0
  BY <1>2 DEF FormVolume, NeverExtrapolates
<1>4. FormAxis(m, L, l, Steps(m, 2 ^ l))
  BY <1>1, <1>2, <1>3, FormLength
<1>5. DimsLeft(n, l)[i] = Steps(m, 2 ^ l) /\ DimsLeft(n, l + 1)[i] = Steps(m, 2 ^ (l + 1))
  BY <1>1, <1>2, LeftIs
<1> QED
  BY <1>2, <1>4, <1>5 DEF FormAxis

\* The grid of a pass in place.
FormGrid(g, n, l) ==
    \A i \in Axes :
       /\ g.from[i] = 0 /\ g.dims[i] = DimsLeft(n, l)[i] /\ g.strd[i] \in Int
       /\ DimsLeft(n, l)[i] > 1 => g.strd[i] = 2 ^ l

LEMMA PassGridOf ==
    ASSUME NEW n, NEW L, FormVolume(n, L), NEW l \in 0 .. L - 1, NEW k \in Nat, l = LevelOf(k)
    PROVE  FormGrid(PassGrid(n, k), n, l)
<1>1. n \in Lengths /\ L \in Nat /\ l \in Nat /\ l \in 0 .. L
  BY DEF FormVolume
<1>2. PICK d : d = GridDims(n, l)
  OBVIOUS
<1> DEFINE ext(i) == IF i < AxisOf(k) /\ Extrapolates(d[i]) THEN 1 ELSE 0
           sums == <<d[1] + ext(1), d[2] + ext(2), d[3] + ext(3)>>
<1>3. PassGrid(n, k) = Grid(Vec(0), sums, Vec(2 ^ l))
  BY <1>2 DEF PassGrid, Each
<1>4. ASSUME NEW i \in Axes
      PROVE  sums[i] = DimsLeft(n, l)[i]
  <2>1. PICK c \in Nat \ {0} : c = DimsLeft(n, l)[i] /\ Closed(n[i], l) = c /\ c % 2 = 1
    BY <1>1, FormLeft DEF FormAxis
  <2>2. d[i] = c
    BY <1>1, <1>2, <2>1, GridDimsAre
  <2>3. ext(i) = 0
    BY <2>1, <2>2 DEF Extrapolates
  <2> HIDE DEF ext
  <2>4. sums[i] = d[i] + ext(i)
    BY DEF Axes
  <2> HIDE DEF sums
  <2>5. c + 0 = c
    OBVIOUS
  <2> QED
    BY <2>1, <2>2, <2>3, <2>4, <2>5
<1> HIDE DEF sums
<1>5. ASSUME NEW i \in Axes
      PROVE  /\ PassGrid(n, k).from[i] = 0 /\ PassGrid(n, k).dims[i] = DimsLeft(n, l)[i]
             /\ PassGrid(n, k).strd[i] \in Int
             /\ DimsLeft(n, l)[i] > 1 => PassGrid(n, k).strd[i] = 2 ^ l
  <2>1. PICK c \in Nat \ {0}, m \in Nat \ {0} :
           /\ c = DimsLeft(n, l)[i] /\ m = n[i] /\ m < PackLimit /\ c <= m
           /\ FormAxis(m, L, l, c)
    <3>1. n[i] \in Nat \ {0} /\ n[i] < PackLimit
      BY <1>1, LengthsFit
    <3>2. DimsLeft(n, l)[i] \in 1 .. n[i]
      BY <1>1, LeftFacts
    <3>3. FormAxis(n[i], L, l, DimsLeft(n, l)[i])
      BY <1>1, FormLeft
    <3>4. DimsLeft(n, l)[i] \in Nat \ {0} /\ DimsLeft(n, l)[i] <= n[i]
      BY <3>1, <3>2
    <3> QED
      BY <3>1, <3>3, <3>4
  <2>2. PICK p \in Nat : p = 2 ^ l
    BY <1>1, PowNat
  <2>3. c > 1 => p < PackLimit
    <3>1. c > 1 => p < m
      BY <2>1, <2>2 DEF FormAxis
    <3> QED
      BY <2>1, <2>2, <3>1, LimitNat
  <2>4. /\ PassGrid(n, k).from[i] = Pack(0) /\ PassGrid(n, k).dims[i] = Pack(c)
        /\ PassGrid(n, k).strd[i] = Pack(p)
    <3>1. Vec(0)[i] = 0 /\ Vec(2 ^ l)[i] = p /\ sums[i] = c
      BY <1>4, <2>1, <2>2 DEF Vec, Axes
    <3>2. \A v : Packed(v)[i] = Pack(v[i])
      BY DEF Packed, Each, Pack, Axes
    <3> QED
      BY <1>3, <3>1, <3>2 DEF Grid
  <2>5. Pack(0) = 0
    <3>1. 0 \in Nat /\ 0 < PackLimit
      BY LimitNat
    <3> QED
      BY <3>1, PackInt
  <2>6. Pack(c) = c
    <3>1. c \in Nat /\ c < PackLimit
      BY <2>1, LimitNat
    <3> QED
      BY <3>1, PackInt
  <2>7. Pack(p) \in Int /\ (c > 1 => Pack(p) = p)
    BY <2>2, <2>3, PackInt
  <2> QED
    BY <2>1, <2>2, <2>4, <2>5, <2>6, <2>7
<1> QED
  BY <1>5 DEF FormGrid

LEMMA PassFits ==
    ASSUME NEW n, NEW L, FormVolume(n, L), NEW l \in 0 .. L - 1, NEW g, FormGrid(g, n, l),
           NEW a \in Axes
    PROVE  GridFits(g, n, a)
<1>1. n \in Lengths /\ L \in Nat /\ l \in Nat /\ l \in 0 .. L
  BY DEF FormVolume
<1>2. ASSUME NEW i \in Axes
      PROVE  /\ n[i] \in Nat \ {0} /\ g.from[i] \in Nat /\ g.dims[i] \in Nat \ {0}
             /\ g.strd[i] \in Int
             /\ g.dims[i] > 1 => g.strd[i] \in Nat \ {0}
             /\ Spot(g.from[i], g.strd[i], g.dims[i] - 1) < n[i]
             /\ g.dims[i] % 2 = 1
  <2>1. PICK m \in Nat \ {0} : m = n[i]
    BY <1>1, LengthsFit
  <2>2. PICK c \in Nat \ {0} : /\ c = DimsLeft(n, l)[i] /\ FormAxis(m, L, l, c)
                               /\ Spot(0, 2 ^ l, c - 1) = m - 1 /\ c % 2 = 1
    BY <1>1, <2>1, FormLeft DEF FormAxis
  <2>3. PICK s \in Int : s = g.strd[i] /\ (c > 1 => s = 2 ^ l)
    BY <2>2 DEF FormGrid
  <2>4. g.from[i] = 0 /\ g.dims[i] = c
    BY <2>2 DEF FormGrid
  <2>5. c > 1 => s \in Nat \ {0} /\ Spot(0, s, c - 1) < m
    <3>1. 2 ^ l \in Nat \ {0}
      BY <1>1, PowPos
    <3>2. m - 1 < m
      OBVIOUS
    <3> QED
      BY <2>2, <2>3, <3>1, <3>2
  <2>6. c = 1 => Spot(0, s, c - 1) < m
    <3>1. 0 + 0 * s = 0 /\ 0 < m /\ 1 - 1 = 0
      OBVIOUS
    <3> QED
      BY <3>1 DEF Spot
  <2>7. c = 1 \/ c > 1
    BY <2>2
  <2> QED
    BY <2>1, <2>2, <2>3, <2>4, <2>5, <2>6, <2>7
<1> QED
  BY <1>2 DEF GridFits

\* Where the transform in place has sample number j of level l.
InPlaceAt(l, j) == Each(LAMBDA i : Spot(0, 2 ^ l, j[i]))

LEMMA InPlaceAxis ==
    ASSUME NEW l, NEW j
    PROVE  /\ Triple(InPlaceAt(l, j))
           /\ \A i \in Axes : InPlaceAt(l, j)[i] = Spot(0, 2 ^ l, j[i])
BY DEF InPlaceAt, Each, Triple, Axes

LEMMA SpotsOfPass ==
    ASSUME NEW n, NEW L, FormVolume(n, L), NEW l \in 0 .. L - 1, NEW g, FormGrid(g, n, l),
           NEW j, j \in Box(DimsLeft(n, l))
    PROVE  SpotAt(g, j) = InPlaceAt(l, j) /\ j \in Box(g.dims)
<1>1. Triple(j) /\ \A i \in Axes : j[i] \in 0 .. DimsLeft(n, l)[i] - 1
  BY InBox
<1>2. PICK p, q : /\ p = SpotAt(g, j) /\ Triple(p)
                  /\ \A i \in Axes : p[i] = Spot(g.from[i], g.strd[i], j[i])
                  /\ q = InPlaceAt(l, j) /\ Triple(q)
                  /\ \A i \in Axes : q[i] = Spot(0, 2 ^ l, j[i])
  BY SpotAxis, InPlaceAxis
<1>3. ASSUME NEW i \in Axes
      PROVE  p[i] = q[i]
  <2>1. PICK c \in Nat \ {0} : c = DimsLeft(n, l)[i] /\ j[i] \in 0 .. c - 1
    <3>1. n \in Lengths /\ l \in Nat
      BY DEF FormVolume
    <3>2. DimsLeft(n, l)[i] \in Nat \ {0}
      <4>1. n[i] \in Nat /\ DimsLeft(n, l)[i] \in 1 .. n[i]
        BY <3>1, LeftFacts, LengthsFit
      <4> QED
        BY <4>1
    <3> QED
      BY <1>1, <3>2
  <2>2. PICK s \in Int : s = g.strd[i] /\ (c > 1 => s = 2 ^ l) /\ g.from[i] = 0
    BY <2>1 DEF FormGrid
  <2>3. CASE c > 1
    BY <1>2, <2>2, <2>3
  <2>4. CASE c = 1
    <3>1. j[i] = 0
      BY <2>1, <2>4
    <3>2. PICK t \in Int : t = 2 ^ l
      <4>1. l \in Nat
        BY DEF FormVolume
      <4> QED
        BY <4>1, PowNat
    <3>3. 0 + 0 * s = 0 /\ 0 + 0 * t = 0
      OBVIOUS
    <3> QED
      BY <1>2, <2>2, <3>1, <3>2, <3>3 DEF Spot
  <2> QED
    BY <2>1, <2>3, <2>4
<1>4. j \in Box(g.dims)
  <2>1. \A i \in Axes : g.dims[i] = DimsLeft(n, l)[i]
    BY DEF FormGrid
  <2> QED
    BY <1>1, <2>1, InBox
<1> QED
  BY <1>2, <1>3, <1>4, SameTriple

\* Where the codec's transform has it, when the first b axes of the level are
\* transformed.
SentTo(n, l, b, j) ==
    Each(LAMBDA i : IF i <= b THEN HalfPlace(DimsLeft(n, l + 1)[i], j[i]) ELSE j[i])

LEMMA SentAxis ==
    ASSUME NEW n, NEW l, NEW b, NEW j
    PROVE  /\ Triple(SentTo(n, l, b, j))
           /\ \A i \in Axes : SentTo(n, l, b, j)[i] =
                 IF i <= b THEN HalfPlace(DimsLeft(n, l + 1)[i], j[i]) ELSE j[i]
BY DEF SentTo, Each, Triple, Axes

LEMMA FormAxisOf ==
    ASSUME NEW n, NEW L, FormVolume(n, L), NEW l \in 0 .. L, NEW i \in Axes
    PROVE  /\ n[i] \in Nat \ {0} /\ DimsLeft(n, l)[i] \in Nat \ {0}
           /\ DimsLeft(n, l)[i] <= n[i]
           /\ Spot(0, 2 ^ l, DimsLeft(n, l)[i] - 1) = n[i] - 1
           /\ l < L => /\ DimsLeft(n, l)[i] % 2 = 1
                       /\ DimsLeft(n, l + 1)[i] = (DimsLeft(n, l)[i] + 1) \div 2
<1>1. n \in Lengths /\ l \in Nat
  BY DEF FormVolume
<1>2. n[i] \in Nat \ {0} /\ DimsLeft(n, l)[i] \in 1 .. n[i]
  BY <1>1, LeftFacts, LengthsFit
<1>3. DimsLeft(n, l)[i] \in Nat \ {0} /\ DimsLeft(n, l)[i] <= n[i]
  BY <1>2
<1> QED
  BY <1>2, <1>3, FormLeft DEF FormAxis

LEMMA InsideLevel ==
    ASSUME NEW n, NEW L, FormVolume(n, L), NEW l \in 0 .. L, NEW j, j \in Box(DimsLeft(n, l))
    PROVE  InPlaceAt(l, j) \in Box(n) /\ j \in Box(n)
<1>1. Triple(j) /\ \A i \in Axes : j[i] \in 0 .. DimsLeft(n, l)[i] - 1
  BY InBox
<1>2. Triple(InPlaceAt(l, j)) /\ \A i \in Axes : InPlaceAt(l, j)[i] = Spot(0, 2 ^ l, j[i])
  BY InPlaceAxis
<1>3. ASSUME NEW i \in Axes
      PROVE  Spot(0, 2 ^ l, j[i]) \in 0 .. n[i] - 1 /\ j[i] \in 0 .. n[i] - 1
  <2>1. PICK c \in Nat \ {0}, m \in Nat \ {0} :
           c = DimsLeft(n, l)[i] /\ m = n[i] /\ c <= m /\ Spot(0, 2 ^ l, c - 1) = m - 1
    BY FormAxisOf
  <2>2. PICK s \in Nat \ {0} : s = 2 ^ l
    <3>1. l \in Nat
      BY DEF FormVolume
    <3> QED
      BY <3>1, PowPos
  <2>3. j[i] \in 0 .. c - 1 /\ m - 1 < m /\ 0 \in Nat
    BY <1>1, <2>1
  <2>4. Spot(0, s, j[i]) \in 0 .. m - 1
    BY <2>1, <2>2, <2>3, SpotsFit
  <2> QED
    BY <2>1, <2>2, <2>3, <2>4
<1> QED
  BY <1>1, <1>2, <1>3, InBox

LEMMA SentInside ==
    ASSUME NEW n, NEW L, FormVolume(n, L), NEW l \in 0 .. L - 1, NEW b \in 0 .. 3,
           NEW j, j \in Box(DimsLeft(n, l))
    PROVE  SentTo(n, l, b, j) \in Box(DimsLeft(n, l))
<1>1. Triple(j) /\ \A i \in Axes : j[i] \in 0 .. DimsLeft(n, l)[i] - 1
  BY InBox
<1>2. ASSUME NEW i \in Axes
      PROVE  SentTo(n, l, b, j)[i] \in 0 .. DimsLeft(n, l)[i] - 1
  <2>1. l \in 0 .. L /\ l < L
    BY DEF FormVolume
  <2>2. PICK c \in Nat \ {0} : c = DimsLeft(n, l)[i] /\ DimsLeft(n, l + 1)[i] = (c + 1) \div 2
    BY <2>1, FormAxisOf
  <2>3. HalfPlace((c + 1) \div 2, j[i]) \in 0 .. c - 1 /\ j[i] \in 0 .. c - 1
    BY <1>1, <2>2, HalfFits
  <2>4. SentTo(n, l, b, j)[i] = IF i <= b THEN HalfPlace((c + 1) \div 2, j[i]) ELSE j[i]
    BY <2>2, SentAxis
  <2> QED
    BY <2>2, <2>3, <2>4
<1>3. Triple(SentTo(n, l, b, j))
  BY SentAxis
<1> QED
  BY <1>2, <1>3, InBox

\* The samples a level does not leave to the next have an odd number.
Upper(j) == \E i \in Axes : j[i] % 2 = 1

SameAt(v, w, n, l, b) ==
    \A j \in Box(DimsLeft(n, l)) :
       v[Row(n, InPlaceAt(l, j))] = w[Row(n, SentTo(n, l, b, j))]
SameBefore(v, w, n, l) ==
    \A m \in 0 .. l - 1 : \A j \in Box(DimsLeft(n, m)) :
       Upper(j) => v[Row(n, InPlaceAt(m, j))] = w[Row(n, SentTo(n, m, 3, j))]

\* v, in place, and w, the codec's, hold the same samples, b axes into level l.
MatchAt(v, w, n, l, b) ==
    /\ v \in [Indices(n) -> Int] /\ w \in [Indices(n) -> Int]
    /\ SameAt(v, w, n, l, b) /\ SameBefore(v, w, n, l)

LEMMA MatchStart ==
    ASSUME NEW n, NEW L, FormVolume(n, L), NEW v \in [Indices(n) -> Int]
    PROVE  MatchAt(v, v, n, 0, 0)
<1>1. ASSUME NEW j, j \in Box(DimsLeft(n, 0))
      PROVE  InPlaceAt(0, j) = SentTo(n, 0, 0, j)
  <2>1. PICK p, q : p = InPlaceAt(0, j) /\ q = SentTo(n, 0, 0, j)
    OBVIOUS
  <2>2. Triple(p) /\ \A i \in Axes : p[i] = Spot(0, 2 ^ 0, j[i])
    BY <2>1, InPlaceAxis
  <2>3. Triple(q) /\ \A i \in Axes : q[i] = j[i]
    <3>1. \A i \in Axes : ~(i <= 0)
      BY DEF Axes
    <3> QED
      BY <2>1, <3>1, SentAxis
  <2>4. ASSUME NEW i \in Axes
        PROVE  p[i] = q[i]
    <3>1. j[i] \in 0 .. DimsLeft(n, 0)[i] - 1
      BY <1>1, InBox
    <3>2. PICK x \in Int : x = j[i]
      BY <3>1
    <3>3. 0 + x * 1 = x
      OBVIOUS
    <3> QED
      BY <2>2, <2>3, <3>2, <3>3, SmallPowers DEF Spot
  <2> QED
    BY <2>1, <2>2, <2>3, <2>4, SameTriple
<1>2. SameAt(v, v, n, 0, 0)
  BY <1>1 DEF SameAt
<1>3. SameBefore(v, v, n, 0)
  BY DEF SameBefore
<1> QED
  BY <1>2, <1>3 DEF MatchAt

\* A level leaves the samples with even numbers to the next.
LEMMA NextNumbers ==
    ASSUME NEW n, NEW L, FormVolume(n, L), NEW l \in 0 .. L - 1,
           NEW j, j \in Box(DimsLeft(n, l + 1))
    PROVE  \E k \in Box(DimsLeft(n, l)) :
              /\ InPlaceAt(l, k) = InPlaceAt(l + 1, j)
              /\ SentTo(n, l, 3, k) = SentTo(n, l + 1, 0, j)
<1>1. l \in 0 .. L /\ l < L /\ l \in Nat
  BY DEF FormVolume
<1>2. Triple(j) /\ \A i \in Axes : j[i] \in 0 .. DimsLeft(n, l + 1)[i] - 1
  BY InBox
<1>3. PICK k : k = Each(LAMBDA i : 2 * j[i])
  OBVIOUS
<1>4. Triple(k) /\ \A i \in Axes : k[i] = 2 * j[i]
  BY <1>3 DEF Each, Triple, Axes
<1>5. ASSUME NEW i \in Axes
      PROVE  /\ k[i] \in 0 .. DimsLeft(n, l)[i] - 1
             /\ Spot(0, 2 ^ l, k[i]) = Spot(0, 2 ^ (l + 1), j[i])
             /\ HalfPlace(DimsLeft(n, l + 1)[i], k[i]) = j[i]
  <2>1. PICK c \in Nat \ {0} : /\ c = DimsLeft(n, l)[i] /\ c % 2 = 1
                               /\ DimsLeft(n, l + 1)[i] = (c + 1) \div 2
    BY <1>1, FormAxisOf
  <2>2. PICK x \in Nat : x = j[i] /\ x <= ((c + 1) \div 2) - 1
    BY <1>2, <2>1
  <2>3. k[i] = 2 * x
    BY <1>4, <2>2
  <2>4. 2 * x \in 0 .. c - 1
    BY <2>1, <2>2
  <2>5. Spot(0, 2 ^ l, 2 * x) = Spot(0, 2 ^ (l + 1), x)
    <3>1. PICK p \in Nat : p = 2 ^ l /\ 2 ^ (l + 1) = 2 * p
      BY <1>1, PowNat, PowDouble
    <3>2. 0 + (2 * x) * p = 0 + x * (2 * p)
      OBVIOUS
    <3> QED
      BY <3>1, <3>2 DEF Spot
  <2>6. ((2 * x) % 2) = 0 /\ ((2 * x) \div 2) = x
    OBVIOUS
  <2>7. HalfPlace((c + 1) \div 2, 2 * x) = x
    BY <2>6 DEF HalfPlace
  <2> QED
    BY <2>1, <2>2, <2>3, <2>4, <2>5, <2>7
<1>6. k \in Box(DimsLeft(n, l))
  BY <1>4, <1>5, InBox
<1>7. InPlaceAt(l, k) = InPlaceAt(l + 1, j)
  <2>1. PICK p, q : /\ p = InPlaceAt(l, k) /\ q = InPlaceAt(l + 1, j) /\ Triple(p) /\ Triple(q)
                    /\ \A i \in Axes : p[i] = Spot(0, 2 ^ l, k[i])
                    /\ \A i \in Axes : q[i] = Spot(0, 2 ^ (l + 1), j[i])
    BY InPlaceAxis
  <2>2. \A i \in Axes : p[i] = q[i]
    BY <1>5, <2>1
  <2> QED
    BY <2>1, <2>2, SameTriple
<1>8. SentTo(n, l, 3, k) = SentTo(n, l + 1, 0, j)
  <2>1. \A i \in Axes : i <= 3 /\ ~(i <= 0)
    BY DEF Axes
  <2>2. PICK p : p = SentTo(n, l, 3, k)
    OBVIOUS
  <2>3. Triple(p) /\ \A i \in Axes : p[i] = HalfPlace(DimsLeft(n, l + 1)[i], k[i])
    BY <2>1, <2>2, SentAxis
  <2>4. PICK q : q = SentTo(n, l + 1, 0, j)
    OBVIOUS
  <2>5. Triple(q) /\ \A i \in Axes : q[i] = j[i]
    BY <2>1, <2>4, SentAxis
  <2>6. \A i \in Axes : p[i] = q[i]
    BY <1>5, <2>3, <2>5
  <2> QED
    BY <2>2, <2>3, <2>4, <2>5, <2>6, SameTriple
<1> QED
  BY <1>6, <1>7, <1>8

LEMMA MatchLevel ==
    ASSUME NEW n, NEW L, FormVolume(n, L), NEW l \in 0 .. L - 1, NEW v, NEW w,
           MatchAt(v, w, n, l, 3)
    PROVE  MatchAt(v, w, n, l + 1, 0)
<1>1. ASSUME NEW j, j \in Box(DimsLeft(n, l + 1))
      PROVE  v[Row(n, InPlaceAt(l + 1, j))] = w[Row(n, SentTo(n, l + 1, 0, j))]
  <2>1. PICK k \in Box(DimsLeft(n, l)) :
           InPlaceAt(l, k) = InPlaceAt(l + 1, j) /\ SentTo(n, l, 3, k) = SentTo(n, l + 1, 0, j)
    BY <1>1, NextNumbers
  <2> QED
    BY <2>1 DEF MatchAt, SameAt
<1>2. ASSUME NEW m \in 0 .. (l + 1) - 1, NEW j \in Box(DimsLeft(n, m)), Upper(j)
      PROVE  v[Row(n, InPlaceAt(m, j))] = w[Row(n, SentTo(n, m, 3, j))]
  <2>1. m = l \/ m \in 0 .. l - 1
    BY DEF FormVolume
  <2>2. CASE m = l
    BY <2>2 DEF MatchAt, SameAt
  <2>3. CASE m \in 0 .. l - 1
    BY <1>2, <2>3 DEF MatchAt, SameBefore
  <2> QED
    BY <2>1, <2>2, <2>3
<1>3. SameAt(v, w, n, l + 1, 0)
  BY <1>1 DEF SameAt
<1>4. SameBefore(v, w, n, l + 1)
  BY <1>2 DEF SameBefore
<1> QED
  BY <1>3, <1>4 DEF MatchAt

LEMMA SentPut ==
    ASSUME NEW n, NEW l, NEW a \in Axes, NEW j, Triple(j), NEW x
    PROVE  SentTo(n, l, a - 1, Put(j, a, x)) = Put(SentTo(n, l, a - 1, j), a, x)
<1>1. PICK k : k = Put(j, a, x) /\ Triple(k) /\ \A i \in Axes : k[i] = IF i = a THEN x ELSE j[i]
  BY Replaced
<1>2. PICK p : p = SentTo(n, l, a - 1, k)
  OBVIOUS
<1>3. /\ Triple(p)
      /\ \A i \in Axes : p[i] =
            IF i <= a - 1 THEN HalfPlace(DimsLeft(n, l + 1)[i], k[i]) ELSE k[i]
  BY <1>2, SentAxis
<1>4. PICK q : q = SentTo(n, l, a - 1, j)
  OBVIOUS
<1>5. /\ Triple(q)
      /\ \A i \in Axes : q[i] =
            IF i <= a - 1 THEN HalfPlace(DimsLeft(n, l + 1)[i], j[i]) ELSE j[i]
  BY <1>4, SentAxis
<1>6. PICK e : e = Put(q, a, x) /\ Triple(e) /\ \A i \in Axes : e[i] = IF i = a THEN x ELSE q[i]
  BY <1>5, Replaced
<1>7. ~(a <= a - 1)
  BY DEF Axes
<1>8. ASSUME NEW i \in Axes
      PROVE  p[i] = e[i]
  BY <1>1, <1>3, <1>5, <1>6, <1>7
<1> QED
  BY <1>1, <1>2, <1>3, <1>4, <1>6, <1>8, SameTriple

LEMMA SentMoves ==
    ASSUME NEW n, NEW l, NEW a \in Axes, NEW j,
           DimsLeft(n, l + 1)[a] = (DimsLeft(n, l)[a] + 1) \div 2
    PROVE  /\ Moves(DimsLeft(n, l), a, SentTo(n, l, a - 1, j)) = SentTo(n, l, a, j)
           /\ SentTo(n, l, a - 1, j)[a] = j[a]
<1>1. PICK q : q = SentTo(n, l, a - 1, j)
  OBVIOUS
<1>2. /\ Triple(q)
      /\ \A i \in Axes : q[i] =
            IF i <= a - 1 THEN HalfPlace(DimsLeft(n, l + 1)[i], j[i]) ELSE j[i]
  BY <1>1, SentAxis
<1>3. PICK p : p = SentTo(n, l, a, j)
  OBVIOUS
<1>4. /\ Triple(p)
      /\ \A i \in Axes : p[i] =
            IF i <= a THEN HalfPlace(DimsLeft(n, l + 1)[i], j[i]) ELSE j[i]
  BY <1>3, SentAxis
<1>5. PICK y : y = HalfPlace((DimsLeft(n, l)[a] + 1) \div 2, q[a])
  OBVIOUS
<1>6. PICK e : e = Put(q, a, y) /\ Triple(e) /\ \A i \in Axes : e[i] = IF i = a THEN y ELSE q[i]
  BY <1>2, Replaced
<1>7. ~(a <= a - 1) /\ a <= a /\ \A i \in Axes : i # a => (i <= a <=> i <= a - 1)
  BY DEF Axes
<1>8. q[a] = j[a]
  BY <1>2, <1>7
<1>9. ASSUME NEW i \in Axes
      PROVE  e[i] = p[i]
  BY <1>2, <1>4, <1>5, <1>6, <1>7, <1>8
<1>10. e = p
  BY <1>4, <1>6, <1>9, SameTriple
<1>11. Moves(DimsLeft(n, l), a, q) = e
  BY <1>5, <1>6 DEF Moves
<1> QED
  BY <1>1, <1>3, <1>8, <1>10, <1>11

\* What a level has kept to itself, no later one reaches.
LEMMA OddApart ==
    ASSUME NEW x \in Nat, x % 2 = 1, NEW y \in Nat, NEW m \in Nat, NEW l \in Nat, m < l
    PROVE  Spot(0, 2 ^ m, x) # Spot(0, 2 ^ l, y)
<1>1. PICK p \in Nat \ {0}, e \in Nat \ {0} : p = 2 ^ m /\ 2 ^ l = 2 * (e * p)
  <2>1. PICK e \in Nat \ {0} : 2 ^ l = 2 * (e * 2 ^ m)
    BY PowSplit
  <2>2. 2 ^ m \in Nat \ {0}
    BY PowPos
  <2> QED
    BY <2>1, <2>2
<1>2. SUFFICES ASSUME 0 + x * p = 0 + y * (2 * (e * p)) PROVE FALSE
  BY <1>1 DEF Spot
<1>3. PICK t \in Nat : t = y * e
  OBVIOUS
<1>4. y * (2 * (e * p)) = (2 * t) * p
  BY <1>3
<1>5. PICK u \in Nat : u = 2 * t
  OBVIOUS
<1>6. x * p = u * p
  BY <1>2, <1>4, <1>5
<1>7. x <= u /\ u <= x
  BY <1>6, Ordered
<1> QED
  BY <1>5, <1>7

LEMMA UpperStays ==
    ASSUME NEW n, NEW L, FormVolume(n, L), NEW l \in 0 .. L - 1, NEW m \in 0 .. l - 1,
           NEW j, j \in Box(DimsLeft(n, m)), Upper(j)
    PROVE  /\ \A k \in Box(DimsLeft(n, l)) : InPlaceAt(m, j) # InPlaceAt(l, k)
           /\ SentTo(n, m, 3, j) \notin Box(DimsLeft(n, l))
<1>1. n \in Lengths /\ L \in Nat /\ l \in Nat /\ m \in Nat /\ m < l /\ m \in 0 .. L - 1
      /\ m + 1 \in Nat /\ m + 1 <= l
  BY DEF FormVolume
<1>2. PICK i \in Axes : j[i] % 2 = 1
  BY DEF Upper
<1>3. \A k \in Axes : j[k] \in 0 .. DimsLeft(n, m)[k] - 1
  BY InBox
<1>4. PICK x \in Nat : x = j[i] /\ x % 2 = 1
  BY <1>2, <1>3
<1>5. ASSUME NEW k \in Box(DimsLeft(n, l))
      PROVE  InPlaceAt(m, j) # InPlaceAt(l, k)
  <2>1. k[i] \in 0 .. DimsLeft(n, l)[i] - 1
    BY InBox
  <2>2. PICK y \in Nat : y = k[i]
    BY <2>1
  <2>3. InPlaceAt(m, j)[i] = Spot(0, 2 ^ m, x) /\ InPlaceAt(l, k)[i] = Spot(0, 2 ^ l, y)
    BY <1>4, <2>2, InPlaceAxis
  <2> QED
    BY <1>1, <1>4, <2>3, OddApart
<1>6. SentTo(n, m, 3, j) \notin Box(DimsLeft(n, l))
  <2>1. PICK h \in Nat, c \in Nat : h = DimsLeft(n, m + 1)[i] /\ c = DimsLeft(n, l)[i] /\ c <= h
    BY <1>1, LeftShrinks
  <2>2. SentTo(n, m, 3, j)[i] = HalfPlace(h, x)
    <3>1. i <= 3
      BY DEF Axes
    <3> QED
      BY <1>4, <2>1, <3>1, SentAxis
  <2>3. HalfPlace(h, x) = h + x \div 2
    BY <1>4 DEF HalfPlace
  <2>4. ~(h + x \div 2 \in 0 .. c - 1)
    BY <1>4, <2>1
  <2> QED
    BY <2>1, <2>2, <2>3, <2>4, InBox
<1> QED
  BY <1>5, <1>6

\* A pass of each, along the same axis of the same level.
LEMMA MatchPass ==
    ASSUME NEW n, NEW L, FormVolume(n, L), NEW l \in 0 .. L - 1, NEW a \in Axes,
           NEW g, FormGrid(g, n, l), NEW v, NEW w, MatchAt(v, w, n, l, a - 1)
    PROVE  MatchAt(ForwardInPlace(v, n, a, g, n, "Normal"),
                   ForwardOld(w, n, a, DimsLeft(n, l)), n, l, a)
<1>1. n \in Lengths /\ n \in Sizes /\ L \in Nat /\ l \in Nat /\ l \in 0 .. L /\ l < L
  BY LengthsFit DEF FormVolume
<1>2. PICK d \in Sizes : d = DimsLeft(n, l)
  BY <1>1, LeftFacts
<1>3. PICK c \in Nat \ {0} : /\ c = d[a] /\ c % 2 = 1
                             /\ DimsLeft(n, l + 1)[a] = (c + 1) \div 2
  BY <1>1, <1>2, FormAxisOf
<1>4. \A i \in Axes : d[i] <= n[i]
  BY <1>1, <1>2, FormAxisOf
<1>5. v \in [Indices(n) -> Int] /\ w \in [Indices(n) -> Int]
  BY DEF MatchAt
<1>6. PICK x : x = ForwardInPlace(v, n, a, g, n, "Normal") /\ LiftedOver(x, v, n, a, g)
  BY <1>1, <1>5, PassFits, PassInPlace
<1>7. PICK y : y = ForwardOld(w, n, a, d) /\ PassedOld(y, w, n, a, d)
  BY <1>1, <1>2, <1>3, <1>4, <1>5, PassOld
<1>8. ASSUME NEW j, j \in Box(d)
      PROVE  x[Row(n, InPlaceAt(l, j))] = y[Row(n, SentTo(n, l, a, j))]
  <2>1. SpotAt(g, j) = InPlaceAt(l, j) /\ j \in Box(g.dims)
    BY <1>2, <1>8, SpotsOfPass
  <2>2. g.dims[a] = c
    BY <1>2, <1>3 DEF FormGrid
  <2>3. x[Row(n, InPlaceAt(l, j))] = LiftedAt(Along(v, n, g, a, j), c, j[a])
    BY <1>6, <2>1, <2>2 DEF LiftedOver
  <2>4. PICK q : q = SentTo(n, l, a - 1, j) /\ q \in Box(d)
    <3>1. a - 1 \in 0 .. 3
      BY DEF Axes
    <3> QED
      BY <1>2, <1>8, <3>1, SentInside
  <2>5. Moves(d, a, q) = SentTo(n, l, a, j) /\ q[a] = j[a]
    BY <1>2, <1>3, <2>4, SentMoves
  <2>6. y[Row(n, SentTo(n, l, a, j))] = LiftedAt(RowLeft(w, n, a, d, q), c, j[a])
    BY <1>3, <1>7, <2>4, <2>5 DEF PassedOld
  <2>7. Triple(j)
    BY <1>8, InBox
  <2>8. ASSUME NEW z \in 0 .. c - 1
        PROVE  v[Row(n, SpotAt(g, Put(j, a, z)))] = w[Row(n, Put(q, a, z))]
    <3>1. Put(j, a, z) \in Box(d)
      BY <1>3, <1>8, PutInBox
    <3>2. SpotAt(g, Put(j, a, z)) = InPlaceAt(l, Put(j, a, z))
      BY <1>2, <3>1, SpotsOfPass
    <3>3. SentTo(n, l, a - 1, Put(j, a, z)) = Put(q, a, z)
      BY <2>4, <2>7, SentPut
    <3>4. v[Row(n, InPlaceAt(l, Put(j, a, z)))] = w[Row(n, SentTo(n, l, a - 1, Put(j, a, z)))]
      BY <1>2, <3>1 DEF MatchAt, SameAt
    <3> QED
      BY <3>2, <3>3, <3>4
  <2>9. Along(v, n, g, a, j) = RowLeft(w, n, a, d, q)
    BY <1>3, <2>2, <2>8 DEF Along, RowLeft
  <2> QED
    BY <2>3, <2>6, <2>9
<1>9. ASSUME NEW m \in 0 .. l - 1, NEW j \in Box(DimsLeft(n, m)), Upper(j)
      PROVE  x[Row(n, InPlaceAt(m, j))] = y[Row(n, SentTo(n, m, 3, j))]
  <2>1. m \in 0 .. L /\ m \in 0 .. L - 1 /\ 3 \in 0 .. 3
    BY <1>1
  <2>2. /\ \A k \in Box(d) : InPlaceAt(m, j) # InPlaceAt(l, k)
        /\ SentTo(n, m, 3, j) \notin Box(d)
    BY <1>2, <1>9, UpperStays
  <2>3. InPlaceAt(m, j) \in Box(n)
    BY <2>1, InsideLevel
  <2>4. SentTo(n, m, 3, j) \in Box(n)
    <3>1. SentTo(n, m, 3, j) \in Box(DimsLeft(n, m))
      BY <2>1, SentInside
    <3> QED
      BY <2>1, <3>1, InsideLevel
  <2>5. ASSUME NEW k \in Box(g.dims)
        PROVE  InPlaceAt(m, j) # SpotAt(g, k)
    <3>1. k \in Box(d)
      <4>1. \A i \in Axes : g.dims[i] = d[i]
        BY <1>2 DEF FormGrid
      <4> QED
        BY <4>1, InBox
    <3> QED
      BY <1>2, <2>2, <3>1, SpotsOfPass
  <2>6. x[Row(n, InPlaceAt(m, j))] = v[Row(n, InPlaceAt(m, j))]
    BY <1>6, <2>3, <2>5 DEF LiftedOver
  <2>7. y[Row(n, SentTo(n, m, 3, j))] = w[Row(n, SentTo(n, m, 3, j))]
    BY <1>7, <2>2, <2>4 DEF PassedOld
  <2>8. v[Row(n, InPlaceAt(m, j))] = w[Row(n, SentTo(n, m, 3, j))]
    BY <1>9 DEF MatchAt, SameBefore
  <2> QED
    BY <2>6, <2>7, <2>8
<1>10. SameAt(x, y, n, l, a)
  BY <1>2, <1>8 DEF SameAt
<1>11. SameBefore(x, y, n, l)
  BY <1>9 DEF SameBefore
<1>12. x \in [Indices(n) -> Int] /\ y \in [Indices(n) -> Int]
  BY <1>6, <1>7 DEF LiftedOver, PassedOld
<1>13. MatchAt(x, y, n, l, a)
  BY <1>10, <1>11, <1>12 DEF MatchAt
<1> QED
  BY <1>2, <1>6, <1>7, <1>13

-----------------------------------------------------------------------------
(* What FormSubbands takes for a place of a subband.                       *)

LEMMA FormStays ==
    ASSUME NEW n, NEW L, FormVolume(n, L)
    PROVE  ~Collapses(n, L)
<1>1. SUFFICES ASSUME L > 0, NEW i \in Axes, n[i] > 1, DimsLeft(n, L - 1)[i] = 1
               PROVE  FALSE
  BY DEF Collapses
<1>2. L - 1 \in 0 .. L
  BY <1>1 DEF FormVolume
<1>3. FormAxis(n[i], L, L - 1, 1)
  BY <1>1, <1>2, FormLeft
<1> QED
  BY <1>1, <1>3 DEF FormAxis

\* Sample x of the codec's subband s, along axis i, has number y at its level.
NumberIs(n, L, s, i, x, y) ==
    LET e == SubbandExtents(n, L)[s]
        g == AllGrids(n, L)[s]
        l == LvlOf(n, L, s)
    IN /\ y \in 0 .. DimsLeft(n, l)[i] - 1
       /\ Spot(0, 2 ^ l, y) = g.from[i] + (x - e.from[i]) * g.strd[i]
       /\ HalfPlace(DimsLeft(n, l + 1)[i], y) = x
       /\ i <= NumDims(n) /\ Halves(NumDims(n), NumOf(n, s))[i] = 1 => y % 2 = 1

LEMMA FormBandAxis ==
    ASSUME NEW n, NEW L, FormVolume(n, L), NEW s \in 2 .. NBands(n, L), NEW i \in Axes,
           NEW x \in Nat, SubbandExtents(n, L)[s].from[i] <= x,
           x < SubbandExtents(n, L)[s].from[i] + SubbandExtents(n, L)[s].dims[i]
    PROVE  \E y \in Nat : NumberIs(n, L, s, i, x, y)
<1>1. n \in Lengths /\ L \in Nat /\ FlatLast(n) /\ ~Collapses(n, L)
  BY FormStays DEF FormVolume
<1>2. PICK l \in 0 .. L - 1 : l = LvlOf(n, L, s)
  BY <1>1, Numbered
<1>3. PICK j \in 1 .. PerLevel(n) : j = NumOf(n, s)
  BY <1>1, Numbered
<1>4. PICK nd \in 0 .. 3 : nd = NumDims(n)
  BY <1>1, Dimensions
<1>5. PICK h \in {0, 1} \X {0, 1} \X {0, 1} : h = Halves(nd, j)
  BY <1>1, <1>3, <1>4, HalvesType DEF PerLevel
<1>6. PICK b \in {0, 1} : b = h[i]
  BY <1>5 DEF Axes
<1>7. PICK e, g : /\ e = SubbandExtents(n, L)[s] /\ g = AllGrids(n, L)[s]
                  /\ g = GridOf(n, l, j)
  BY <1>1, <1>2, <1>3, Numbered
<1>8. l \in Nat /\ l \in 0 .. L /\ l + 1 \in 0 .. L /\ l < L
  BY <1>1
<1>9. PICK c \in Nat \ {0}, d \in Nat \ {0} :
         /\ c = DimsLeft(n, l)[i] /\ d = DimsLeft(n, l + 1)[i]
         /\ c % 2 = 1 /\ d = (c + 1) \div 2
  BY <1>8, FormAxisOf
<1>10. c = 2 * d - 1
  BY <1>9
<1>11. PICK p \in Nat \ {0}, t \in Nat \ {0} : p = 2 ^ l /\ t = 2 ^ (l + 1) /\ t = 2 * p
  <2>1. 2 ^ l \in Nat \ {0} /\ 2 ^ (l + 1) \in Nat \ {0} /\ 2 ^ (l + 1) = 2 * 2 ^ l
    BY <1>8, PowPos, PowDouble
  <2> QED
    BY <2>1
<1>12. /\ e.from[i] = IF i <= nd /\ b = 1 THEN d ELSE 0
       /\ e.dims[i] = IF i > nd THEN 1 ELSE IF b = 0 THEN d ELSE c - d
  <2>1. \A k \in 1 .. nd : DimsLeft(n, l + 1)[k] < DimsLeft(n, l)[k]
    BY <1>1, <1>4, Shortened
  <2>2. /\ e.from[i] = IF i <= nd /\ h[i] = 1 THEN DimsLeft(n, l + 1)[i] ELSE 0
        /\ e.dims[i] = IF i > nd THEN 1
                       ELSE IF h[i] = 0 THEN DimsLeft(n, l + 1)[i]
                       ELSE DimsLeft(n, l)[i] - DimsLeft(n, l + 1)[i]
        /\ e.dims[i] > 0
    BY <1>1, <1>2, <1>3, <1>4, <1>5, <1>7, <2>1, BandAxis
  <2> QED
    BY <1>6, <1>9, <2>2
<1>13. g.from[i] = IF i <= nd THEN b * p ELSE 0
  <2>1. /\ g.dims[i] = IF i > nd THEN 1
                       ELSE IF h[i] = 0 THEN DimsLeft(n, l + 1)[i]
                       ELSE DimsLeft(n, l)[i] - DimsLeft(n, l + 1)[i]
        /\ g.dims[i] # 0 => g.from[i] = IF i <= nd THEN h[i] * 2 ^ l ELSE 0
    BY <1>1, <1>3, <1>4, <1>5, <1>7, <1>8, GridShape
  <2>2. e.from[i] <= x /\ x < e.from[i] + e.dims[i]
    BY <1>7
  <2>3. g.dims[i] = e.dims[i]
    BY <1>6, <1>9, <1>12, <2>1
  <2>4. g.dims[i] # 0
    BY <1>9, <1>12, <2>2, <2>3
  <2> QED
    BY <1>6, <1>11, <2>1, <2>4
<1>14. PICK S \in Int : S = g.strd[i] /\ (d > 1 => S = t)
  <2>1. g.strd[i] = Pack(t)
    BY <1>7, <1>11 DEF GridOf, Grid, Packed, Vec, Each, Pack, Axes
  <2>2. PICK m \in Nat \ {0} : m = n[i] /\ m < PackLimit
    BY <1>1, LengthsFit
  <2>3. FormAxis(m, L, l + 1, d)
    BY <1>8, <1>9, <2>2, FormLeft
  <2>4. d > 1 => t < m
    BY <1>11, <2>2, <2>3 DEF FormAxis
  <2>5. d > 1 => t < PackLimit
    BY <2>2, <2>4, LimitNat
  <2>6. Pack(t) \in Int /\ (t < PackLimit => Pack(t) = t)
    BY PackInt
  <2> QED
    BY <2>1, <2>5, <2>6
<1>15. e.from[i] <= x /\ x < e.from[i] + e.dims[i]
  BY <1>7
<1>16. ASSUME NEW y \in 0 .. c - 1, Spot(0, p, y) = g.from[i] + (x - e.from[i]) * S,
              HalfPlace(d, y) = x, i <= nd /\ b = 1 => y % 2 = 1
       PROVE  NumberIs(n, L, s, i, x, y)
  BY <1>2, <1>3, <1>4, <1>5, <1>6, <1>7, <1>9, <1>11, <1>14, <1>16 DEF NumberIs
<1>17. CASE i > nd
  <2>1. ~(i <= nd)
    BY <1>17 DEF Axes
  <2>2. e.from[i] = 0 /\ g.from[i] = 0 /\ x = 0
    BY <1>12, <1>13, <1>15, <1>17, <2>1
  <2>3. 0 + 0 * p = 0 + (0 - 0) * S
    OBVIOUS
  <2>4. HalfPlace(d, 0) = 0
    BY DEF HalfPlace
  <2>5. 0 \in 0 .. c - 1 /\ 0 \in Nat
    OBVIOUS
  <2>6. NumberIs(n, L, s, i, x, 0)
    BY <1>16, <2>1, <2>2, <2>3, <2>4, <2>5 DEF Spot
  <2> QED
    BY <2>5, <2>6
<1>18. CASE i <= nd /\ b = 0
  <2>1. ~(i > nd)
    BY <1>18 DEF Axes
  <2>2. e.from[i] = 0 /\ x < d
    BY <1>12, <1>15, <1>18, <2>1
  <2>3. g.from[i] = 0
    BY <1>13, <1>18
  <2>4. PICK y \in Nat : y = 2 * x
    OBVIOUS
  <2>5. y \in 0 .. c - 1
    BY <1>10, <2>2, <2>4
  <2>6. 0 + y * p = 0 + (x - 0) * S
    <3>1. CASE x = 0
      <4>1. 0 + 0 * p = 0 + (0 - 0) * S /\ 2 * 0 = 0
        OBVIOUS
      <4> QED
        BY <2>4, <3>1, <4>1
    <3>2. CASE x # 0
      <4>1. S = 2 * p
        BY <1>11, <1>14, <2>2, <3>2
      <4>2. 0 + (2 * x) * p = 0 + (x - 0) * (2 * p)
        OBVIOUS
      <4> QED
        BY <2>4, <4>1, <4>2
    <3> QED
      BY <3>1, <3>2
  <2>7. HalfPlace(d, y) = x
    <3>1. y % 2 = 0 /\ y \div 2 = x
      BY <2>4
    <3> QED
      BY <3>1 DEF HalfPlace
  <2>8. Spot(0, p, y) = g.from[i] + (x - e.from[i]) * S
    BY <2>2, <2>3, <2>6 DEF Spot
  <2> QED
    BY <1>16, <1>18, <2>5, <2>7, <2>8
<1>19. CASE i <= nd /\ b = 1
  <2>1. ~(i > nd)
    BY <1>19 DEF Axes
  <2>2. e.from[i] = d /\ d <= x /\ x < d + (c - d)
    BY <1>12, <1>15, <1>19, <2>1
  <2>3. PICK u \in Nat : u = x - d /\ x = d + u /\ u < d - 1
    BY <1>10, <2>2
  <2>4. g.from[i] = p
    BY <1>13, <1>19
  <2>5. PICK y \in Nat : y = 1 + 2 * u
    OBVIOUS
  <2>6. y \in 0 .. c - 1
    BY <1>10, <2>3, <2>5
  <2>7. 0 + y * p = p + u * S
    <3>1. CASE u = 0
      <4>1. 0 + (1 + 2 * 0) * p = p + 0 * S
        OBVIOUS
      <4> QED
        BY <2>5, <3>1, <4>1
    <3>2. CASE u # 0
      <4>1. S = 2 * p
        BY <1>11, <1>14, <2>3, <3>2
      <4>2. 0 + (1 + 2 * u) * p = p + u * (2 * p)
        OBVIOUS
      <4> QED
        BY <2>5, <4>1, <4>2
    <3> QED
      BY <3>1, <3>2
  <2>8. y % 2 = 1 /\ HalfPlace(d, y) = x
    <3>1. y % 2 = 1 /\ y \div 2 = u
      BY <2>5
    <3>2. HalfPlace(d, y) = d + u
      BY <3>1 DEF HalfPlace
    <3> QED
      BY <2>3, <3>1, <3>2
  <2>9. Spot(0, p, y) = g.from[i] + (x - e.from[i]) * S
    BY <2>2, <2>3, <2>4, <2>7 DEF Spot
  <2> QED
    BY <1>16, <2>6, <2>8, <2>9
<1>20. i > nd \/ (i <= nd /\ b = 0) \/ (i <= nd /\ b = 1)
  BY DEF Axes
<1> QED
  BY <1>17, <1>18, <1>19, <1>20

\* Where FormSubbands takes the sample at p from.
TakenAt(e, g, p) == Each(LAMBDA a : g.from[a] + (p[a] - e.from[a]) * g.strd[a])

LEMMA TakenAxis ==
    ASSUME NEW e, NEW g, NEW p
    PROVE  /\ Triple(TakenAt(e, g, p))
           /\ \A a \in Axes : TakenAt(e, g, p)[a] = g.from[a] + (p[a] - e.from[a]) * g.strd[a]
BY DEF TakenAt, Each, Triple, Axes

LEMMA InVectors ==
    ASSUME NEW p
    PROVE  p \in Vectors <=> (Triple(p) /\ \A i \in Axes : p[i] \in Nat)
<1>1. p \in Vectors => Triple(p) /\ \A i \in Axes : p[i] \in Nat
  BY DEF Vectors, Triple, Axes
<1>2. ASSUME Triple(p), \A i \in Axes : p[i] \in Nat
      PROVE  p \in Vectors
  BY <1>2 DEF Vectors, Triple, Axes
<1> QED
  BY <1>1, <1>2

LEMMA TakesCoarsest ==
    ASSUME NEW n, NEW L, FormVolume(n, L), NEW v, NEW w, MatchAt(v, w, n, L, 0),
           NEW p, p \in Points(SubbandExtents(n, L)[1])
    PROVE  v[Row(n, TakenAt(SubbandExtents(n, L)[1], CoarsestGrid(n, L), p))] = w[Row(n, p)]
<1>1. n \in Lengths /\ L \in Nat /\ FlatLast(n) /\ L \in 0 .. L
  BY DEF FormVolume
<1>2. PICK e, g : e = SubbandExtents(n, L)[1] /\ g = CoarsestGrid(n, L)
  OBVIOUS
<1>3. e.from = Vec(0) /\ e.dims = DimsLeft(n, L)
  BY <1>1, <1>2, CoarsestBand
<1>4. p \in Vectors /\ In(e, p)
  <2>1. 1 \in DOMAIN SubbandExtents(n, L)
    BY <1>1, FirstBands
  <2> QED
    BY <1>1, <1>2, <2>1, BandPoints
<1>5. Triple(p) /\ \A i \in Axes : p[i] \in Nat
  BY <1>4, InVectors
<1>6. ASSUME NEW i \in Axes
      PROVE  /\ p[i] \in 0 .. DimsLeft(n, L)[i] - 1
             /\ g.from[i] + (p[i] - e.from[i]) * g.strd[i] = Spot(0, 2 ^ L, p[i])
             /\ e.from[i] = 0
  <2>1. PICK c \in Nat \ {0}, m \in Nat \ {0} :
           c = DimsLeft(n, L)[i] /\ m = n[i] /\ m < PackLimit /\ FormAxis(m, L, L, c)
    <3>1. n[i] \in Nat \ {0} /\ n[i] < PackLimit
      BY <1>1, LengthsFit
    <3>2. DimsLeft(n, L)[i] \in Nat \ {0}
      BY <1>1, FormAxisOf
    <3> QED
      BY <1>1, <3>1, <3>2, FormLeft
  <2>2. e.from[i] = 0
    BY <1>3 DEF Vec, Axes
  <2>3. PICK x \in 0 .. c - 1 : x = p[i]
    <3>1. p[i] < e.from[i] + e.dims[i] /\ p[i] \in Nat
      BY <1>4, <1>5 DEF In
    <3> QED
      BY <1>3, <2>1, <2>2, <3>1
  <2>4. PICK t \in Nat \ {0} : t = 2 ^ L
    BY <1>1, PowPos
  <2>5. PICK S \in Int : S = g.strd[i] /\ (c > 1 => S = t)
    <3>1. g.strd[i] = Pack(t)
      BY <1>2, <2>4 DEF CoarsestGrid, Grid, Packed, Vec, Each, Pack, Axes
    <3>2. c > 1 => t < m
      BY <2>1, <2>4 DEF FormAxis
    <3>3. c > 1 => t < PackLimit
      BY <2>1, <3>2, LimitNat
    <3>4. Pack(t) \in Int /\ (t < PackLimit => Pack(t) = t)
      BY PackInt
    <3> QED
      BY <3>1, <3>3, <3>4
  <2>6. g.from[i] = 0
    BY <1>1, <1>2, CoarsestShape
  <2>7. 0 + (x - 0) * S = 0 + x * t
    <3>1. CASE x = 0
      <4>1. 0 + (0 - 0) * S = 0 + 0 * t
        OBVIOUS
      <4> QED
        BY <3>1, <4>1
    <3>2. CASE x # 0
      <4>1. S = t
        BY <2>3, <2>5, <3>2
      <4>2. 0 + (x - 0) * t = 0 + x * t
        OBVIOUS
      <4> QED
        BY <4>1, <4>2
    <3> QED
      BY <3>1, <3>2
  <2> QED
    BY <2>1, <2>2, <2>3, <2>4, <2>5, <2>6, <2>7 DEF Spot
<1>7. p \in Box(DimsLeft(n, L))
  BY <1>5, <1>6, InBox
<1>8. TakenAt(e, g, p) = InPlaceAt(L, p)
  <2>1. PICK q, r : q = TakenAt(e, g, p) /\ r = InPlaceAt(L, p)
    OBVIOUS
  <2>2. Triple(q) /\ \A a \in Axes : q[a] = g.from[a] + (p[a] - e.from[a]) * g.strd[a]
    BY <2>1, TakenAxis
  <2>3. Triple(r) /\ \A a \in Axes : r[a] = Spot(0, 2 ^ L, p[a])
    BY <2>1, InPlaceAxis
  <2>4. \A a \in Axes : q[a] = r[a]
    BY <1>6, <2>2, <2>3
  <2> QED
    BY <2>1, <2>2, <2>3, <2>4, SameTriple
<1>9. SentTo(n, L, 0, p) = p
  <2>1. PICK q : q = SentTo(n, L, 0, p)
    OBVIOUS
  <2>2. Triple(q) /\ \A i \in Axes : q[i] = p[i]
    <3>1. \A i \in Axes : ~(i <= 0)
      BY DEF Axes
    <3> QED
      BY <2>1, <3>1, SentAxis
  <2> QED
    BY <1>5, <2>1, <2>2, SameTriple
<1>10. v[Row(n, InPlaceAt(L, p))] = w[Row(n, SentTo(n, L, 0, p))]
  BY <1>7 DEF MatchAt, SameAt
<1> QED
  BY <1>2, <1>8, <1>9, <1>10

LEMMA TakesFiner ==
    ASSUME NEW n, NEW L, FormVolume(n, L), NEW v, NEW w, MatchAt(v, w, n, L, 0),
           NEW s \in 2 .. NBands(n, L), NEW p, p \in Points(SubbandExtents(n, L)[s])
    PROVE  v[Row(n, TakenAt(SubbandExtents(n, L)[s], AllGrids(n, L)[s], p))] = w[Row(n, p)]
<1>1. n \in Lengths /\ L \in Nat /\ FlatLast(n)
  BY DEF FormVolume
<1>2. PICK e, g : e = SubbandExtents(n, L)[s] /\ g = AllGrids(n, L)[s]
  OBVIOUS
<1>3. p \in Vectors /\ In(e, p)
  <2>1. s \in DOMAIN SubbandExtents(n, L)
    BY <1>1, FirstBands
  <2> QED
    BY <1>1, <1>2, <2>1, BandPoints
<1>4. Triple(p) /\ \A i \in Axes : p[i] \in Nat
  BY <1>3, InVectors
<1>5. PICK l \in 0 .. L - 1 : l = LvlOf(n, L, s)
  BY <1>1, Numbered
<1>6. ASSUME NEW i \in Axes
      PROVE  \E y \in Nat : NumberIs(n, L, s, i, p[i], y)
  <2>1. p[i] \in Nat /\ e.from[i] <= p[i] /\ p[i] < e.from[i] + e.dims[i]
    BY <1>3, <1>4 DEF In
  <2> QED
    BY <1>2, <2>1, FormBandAxis
<1>7. PICK x \in Nat, y \in Nat, z \in Nat : /\ NumberIs(n, L, s, 1, p[1], x)
                                            /\ NumberIs(n, L, s, 2, p[2], y)
                                            /\ NumberIs(n, L, s, 3, p[3], z)
  <2>1. 1 \in Axes /\ 2 \in Axes /\ 3 \in Axes
    BY DEF Axes
  <2> QED
    BY <1>6, <2>1
<1>8. PICK k : k = <<x, y, z>>
  OBVIOUS
<1>9. Triple(k) /\ \A i \in Axes : NumberIs(n, L, s, i, p[i], k[i])
  <2>1. k[1] = x /\ k[2] = y /\ k[3] = z /\ Triple(k)
    BY <1>8 DEF Triple
  <2>2. \A i \in Axes : i = 1 \/ i = 2 \/ i = 3
    BY DEF Axes
  <2> QED
    BY <1>7, <2>1, <2>2
<1>10. \A i \in Axes :
          /\ k[i] \in 0 .. DimsLeft(n, l)[i] - 1
          /\ Spot(0, 2 ^ l, k[i]) = g.from[i] + (p[i] - e.from[i]) * g.strd[i]
          /\ HalfPlace(DimsLeft(n, l + 1)[i], k[i]) = p[i]
          /\ i <= NumDims(n) /\ Halves(NumDims(n), NumOf(n, s))[i] = 1 => k[i] % 2 = 1
  BY <1>2, <1>5, <1>9 DEF NumberIs
<1>11. k \in Box(DimsLeft(n, l))
  BY <1>9, <1>10, InBox
<1>12. Upper(k)
  <2>1. PICK nd, j : nd = NumDims(n) /\ j = NumOf(n, s)
    OBVIOUS
  <2>2. j \in 1 .. PerLevel(n)
    BY <1>1, <2>1, Numbered
  <2>3. PerLevel(n) > 0
    <3>1. PerLevel(n) \in Nat
      BY <1>1, FirstBands
    <3> QED
      BY <2>2, <3>1
  <2>4. nd \in 1 .. 3 /\ \A i \in 1 .. nd : i \in Axes
    BY <1>1, <2>1, <2>3, SomeAxes
  <2>5. j \in 1 .. 2 ^ nd - 1
    BY <2>1, <2>2 DEF PerLevel
  <2>6. PICK i \in 1 .. nd : Halves(nd, j)[i] = 1
    BY <2>4, <2>5, HalvesDiffer
  <2>7. i \in Axes /\ i <= nd
    BY <2>4
  <2>8. k[i] % 2 = 1
    BY <1>10, <2>1, <2>6, <2>7
  <2> QED
    BY <2>7, <2>8 DEF Upper
<1>13. TakenAt(e, g, p) = InPlaceAt(l, k)
  <2>1. PICK q, r : q = TakenAt(e, g, p) /\ r = InPlaceAt(l, k)
    OBVIOUS
  <2>2. Triple(q) /\ \A a \in Axes : q[a] = g.from[a] + (p[a] - e.from[a]) * g.strd[a]
    BY <2>1, TakenAxis
  <2>3. Triple(r) /\ \A a \in Axes : r[a] = Spot(0, 2 ^ l, k[a])
    BY <2>1, InPlaceAxis
  <2>4. \A a \in Axes : q[a] = r[a]
    BY <1>10, <2>2, <2>3
  <2> QED
    BY <2>1, <2>2, <2>3, <2>4, SameTriple
<1>14. SentTo(n, l, 3, k) = p
  <2>1. PICK q : q = SentTo(n, l, 3, k)
    OBVIOUS
  <2>2. \A i \in Axes : i <= 3
    BY DEF Axes
  <2>3. Triple(q) /\ \A i \in Axes : q[i] = HalfPlace(DimsLeft(n, l + 1)[i], k[i])
    BY <2>1, <2>2, SentAxis
  <2>4. \A i \in Axes : q[i] = p[i]
    BY <1>10, <2>3
  <2> QED
    BY <1>4, <2>1, <2>3, <2>4, SameTriple
<1>15. v[Row(n, InPlaceAt(l, k))] = w[Row(n, SentTo(n, l, 3, k))]
  BY <1>11, <1>12 DEF MatchAt, SameBefore
<1> QED
  BY <1>2, <1>13, <1>14, <1>15

\* Each sample of a subband is taken from where the transform in place has it.
LEMMA FormTakes ==
    ASSUME NEW n, NEW L, FormVolume(n, L), NEW v, NEW w, MatchAt(v, w, n, L, 0),
           NEW s, s \in DOMAIN SubbandExtents(n, L),
           NEW p, p \in Points(SubbandExtents(n, L)[s])
    PROVE  v[Row(n, TakenAt(SubbandExtents(n, L)[s], SubbandGrids(n, L)[s], p))] = w[Row(n, p)]
<1>1. n \in Lengths /\ L \in Nat /\ FlatLast(n) /\ ~Collapses(n, L)
  BY FormStays DEF FormVolume
<1>2. s \in 1 .. NBands(n, L) /\ NBands(n, L) \in Nat
  BY <1>1, FirstBands
<1>3. SubbandGrids(n, L)[s] = AllGrids(n, L)[s]
  <2>1. PICK m \in Nat : \E f : KeptAs(n, L, m, f)
    BY <1>1, KeptGrids
  <2> QED
    BY <1>1, <1>2, <2>1 DEF KeptAs
<1>4. CASE s = 1
  <2>1. AllGrids(n, L)[1] = CoarsestGrid(n, L)
    BY <1>1, FirstBands
  <2>2. p \in Points(SubbandExtents(n, L)[1])
    BY <1>4
  <2>3. v[Row(n, TakenAt(SubbandExtents(n, L)[1], CoarsestGrid(n, L), p))] = w[Row(n, p)]
    BY <2>2, TakesCoarsest
  <2> QED
    BY <1>3, <1>4, <2>1, <2>3
<1>5. CASE s # 1
  <2>1. s \in 2 .. NBands(n, L)
    BY <1>2, <1>5
  <2> QED
    BY <1>3, <2>1, TakesFiner
<1> QED
  BY <1>4, <1>5

-----------------------------------------------------------------------------
(* The task that transforms in place and then forms subbands.              *)

IsForm(t) ==
    t.kind = "form" /\ FormVolume(t.n, t.levels) /\ t.src \in [Indices(t.n) -> Int]

\* Pass k of both transforms.
LEMMA MatchStep ==
    ASSUME NEW t, IsForm(t), NEW k \in 0 .. 3 * t.levels - 1, NEW v,
           MatchAt(v, OldPasses(t)[k], t.n, LevelOf(k), k % 3)
    PROVE  MatchAt(ForwardPass(v, t, k), OldPasses(t)[k + 1], t.n, LevelOf(k + 1), (k + 1) % 3)
<1>1. PICK n \in Lengths, L \in Nat : n = t.n /\ L = t.levels /\ FormVolume(n, L)
  BY DEF IsForm, FormVolume
<1>2. HasSamples(t) /\ t.kind = "form"
  BY <1>1 DEF IsForm, HasSamples
<1>3. PICK l \in 0 .. L - 1, r \in 0 .. 2 : /\ l = LevelOf(k) /\ r = k % 3 /\ k = 3 * l + r
                                            /\ k \in Nat
  BY <1>1 DEF LevelOf
<1>4. PICK a \in Axes : a = AxisOf(k) /\ a = r + 1 /\ a - 1 = r
  BY <1>3 DEF AxisOf, Axes
<1>5. PICK w, y : w = OldPasses(t)[k] /\ y = OldPasses(t)[k + 1]
  OBVIOUS
<1>6. y = ForwardOld(w, n, a, DimsLeft(n, l))
  BY <1>1, <1>2, <1>3, <1>4, <1>5, PassesForth DEF ForwardAt
<1>7. PICK x : x = ForwardPass(v, t, k)
  OBVIOUS
<1>8. x = ForwardInPlace(v, n, a, PassGrid(n, k), n, "Normal")
  <2>1. Dims(t) = n
    BY <1>1, <1>2, NoRoom
  <2> QED
    BY <1>1, <1>2, <1>4, <1>7, <2>1 DEF ForwardPass
<1>9. PICK g : g = PassGrid(n, k) /\ FormGrid(g, n, l)
  BY <1>1, <1>3, PassGridOf
<1>10. MatchAt(v, w, n, l, a - 1)
  BY <1>1, <1>3, <1>4, <1>5
<1>11. MatchAt(x, y, n, l, a)
  BY <1>1, <1>6, <1>8, <1>9, <1>10, MatchPass
<1>12. CASE r = 2
  <2>1. LevelOf(k + 1) = l + 1 /\ (k + 1) % 3 = 0
    BY <1>3, <1>12 DEF LevelOf
  <2>2. MatchAt(x, y, n, l, 3)
    BY <1>4, <1>11, <1>12
  <2>3. MatchAt(x, y, n, l + 1, 0)
    BY <1>1, <2>2, MatchLevel
  <2> QED
    BY <1>1, <1>5, <1>7, <2>1, <2>3
<1>13. CASE r # 2
  <2>1. LevelOf(k + 1) = l /\ (k + 1) % 3 = a
    BY <1>3, <1>4, <1>13 DEF LevelOf
  <2> QED
    BY <1>1, <1>5, <1>7, <1>11, <2>1
<1> QED
  BY <1>12, <1>13

\* The sample that FormSubbands takes for sample i.
FormedFrom(n, L, i) ==
    LET s == CHOOSE j \in DOMAIN SubbandExtents(n, L) :
                Position(n, i) \in Points(SubbandExtents(n, L)[j])
    IN Row(n, TakenAt(SubbandExtents(n, L)[s], SubbandGrids(n, L)[s], Position(n, i)))

LEMMA FormsOld ==
    ASSUME NEW n, NEW L, FormVolume(n, L), NEW v, NEW w, MatchAt(v, w, n, L, 0)
    PROVE  [i \in DOMAIN v |-> v[FormedFrom(n, L, i)]] = w
<1>1. n \in Lengths /\ n \in Sizes /\ L \in Nat /\ FlatLast(n)
  BY LengthsFit DEF FormVolume
<1>2. v \in [Indices(n) -> Int] /\ w \in [Indices(n) -> Int]
  BY DEF MatchAt
<1>3. ASSUME NEW i \in Indices(n)
      PROVE  v[FormedFrom(n, L, i)] = w[i]
  <2>1. PICK p : p = Position(n, i) /\ p \in Box(n) /\ Row(n, p) = i
    BY <1>1, PositionAt
  <2>2. p \in Vectors
    <3>1. Triple(p) /\ \A a \in Axes : p[a] \in 0 .. n[a] - 1
      BY <2>1, InBox
    <3>2. ASSUME NEW a \in Axes PROVE p[a] \in Nat
      <4>1. n[a] \in Nat /\ p[a] \in 0 .. n[a] - 1
        BY <1>1, <3>1, LengthsFit DEF FormVolume
      <4> QED
        BY <4>1
    <3> QED
      BY <3>1, <3>2, InVectors
  <2>3. \E j \in DOMAIN SubbandExtents(n, L) : p \in Points(SubbandExtents(n, L)[j])
    <3>1. PICK j \in DOMAIN SubbandExtents(n, L) : In(SubbandExtents(n, L)[j], p)
      BY <1>1, <2>1, Covered
    <3>2. p \in Points(SubbandExtents(n, L)[j])
      BY <1>1, <2>2, <3>1, BandPoints
    <3> QED
      BY <3>2
  <2>4. PICK s : s = CHOOSE j \in DOMAIN SubbandExtents(n, L) :
                        p \in Points(SubbandExtents(n, L)[j])
    OBVIOUS
  <2>5. s \in DOMAIN SubbandExtents(n, L) /\ p \in Points(SubbandExtents(n, L)[s])
    BY <2>3, <2>4
  <2>6. v[Row(n, TakenAt(SubbandExtents(n, L)[s], SubbandGrids(n, L)[s], p))] = w[Row(n, p)]
    BY <2>5, FormTakes
  <2>7. FormedFrom(n, L, i) = Row(n, TakenAt(SubbandExtents(n, L)[s], SubbandGrids(n, L)[s], p))
    BY <2>1, <2>4 DEF FormedFrom
  <2> QED
    BY <2>1, <2>6, <2>7
<1> QED
  BY <1>2, <1>3

\* As far as it has come, the transform in place holds what the codec's holds.
FormPhases ==
    /\ IsForm(task)
    /\ phase \in {"forward", "form", "done"}
    /\ phase = "forward" =>
          /\ step \in 0 .. NPasses
          /\ MatchAt(vol, OldPasses(task)[step], task.n, LevelOf(step), step % 3)
    /\ phase = "form" => MatchAt(vol, OldPasses(task)[NPasses], task.n, task.levels, 0)
    /\ phase = "done" => out = OldPasses(task)[NPasses]

FormInv == task.kind = "form" => FormPhases

LEMMA FormInit == Init => FormInv
<1> SUFFICES ASSUME Init, task.kind = "form" PROVE FormPhases
  BY DEF FormInv
<1>1. task \in Tasks("form", FormCases, {Scale})
  <2>1. \A t \in Tasks("inplace", InPlaceCases, {Scale}) : t.kind = "inplace"
    BY TaskOf
  <2>2. \A t \in Tasks("codec", CodecCases, Heights) : t.kind = "codec"
    BY TaskOf
  <2>3. \A t \in Tasks("tiles", TileCases, {Scale}) : t.kind = "tiles"
    BY TaskOf
  <2>4. \A t \in LookupTasks : t.kind = "lookup"
    BY DEF LookupTasks
  <2> QED
    BY <2>1, <2>2, <2>3, <2>4 DEF Init
<1>2. PICK c \in FormCases : \E s \in Inputs(c[1], {Scale}) :
        task = [kind |-> "form", n |-> c[1], levels |-> c[2], src |-> s]
  BY <1>1, TaskOf
<1>3. PICK s \in Inputs(c[1], {Scale}) :
        task = [kind |-> "form", n |-> c[1], levels |-> c[2], src |-> s]
  BY <1>2
<1>4. c[1] \in Lengths /\ c[2] \in Nat /\ FlatLast(c[1]) /\ NeverExtrapolates(c[1], c[2])
  BY CasesAssumption
<1>5. s \in [Indices(c[1]) -> Int]
  <2>1. {Scale} \subseteq Int
    BY CasesAssumption
  <2> QED
    BY <2>1, InputsAre
<1>6. task.kind = "form" /\ task.n = c[1] /\ task.levels = c[2] /\ task.src = s
  BY <1>3
<1>7. IsForm(task) /\ HasSamples(task) /\ task.kind # "inplace"
  BY <1>4, <1>5, <1>6 DEF IsForm, FormVolume, HasSamples
<1>8. vol = task.src /\ phase = "forward" /\ step = 0
  <2>1. vol = Placed(task) /\ step = 0 /\ phase = "forward"
    BY <1>6 DEF Init
  <2> QED
    BY <1>7, <2>1, NoRoom
<1>9. OldPasses(task)[0] = task.src
  BY <1>7, PassesForth
<1>10. MatchAt(vol, OldPasses(task)[0], task.n, 0, 0)
  BY <1>7, <1>8, <1>9, MatchStart DEF IsForm
<1>11. LevelOf(0) = 0 /\ 0 % 3 = 0
  BY DEF LevelOf
<1>12. 0 \in 0 .. NPasses
  <2>1. 3 * task.levels \in Nat
    BY <1>7 DEF HasSamples
  <2> QED
    BY <2>1 DEF NPasses
<1> QED
  BY <1>7, <1>8, <1>10, <1>11, <1>12 DEF FormPhases

LEMMA FormForward ==
    ASSUME FormPhases, ForwardAxis
    PROVE  FormPhases'
<1>1. /\ IsForm(task) /\ phase = "forward" /\ step \in 0 .. NPasses /\ step < NPasses
      /\ MatchAt(vol, OldPasses(task)[step], task.n, LevelOf(step), step % 3)
  BY DEF FormPhases, ForwardAxis
<1>2. PICK N \in Nat : N = NPasses /\ N = 3 * task.levels
  <2>1. 3 * task.levels \in Nat
    BY <1>1 DEF IsForm, FormVolume
  <2> QED
    BY <2>1 DEF NPasses
<1>3. step \in 0 .. N - 1 /\ step + 1 \in 0 .. N
  BY <1>1, <1>2
<1>4. /\ vol' = ForwardPass(vol, task, step) /\ task' = task /\ phase' = "forward"
      /\ step' = step + 1
  BY <1>1 DEF ForwardAxis
<1>5. MatchAt(vol', OldPasses(task)[step + 1], task.n, LevelOf(step + 1), (step + 1) % 3)
  BY <1>1, <1>2, <1>3, <1>4, MatchStep
<1>6. IsForm(task') /\ NPasses' = N
  BY <1>1, <1>2, <1>4 DEF NPasses
<1>7. step' \in 0 .. N
  BY <1>3, <1>4
<1>8. MatchAt(vol', OldPasses(task')[step'], task'.n, LevelOf(step'), step' % 3)
  BY <1>4, <1>5
<1> QED
  BY <1>4, <1>6, <1>7, <1>8 DEF FormPhases

LEMMA FormEndForward ==
    ASSUME FormPhases, EndForward
    PROVE  FormPhases'
<1>1. /\ IsForm(task) /\ phase = "forward" /\ step = NPasses
      /\ MatchAt(vol, OldPasses(task)[step], task.n, LevelOf(step), step % 3)
  BY DEF FormPhases, EndForward
<1>2. PICK L \in Nat : L = task.levels /\ NPasses = 3 * L
  BY <1>1 DEF IsForm, FormVolume, NPasses
<1>3. LevelOf(NPasses) = L /\ NPasses % 3 = 0
  BY <1>2 DEF LevelOf
<1>4. task' = task /\ vol' = vol /\ phase' = "form"
  BY <1>1 DEF EndForward, IsForm
<1>5. MatchAt(vol, OldPasses(task)[NPasses], task.n, task.levels, 0)
  BY <1>1, <1>2, <1>3
<1>6. NPasses' = NPasses
  BY <1>4 DEF NPasses
<1>7. MatchAt(vol', OldPasses(task')[NPasses'], task'.n, task'.levels, 0) /\ IsForm(task')
  BY <1>1, <1>4, <1>5, <1>6
<1> QED
  BY <1>4, <1>7 DEF FormPhases

LEMMA FormDone ==
    ASSUME FormPhases, FormSubbands
    PROVE  FormPhases'
<1>1. /\ IsForm(task) /\ phase = "form"
      /\ MatchAt(vol, OldPasses(task)[NPasses], task.n, task.levels, 0)
  BY DEF FormPhases, FormSubbands
<1>2. out' = [i \in DOMAIN vol |-> vol[FormedFrom(task.n, task.levels, i)]]
  BY DEF FormSubbands, FormedFrom, TakenAt
<1>3. task' = task /\ phase' = "done"
  BY DEF FormSubbands
<1>4. FormVolume(task.n, task.levels)
  BY <1>1 DEF IsForm
<1>5. out' = OldPasses(task)[NPasses]
  BY <1>1, <1>2, <1>4, FormsOld
<1>6. NPasses' = NPasses
  BY <1>3 DEF NPasses
<1>7. out' = OldPasses(task')[NPasses'] /\ IsForm(task')
  BY <1>1, <1>3, <1>5, <1>6
<1> QED
  BY <1>3, <1>7 DEF FormPhases

LEMMA WaveletFormInv == Spec => []FormInv
<1>1. FormInv /\ [Next]_vars => FormInv'
  <2> SUFFICES ASSUME FormInv, [Next]_vars, task'.kind = "form"
               PROVE  FormPhases'
    BY DEF FormInv
  <2>1. task' = task
    BY DEF Next, vars, ForwardAxis, EndForward, InverseAxis, EndInverse, WriteTile, ReadTile,
           NextSubband, BeginDecode, EndRead, FormSubbands, LiftTile, AddTile, LookUp,
           EndLookUp, Done
  <2>2. FormPhases
    BY <2>1 DEF FormInv
  <2>3. phase \in {"forward", "form", "done"}
    BY <2>2 DEF FormPhases
  <2>4. CASE UNCHANGED vars
    BY <2>2, <2>4 DEF vars, FormPhases, NPasses
  <2>5. CASE ForwardAxis
    BY <2>2, <2>5, FormForward
  <2>6. CASE EndForward
    BY <2>2, <2>6, FormEndForward
  <2>7. CASE FormSubbands
    BY <2>2, <2>7, FormDone
  <2>8. CASE Done
    BY <2>4, <2>8 DEF Done
  <2>9. ~InverseAxis /\ ~EndInverse /\ ~WriteTile /\ ~ReadTile /\ ~NextSubband /\ ~BeginDecode
        /\ ~EndRead /\ ~LiftTile /\ ~AddTile /\ ~LookUp /\ ~EndLookUp
    BY <2>3 DEF InverseAxis, EndInverse, WriteTile, ReadTile, NextSubband, BeginDecode, EndRead,
                LiftTile, AddTile, LookUp, EndLookUp, Coding
  <2> QED
    BY <2>4, <2>5, <2>6, <2>7, <2>8, <2>9 DEF Next
<1> QED
  BY <1>1, FormInit, PTL DEF Spec

\* The transform in place followed by FormSubbands is the transform of the
\* codec, for every volume in which nothing is extrapolated and any number of
\* levels.
THEOREM WaveletAgrees == Spec => []AgreesWithOld
<1>1. FormInv => AgreesWithOld
  BY DEF FormInv, FormPhases, AgreesWithOld
<1> QED
  BY <1>1, WaveletFormInv, PTL

-----------------------------------------------------------------------------
(* Two tiles that share a column.                                          *)

\* Of the row through p along axis a, d samples from number f on.
Stretch(v, n, a, p, f, d) == [x \in 0 .. d - 1 |-> v[Row(n, Put(p, a, f + x))]]

\* A grid without steps is an extent.
Stepless(g) == \A i \in Axes : g.strd[i] = 1
Numbers(g, p) == Each(LAMBDA i : p[i] - g.from[i])

LEMMA NumbersAre ==
    ASSUME NEW g, NEW p
    PROVE  Triple(Numbers(g, p)) /\ \A i \in Axes : Numbers(g, p)[i] = p[i] - g.from[i]
BY DEF Numbers, Each, Triple, Axes

LEMMA NumbersFit ==
    ASSUME NEW n, NEW a \in Axes, NEW g, GridFits(g, n, a), Stepless(g),
           NEW p \in Box(n), In(g, p)
    PROVE  Numbers(g, p) \in Box(g.dims) /\ SpotAt(g, Numbers(g, p)) = p
<1>1. PICK j : j = Numbers(g, p) /\ Triple(j) /\ \A i \in Axes : j[i] = p[i] - g.from[i]
  BY NumbersAre
<1>2. Triple(p) /\ \A i \in Axes : p[i] \in 0 .. n[i] - 1
  BY InBox
<1>3. ASSUME NEW i \in Axes
      PROVE  j[i] \in 0 .. g.dims[i] - 1 /\ SpotAt(g, j)[i] = p[i]
  <2>1. PICK f \in Nat, d \in Nat, m \in Nat, q \in Int : f = g.from[i] /\ d = g.dims[i] /\ m = n[i] /\ q = p[i]
    BY <1>2 DEF GridFits
  <2>2. j[i] = q - f /\ f <= q /\ q < f + d
    BY <1>1, <2>1 DEF In
  <2>3. SpotAt(g, j)[i] = Spot(f, 1, q - f)
    BY <2>1, <2>2, SpotAxis DEF Stepless
  <2>4. Spot(f, 1, q - f) = q
    BY <2>1 DEF Spot
  <2> QED
    BY <2>1, <2>2, <2>3, <2>4
<1>4. Triple(SpotAt(g, j))
  BY SpotAxis
<1>5. SpotAt(g, j) = p
  BY <1>2, <1>3, <1>4, SameTriple
<1>6. j \in Box(g.dims)
  BY <1>1, <1>3, InBox
<1> QED
  BY <1>1, <1>5, <1>6

\* A pass in place over an extent.
LEMMA PassStretch ==
    ASSUME NEW n \in Sizes, NEW a \in Axes, NEW g, GridFits(g, n, a), Stepless(g),
           NEW v \in [Indices(n) -> Int], NEW w, w = ForwardInPlace(v, n, a, g, n, "Normal")
    PROVE  /\ w \in [Indices(n) -> Int]
           /\ \A p \in Box(n) : In(g, p) =>
                 w[Row(n, p)] = LiftedAt(Stretch(v, n, a, p, g.from[a], g.dims[a]), g.dims[a],
                                         p[a] - g.from[a])
<1>1. LiftedOver(w, v, n, a, g)
  BY PassInPlace
<1>2. ASSUME NEW p \in Box(n), In(g, p)
      PROVE  w[Row(n, p)] = LiftedAt(Stretch(v, n, a, p, g.from[a], g.dims[a]), g.dims[a],
                                     p[a] - g.from[a])
  <2>1. PICK j : j = Numbers(g, p) /\ j \in Box(g.dims) /\ SpotAt(g, j) = p
    BY <1>2, NumbersFit
  <2>2. w[Row(n, p)] = LiftedAt(Along(v, n, g, a, j), g.dims[a], j[a])
    BY <1>1, <2>1 DEF LiftedOver
  <2>3. j[a] = p[a] - g.from[a]
    BY <2>1, NumbersAre
  <2>4. ASSUME NEW x \in 0 .. g.dims[a] - 1
        PROVE  SpotAt(g, Put(j, a, x)) = Put(p, a, g.from[a] + x)
    <3>1. SpotAt(g, Put(j, a, x)) = Put(p, a, Spot(g.from[a], g.strd[a], x))
      BY <2>1, InBox, SpotAlong
    <3>2. g.from[a] \in Nat /\ g.strd[a] = 1 /\ x \in Int
      BY DEF GridFits, Stepless
    <3>3. Spot(g.from[a], g.strd[a], x) = g.from[a] + x
      BY <3>2 DEF Spot
    <3> QED
      BY <3>1, <3>3
  <2>5. Along(v, n, g, a, j) = Stretch(v, n, a, p, g.from[a], g.dims[a])
    BY <2>4 DEF Along, Stretch
  <2> QED
    BY <2>2, <2>3, <2>5
<1> QED
  BY <1>1, <1>2 DEF LiftedOver

\* With PartialUpdateLast only the last sample of each row is another one.
LEMMA PartialStretch ==
    ASSUME NEW n \in Sizes, NEW a \in Axes, NEW g, GridFits(g, n, a), Stepless(g), g.dims[a] > 1,
           NEW v \in [Indices(n) -> Int],
           NEW u, u = ForwardInPlace(v, n, a, g, n, "Normal"),
           NEW w, w = ForwardInPlace(v, n, a, g, n, "PartialUpdateLast")
    PROVE  /\ w \in [Indices(n) -> Int]
           /\ \A p \in Box(n) : In(g, p) =>
                 w[Row(n, p)] = IF p[a] = g.from[a] + g.dims[a] - 1
                                THEN FromLeft(Stretch(v, n, a, p, g.from[a], g.dims[a]),
                                              g.dims[a] - 1)
                                ELSE u[Row(n, p)]
<1>1. PICK f \in Nat, c \in Nat \ {0}, N \in Nat \ {0} :
         /\ f = g.from[a] /\ c = g.dims[a] /\ 1 = g.strd[a] /\ N = n[a]
         /\ c % 2 = 1 /\ c > 1 /\ Spot(f, 1, c - 1) < N
  BY DEF GridFits, Stepless
<1>2. Spot(f, 1, c - 1) = f + c - 1 /\ Spot(f, 1, c - 1) <= N
  BY <1>1 DEF Spot
<1> DEFINE FL(e, o) == FLift(RowOf(v, n, a, Put(e, a, 0)), f, c, 1, N, o)
<1>3. ASSUME NEW e \in Box(n), NEW o
      PROVE  ForwardInPlace(v, n, a, g, n, o)[Row(n, e)]
               = IF Put(e, a, 0) \in RowStarts(g, n, a) THEN FL(e, o)[e[a]] ELSE v[Row(n, e)]
  <2>1. ForwardInPlace(v, n, a, g, n, o) = InPlaceRows(v, n, a, g, n, o)
    BY <1>1, InPlaceIs
  <2>2. Row(n, e) \in Indices(n) /\ Position(n, Row(n, e)) = e
    BY RowAt
  <2>3. StartOf(n, a, Row(n, e)) = Put(e, a, 0)
    BY <2>2 DEF StartOf, Put
  <2> QED
    BY <1>1, <2>1, <2>2, <2>3 DEF InPlaceRows
<1>4. ASSUME NEW e \in Box(n)
      PROVE  /\ FL(e, "PartialUpdateLast")[e[a]] \in Int
             /\ FL(e, "PartialUpdateLast")[e[a]]
                  = IF e[a] = f + c - 1 THEN FromLeft(Stretch(v, n, a, e, f, c), c - 1)
                    ELSE FL(e, "Normal")[e[a]]
  <2>1. PICK r \in [0 .. N - 1 -> Int] : /\ r = RowOf(v, n, a, Put(e, a, 0))
                                         /\ \A x \in 0 .. N - 1 : r[x] = v[Row(n, Put(e, a, x))]
    BY <1>1, RowThrough
  <2>2. e[a] \in 0 .. N - 1
    BY <1>1, InBox
  <2>3. PICK x, y : x = FLift(r, f, c, 1, N, "Normal") /\ y = FLift(r, f, c, 1, N, "PartialUpdateLast")
    OBVIOUS
  <2>4. /\ y[e[a]] \in Int
        /\ y[e[a]] = IF e[a] = Spot(f, 1, c - 1) THEN FromLeft(Strided(r, f, 1, c), c - 1)
                     ELSE x[e[a]]
    <3>1. PICK s \in Nat \ {0} : s = 1
      OBVIOUS
    <3>2. Spot(f, s, c - 1) < N /\ Spot(f, s, c - 1) <= N /\ N \in Int
      BY <1>1, <1>2, <3>1
    <3>3. x = FLift(r, f, c, s, N, "Normal") /\ y = FLift(r, f, c, s, N, "PartialUpdateLast")
      BY <2>3, <3>1
    <3>4. PICK z \in 0 .. N - 1 : z = e[a]
      BY <2>2
    <3>5. PartlyLifted(r, f, s, c, N, N)
      BY <1>1, <2>1, <3>1, <3>2, PartialRow
    <3>6. /\ y[z] \in Int
          /\ y[z] = IF z = Spot(f, s, c - 1) THEN FromLeft(Strided(r, f, s, c), c - 1) ELSE x[z]
      BY <3>3, <3>4, <3>5 DEF PartlyLifted
    <3> QED
      BY <3>1, <3>4, <3>6
  <2>5. ASSUME NEW z \in 0 .. c - 1
        PROVE  r[Spot(f, 1, z)] = v[Row(n, Put(e, a, f + z))]
    <3>1. Spot(f, 1, z) = f + z
      BY DEF Spot
    <3>2. f + c - 1 < N
      BY <1>1, <1>2
    <3>3. f + z \in 0 .. N - 1
      BY <3>2
    <3> QED
      BY <2>1, <3>1, <3>3
  <2>6. Strided(r, f, 1, c) = Stretch(v, n, a, e, f, c)
    BY <2>5 DEF Strided, Stretch
  <2> QED
    BY <1>2, <2>1, <2>3, <2>4, <2>6
<1> HIDE DEF FL
<1>5. ASSUME NEW i \in Indices(n)
      PROVE  w[i] \in Int
  <2>1. PICK e \in Box(n) : Row(n, e) = i
    BY PositionAt
  <2> QED
    BY <1>3, <1>4, <2>1
<1>6. w \in [Indices(n) -> Int]
  <2>1. w = InPlaceRows(v, n, a, g, n, "PartialUpdateLast")
    BY <1>1, InPlaceIs
  <2>2. w = [i \in Indices(n) |-> w[i]]
    BY <2>1 DEF InPlaceRows
  <2> QED
    BY <1>5, <2>2
<1>7. ASSUME NEW p \in Box(n), In(g, p)
      PROVE  Put(p, a, 0) \in RowStarts(g, n, a)
  <2>1. \E j \in Box(g.dims) : SpotAt(g, j) = p
    BY <1>7, NumbersFit
  <2>2. \E j \in Box(g.dims) : Put(p, a, 0) = Put(SpotAt(g, j), a, 0)
    BY <2>1
  <2> QED
    BY <2>2, StartsAre
<1> QED
  BY <1>1, <1>3, <1>4, <1>6, <1>7

\* A tile of whole columns, the first of them number f and d of them.
HasColumns(g, n, f, d) ==
    /\ g.from[1] = f /\ g.dims[1] = d /\ g.from[2] = 0 /\ g.dims[2] = n[2]
    /\ Stepless(g) /\ GridFits(g, n, 1) /\ GridFits(g, n, 2)
    /\ \A p \in Box(n) : /\ In(g, p) <=> (f <= p[1] /\ p[1] < f + d)
                         /\ p \in Points(g) <=> (f <= p[1] /\ p[1] < f + d)

LEMMA ColumnTile ==
    ASSUME NEW n \in Lengths, n[1] % 2 = 1, n[2] % 2 = 1, NEW f \in Nat, NEW d \in Nat \ {0},
           d % 2 = 1, f + d <= n[1], NEW g, g = Extent(<<f, 0, 0>>, <<d, n[2], n[3]>>)
    PROVE  HasColumns(g, n, f, d)
<1>0. n[1] \in Nat \ {0} /\ n[2] \in Nat \ {0} /\ n[3] \in Nat \ {0}
  BY LengthsFit DEF Axes
<1>1. PICK N \in Nat \ {0}, m \in Nat \ {0}, h \in Nat \ {0} : N = n[1] /\ m = n[2] /\ h = n[3]
  BY <1>0
<1>2. PICK e \in Vectors, b \in Vectors : e = <<f, 0, 0>> /\ b = <<d, m, h>>
  BY DEF Vectors
<1>3. g = Extent(e, b)
  BY <1>1, <1>2
<1>4. g = [from |-> e, dims |-> b, strd |-> Vec(1)]
  <2>1. ASSUME NEW i \in Axes PROVE e[i] <= n[i] /\ b[i] <= n[i]
    BY <1>1, <1>2 DEF Axes
  <2> QED
    BY <1>3, <2>1, ExtentFits
<1>5. /\ g.from[1] = f /\ g.from[2] = 0 /\ g.from[3] = 0
      /\ g.dims[1] = d /\ g.dims[2] = m /\ g.dims[3] = h
      /\ g.strd[1] = 1 /\ g.strd[2] = 1 /\ g.strd[3] = 1
  BY <1>2, <1>4 DEF Vec
<1>6. Stepless(g)
  BY <1>5 DEF Stepless, Axes
<1>7. /\ Spot(f, 1, d - 1) < N /\ Spot(0, 1, m - 1) < m /\ Spot(0, 1, h - 1) < h
  BY <1>1 DEF Spot
<1>8. ASSUME NEW i \in Axes
      PROVE  /\ n[i] \in Nat \ {0} /\ g.from[i] \in Nat /\ g.dims[i] \in Nat \ {0}
             /\ g.strd[i] \in Int
             /\ g.dims[i] > 1 => g.strd[i] \in Nat \ {0}
             /\ Spot(g.from[i], g.strd[i], g.dims[i] - 1) < n[i]
  <2>1. CASE i = 1
    BY <1>1, <1>5, <1>7, <2>1
  <2>2. CASE i = 2
    BY <1>1, <1>5, <1>7, <2>2
  <2>3. CASE i = 3
    BY <1>1, <1>5, <1>7, <2>3
  <2> QED
    BY <2>1, <2>2, <2>3 DEF Axes
<1>9. GridFits(g, n, 1) /\ GridFits(g, n, 2)
  <2>1. g.dims[1] % 2 = 1 /\ g.dims[2] % 2 = 1
    BY <1>1, <1>5
  <2> QED
    BY <1>8, <2>1, Zenon DEF GridFits
<1>10. ASSUME NEW p \in Box(n)
       PROVE  /\ In(g, p) <=> (f <= p[1] /\ p[1] < f + d)
              /\ p \in Points(g) <=> (f <= p[1] /\ p[1] < f + d)
  <2>1. PICK x \in 0 .. N - 1, y \in 0 .. m - 1, z \in 0 .. h - 1 : p = <<x, y, z>>
    BY <1>1 DEF Box
  <2>2. p[1] = x /\ p[2] = y /\ p[3] = z
    BY <2>1
  <2>3. In(g, p) <=> (f <= x /\ x < f + d)
    BY <1>5, <2>2 DEF In, Axes
  <2>4. \A i \in Axes : On(g, i, p[i]) <=> (p[i] \in Nat /\ e[i] <= p[i] /\ p[i] < e[i] + b[i])
    BY <1>4, ExtentOn
  <2>5. /\ On(g, 1, p[1]) <=> (f <= x /\ x < f + d)
        /\ On(g, 2, p[2]) /\ On(g, 3, p[3])
    BY <1>2, <2>2, <2>4 DEF Axes
  <2>6. p \in Points(g) <=> \A i \in Axes : On(g, i, p[i])
    BY <2>1, <2>2, PointOn
  <2>7. (\A i \in Axes : On(g, i, p[i])) <=> (f <= x /\ x < f + d)
    BY <2>5 DEF Axes
  <2> QED
    BY <2>2, <2>3, <2>6, <2>7
<1>11. g.from[1] = f /\ g.dims[1] = d /\ g.from[2] = 0 /\ g.dims[2] = n[2]
  BY <1>1, <1>5
<1>12. \A p \in Box(n) : /\ In(g, p) <=> (f <= p[1] /\ p[1] < f + d)
                         /\ p \in Points(g) <=> (f <= p[1] /\ p[1] < f + d)
  BY <1>10
<1> QED
  BY <1>6, <1>9, <1>11, <1>12, Zenon DEF HasColumns

\* What the tiles hold is the sum of the two where they meet.
TilesMeet(l, u, w, n, c) ==
    /\ l \in [Indices(n) -> Int] /\ u \in [Indices(n) -> Int] /\ w \in [Indices(n) -> Int]
    /\ \A p \in Box(n) :
          /\ p[1] < c => w[Row(n, p)] = l[Row(n, p)]
          /\ p[1] > c => w[Row(n, p)] = u[Row(n, p)]
          /\ p[1] = c => w[Row(n, p)] = l[Row(n, p)] + u[Row(n, p)]

\* So that the sum may be lifted along the column.
ColumnExact(l, u, n, c) ==
    \A p \in Box(n) : p[1] = c => l[Row(n, p)] % 8 = 0 /\ u[Row(n, p)] % 8 = 0

\* The passes along x.
LEMMA TilesAlongX ==
    ASSUME NEW n \in Lengths, NEW c, SharesColumn(n, c), NEW v \in [Indices(n) -> Int],
           \A i \in Indices(n) : v[i] % 64 = 0,
           NEW e, HasColumns(e, n, 0, c + 1), NEW g, HasColumns(g, n, c, n[1] - c),
           NEW b, HasColumns(b, n, 0, n[1]),
           NEW l, l = ForwardInPlace(v, n, 1, e, n, "PartialUpdateLast"),
           NEW u, u = ForwardInPlace(v, n, 1, g, n, "Normal"),
           NEW w, w = ForwardInPlace(v, n, 1, b, n, "Normal")
    PROVE  TilesMeet(l, u, w, n, c) /\ ColumnExact(l, u, n, c)
<1>1. PICK N \in Nat \ {0} : N = n[1] /\ N % 2 = 1
  BY LengthsFit DEF SharesColumn, Axes
<1>2. c \in 1 .. N - 2 /\ c % 2 = 0 /\ n \in Sizes /\ 1 \in Axes
  BY <1>1, LengthsFit DEF SharesColumn, Axes
<1>3. PICK x : x = ForwardInPlace(v, n, 1, e, n, "Normal")
  OBVIOUS
<1>4. e.dims[1] > 1 /\ GridFits(e, n, 1) /\ Stepless(e) /\ e.from[1] = 0 /\ e.dims[1] = c + 1
  BY <1>2 DEF HasColumns
<1>5. /\ x \in [Indices(n) -> Int]
      /\ \A p \in Box(n) : In(e, p) =>
            x[Row(n, p)] = LiftedAt(Stretch(v, n, 1, p, e.from[1], e.dims[1]), e.dims[1],
                                    p[1] - e.from[1])
  BY <1>2, <1>3, <1>4, PassStretch
<1>6. /\ l \in [Indices(n) -> Int]
      /\ \A p \in Box(n) : In(e, p) =>
            l[Row(n, p)] = IF p[1] = e.from[1] + e.dims[1] - 1
                           THEN FromLeft(Stretch(v, n, 1, p, e.from[1], e.dims[1]), e.dims[1] - 1)
                           ELSE x[Row(n, p)]
  BY <1>2, <1>3, <1>4, PartialStretch
<1>7. GridFits(g, n, 1) /\ Stepless(g) /\ g.from[1] = c /\ g.dims[1] = N - c
  BY <1>1 DEF HasColumns
<1>8. /\ u \in [Indices(n) -> Int]
      /\ \A p \in Box(n) : In(g, p) =>
            u[Row(n, p)] = LiftedAt(Stretch(v, n, 1, p, g.from[1], g.dims[1]), g.dims[1],
                                    p[1] - g.from[1])
  BY <1>2, <1>7, PassStretch
<1>9. GridFits(b, n, 1) /\ Stepless(b) /\ b.from[1] = 0 /\ b.dims[1] = N
  BY <1>1 DEF HasColumns
<1>10. /\ w \in [Indices(n) -> Int]
       /\ \A p \in Box(n) : In(b, p) =>
             w[Row(n, p)] = LiftedAt(Stretch(v, n, 1, p, b.from[1], b.dims[1]), b.dims[1],
                                     p[1] - b.from[1])
  BY <1>2, <1>9, PassStretch
<1>11. ASSUME NEW p \in Box(n)
       PROVE  /\ p[1] < c => w[Row(n, p)] = l[Row(n, p)]
              /\ p[1] > c => w[Row(n, p)] = u[Row(n, p)]
              /\ p[1] = c => w[Row(n, p)] = l[Row(n, p)] + u[Row(n, p)]
              /\ p[1] = c => l[Row(n, p)] % 8 = 0 /\ u[Row(n, p)] % 8 = 0
  <2>1. PICK k \in 0 .. N - 1 : k = p[1]
    BY <1>1, <1>2, InBox
  <2>2. PICK r, s, t : /\ r = Stretch(v, n, 1, p, 0, N) /\ s = Stretch(v, n, 1, p, 0, c + 1)
                       /\ t = Stretch(v, n, 1, p, c, N - c)
    OBVIOUS
  <2>3. w[Row(n, p)] = LiftedAt(r, N, k)
    <3>1. In(b, p)
      <4>1. 0 <= k /\ k < 0 + N
        OBVIOUS
      <4> QED
        BY <1>1, <2>1, <4>1 DEF HasColumns
    <3>2. k - 0 = k
      OBVIOUS
    <3> QED
      BY <1>9, <1>10, <2>1, <2>2, <3>1, <3>2
  <2>4. k <= c => l[Row(n, p)] = IF k = c THEN FromLeft(s, c) ELSE LiftedAt(s, c + 1, k)
    <3> SUFFICES ASSUME k <= c
                 PROVE  l[Row(n, p)] = IF k = c THEN FromLeft(s, c) ELSE LiftedAt(s, c + 1, k)
      OBVIOUS
    <3>1. In(e, p)
      BY <1>2, <2>1 DEF HasColumns
    <3>2. k - 0 = k /\ 0 + (c + 1) - 1 = c /\ (c + 1) - 1 = c
      BY <1>2
    <3>3. x[Row(n, p)] = LiftedAt(s, c + 1, k)
      BY <1>4, <1>5, <2>1, <2>2, <3>1, <3>2
    <3> QED
      BY <1>4, <1>6, <2>1, <2>2, <3>1, <3>2, <3>3
  <2>5. k >= c => u[Row(n, p)] = LiftedAt(t, N - c, k - c)
    <3> SUFFICES ASSUME k >= c
                 PROVE  u[Row(n, p)] = LiftedAt(t, N - c, k - c)
      OBVIOUS
    <3>1. In(g, p)
      <4>1. c <= k /\ k < c + (N - c)
        BY <1>2
      <4> QED
        BY <1>1, <2>1, <4>1 DEF HasColumns
    <3> QED
      BY <1>7, <1>8, <2>1, <2>2, <3>1
  <2>6. \A y \in 0 .. N - 1 : r[y] \in Int /\ r[y] % 64 = 0
    <3>1. ASSUME NEW y \in 0 .. N - 1
          PROVE  r[y] \in Int /\ r[y] % 64 = 0
      <4>1. r[y] = v[Row(n, Put(p, 1, 0 + y))] /\ 0 + y = y
        BY <2>2 DEF Stretch
      <4>2. Row(n, Put(p, 1, y)) \in Indices(n)
        BY <1>1, <1>2, PutInBox, RowAt
      <4> QED
        BY <4>1, <4>2
    <3> QED
      BY <3>1
  <2>7. \A y \in 0 .. c : s[y] = r[y]
    BY <1>2, <2>2 DEF Stretch
  <2>8. \A y \in 0 .. N - 1 - c : t[y] = r[y + c]
    <3>1. ASSUME NEW y \in 0 .. N - 1 - c
          PROVE  t[y] = r[y + c]
      <4>1. t[y] = v[Row(n, Put(p, 1, c + y))]
        BY <1>2, <2>2 DEF Stretch
      <4>2. y + c \in 0 .. N - 1 /\ 0 + (y + c) = c + y
        BY <1>2
      <4>3. r[y + c] = v[Row(n, Put(p, 1, 0 + (y + c)))]
        BY <2>2, <4>2 DEF Stretch
      <4> QED
        BY <4>1, <4>2, <4>3
    <3> QED
      BY <3>1
  <2>9. /\ \A y \in 0 .. c - 1 : LiftedAt(s, c + 1, y) = LiftedAt(r, N, y)
        /\ \A y \in c + 1 .. N - 1 : LiftedAt(t, N - c, y - c) = LiftedAt(r, N, y)
        /\ FromLeft(s, c) = FromLeft(r, c)
        /\ LiftedAt(t, N - c, 0) = r[c] + (0 + FromRight(r, N, c))
    <3>1. PartsOf(r, N, c, s, t)
      BY <2>7, <2>8 DEF PartsOf
    <3>2. LiftedParts(r, N, c, s, t)
      BY <1>1, <1>2, <3>1, TwoParts
    <3> QED
      BY <3>2 DEF LiftedParts
  <2>10. CASE k < c
    BY <1>2, <2>1, <2>3, <2>4, <2>9, <2>10
  <2>11. CASE k > c
    BY <1>2, <2>1, <2>3, <2>5, <2>9, <2>11
  <2>12. CASE k = c
    <3>1. AllMultiples(r, N, 64) /\ AllMultiples(s, c + 1, 64) /\ AllMultiples(t, N - c, 64)
      <4>1. AllMultiples(r, N, 64)
        BY <2>6 DEF AllMultiples
      <4>2. AllMultiples(s, c + 1, 64)
        BY <1>2, <2>6, <2>7 DEF AllMultiples
      <4>3. AllMultiples(t, N - c, 64)
        BY <1>2, <2>6, <2>8 DEF AllMultiples
      <4> QED
        BY <4>1, <4>2, <4>3
    <3>2. PICK i, j, q : i = FromLeft(r, c) /\ j = FromRight(r, N, c) /\ q = r[c]
      OBVIOUS
    <3>3. i \in Int /\ i % 8 = 0 /\ j \in Int
      BY <1>1, <1>2, <3>1, <3>2, LiftedExact
    <3>4. q \in Int
      BY <1>2, <2>6, <3>2
    <3>5. l[Row(n, p)] = i
      BY <2>4, <2>9, <2>12, <3>2
    <3>6. u[Row(n, p)] = LiftedAt(t, N - c, 0) /\ u[Row(n, p)] = q + (0 + j)
      <4>1. k - c = 0
        BY <2>12
      <4> QED
        BY <2>5, <2>9, <2>12, <3>2, <4>1
    <3>7. w[Row(n, p)] = q + (i + j)
      <4>1. c % 2 # 1
        BY <1>2
      <4> QED
        BY <2>3, <2>12, <3>2, <4>1 DEF LiftedAt
    <3>8. u[Row(n, p)] % 8 = 0
      <4>1. N - c \in Nat /\ (N - c) % 2 = 1 /\ 0 \in 0 .. N - c - 1
        BY <1>1, <1>2
      <4> QED
        BY <3>1, <3>6, <4>1, LiftedExact
    <3>9. q + (i + j) = i + (q + (0 + j))
      BY <3>3, <3>4
    <3> QED
      BY <2>1, <2>12, <3>3, <3>5, <3>6, <3>7, <3>8, <3>9
  <2> QED
    BY <1>2, <2>10, <2>11, <2>12
<1> QED
  BY <1>6, <1>8, <1>10, <1>11 DEF TilesMeet, ColumnExact

\* The passes along y, and so the sum of both tiles.
LEMMA TilesAlongY ==
    ASSUME NEW n \in Lengths, NEW c, SharesColumn(n, c), NEW l, NEW u, NEW w,
           TilesMeet(l, u, w, n, c), ColumnExact(l, u, n, c),
           NEW e, HasColumns(e, n, 0, c + 1), NEW g, HasColumns(g, n, c, n[1] - c),
           NEW b, HasColumns(b, n, 0, n[1]),
           NEW l2, l2 = ForwardInPlace(l, n, 2, e, n, "Normal"),
           NEW u2, u2 = ForwardInPlace(u, n, 2, g, n, "Normal"),
           NEW w2, w2 = ForwardInPlace(w, n, 2, b, n, "Normal")
    PROVE  TilesMeet(l2, u2, w2, n, c)
<1>1. PICK N \in Nat \ {0}, m \in Nat \ {0} : N = n[1] /\ m = n[2] /\ m % 2 = 1
  BY LengthsFit DEF SharesColumn, Axes
<1>2. c \in 1 .. N - 2 /\ n \in Sizes /\ 1 \in Axes /\ 2 \in Axes
  BY <1>1, LengthsFit DEF SharesColumn, Axes
<1>3. l \in [Indices(n) -> Int] /\ u \in [Indices(n) -> Int] /\ w \in [Indices(n) -> Int]
  BY DEF TilesMeet
<1>4. /\ GridFits(e, n, 2) /\ Stepless(e) /\ e.from[2] = 0 /\ e.dims[2] = m
      /\ GridFits(g, n, 2) /\ Stepless(g) /\ g.from[2] = 0 /\ g.dims[2] = m
      /\ GridFits(b, n, 2) /\ Stepless(b) /\ b.from[2] = 0 /\ b.dims[2] = m
  BY <1>1 DEF HasColumns
<1>5. /\ l2 \in [Indices(n) -> Int]
      /\ \A p \in Box(n) : In(e, p) =>
            l2[Row(n, p)] = LiftedAt(Stretch(l, n, 2, p, e.from[2], e.dims[2]), e.dims[2],
                                     p[2] - e.from[2])
  BY <1>2, <1>3, <1>4, PassStretch
<1>6. /\ u2 \in [Indices(n) -> Int]
      /\ \A p \in Box(n) : In(g, p) =>
            u2[Row(n, p)] = LiftedAt(Stretch(u, n, 2, p, g.from[2], g.dims[2]), g.dims[2],
                                     p[2] - g.from[2])
  BY <1>2, <1>3, <1>4, PassStretch
<1>7. /\ w2 \in [Indices(n) -> Int]
      /\ \A p \in Box(n) : In(b, p) =>
            w2[Row(n, p)] = LiftedAt(Stretch(w, n, 2, p, b.from[2], b.dims[2]), b.dims[2],
                                     p[2] - b.from[2])
  BY <1>2, <1>3, <1>4, PassStretch
<1>8. ASSUME NEW p \in Box(n)
      PROVE  /\ p[1] < c => w2[Row(n, p)] = l2[Row(n, p)]
             /\ p[1] > c => w2[Row(n, p)] = u2[Row(n, p)]
             /\ p[1] = c => w2[Row(n, p)] = l2[Row(n, p)] + u2[Row(n, p)]
  <2>1. PICK k \in 0 .. N - 1, y \in 0 .. m - 1 : k = p[1] /\ y = p[2] /\ y - 0 = y
    BY <1>1, <1>2, InBox
  <2>2. PICK r, s, t : /\ r = Stretch(w, n, 2, p, 0, m) /\ s = Stretch(l, n, 2, p, 0, m)
                       /\ t = Stretch(u, n, 2, p, 0, m)
    OBVIOUS
  <2>3. w2[Row(n, p)] = LiftedAt(r, m, y)
    <3>1. 0 <= k /\ k < 0 + N
      OBVIOUS
    <3>2. In(b, p)
      BY <1>1, <2>1, <3>1 DEF HasColumns
    <3> QED
      BY <1>4, <1>7, <2>1, <2>2, <3>2
  <2>4. k <= c => l2[Row(n, p)] = LiftedAt(s, m, y)
    <3> SUFFICES ASSUME k <= c PROVE l2[Row(n, p)] = LiftedAt(s, m, y)
      OBVIOUS
    <3>1. 0 <= k /\ k < 0 + (c + 1)
      BY <1>2
    <3>2. In(e, p)
      BY <1>1, <2>1, <3>1 DEF HasColumns
    <3> QED
      BY <1>4, <1>5, <2>1, <2>2, <3>2
  <2>5. k >= c => u2[Row(n, p)] = LiftedAt(t, m, y)
    <3> SUFFICES ASSUME k >= c PROVE u2[Row(n, p)] = LiftedAt(t, m, y)
      OBVIOUS
    <3>1. c <= k /\ k < c + (N - c)
      BY <1>2
    <3>2. In(g, p)
      BY <1>1, <2>1, <3>1 DEF HasColumns
    <3> QED
      BY <1>4, <1>6, <2>1, <2>2, <3>2
  <2>6. ASSUME NEW x \in 0 .. m - 1
        PROVE  \E q \in Box(n) : /\ q[1] = k /\ r[x] = w[Row(n, q)]
                                 /\ s[x] = l[Row(n, q)] /\ t[x] = u[Row(n, q)]
    <3>1. PICK q : q = Put(p, 2, x) /\ q \in Box(n)
      BY <1>1, <1>2, PutInBox
    <3>2. q[1] = k
      <4>1. Triple(p)
        BY InBox
      <4>2. 1 # 2
        OBVIOUS
      <4> QED
        BY <1>2, <2>1, <3>1, <4>1, <4>2, Replaced
    <3>3. 0 + x = x
      OBVIOUS
    <3>4. r[x] = w[Row(n, q)] /\ s[x] = l[Row(n, q)] /\ t[x] = u[Row(n, q)]
      BY <2>2, <3>1, <3>3 DEF Stretch
    <3> QED
      BY <3>1, <3>2, <3>4
  <2>7. DOMAIN r = 0 .. m - 1 /\ DOMAIN s = 0 .. m - 1 /\ DOMAIN t = 0 .. m - 1
        /\ r = [x \in 0 .. m - 1 |-> r[x]] /\ s = [x \in 0 .. m - 1 |-> s[x]]
        /\ t = [x \in 0 .. m - 1 |-> t[x]]
    BY <2>2 DEF Stretch
  <2>8. CASE k < c
    <3>1. \A x \in 0 .. m - 1 : r[x] = s[x]
      BY <2>6, <2>8 DEF TilesMeet
    <3>2. r = s
      BY <2>7, <3>1
    <3> QED
      BY <1>2, <2>1, <2>3, <2>4, <2>8, <3>2
  <2>9. CASE k > c
    <3>1. \A x \in 0 .. m - 1 : r[x] = t[x]
      BY <2>6, <2>9 DEF TilesMeet
    <3>2. r = t
      BY <2>7, <3>1
    <3> QED
      BY <1>2, <2>1, <2>3, <2>5, <2>9, <3>2
  <2>10. CASE k = c
    <3>1. ASSUME NEW x \in 0 .. m - 1
          PROVE  /\ r[x] = s[x] + t[x] /\ s[x] \in Int /\ s[x] % 8 = 0
                 /\ t[x] \in Int /\ t[x] % 8 = 0
      <4>1. PICK q \in Box(n) : /\ q[1] = k /\ r[x] = w[Row(n, q)]
                                /\ s[x] = l[Row(n, q)] /\ t[x] = u[Row(n, q)]
        BY <2>6
      <4>2. Row(n, q) \in Indices(n)
        BY <1>2, RowAt
      <4>3. w[Row(n, q)] = l[Row(n, q)] + u[Row(n, q)]
        BY <2>10, <4>1 DEF TilesMeet
      <4>4. l[Row(n, q)] % 8 = 0 /\ u[Row(n, q)] % 8 = 0
        BY <2>10, <4>1 DEF ColumnExact
      <4> QED
        BY <1>3, <4>1, <4>2, <4>3, <4>4
    <3>2. AllMultiples(s, m, 8) /\ AllMultiples(t, m, 8)
      BY <3>1 DEF AllMultiples
    <3>3. \A x \in 0 .. m - 1 : r[x] = s[x] + t[x]
      BY <3>1
    <3>4. LiftedAt(r, m, y) = LiftedAt(s, m, y) + LiftedAt(t, m, y)
      BY <1>1, <3>2, <3>3, LiftedSum
    <3> QED
      BY <2>1, <2>3, <2>4, <2>5, <2>10, <3>4
  <2> QED
    BY <1>2, <2>8, <2>9, <2>10
<1> QED
  BY <1>5, <1>6, <1>7, <1>8 DEF TilesMeet

\* The extents of the tiles that meet in column c, and that of the volume.
LowerTile(n, c) == Extent(<<0, 0, 0>>, <<c + 1, n[2], n[3]>>)
UpperTile(n, c) == Extent(<<c, 0, 0>>, <<n[1] - c, n[2], n[3]>>)
WholeTile(n) == Extent(<<0, 0, 0>>, <<n[1], n[2], n[3]>>)

LEMMA TileExtents ==
    ASSUME NEW n \in Lengths, NEW c, NEW t, t.n = n, t.levels = c
    PROVE  /\ TileExtent(t) = IF phase = "lower" THEN LowerTile(n, c) ELSE UpperTile(n, c)
           /\ Extent(Vec(0), n) = WholeTile(n)
<1>1. n = <<n[1], n[2], n[3]>>
  BY DEF Lengths
<1>2. Vec(0) = <<0, 0, 0>> /\ [Vec(0) EXCEPT ![1] = c] = <<c, 0, 0>>
  BY DEF Vec
<1>3. [n EXCEPT ![1] = c + 1] = <<c + 1, n[2], n[3]>>
  BY <1>1
<1>4. [n EXCEPT ![1] = @ - c] = <<n[1] - c, n[2], n[3]>>
  BY <1>1
<1> QED
  BY <1>1, <1>2, <1>3, <1>4 DEF TileExtent, LowerTile, UpperTile, WholeTile

LEMMA TilesHave ==
    ASSUME NEW n, NEW c, SharesColumn(n, c)
    PROVE  /\ n \in Lengths
           /\ HasColumns(LowerTile(n, c), n, 0, c + 1)
           /\ HasColumns(UpperTile(n, c), n, c, n[1] - c)
           /\ HasColumns(WholeTile(n), n, 0, n[1])
<1>1. n \in Lengths /\ n[1] % 2 = 1 /\ n[2] % 2 = 1
  BY DEF SharesColumn
<1>2. PICK N \in Nat \ {0} : N = n[1]
  BY <1>1, LengthsFit DEF Axes
<1>3. c \in 1 .. N - 2 /\ c % 2 = 0 /\ N % 2 = 1
  BY <1>2 DEF SharesColumn
<1>4. PICK e, g, b : e = LowerTile(n, c) /\ g = UpperTile(n, c) /\ b = WholeTile(n)
  OBVIOUS
<1>5. HasColumns(e, n, 0, c + 1)
  <2>1. PICK d \in Nat \ {0} : d = c + 1 /\ d % 2 = 1 /\ 0 + d <= N
    BY <1>3
  <2>2. e = Extent(<<0, 0, 0>>, <<d, n[2], n[3]>>)
    BY <1>4, <2>1 DEF LowerTile
  <2>3. HasColumns(e, n, 0, d)
    BY <1>1, <1>2, <2>1, <2>2, ColumnTile
  <2> QED
    BY <2>1, <2>3
<1>6. HasColumns(g, n, c, N - c)
  <2>1. PICK d \in Nat \ {0} : d = N - c /\ d % 2 = 1 /\ c + d <= N
    BY <1>3
  <2>2. g = Extent(<<c, 0, 0>>, <<d, n[2], n[3]>>)
    BY <1>2, <1>4, <2>1 DEF UpperTile
  <2>3. HasColumns(g, n, c, d)
    BY <1>1, <1>2, <1>3, <2>1, <2>2, ColumnTile
  <2> QED
    BY <2>1, <2>3
<1>7. HasColumns(b, n, 0, N)
  <2>1. 0 + N <= N
    OBVIOUS
  <2>2. b = Extent(<<0, 0, 0>>, <<N, n[2], n[3]>>)
    BY <1>2, <1>4 DEF WholeTile
  <2> QED
    BY <1>1, <1>2, <1>3, <2>1, <2>2, ColumnTile
<1> QED
  BY <1>1, <1>2, <1>4, <1>5, <1>6, <1>7

TilesTask(t) ==
    /\ t.kind = "tiles" /\ SharesColumn(t.n, t.levels)
    /\ t.src \in [Indices(t.n) -> Int] /\ \A i \in Indices(t.n) : t.src[i] % 64 = 0

\* The samples after k passes over a tile.
AfterLifts(t, ph, k) ==
    LET g == IF ph = "lower" THEN LowerTile(t.n, t.levels) ELSE UpperTile(t.n, t.levels)
        x == ForwardInPlace(t.src, t.n, 1, g, t.n,
                            IF ph = "lower" THEN "PartialUpdateLast" ELSE "Normal")
    IN IF k = 0 THEN t.src ELSE IF k = 1 THEN x
       ELSE ForwardInPlace(x, t.n, 2, g, t.n, "Normal")

WholeLifts(t) ==
    ForwardInPlace(ForwardInPlace(t.src, t.n, 1, WholeTile(t.n), t.n, "Normal"),
                   t.n, 2, WholeTile(t.n), t.n, "Normal")

\* v is added to o where the extent is.
AddedOn(o, v, n, g) ==
    [i \in Indices(n) |-> IF Position(n, i) \in Points(g) THEN o[i] + v[i] ELSE o[i]]

WithLower(t) ==
    AddedOn([i \in Indices(t.n) |-> 0], AfterLifts(t, "lower", 2), t.n, LowerTile(t.n, t.levels))

\* Both tiles add up.
LEMMA BothTiles ==
    ASSUME NEW t, TilesTask(t)
    PROVE  AddedOn(WithLower(t), AfterLifts(t, "upper", 2), t.n, UpperTile(t.n, t.levels))
             = WholeLifts(t)
<1>1. PICK n, c, v : n = t.n /\ c = t.levels /\ v = t.src
  OBVIOUS
<1>2. SharesColumn(n, c) /\ v \in [Indices(n) -> Int] /\ \A i \in Indices(n) : v[i] % 64 = 0
  BY <1>1 DEF TilesTask
<1>3. PICK e, g, b : e = LowerTile(n, c) /\ g = UpperTile(n, c) /\ b = WholeTile(n)
  OBVIOUS
<1>4. /\ n \in Lengths /\ HasColumns(e, n, 0, c + 1) /\ HasColumns(g, n, c, n[1] - c)
      /\ HasColumns(b, n, 0, n[1])
  BY <1>2, <1>3, TilesHave
<1>5. PICK l, u, w : /\ l = ForwardInPlace(v, n, 1, e, n, "PartialUpdateLast")
                     /\ u = ForwardInPlace(v, n, 1, g, n, "Normal")
                     /\ w = ForwardInPlace(v, n, 1, b, n, "Normal")
  OBVIOUS
<1>6. TilesMeet(l, u, w, n, c) /\ ColumnExact(l, u, n, c)
  BY <1>2, <1>4, <1>5, TilesAlongX
<1>7. PICK l2, u2, w2 : /\ l2 = ForwardInPlace(l, n, 2, e, n, "Normal")
                        /\ u2 = ForwardInPlace(u, n, 2, g, n, "Normal")
                        /\ w2 = ForwardInPlace(w, n, 2, b, n, "Normal")
  OBVIOUS
<1>8. TilesMeet(l2, u2, w2, n, c)
  BY <1>2, <1>4, <1>6, <1>7, TilesAlongY
<1>9. AfterLifts(t, "lower", 2) = l2
  BY <1>1, <1>3, <1>5, <1>7 DEF AfterLifts
<1>10. AfterLifts(t, "upper", 2) = u2
  BY <1>1, <1>3, <1>5, <1>7 DEF AfterLifts
<1>11. WholeLifts(t) = w2
  BY <1>1, <1>3, <1>5, <1>7 DEF WholeLifts
<1>12. PICK o, y : o = WithLower(t) /\ y = AddedOn(o, u2, n, g)
  OBVIOUS
<1>13. ASSUME NEW i \in Indices(n)
       PROVE  y[i] = w2[i]
  <2>1. PICK p \in Box(n) : p = Position(n, i) /\ Row(n, p) = i
    BY <1>4, LengthsFit, PositionAt
  <2>2. PICK N \in Nat \ {0}, k \in Nat : N = n[1] /\ k = p[1] /\ k < N
    <3>1. PICK N \in Nat \ {0} : N = n[1]
      BY <1>4, LengthsFit DEF Axes
    <3>2. p[1] \in 0 .. N - 1
      BY <2>1, <3>1, InBox DEF Axes
    <3> QED
      BY <3>1, <3>2
  <2>3. c \in 1 .. N - 2
    BY <1>2, <2>2 DEF SharesColumn
  <2>4. p \in Points(e) <=> k < c + 1
    <3>1. 0 <= k /\ k < 0 + (c + 1) <=> k < c + 1
      BY <2>3
    <3> QED
      BY <1>4, <2>1, <2>2, <3>1 DEF HasColumns
  <2>5. p \in Points(g) <=> k >= c
    <3>1. c <= k /\ k < c + (N - c) <=> k >= c
      BY <2>2, <2>3
    <3> QED
      BY <1>4, <2>1, <2>2, <3>1 DEF HasColumns
  <2>6. o[i] = IF k < c + 1 THEN 0 + l2[i] ELSE 0
    BY <1>1, <1>3, <1>9, <1>12, <2>1, <2>4 DEF WithLower, AddedOn
  <2>7. y[i] = IF k >= c THEN o[i] + u2[i] ELSE o[i]
    BY <1>12, <2>1, <2>5 DEF AddedOn
  <2>8. PICK q \in Int, r \in Int, s \in Int : q = l2[i] /\ r = u2[i] /\ s = w2[i]
    BY <1>8 DEF TilesMeet
  <2>9. /\ k < c => s = q
        /\ k > c => s = r
        /\ k = c => s = q + r
    BY <1>8, <2>1, <2>2, <2>8 DEF TilesMeet
  <2> QED
    BY <2>3, <2>6, <2>7, <2>8, <2>9
<1>14. y = w2
  <2>1. w2 \in [Indices(n) -> Int]
    BY <1>8 DEF TilesMeet
  <2>2. y = [i \in Indices(n) |-> y[i]]
    BY <1>12 DEF AddedOn
  <2> QED
    BY <1>13, <2>1, <2>2
<1> QED
  BY <1>1, <1>3, <1>10, <1>11, <1>12, <1>14

-----------------------------------------------------------------------------
(* The task that lifts two tiles and adds them up.                         *)

\* The volume is lifted as far as it has come; what is added is in out.
TilePhases ==
    /\ TilesTask(task)
    /\ phase \in {"lower", "upper", "done"}
    /\ phase # "done" => step \in 0 .. 2 /\ vol = AfterLifts(task, phase, step)
    /\ phase = "lower" => out = [i \in Indices(task.n) |-> 0]
    /\ phase = "upper" => out = WithLower(task)
    /\ phase = "done" => out = WholeLifts(task)

TilesInv == task.kind = "tiles" => TilePhases

\* Impulses and slopes of multiples of 64.
LEMMA InputsExact ==
    ASSUME NEW n, NEW s \in Inputs(n, {Scale})
    PROVE  \A i \in Indices(n) : s[i] % 64 = 0
<1>1. PICK h \in Int : h = Scale /\ h % 64 = 0
  BY CasesAssumption
<1>2. PICK q \in Int : h = 64 * q
  <2>1. PICK q \in Int : q = h \div 64
    BY <1>1
  <2>2. h = 64 * q
    BY <1>1, <2>1
  <2> QED
    BY <2>2
<1>3. \A i \in Indices(n) : i \in Int
  BY DEF Indices
<1>4. ASSUME NEW j \in Indices(n), s = [i \in Indices(n) |-> IF i = j THEN h ELSE 0]
      PROVE  \A i \in Indices(n) : s[i] % 64 = 0
  BY <1>1, <1>4
<1>5. ASSUME s = [i \in Indices(n) |-> h * (i + 1)]
      PROVE  \A i \in Indices(n) : s[i] % 64 = 0
  <2>1. ASSUME NEW i \in Indices(n)
        PROVE  s[i] % 64 = 0
    <3>1. PICK k \in Int : k = i + 1
      BY <1>3
    <3>2. PICK m \in Int : m = q * k
      OBVIOUS
    <3>3. (64 * q) * k = 64 * (q * k)
      OBVIOUS
    <3>4. s[i] = 64 * m
      BY <1>2, <1>5, <3>1, <3>2, <3>3
    <3>5. (64 * m) % 64 = 0
      OBVIOUS
    <3> QED
      BY <3>4, <3>5
  <2> QED
    BY <2>1
<1> QED
  BY <1>1, <1>4, <1>5 DEF Inputs

LEMMA TilesInit == Init => TilesInv
<1> SUFFICES ASSUME Init, task.kind = "tiles" PROVE TilePhases
  BY DEF TilesInv
<1>1. task \in Tasks("tiles", TileCases, {Scale})
  <2>1. \A t \in Tasks("inplace", InPlaceCases, {Scale}) : t.kind = "inplace"
    BY TaskOf
  <2>2. \A t \in Tasks("codec", CodecCases, Heights) : t.kind = "codec"
    BY TaskOf
  <2>3. \A t \in Tasks("form", FormCases, {Scale}) : t.kind = "form"
    BY TaskOf
  <2>4. \A t \in LookupTasks : t.kind = "lookup"
    BY DEF LookupTasks
  <2> QED
    BY <2>1, <2>2, <2>3, <2>4 DEF Init
<1>2. PICK c \in TileCases : \E s \in Inputs(c[1], {Scale}) :
        task = [kind |-> "tiles", n |-> c[1], levels |-> c[2], src |-> s]
  BY <1>1, TaskOf
<1>3. PICK s \in Inputs(c[1], {Scale}) :
        task = [kind |-> "tiles", n |-> c[1], levels |-> c[2], src |-> s]
  BY <1>2
<1>4. SharesColumn(c[1], c[2])
  BY CasesAssumption
<1>5. s \in [Indices(c[1]) -> Int]
  <2>1. {Scale} \subseteq Int
    BY CasesAssumption
  <2> QED
    BY <2>1, InputsAre
<1>6. \A i \in Indices(c[1]) : s[i] % 64 = 0
  BY InputsExact
<1>7. task.kind = "tiles" /\ task.n = c[1] /\ task.levels = c[2] /\ task.src = s
  BY <1>3
<1>8. TilesTask(task)
  BY <1>4, <1>5, <1>6, <1>7 DEF TilesTask
<1>9. HasSamples(task) /\ task.kind # "inplace"
  <2>1. c[1] \in Lengths /\ c[2] \in Nat
    <3>1. PICK N \in Nat \ {0} : N = c[1][1] /\ c[1] \in Lengths
      BY <1>4, LengthsFit DEF SharesColumn, Axes
    <3>2. c[2] \in 1 .. N - 2
      BY <1>4, <3>1 DEF SharesColumn
    <3> QED
      BY <3>1, <3>2
  <2> QED
    BY <1>5, <1>7, <2>1 DEF HasSamples
<1>10. vol = Placed(task) /\ step = 0 /\ phase = "lower" /\ out = [i \in DOMAIN vol |-> 0]
  BY <1>7 DEF Init
<1>11. vol = task.src /\ DOMAIN vol = Indices(task.n)
  <2>1. vol = task.src
    BY <1>9, <1>10, NoRoom
  <2> QED
    BY <1>9, <2>1 DEF HasSamples
<1>12. vol = AfterLifts(task, "lower", 0)
  BY <1>11 DEF AfterLifts
<1>13. 0 \in 0 .. 2
  OBVIOUS
<1> QED
  BY <1>8, <1>10, <1>11, <1>12, <1>13 DEF TilePhases

\* The next pass over a tile.
LEMMA LiftsOn ==
    ASSUME NEW t, TilesTask(t), phase \in {"lower", "upper"}, NEW k \in 0 .. 1
    PROVE  AfterLifts(t, phase, k + 1)
             = ForwardInPlace(AfterLifts(t, phase, k), t.n, AxisOf(k), TileExtent(t), t.n,
                              IF phase = "lower" /\ k = 0 THEN "PartialUpdateLast" ELSE "Normal")
<1>1. t.n \in Lengths
  BY DEF TilesTask, SharesColumn
<1>2. TileExtent(t) = IF phase = "lower" THEN LowerTile(t.n, t.levels)
                      ELSE UpperTile(t.n, t.levels)
  BY <1>1, TileExtents
<1>3. CASE k = 0
  <2>1. AxisOf(k) = 1 /\ k + 1 = 1
    BY <1>3 DEF AxisOf
  <2> QED
    BY <1>2, <1>3, <2>1 DEF AfterLifts
<1>4. CASE k = 1
  <2>1. AxisOf(k) = 2 /\ k + 1 = 2
    BY <1>4 DEF AxisOf
  <2> QED
    BY <1>2, <1>4, <2>1 DEF AfterLifts
<1> QED
  BY <1>3, <1>4

LEMMA TilesLift ==
    ASSUME TilePhases, LiftTile
    PROVE  TilePhases'
<1>1. /\ TilesTask(task) /\ phase \in {"lower", "upper"} /\ step \in 0 .. 2 /\ step < 2
      /\ vol = AfterLifts(task, phase, step)
  BY DEF TilePhases, LiftTile
<1>2. step \in 0 .. 1 /\ step + 1 \in 0 .. 2
  BY <1>1
<1>3. /\ vol' = ForwardInPlace(vol, task.n, AxisOf(step), TileExtent(task), task.n,
                    IF phase = "lower" /\ step = 0 THEN "PartialUpdateLast" ELSE "Normal")
      /\ step' = step + 1 /\ task' = task /\ phase' = phase /\ out' = out
  BY DEF LiftTile
<1>4. vol' = AfterLifts(task, phase, step + 1)
  BY <1>1, <1>2, <1>3, LiftsOn
<1>5. TilesTask(task') /\ step' \in 0 .. 2 /\ vol' = AfterLifts(task', phase', step')
  BY <1>1, <1>2, <1>3, <1>4
<1>6. /\ phase' = "lower" => out' = [i \in Indices(task'.n) |-> 0]
      /\ phase' = "upper" => out' = WithLower(task')
      /\ phase' \in {"lower", "upper", "done"} /\ phase' # "done"
  BY <1>1, <1>3 DEF TilePhases
<1> QED
  BY <1>5, <1>6 DEF TilePhases

LEMMA TilesAdd ==
    ASSUME TilePhases, AddTile
    PROVE  TilePhases'
<1>1. /\ TilesTask(task) /\ phase \in {"lower", "upper"} /\ step = 2
      /\ vol = AfterLifts(task, phase, 2)
  BY DEF TilePhases, AddTile
<1>2. PICK n, c : n = task.n /\ c = task.levels
  OBVIOUS
<1>3. n \in Lengths
  BY <1>1, <1>2 DEF TilesTask, SharesColumn
<1>4. PICK o, g : o = out /\ g = TileExtent(task)
  OBVIOUS
<1>5. DOMAIN o = Indices(n)
  BY <1>1, <1>2, <1>4 DEF TilePhases, WithLower, AddedOn
<1>6. out' = AddedOn(o, vol, n, g)
  BY <1>2, <1>4, <1>5 DEF AddTile, AddedOn
<1>7. g = IF phase = "lower" THEN LowerTile(n, c) ELSE UpperTile(n, c)
  BY <1>2, <1>3, <1>4, TileExtents
<1>8. /\ task' = task /\ step' = 0 /\ vol' = task.src
      /\ phase' = IF phase = "lower" THEN "upper" ELSE "done"
  BY DEF AddTile
<1>9. TilesTask(task')
  BY <1>1, <1>8
<1>10. CASE phase = "lower"
  <2>1. out' = WithLower(task)
    BY <1>1, <1>2, <1>4, <1>6, <1>7, <1>10 DEF TilePhases, WithLower
  <2>2. vol' = AfterLifts(task, "upper", 0)
    BY <1>8 DEF AfterLifts
  <2>3. phase' = "upper" /\ 0 \in 0 .. 2
    BY <1>8, <1>10
  <2>4. out' = WithLower(task') /\ vol' = AfterLifts(task', phase', step') /\ step' \in 0 .. 2
    BY <1>8, <2>1, <2>2, <2>3
  <2> QED
    BY <1>9, <2>3, <2>4 DEF TilePhases
<1>11. CASE phase = "upper"
  <2>1. o = WithLower(task)
    BY <1>4, <1>11 DEF TilePhases
  <2>2. g = UpperTile(n, c) /\ vol = AfterLifts(task, "upper", 2)
    BY <1>1, <1>7, <1>11
  <2>3. out' = WholeLifts(task)
    BY <1>1, <1>2, <1>6, <2>1, <2>2, BothTiles
  <2>4. phase' = "done" /\ out' = WholeLifts(task')
    BY <1>8, <1>11, <2>3
  <2> QED
    BY <1>9, <2>4 DEF TilePhases
<1> QED
  BY <1>1, <1>10, <1>11

LEMMA WaveletTilesInv == Spec => []TilesInv
<1>1. TilesInv /\ [Next]_vars => TilesInv'
  <2> SUFFICES ASSUME TilesInv, [Next]_vars, task'.kind = "tiles"
               PROVE  TilePhases'
    BY DEF TilesInv
  <2>1. task' = task
    BY DEF Next, vars, ForwardAxis, EndForward, InverseAxis, EndInverse, WriteTile, ReadTile,
           NextSubband, BeginDecode, EndRead, FormSubbands, LiftTile, AddTile, LookUp,
           EndLookUp, Done
  <2>2. TilePhases
    BY <2>1 DEF TilesInv
  <2>3. phase \in {"lower", "upper", "done"}
    BY <2>2 DEF TilePhases
  <2>4. CASE UNCHANGED vars
    BY <2>2, <2>4 DEF vars, TilePhases
  <2>5. CASE LiftTile
    BY <2>2, <2>5, TilesLift
  <2>6. CASE AddTile
    BY <2>2, <2>6, TilesAdd
  <2>7. CASE Done
    BY <2>4, <2>7 DEF Done
  <2>8. ~ForwardAxis /\ ~EndForward /\ ~InverseAxis /\ ~EndInverse /\ ~WriteTile /\ ~ReadTile
        /\ ~NextSubband /\ ~BeginDecode /\ ~EndRead /\ ~FormSubbands /\ ~LookUp /\ ~EndLookUp
    BY <2>3 DEF ForwardAxis, EndForward, InverseAxis, EndInverse, WriteTile, ReadTile,
                NextSubband, BeginDecode, EndRead, FormSubbands, LookUp, EndLookUp, Coding
  <2> QED
    BY <2>4, <2>5, <2>6, <2>7, <2>8 DEF Next
<1> QED
  BY <1>1, TilesInit, PTL DEF Spec

\* Two tiles that share a column, lifted apart, the lower one with
\* PartialUpdateLast, add up to the transform of the volume: for all dimensions
\* that are odd along x and y, every column of an even number inside, and
\* samples that are multiples of 64, of which nothing is rounded.
THEOREM WaveletTiles == Spec => []TilesAddUp
<1>1. TilesInv => TilesAddUp
  <2> SUFFICES ASSUME TilesInv, phase = "done", task.kind = "tiles"
               PROVE  out = LET g == Extent(Vec(0), task.n)
                            IN ForwardInPlace(
                                  ForwardInPlace(task.src, task.n, 1, g, task.n, "Normal"),
                                  task.n, 2, g, task.n, "Normal")
    BY DEF TilesAddUp
  <2>1. TilesTask(task) /\ out = WholeLifts(task)
    BY DEF TilesInv, TilePhases
  <2>2. task.n \in Lengths
    BY <2>1 DEF TilesTask, SharesColumn
  <2>3. Extent(Vec(0), task.n) = WholeTile(task.n)
    BY <2>2, TileExtents
  <2> QED
    BY <2>1, <2>3 DEF WholeLifts
<1> QED
  BY <1>1, WaveletTilesInv, PTL
=============================================================================
