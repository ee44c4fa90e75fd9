--------------------------- MODULE GridCopy_proofs --------------------------
(***************************************************************************)
(* Proofs about GridCopy, for every volume, block size, stride and window    *)
(* that CasesAssumption allows.  On each axis Crop finds the first and the    *)
(* last step of the grid in the window (CropAxis), where the window ends at    *)
(* EndFor (LastRounded), so that the cropped grid is a run of the steps of the  *)
(* whole one and stands for what InWindow says (CutPoints); Relative gives the  *)
(* same run in the buffer (CutRelative).                                       *)
(* Advance goes through the steps of a grid in the order Before, and its       *)
(* pointer with it (StepAt): it names samples of the volume (StepRow), each    *)
(* once, until it meets End and not sooner (EndAt).  With these the copy has   *)
(* the invariant IInv: both iterators are at the same step, the steps before    *)
(* it are copied, and nothing else is.                                        *)
(***************************************************************************)
EXTENDS GridCopy, FiniteSetTheorems, TLAPS

-----------------------------------------------------------------------------
(* Arithmetic: places that are a stride apart.                             *)

\* 2 ^ n counts the subsets of a set of n.
LEMMA LimitNat == PackLimit \in Nat
<1>1. \A n \in Nat : 2 ^ n \in Nat
  <2>1. SUFFICES ASSUME NEW n \in Nat PROVE 2 ^ n \in Nat
    OBVIOUS
  <2>2. IsFiniteSet(1 .. n) /\ Cardinality(1 .. n) = n
    BY FS_Interval
  <2>3. IsFiniteSet(SUBSET (1 .. n)) /\ Cardinality(SUBSET (1 .. n)) = 2 ^ n
    BY <2>2, FS_SUBSET
  <2> QED
    BY <2>3, FS_CardinalityType
<1> QED
  BY <1>1 DEF PackLimit

\* A component of up to 20 bits is read back from a vector as it was.
LEMMA PackedAxis ==
    ASSUME NEW a \in Nat, a < PackLimit
    PROVE  ((a + PackLimit) % (2 * PackLimit)) - PackLimit = a
<1>1. PackLimit \in Nat /\ PackLimit > 0
  BY LimitNat
<1>2. a + PackLimit \in 0 .. 2 * PackLimit - 1
  BY <1>1
<1>3. \A m \in Nat \ {0} : \A x \in 0 .. m - 1 : (x % m) = x
  OBVIOUS
<1>4. 2 * PackLimit \in Nat \ {0}
  BY <1>1
<1> QED
  BY <1>1, <1>2, <1>3, <1>4

LEMMA PackedVector ==
    ASSUME NEW v \in Nat \X Nat \X Nat, \A i \in Axes : v[i] < PackLimit
    PROVE  Packed(v) = v
<1>1. v = <<v[1], v[2], v[3]>> /\ v[1] \in Nat /\ v[2] \in Nat /\ v[3] \in Nat
  OBVIOUS
<1>2. /\ ((v[1] + PackLimit) % (2 * PackLimit)) - PackLimit = v[1]
      /\ ((v[2] + PackLimit) % (2 * PackLimit)) - PackLimit = v[2]
      /\ ((v[3] + PackLimit) % (2 * PackLimit)) - PackLimit = v[3]
  BY <1>1, PackedAxis DEF Axes
<1> QED
  BY <1>1, <1>2 DEF Packed, Each

LEMMA Multiples ==
    ASSUME NEW a \in Int, NEW b \in Int, NEW s \in Nat \ {0}
    PROVE  /\ a * s \in Int /\ b * s \in Int
           /\ a <= b <=> a * s <= b * s
           /\ a < b <=> a * s < b * s
           /\ (a + 1) * s = a * s + s /\ (a - 1) * s = a * s - s
           /\ (b - a) * s = b * s - a * s
<1>1. a <= b => a * s <= b * s
  OBVIOUS
<1>2. b < a => b * s < a * s
  OBVIOUS
<1>3. a < b => a * s < b * s
  OBVIOUS
<1>4. b <= a => b * s <= a * s
  OBVIOUS
<1>5. /\ (a + 1) * s = a * s + s /\ (a - 1) * s = a * s - s
      /\ (b - a) * s = b * s - a * s
  OBVIOUS
<1> QED
  BY <1>1, <1>2, <1>3, <1>4, <1>5

\* Quot is the number of whole strides.
LEMMA Strides ==
    ASSUME NEW a \in Nat, NEW s \in Nat \ {0}
    PROVE  /\ Quot(a, s) \in Nat
           /\ \A k \in Int : k * s <= a <=> k <= Quot(a, s)
           /\ \A k \in Nat : Quot(k * s, s) = k
<1>1. \A x \in Nat : Quot(x, s) = x \div s
  BY DEF Quot
<1>2. \A x \in Nat : x \div s \in Nat /\ (x \div s) * s <= x /\ x < ((x \div s) + 1) * s
  OBVIOUS
<1>3. \A k \in Int : k * s <= a <=> k <= a \div s
  <2>1. SUFFICES ASSUME NEW k \in Int PROVE k * s <= a <=> k <= a \div s
    OBVIOUS
  <2>2. PICK q \in Nat : q = a \div s /\ q * s <= a /\ a < (q + 1) * s
    BY <1>2
  <2>3. k <= q => k * s <= q * s
    BY <2>2, Multiples
  <2>4. q + 1 <= k => (q + 1) * s <= k * s
    BY <2>2
  <2> QED
    BY <2>2, <2>3, <2>4
<1>4. \A k \in Nat : (k * s) \div s = k /\ k * s \in Nat
  OBVIOUS
<1> QED
  BY <1>1, <1>2, <1>3, <1>4

\* One axis of Crop: the first and the last of the d positions from b on, s
\* apart, that lie between v and w.
FirstStep(b, s, v) == Quot(MaxOf(b, v) - b + s - 1, s)
LastStep(b, d, s, w) == Quot(MinOf(b + d * s - s, w) - b, s)

LEMMA CropAxis ==
    ASSUME NEW b \in Nat, NEW d \in Nat \ {0}, NEW s \in Nat \ {0},
           NEW v \in Nat, NEW w \in Nat, b <= w
    PROVE  /\ FirstStep(b, s, v) \in Nat
           /\ LastStep(b, d, s, w) \in 0 .. d - 1
           /\ \A k \in 0 .. d - 1 : /\ v <= b + k * s <=> FirstStep(b, s, v) <= k
                                    /\ b + k * s <= w <=> k <= LastStep(b, d, s, w)
<1> DEFINE p == FirstStep(b, s, v)
           q == LastStep(b, d, s, w)
<1>1. PICK x \in Nat, y \in Nat :
         /\ x = MaxOf(b, v) - b + s - 1
         /\ y = MinOf(b + d * s - s, w) - b
  <2>1. d * s \in Int /\ d * s >= s
    BY Multiples
  <2> QED
    BY <2>1 DEF MaxOf, MinOf
<1>2. /\ p \in Nat /\ \A k \in Int : k * s <= x <=> k <= p
      /\ q \in Nat /\ \A k \in Int : k * s <= y <=> k <= q
  <2>1. p = Quot(x, s) /\ q = Quot(y, s)
    BY <1>1 DEF FirstStep, LastStep
  <2>2. /\ Quot(x, s) \in Nat /\ \A k \in Int : k * s <= x <=> k <= Quot(x, s)
    BY Strides
  <2>3. /\ Quot(y, s) \in Nat /\ \A k \in Int : k * s <= y <=> k <= Quot(y, s)
    BY Strides
  <2> QED
    BY <2>1, <2>2, <2>3
<1> HIDE DEF p, q
<1>3. q < d
  <2>1. y < d * s /\ q * s <= y
    <3>1. d * s \in Int /\ y <= d * s - s
      BY <1>1 DEF MinOf
    <3> QED
      BY <1>2, <3>1
  <2>2. q * s < d * s
    BY <1>2, <2>1
  <2> QED
    BY <1>2, <2>2, Multiples
<1>4. ASSUME NEW k \in 0 .. d - 1
      PROVE  (v <= b + k * s <=> p <= k) /\ (b + k * s <= w <=> k <= q)
  <2>1. k * s \in Int /\ (k + 1) * s = k * s + s /\ 0 <= k * s /\ k * s <= d * s - s
    <3>1. k * s \in Int /\ (k + 1) * s = k * s + s /\ 0 * s <= k * s
      BY <1>4, Multiples
    <3>2. k * s <= (d - 1) * s /\ (d - 1) * s = d * s - s
      BY <1>4, Multiples
    <3> QED
      BY <3>1, <3>2
  <2>2. d * s \in Int
    OBVIOUS
  <2>3. v <= b + k * s <=> p <= k
    <3>1. v <= b + k * s <=> ~ ((k + 1) * s <= x)
      BY <1>1, <2>1 DEF MaxOf
    <3>2. (k + 1) * s <= x <=> k + 1 <= p
      BY <1>2, <1>4
    <3> QED
      BY <1>2, <1>4, <3>1, <3>2
  <2>4. b + k * s <= w <=> k <= q
    <3>1. b + k * s <= w <=> k * s <= y
      BY <1>1, <2>1, <2>2 DEF MinOf
    <3> QED
      BY <1>2, <1>4, <3>1
  <2> QED
    BY <2>3, <2>4
<1> QED
  BY <1>2, <1>3, <1>4 DEF p, q

-----------------------------------------------------------------------------
(* Grids.                                                                  *)

Places == Nat \X Nat \X Nat
Counts == (Nat \ {0}) \X (Nat \ {0}) \X (Nat \ {0})
Grids == [from : Places, dims : Counts, strd : Counts]
Windows == [from : Places, dims : Counts, strd : {Vec(1)}]

\* The steps from the start of a grid to its positions, and these.
Box(d) == (0 .. d[1] - 1) \X (0 .. d[2] - 1) \X (0 .. d[3] - 1)
PosAt(g, k) == Each(LAMBDA i : g.from[i] + k[i] * g.strd[i])

\* One axis of EndFor: where a window that ends at z ends for positions that
\* start at b and are s apart.
EndAlong(b, s, z) == IF b - s < z THEN MaxOf(b, z) ELSE z

\* That is where Crop has it end.
LEMMA LastRounded ==
    ASSUME NEW b \in Nat, NEW d \in Nat \ {0}, NEW s \in Nat \ {0}, NEW z \in Nat
    PROVE  /\ EndAlong(b, s, z) \in Nat
           /\ b <= EndAlong(b, s, z) =>
                LastStep(b, d, s, z) = LastStep(b, d, s, EndAlong(b, s, z))
           /\ ~ (b <= EndAlong(b, s, z)) =>
                LastStep(b, d, s, z) \in Int /\ LastStep(b, d, s, z) < 0
<1>1. EndAlong(b, s, z) \in Nat
  BY DEF EndAlong, MaxOf
<1>2. PICK l \in Int : l = b + d * s - s /\ b <= l
  <2>1. d * s \in Int /\ d * s >= s
    BY Multiples
  <2> QED
    BY <2>1
<1>3. CASE b <= z
  <2>1. EndAlong(b, s, z) = z
    BY <1>3 DEF EndAlong, MaxOf
  <2> QED
    BY <1>1, <1>3, <2>1
<1>4. CASE z < b /\ b - s < z
  <2>1. EndAlong(b, s, z) = b
    BY <1>4 DEF EndAlong, MaxOf
  <2>2. MinOf(l, z) = z /\ MinOf(l, b) = b
    BY <1>2, <1>4 DEF MinOf
  <2>3. PICK e \in Nat : e = b - z /\ z - b = -e /\ e > 0 /\ e < s
    BY <1>4
  <2>4. (e \div s) = 0 /\ (0 \div s) = 0
    BY <2>3
  <2>5. ~ (z - b >= 0) /\ -(z - b) = e
    BY <2>3
  <2>6. Quot(z - b, s) = 0
    BY <2>4, <2>5 DEF Quot
  <2>7. b - b = 0 /\ Quot(0, s) = 0
    BY <2>4 DEF Quot
  <2> QED
    BY <1>1, <1>2, <2>1, <2>2, <2>6, <2>7 DEF LastStep
<1>5. CASE z <= b - s
  <2>1. EndAlong(b, s, z) = z /\ ~ (b <= z)
    BY <1>5 DEF EndAlong
  <2>2. MinOf(l, z) = z
    BY <1>2, <1>5 DEF MinOf
  <2>3. PICK e \in Nat : e = b - z /\ s <= e
    BY <1>5
  <2>4. PICK k \in Nat : k = (e \div s) /\ e < (k + 1) * s
    OBVIOUS
  <2>5. k > 0
    <3>1. k = 0 => (k + 1) * s = s
      OBVIOUS
    <3> QED
      BY <2>3, <2>4, <3>1
  <2>6. ~ (z - b >= 0) /\ -(z - b) = e
    BY <1>5, <2>3
  <2>7. Quot(z - b, s) = -k
    BY <2>4, <2>6 DEF Quot
  <2>8. LastStep(b, d, s, z) = -k
    BY <1>2, <2>2, <2>7 DEF LastStep
  <2> QED
    BY <1>1, <2>1, <2>5, <2>8
<1> QED
  BY <1>3, <1>4, <1>5

LEMMA LastTaken ==
    ASSUME NEW b \in Nat, NEW d \in Nat \ {0}, NEW s \in Nat \ {0}, NEW z \in Nat,
           b <= EndAlong(b, s, z)
    PROVE  LastStep(b, d, s, z) = LastStep(b, d, s, EndAlong(b, s, z))
  BY LastRounded

\* Where a window ends is a place.
LEMMA WindowEnd ==
    ASSUME NEW w \in Windows
    PROVE  w.from \in Places /\ LastOf(w) \in Places
<1>1. w.from \in Places /\ w.dims \in Counts /\ w.strd = <<1, 1, 1>>
  BY DEF Windows, Vec
<1>2. PICK x \in Places, y \in Counts : x = w.from /\ y = w.dims
  BY <1>1
<1>3. LastOf(w) = <<x[1] + y[1] * 1 - 1, x[2] + y[2] * 1 - 1, x[3] + y[3] * 1 - 1>>
  BY <1>1, <1>2 DEF LastOf, Each
<1>4. LastOf(w) \in Places
  BY <1>3 DEF Places, Counts
<1> QED
  BY <1>1, <1>4

LEMMA EndFacts ==
    ASSUME NEW g \in Grids, NEW w \in Windows
    PROVE  /\ EndFor(g, w) \in Places
           /\ \A i \in Axes : EndFor(g, w)[i] = EndAlong(g.from[i], g.strd[i], LastOf(w)[i])
<1>1. LastOf(w) \in Places /\ g.from \in Places /\ g.dims \in Counts /\ g.strd \in Counts
  BY WindowEnd DEF Grids
<1>2. \A i \in Axes : /\ LastOf(w)[i] \in Nat /\ g.from[i] \in Nat
                      /\ g.dims[i] \in Nat \ {0} /\ g.strd[i] \in Nat \ {0}
  BY <1>1 DEF Places, Counts, Axes
<1>3. EndFor(g, w) = <<EndAlong(g.from[1], g.strd[1], LastOf(w)[1]),
                       EndAlong(g.from[2], g.strd[2], LastOf(w)[2]),
                       EndAlong(g.from[3], g.strd[3], LastOf(w)[3])>>
  BY DEF EndFor, Each, EndAlong
<1>4. \A i \in Axes : EndAlong(g.from[i], g.strd[i], LastOf(w)[i]) \in Nat
  BY <1>2, LastRounded
<1> QED
  BY <1>3, <1>4 DEF Places, Axes

\* Crop finds for each axis the first and the last step within the window.
LEMMA CropFacts ==
    ASSUME NEW g \in Grids, NEW w \in Windows, AllLeq(g.from, EndFor(g, w))
    PROVE  \E p \in Places, q \in Places :
              /\ \A i \in Axes : q[i] < g.dims[i]
              /\ \A i \in Axes : \A k \in 0 .. g.dims[i] - 1 :
                    /\ w.from[i] <= g.from[i] + k * g.strd[i] <=> p[i] <= k
                    /\ g.from[i] + k * g.strd[i] <= EndFor(g, w)[i] <=> k <= q[i]
              /\ Crop(g, w) =
                    [from |-> PosAt(g, p), strd |-> g.strd,
                     dims |-> IF AllLeq(p, q) THEN Each(LAMBDA i : q[i] - p[i] + 1)
                              ELSE Vec(0)]
<1>1. PICK f, d, s : /\ f = g.from /\ d = g.dims /\ s = g.strd
                     /\ g = [from |-> f, dims |-> d, strd |-> s]
                     /\ f \in Places /\ d \in Counts /\ s \in Counts
  BY DEF Grids
<1>2. PICK u, v, y : /\ u = w.from /\ v = EndFor(g, w) /\ y = LastOf(w)
                     /\ u \in Places /\ v \in Places /\ y \in Places
  BY WindowEnd, EndFacts
<1>3. PICK l : l = LastOf(g) /\ \A i \in Axes : l[i] = f[i] + d[i] * s[i] - s[i]
  <2>1. LastOf(g) = <<f[1] + d[1] * s[1] - s[1], f[2] + d[2] * s[2] - s[2],
                      f[3] + d[3] * s[3] - s[3]>>
    BY <1>1 DEF LastOf, Each
  <2> QED
    BY <2>1 DEF Axes
<1>4. PICK p, q : /\ p = Each(LAMBDA i : Quot(MaxOf(f[i], u[i]) - f[i] + s[i] - 1, s[i]))
                  /\ q = Each(LAMBDA i : Quot(MinOf(l[i], y[i]) - f[i], s[i]))
  OBVIOUS
<1>5. /\ f[1] \in Nat /\ f[2] \in Nat /\ f[3] \in Nat /\ u[1] \in Nat /\ u[2] \in Nat
      /\ u[3] \in Nat /\ v[1] \in Nat /\ v[2] \in Nat /\ v[3] \in Nat
      /\ d[1] \in Nat \ {0} /\ d[2] \in Nat \ {0} /\ d[3] \in Nat \ {0}
      /\ s[1] \in Nat \ {0} /\ s[2] \in Nat \ {0} /\ s[3] \in Nat \ {0}
      /\ y[1] \in Nat /\ y[2] \in Nat /\ y[3] \in Nat
  BY <1>1, <1>2 DEF Places, Counts
<1>6. \A i \in Axes : /\ f[i] \in Nat /\ u[i] \in Nat /\ v[i] \in Nat /\ f[i] <= v[i]
                      /\ y[i] \in Nat
                      /\ d[i] \in Nat \ {0} /\ s[i] \in Nat \ {0}
  BY <1>1, <1>2, <1>5 DEF Axes, AllLeq
<1>7. \A i \in Axes : /\ p[i] = FirstStep(f[i], s[i], u[i])
                      /\ q[i] = LastStep(f[i], d[i], s[i], v[i])
  <2>1. \A i \in Axes : /\ p[i] = FirstStep(f[i], s[i], u[i])
                        /\ q[i] = LastStep(f[i], d[i], s[i], y[i])
    BY <1>3, <1>4 DEF Each, Axes, FirstStep, LastStep
  <2>2. ASSUME NEW i \in Axes
        PROVE  LastStep(f[i], d[i], s[i], y[i]) = LastStep(f[i], d[i], s[i], v[i])
    <3>1. v[i] = EndAlong(f[i], s[i], y[i])
      BY <1>1, <1>2, EndFacts
    <3>2. /\ f[i] \in Nat /\ y[i] \in Nat /\ f[i] <= v[i]
          /\ d[i] \in Nat \ {0} /\ s[i] \in Nat \ {0}
      BY <1>6
    <3> QED
      BY <3>1, <3>2, LastTaken
  <2> QED
    BY <2>1, <2>2
<1>8. \A i \in Axes : /\ p[i] \in Nat /\ q[i] \in Nat /\ q[i] < d[i]
                      /\ \A k \in 0 .. d[i] - 1 :
                            /\ u[i] <= f[i] + k * s[i] <=> p[i] <= k
                            /\ f[i] + k * s[i] <= v[i] <=> k <= q[i]
  <2>1. SUFFICES ASSUME NEW i \in Axes
                 PROVE  /\ p[i] \in Nat /\ q[i] \in Nat /\ q[i] < d[i]
                        /\ \A k \in 0 .. d[i] - 1 :
                              /\ u[i] <= f[i] + k * s[i] <=> p[i] <= k
                              /\ f[i] + k * s[i] <= v[i] <=> k <= q[i]
    OBVIOUS
  <2>2. /\ f[i] \in Nat /\ u[i] \in Nat /\ v[i] \in Nat /\ f[i] <= v[i]
        /\ d[i] \in Nat \ {0} /\ s[i] \in Nat \ {0}
    BY <1>6
  <2>3. p[i] = FirstStep(f[i], s[i], u[i]) /\ q[i] = LastStep(f[i], d[i], s[i], v[i])
    BY <1>7
  <2>4. /\ FirstStep(f[i], s[i], u[i]) \in Nat
        /\ LastStep(f[i], d[i], s[i], v[i]) \in 0 .. d[i] - 1
        /\ \A k \in 0 .. d[i] - 1 :
              /\ u[i] <= f[i] + k * s[i] <=> FirstStep(f[i], s[i], u[i]) <= k
              /\ f[i] + k * s[i] <= v[i] <=> k <= LastStep(f[i], d[i], s[i], v[i])
    BY <2>2, CropAxis
  <2> QED
    BY <2>2, <2>3, <2>4
<1>9. p \in Places /\ q \in Places
  <2>1. p = <<p[1], p[2], p[3]>> /\ q = <<q[1], q[2], q[3]>>
    BY <1>4 DEF Each
  <2>2. p[1] \in Nat /\ p[2] \in Nat /\ p[3] \in Nat
        /\ q[1] \in Nat /\ q[2] \in Nat /\ q[3] \in Nat
    BY <1>8 DEF Axes
  <2> QED
    BY <2>1, <2>2 DEF Places
<1>10. PICK a, z : /\ a = Each(LAMBDA i : p[i] * s[i] + f[i])
                   /\ z = Each(LAMBDA i : q[i] * s[i] + f[i])
  OBVIOUS
<1>11. a = PosAt(g, p) /\ z = PosAt(g, q)
  <2>1. ASSUME NEW i \in Axes
        PROVE  /\ p[i] * s[i] + f[i] = f[i] + p[i] * s[i]
               /\ q[i] * s[i] + f[i] = f[i] + q[i] * s[i]
    <3>1. f[i] \in Int /\ p[i] * s[i] \in Int /\ q[i] * s[i] \in Int
      BY <1>6, <1>8, Multiples
    <3> QED
      BY <3>1
  <2> QED
    BY <1>1, <1>10, <2>1 DEF PosAt, Each, Axes
<1>12. \A i \in Axes : /\ a[i] <= z[i] <=> p[i] <= q[i]
                       /\ p[i] <= q[i] => Quot(z[i] - a[i], s[i]) = q[i] - p[i]
  <2>1. SUFFICES ASSUME NEW i \in Axes
                 PROVE  /\ a[i] <= z[i] <=> p[i] <= q[i]
                        /\ p[i] <= q[i] => Quot(z[i] - a[i], s[i]) = q[i] - p[i]
    OBVIOUS
  <2>2. a[i] = p[i] * s[i] + f[i] /\ z[i] = q[i] * s[i] + f[i]
    BY <1>10, <2>1 DEF Each, Axes
  <2>3. /\ p[i] * s[i] \in Int /\ q[i] * s[i] \in Int
        /\ p[i] <= q[i] <=> p[i] * s[i] <= q[i] * s[i]
        /\ (q[i] - p[i]) * s[i] = q[i] * s[i] - p[i] * s[i]
    BY <1>6, <1>8, <2>1, Multiples
  <2>4. p[i] <= q[i] => Quot((q[i] - p[i]) * s[i], s[i]) = q[i] - p[i]
    <3>1. p[i] <= q[i] => q[i] - p[i] \in Nat
      BY <1>8
    <3>2. \A k \in Nat : Quot(k * s[i], s[i]) = k
      BY <1>6, Strides
    <3> QED
      BY <3>1, <3>2
  <2> QED
    BY <1>6, <2>1, <2>2, <2>3, <2>4
<1>13. Crop(g, w) = [g EXCEPT !.from = a,
          !.dims = IF AllLeq(a, z) THEN Each(LAMBDA i : Quot(z[i] - a[i], s[i]) + 1)
                   ELSE Vec(0)]
  <2>1. /\ a = Each(LAMBDA i : Quot(MaxOf(f[i], u[i]) - f[i] + s[i] - 1, s[i]) * s[i] + f[i])
        /\ z = Each(LAMBDA i : Quot(MinOf(l[i], y[i]) - f[i], s[i]) * s[i] + f[i])
    BY <1>4, <1>10 DEF Each
  <2> QED
    BY <1>1, <1>2, <1>3, <2>1 DEF Crop, Each
<1>14. AllLeq(a, z) <=> AllLeq(p, q)
  BY <1>12 DEF AllLeq
<1>15. AllLeq(p, q) => Each(LAMBDA i : Quot(z[i] - a[i], s[i]) + 1)
                         = Each(LAMBDA i : q[i] - p[i] + 1)
  BY <1>12 DEF AllLeq, Each, Axes
<1>16. PICK e : e = IF AllLeq(p, q) THEN Each(LAMBDA i : q[i] - p[i] + 1) ELSE Vec(0)
  OBVIOUS
<1>17. Crop(g, w) = [from |-> PosAt(g, p), strd |-> g.strd, dims |-> e]
  BY <1>1, <1>11, <1>13, <1>14, <1>15, <1>16
<1> QED
  BY <1>1, <1>2, <1>8, <1>9, <1>16, <1>17

\* A window that ends before the first position leaves nothing.
LEMMA NoneLeft ==
    ASSUME NEW g \in Grids, NEW w \in Windows, ~ AllLeq(g.from, EndFor(g, w))
    PROVE  Crop(g, w).dims = Vec(0)
<1>1. PICK i \in Axes : ~ (g.from[i] <= EndFor(g, w)[i])
  BY DEF AllLeq
<1>2. PICK f \in Nat, d \in Nat \ {0}, s \in Nat \ {0}, u \in Nat, y \in Nat :
         /\ f = g.from[i] /\ d = g.dims[i] /\ s = g.strd[i] /\ u = w.from[i]
         /\ y = LastOf(w)[i]
  <2>1. /\ LastOf(w) \in Places /\ w.from \in Places /\ g.from \in Places
        /\ g.dims \in Counts /\ g.strd \in Counts
    BY WindowEnd DEF Grids
  <2>2. (\A v \in Places : v[i] \in Nat) /\ \A v \in Counts : v[i] \in Nat \ {0}
    BY DEF Places, Counts, Axes
  <2>3. /\ g.from[i] \in Nat /\ g.dims[i] \in Nat \ {0} /\ g.strd[i] \in Nat \ {0}
        /\ w.from[i] \in Nat /\ LastOf(w)[i] \in Nat
    BY <2>1, <2>2
  <2> QED
    BY <2>3
<1>3. ~ (f <= EndAlong(f, s, y))
  BY <1>1, <1>2, EndFacts
<1>4. PICK k \in Int : k = LastStep(f, d, s, y) /\ k < 0
  BY <1>2, <1>3, LastRounded
<1>5. PICK m \in Nat : m = FirstStep(f, s, u)
  <2>1. MaxOf(f, u) - f + s - 1 \in Nat
    BY <1>2 DEF MaxOf
  <2> QED
    BY <2>1, Strides DEF FirstStep
<1> DEFINE up(x, t) == Quot(x + t - 1, t) * t
           a == Each(LAMBDA j : up(MaxOf(g.from[j], w.from[j]) - g.from[j], g.strd[j]) + g.from[j])
           z == Each(LAMBDA j : Quot(MinOf(LastOf(g)[j], LastOf(w)[j]) - g.from[j], g.strd[j])
                                  * g.strd[j] + g.from[j])
<1>6. a[i] = m * s + f
  BY <1>2, <1>5 DEF FirstStep, Each, Axes
<1>7. z[i] = k * s + f
  <2>1. LastOf(g)[i] = f + d * s - s
    BY <1>2 DEF LastOf, Each, Axes
  <2> QED
    BY <1>2, <1>4, <2>1 DEF LastStep, Each, Axes
<1>8. ~ (a[i] <= z[i])
  <2>1. PICK e \in Int, h \in Int : e = m * s /\ h = k * s /\ h < e
    BY <1>4, <1>5, Multiples
  <2>2. PICK b \in Int, c \in Int : b = e + f /\ c = h + f /\ ~ (b <= c)
    BY <1>2, <2>1
  <2>3. a[i] = b /\ z[i] = c
    <3> HIDE DEF a, z
    <3> QED
      BY <1>6, <1>7, <2>1, <2>2
  <2> QED
    <3> HIDE DEF a, z
    <3> QED
      BY <2>2, <2>3
<1>9. ~ AllLeq(a, z)
  BY <1>8 DEF AllLeq
<1>10. Crop(g, w) = [g EXCEPT !.from = a,
          !.dims = IF AllLeq(a, z) THEN Each(LAMBDA j : Quot(z[j] - a[j], g.strd[j]) + 1)
                   ELSE Vec(0)]
  BY DEF Crop
<1> HIDE DEF a, z
<1> QED
  BY <1>9, <1>10 DEF Grids

\* What is left of a grid g that is cut by w, which starts p steps into g.
IsCut(c, p, g, w) ==
    /\ c \in Grids /\ c.strd = g.strd /\ c.from = PosAt(g, p)
    /\ \A i \in Axes : p[i] + c.dims[i] <= g.dims[i]
    /\ \A i \in Axes : \A k \in 0 .. g.dims[i] - 1 :
          /\ w.from[i] <= g.from[i] + k * g.strd[i]
          /\ g.from[i] + k * g.strd[i] <= EndFor(g, w)[i]
          <=> k \in p[i] .. p[i] + c.dims[i] - 1

LEMMA PosPlace ==
    ASSUME NEW g \in Grids, NEW k \in Places
    PROVE  /\ PosAt(g, k) \in Places
           /\ \A i \in Axes : PosAt(g, k)[i] = g.from[i] + k[i] * g.strd[i]
<1>1. g.from \in Places /\ g.strd \in Counts
  BY DEF Grids
<1>2. \A i \in Axes : g.from[i] \in Nat /\ k[i] \in Nat /\ g.strd[i] \in Nat
  BY <1>1 DEF Places, Counts, Axes
<1>3. \A x, y, z \in Nat : x + y * z \in Nat
  OBVIOUS
<1>4. \A i \in Axes : g.from[i] + k[i] * g.strd[i] \in Nat
  BY <1>2, <1>3
<1>5. /\ g.from[1] + k[1] * g.strd[1] \in Nat
      /\ g.from[2] + k[2] * g.strd[2] \in Nat
      /\ g.from[3] + k[3] * g.strd[3] \in Nat
  BY <1>4 DEF Axes
<1>6. PosAt(g, k) = <<g.from[1] + k[1] * g.strd[1], g.from[2] + k[2] * g.strd[2],
                      g.from[3] + k[3] * g.strd[3]>>
  BY DEF PosAt, Each
<1> QED
  BY <1>5, <1>6 DEF Places, Axes

LEMMA Cutting ==
    ASSUME NEW g \in Grids, NEW w \in Windows, Crop(g, w).dims # Vec(0)
    PROVE  \E p \in Places : IsCut(Crop(g, w), p, g, w)
<1>1. PICK p \in Places, q \in Places :
         /\ \A i \in Axes : q[i] < g.dims[i]
         /\ \A i \in Axes : \A k \in 0 .. g.dims[i] - 1 :
               /\ w.from[i] <= g.from[i] + k * g.strd[i] <=> p[i] <= k
               /\ g.from[i] + k * g.strd[i] <= EndFor(g, w)[i] <=> k <= q[i]
         /\ Crop(g, w) =
               [from |-> PosAt(g, p), strd |-> g.strd,
                dims |-> IF AllLeq(p, q) THEN Each(LAMBDA i : q[i] - p[i] + 1) ELSE Vec(0)]
  BY NoneLeft, CropFacts
<1>2. PICK c : c = Crop(g, w)
  OBVIOUS
<1>3. AllLeq(p, q) /\ c.from = PosAt(g, p) /\ c.strd = g.strd
      /\ c.dims = <<q[1] - p[1] + 1, q[2] - p[2] + 1, q[3] - p[3] + 1>>
      /\ c = [from |-> c.from, dims |-> c.dims, strd |-> c.strd]
  BY <1>1, <1>2 DEF Each
<1>4. \A i \in Axes : p[i] \in Nat /\ q[i] \in Nat /\ p[i] <= q[i] /\ g.dims[i] \in Nat
  BY <1>3 DEF Places, Axes, AllLeq, Grids, Counts
<1>5. \A i \in Axes : c.dims[i] = q[i] - p[i] + 1
  BY <1>3 DEF Axes
<1>6. c.dims \in Counts
  <2>1. ASSUME NEW i \in Axes PROVE c.dims[i] \in Nat \ {0}
    <3>1. p[i] \in Nat /\ q[i] \in Nat /\ p[i] <= q[i] /\ c.dims[i] = q[i] - p[i] + 1
      BY <1>4, <1>5
    <3> QED
      BY <3>1
  <2>2. c.dims[1] \in Nat \ {0} /\ c.dims[2] \in Nat \ {0} /\ c.dims[3] \in Nat \ {0}
    BY <2>1 DEF Axes
  <2> QED
    BY <1>3, <2>2 DEF Counts
<1>7. c \in Grids
  <2>1. c.from \in Places /\ c.strd \in Counts
    BY <1>3, PosPlace DEF Grids
  <2> QED
    BY <1>3, <1>6, <2>1 DEF Grids
<1>8. ASSUME NEW i \in Axes PROVE p[i] + c.dims[i] <= g.dims[i]
  <2>1. /\ p[i] \in Nat /\ q[i] \in Nat /\ g.dims[i] \in Nat
        /\ q[i] < g.dims[i] /\ c.dims[i] = q[i] - p[i] + 1
    BY <1>1, <1>4, <1>5
  <2> QED
    BY <2>1
<1>9. ASSUME NEW i \in Axes, NEW k \in 0 .. g.dims[i] - 1
      PROVE  /\ w.from[i] <= g.from[i] + k * g.strd[i]
             /\ g.from[i] + k * g.strd[i] <= EndFor(g, w)[i]
             <=> k \in p[i] .. p[i] + c.dims[i] - 1
  <2>1. /\ w.from[i] <= g.from[i] + k * g.strd[i] <=> p[i] <= k
        /\ g.from[i] + k * g.strd[i] <= EndFor(g, w)[i] <=> k <= q[i]
    BY <1>1, <1>9
  <2>2. p[i] <= k /\ k <= q[i] <=> k \in p[i] .. p[i] + c.dims[i] - 1
    BY <1>4, <1>5, <1>9
  <2> QED
    BY <2>1, <2>2
<1>10. IsCut(c, p, g, w)
  BY <1>3, <1>7, <1>8, <1>9 DEF IsCut
<1> QED
  BY <1>2, <1>10

\* The positions of a window are those between its ends.
LEMMA WindowPoints ==
    ASSUME NEW w \in Windows
    PROVE  Points(w) = {x \in Places : \A i \in Axes : w.from[i] <= x[i] /\ x[i] <= LastOf(w)[i]}
<1>1. PICK f \in Places, d \in Counts : /\ f = w.from /\ d = w.dims /\ w.strd = <<1, 1, 1>>
  BY DEF Windows, Vec
<1>2. /\ f[1] \in Nat /\ f[2] \in Nat /\ f[3] \in Nat
      /\ d[1] \in Nat \ {0} /\ d[2] \in Nat \ {0} /\ d[3] \in Nat \ {0}
  BY DEF Places, Counts
<1>3. LastOf(w) = <<f[1] + d[1] - 1, f[2] + d[2] - 1, f[3] + d[3] - 1>>
  <2>1. LastOf(w) = <<f[1] + d[1] * 1 - 1, f[2] + d[2] * 1 - 1, f[3] + d[3] * 1 - 1>>
    BY <1>1 DEF LastOf, Each
  <2> QED
    BY <1>2, <2>1
<1>4. Points(w) = {<<f[1] + k[1], f[2] + k[2], f[3] + k[3]>> :
                     k \in (0 .. d[1] - 1) \X (0 .. d[2] - 1) \X (0 .. d[3] - 1)}
  <2>1. Points(w) = {<<f[1] + k[1] * 1, f[2] + k[2] * 1, f[3] + k[3] * 1>> :
                       k \in (0 .. d[1] - 1) \X (0 .. d[2] - 1) \X (0 .. d[3] - 1)}
    BY <1>1 DEF Points, Each
  <2>2. \A k \in (0 .. d[1] - 1) \X (0 .. d[2] - 1) \X (0 .. d[3] - 1) :
           <<f[1] + k[1] * 1, f[2] + k[2] * 1, f[3] + k[3] * 1>>
             = <<f[1] + k[1], f[2] + k[2], f[3] + k[3]>>
    OBVIOUS
  <2> QED
    BY <2>1, <2>2
<1>5. ASSUME NEW x \in Places, \A i \in Axes : w.from[i] <= x[i] /\ x[i] <= LastOf(w)[i]
      PROVE  x \in Points(w)
  <2>1. x = <<x[1], x[2], x[3]>> /\ x[1] \in Nat /\ x[2] \in Nat /\ x[3] \in Nat
    BY DEF Places
  <2>2. /\ f[1] <= x[1] /\ x[1] <= f[1] + d[1] - 1
        /\ f[2] <= x[2] /\ x[2] <= f[2] + d[2] - 1
        /\ f[3] <= x[3] /\ x[3] <= f[3] + d[3] - 1
    BY <1>1, <1>3, <1>5 DEF Axes
  <2>3. PICK k : k = <<x[1] - f[1], x[2] - f[2], x[3] - f[3]>>
    OBVIOUS
  <2>4. k \in (0 .. d[1] - 1) \X (0 .. d[2] - 1) \X (0 .. d[3] - 1)
    BY <1>2, <2>1, <2>2, <2>3
  <2>5. x = <<f[1] + k[1], f[2] + k[2], f[3] + k[3]>>
    BY <1>2, <2>1, <2>3
  <2> QED
    BY <1>4, <2>4, <2>5
<1>6. ASSUME NEW x \in Points(w)
      PROVE  x \in Places /\ \A i \in Axes : w.from[i] <= x[i] /\ x[i] <= LastOf(w)[i]
  <2>1. PICK k \in (0 .. d[1] - 1) \X (0 .. d[2] - 1) \X (0 .. d[3] - 1) :
           x = <<f[1] + k[1], f[2] + k[2], f[3] + k[3]>>
    BY <1>4, <1>6
  <2>2. /\ k[1] \in Nat /\ k[1] <= d[1] - 1 /\ k[2] \in Nat /\ k[2] <= d[2] - 1
        /\ k[3] \in Nat /\ k[3] <= d[3] - 1
    BY <1>2, <2>1
  <2> QED
    BY <1>1, <1>2, <1>3, <2>1, <2>2 DEF Places, Axes
<1> QED
  BY <1>5, <1>6

LEMMA GridPoints ==
    ASSUME NEW g \in Grids
    PROVE  Points(g) = {PosAt(g, k) : k \in Box(g.dims)}
BY DEF Points, PosAt, Box

LEMMA BoxFacts ==
    ASSUME NEW d \in Counts, NEW k
    PROVE  k \in Box(d) <=> k \in Places /\ \A i \in Axes : k[i] \in 0 .. d[i] - 1
<1>1. d[1] \in Nat /\ d[2] \in Nat /\ d[3] \in Nat
  BY DEF Counts
<1>2. ASSUME k \in Box(d) PROVE k \in Places /\ \A i \in Axes : k[i] \in 0 .. d[i] - 1
  BY <1>1, <1>2 DEF Box, Places, Axes
<1>3. ASSUME k \in Places, \A i \in Axes : k[i] \in 0 .. d[i] - 1 PROVE k \in Box(d)
  BY <1>1, <1>3 DEF Box, Places, Axes
<1> QED
  BY <1>2, <1>3

\* Step j of the cut grid is step j + p of the whole one.
Shifted(j, p) == <<j[1] + p[1], j[2] + p[2], j[3] + p[3]>>

LEMMA ShiftedPos ==
    ASSUME NEW g \in Grids, NEW w \in Windows, NEW p \in Places, NEW c, IsCut(c, p, g, w),
           NEW j \in Box(c.dims)
    PROVE  /\ Shifted(j, p) \in Box(g.dims) /\ PosAt(c, j) = PosAt(g, Shifted(j, p))
           /\ \A i \in Axes : Shifted(j, p)[i] = j[i] + p[i] /\ p[i] \in Nat /\ j[i] \in Nat
<1>1. /\ c \in Grids /\ c.dims \in Counts /\ c.strd = g.strd /\ c.from = PosAt(g, p)
      /\ g.dims \in Counts /\ j \in Places
      /\ \A i \in Axes : j[i] \in 0 .. c.dims[i] - 1
  BY BoxFacts DEF IsCut, Grids
<1>2. \A i \in Axes : /\ p[i] \in Nat /\ j[i] \in Nat /\ Shifted(j, p)[i] = j[i] + p[i]
                      /\ g.from[i] \in Nat /\ g.strd[i] \in Nat \ {0}
                      /\ g.dims[i] \in Nat /\ c.dims[i] \in Nat
                      /\ p[i] + c.dims[i] <= g.dims[i]
  BY <1>1 DEF Places, Counts, Axes, Shifted, Grids, IsCut
<1>3. Shifted(j, p) \in Places
  BY DEF Shifted, Places, Box
<1>4. \A i \in Axes : Shifted(j, p)[i] \in 0 .. g.dims[i] - 1
  <2>1. SUFFICES ASSUME NEW i \in Axes PROVE j[i] + p[i] \in 0 .. g.dims[i] - 1
    BY <1>2
  <2>2. j[i] \in 0 .. c.dims[i] - 1 /\ p[i] \in Nat /\ g.dims[i] \in Nat
        /\ c.dims[i] \in Nat /\ p[i] + c.dims[i] <= g.dims[i]
    BY <1>1, <1>2
  <2> QED
    BY <2>2
<1>5. PosAt(c, j) = PosAt(g, Shifted(j, p))
  <2>1. \A f, a, b, s \in Nat : (f + a * s) + b * s = f + (b + a) * s
    OBVIOUS
  <2>2. ASSUME NEW i \in Axes
        PROVE  c.from[i] + j[i] * c.strd[i] = g.from[i] + Shifted(j, p)[i] * g.strd[i]
    <3>1. c.from[i] = g.from[i] + p[i] * g.strd[i] /\ c.strd[i] = g.strd[i]
      BY <1>1, PosPlace
    <3> QED
      BY <1>2, <2>1, <3>1
  <2> QED
    BY <2>2 DEF PosAt, Each, Axes
<1> QED
  BY <1>1, <1>2, <1>3, <1>4, <1>5, BoxFacts

\* What a grid has in a window is the cut grid.
LEMMA CutPoints ==
    ASSUME NEW g \in Grids, NEW w \in Windows, NEW p \in Places, NEW c, IsCut(c, p, g, w)
    PROVE  Points(c) = InWindow(g, w)
<1>1. c \in Grids /\ c.dims \in Counts /\ g.dims \in Counts
  BY DEF IsCut, Grids
<1>2. \A k \in Box(g.dims) :
         PosAt(g, k) \in InWindow(g, w) <=>
            \A i \in Axes : k[i] \in p[i] .. p[i] + c.dims[i] - 1
  <2>1. SUFFICES ASSUME NEW k \in Box(g.dims)
                 PROVE  PosAt(g, k) \in InWindow(g, w) <=>
                           \A i \in Axes : k[i] \in p[i] .. p[i] + c.dims[i] - 1
    OBVIOUS
  <2>2. k \in Places /\ \A i \in Axes : k[i] \in 0 .. g.dims[i] - 1
    BY <1>1, BoxFacts
  <2>3. PosAt(g, k) \in Points(g)
        /\ \A i \in Axes : PosAt(g, k)[i] = g.from[i] + k[i] * g.strd[i]
    BY <2>2, PosPlace, GridPoints
  <2>4. PosAt(g, k) \in InWindow(g, w) <=>
           \A i \in Axes : w.from[i] <= PosAt(g, k)[i] /\ PosAt(g, k)[i] <= EndFor(g, w)[i]
    BY <2>3 DEF InWindow, AllLeq
  <2>5. \A i \in Axes : /\ w.from[i] <= PosAt(g, k)[i] /\ PosAt(g, k)[i] <= EndFor(g, w)[i]
                        <=> k[i] \in p[i] .. p[i] + c.dims[i] - 1
    BY <2>2, <2>3 DEF IsCut
  <2> QED
    BY <2>4, <2>5
<1>3. ASSUME NEW x \in Points(c) PROVE x \in InWindow(g, w)
  <2>1. PICK j \in Box(c.dims) : x = PosAt(c, j)
    BY <1>1, <1>3, GridPoints
  <2>2. /\ Shifted(j, p) \in Box(g.dims) /\ x = PosAt(g, Shifted(j, p))
        /\ \A i \in Axes : Shifted(j, p)[i] = j[i] + p[i] /\ p[i] \in Nat /\ j[i] \in Nat
    BY <2>1, ShiftedPos
  <2>3. ASSUME NEW i \in Axes PROVE Shifted(j, p)[i] \in p[i] .. p[i] + c.dims[i] - 1
    <3>1. j[i] \in 0 .. c.dims[i] - 1 /\ p[i] \in Nat /\ c.dims[i] \in Nat
          /\ Shifted(j, p)[i] = j[i] + p[i]
      BY <1>1, <2>2, BoxFacts DEF Counts, Axes
    <3> QED
      BY <3>1
  <2> QED
    BY <1>2, <2>2, <2>3, GridPoints
<1>4. ASSUME NEW x \in InWindow(g, w) PROVE x \in Points(c)
  <2>1. PICK k \in Box(g.dims) : x = PosAt(g, k)
    BY <1>4, GridPoints DEF InWindow
  <2>2. \A i \in Axes : k[i] \in p[i] .. p[i] + c.dims[i] - 1
    BY <1>2, <1>4, <2>1
  <2>3. PICK j : j = <<k[1] - p[1], k[2] - p[2], k[3] - p[3]>>
    OBVIOUS
  <2>4. \A i \in Axes : /\ p[i] \in Nat /\ c.dims[i] \in Nat
                        /\ k[i] \in p[i] .. p[i] + c.dims[i] - 1 /\ j[i] = k[i] - p[i]
    BY <1>1, <2>2, <2>3 DEF Places, Counts, Axes
  <2>5. ASSUME NEW i \in Axes
        PROVE  j[i] \in Nat /\ j[i] \in 0 .. c.dims[i] - 1 /\ j[i] + p[i] = k[i]
    <3>1. /\ p[i] \in Nat /\ c.dims[i] \in Nat
          /\ k[i] \in p[i] .. p[i] + c.dims[i] - 1 /\ j[i] = k[i] - p[i]
      BY <2>4
    <3> QED
      BY <3>1
  <2>6. j \in Places
    BY <2>3, <2>5 DEF Places, Axes
  <2>7. j \in Box(c.dims)
    BY <1>1, <2>5, <2>6, BoxFacts
  <2>8. Shifted(j, p) = k
    BY <2>5 DEF Shifted, Axes, Box
  <2> QED
    BY <1>1, <2>1, <2>7, <2>8, ShiftedPos, GridPoints
<1> QED
  BY <1>3, <1>4

\* That is the intersection, unless the window ends before the grid starts.
LEMMA CutMeets ==
    ASSUME NEW g \in Grids, NEW w \in Windows
    PROVE  /\ Points(g) \cap Points(w) \subseteq InWindow(g, w)
           /\ AllLeq(g.from, LastOf(w)) => InWindow(g, w) = Points(g) \cap Points(w)
<1>1. PICK z : z = LastOf(w) /\ z \in Places /\ \A i \in Axes : z[i] \in Nat
  BY WindowEnd DEF Places, Axes
<1>2. \A i \in Axes : g.from[i] \in Nat
  BY DEF Grids, Places, Axes
<1>3. ASSUME NEW x \in Points(g)
      PROVE  /\ x \in Places /\ \A i \in Axes : x[i] \in Nat
             /\ x \in Points(w) <=> AllLeq(w.from, x) /\ AllLeq(x, z)
  <2>1. PICK k \in Box(g.dims) : x = PosAt(g, k)
    BY <1>3, GridPoints
  <2>2. k \in Places
    BY BoxFacts DEF Grids
  <2>3. x \in Places
    BY <2>1, <2>2, PosPlace
  <2> QED
    BY <1>1, <2>3, WindowPoints DEF AllLeq, Places, Axes
<1>4. ASSUME NEW i \in Axes
      PROVE  /\ EndFor(g, w)[i] \in Nat /\ z[i] <= EndFor(g, w)[i]
             /\ g.from[i] <= z[i] => EndFor(g, w)[i] = z[i]
  <2>1. EndFor(g, w)[i] = EndAlong(g.from[i], g.strd[i], z[i]) /\ EndFor(g, w)[i] \in Nat
    BY <1>1, EndFacts DEF Places, Axes
  <2>2. g.from[i] \in Nat /\ z[i] \in Nat
    BY <1>1, <1>2
  <2> QED
    BY <2>1, <2>2 DEF EndAlong, MaxOf
<1>5. ASSUME NEW x \in Points(g), x \in Points(w)
      PROVE  x \in InWindow(g, w)
  <2>1. \A i \in Axes : x[i] \in Nat /\ x[i] <= z[i]
    BY <1>3, <1>5 DEF AllLeq
  <2>2. ASSUME NEW i \in Axes
        PROVE  x[i] <= EndFor(g, w)[i]
    <3>1. x[i] \in Nat /\ x[i] <= z[i] /\ z[i] \in Nat /\ EndFor(g, w)[i] \in Nat
          /\ z[i] <= EndFor(g, w)[i]
      BY <1>1, <1>4, <2>1
    <3> QED
      BY <3>1
  <2> QED
    BY <1>3, <1>5, <2>2 DEF InWindow, AllLeq
<1>6. ASSUME AllLeq(g.from, LastOf(w)), NEW x \in InWindow(g, w)
      PROVE  x \in Points(g) /\ x \in Points(w)
  <2>1. x \in Points(g) /\ AllLeq(w.from, x) /\ AllLeq(x, EndFor(g, w))
    BY <1>6 DEF InWindow
  <2>2. \A i \in Axes : EndFor(g, w)[i] = z[i]
    BY <1>1, <1>4, <1>6 DEF AllLeq
  <2>3. AllLeq(x, z)
    BY <2>1, <2>2 DEF AllLeq
  <2> QED
    BY <1>3, <2>1, <2>3
<1> QED
  BY <1>5, <1>6

\* A grid for which Crop finds nothing has nothing in the window.
LEMMA NothingCut ==
    ASSUME NEW g \in Grids, NEW w \in Windows, Crop(g, w).dims = Vec(0)
    PROVE  InWindow(g, w) = {}
<1>1. SUFFICES ASSUME NEW k \in Box(g.dims), PosAt(g, k) \in InWindow(g, w) PROVE FALSE
  BY GridPoints DEF InWindow
<1>2. k \in Places /\ g.dims \in Counts /\ \A i \in Axes : k[i] \in 0 .. g.dims[i] - 1
  BY BoxFacts DEF Grids
<1>3. \A i \in Axes : /\ w.from[i] <= g.from[i] + k[i] * g.strd[i]
                      /\ g.from[i] + k[i] * g.strd[i] <= EndFor(g, w)[i]
  <2>1. \A i \in Axes : PosAt(g, k)[i] = g.from[i] + k[i] * g.strd[i]
    BY <1>2, PosPlace
  <2>2. \A i \in Axes : w.from[i] <= PosAt(g, k)[i] /\ PosAt(g, k)[i] <= EndFor(g, w)[i]
    BY <1>1 DEF InWindow, AllLeq
  <2> QED
    BY <2>1, <2>2
<1>4. AllLeq(g.from, EndFor(g, w))
  <2>1. SUFFICES ASSUME NEW i \in Axes PROVE g.from[i] <= EndFor(g, w)[i]
    BY DEF AllLeq
  <2>2. g.from[i] \in Nat /\ k[i] \in Nat /\ g.strd[i] \in Nat
    BY <1>2 DEF Grids, Places, Counts, Axes
  <2>3. g.from[i] + k[i] * g.strd[i] <= EndFor(g, w)[i]
    BY <1>3
  <2>4. EndFor(g, w)[i] \in Int
    BY EndFacts DEF Places, Axes
  <2>5. \A f, a, s \in Nat : f <= f + a * s /\ f + a * s \in Nat
    OBVIOUS
  <2> QED
    BY <2>2, <2>3, <2>4, <2>5
<1>5. PICK p \in Places, q \in Places :
         /\ \A i \in Axes : \A x \in 0 .. g.dims[i] - 1 :
               /\ w.from[i] <= g.from[i] + x * g.strd[i] <=> p[i] <= x
               /\ g.from[i] + x * g.strd[i] <= EndFor(g, w)[i] <=> x <= q[i]
         /\ Crop(g, w) =
               [from |-> PosAt(g, p), strd |-> g.strd,
                dims |-> IF AllLeq(p, q) THEN Each(LAMBDA i : q[i] - p[i] + 1) ELSE Vec(0)]
  BY <1>4, CropFacts
<1>6. \A i \in Axes : p[i] <= k[i] /\ k[i] <= q[i]
  BY <1>2, <1>3, <1>5
<1>7. \A i \in Axes : p[i] \in Nat /\ q[i] \in Nat /\ k[i] \in Nat /\ p[i] <= q[i]
  <2>1. SUFFICES ASSUME NEW i \in Axes
                 PROVE  p[i] \in Nat /\ q[i] \in Nat /\ k[i] \in Nat /\ p[i] <= q[i]
    OBVIOUS
  <2>2. p[i] \in Nat /\ q[i] \in Nat /\ k[i] \in Nat
    BY <1>2 DEF Places, Axes
  <2> QED
    BY <1>6, <2>2
<1>8. Crop(g, w).dims = <<q[1] - p[1] + 1, q[2] - p[2] + 1, q[3] - p[3] + 1>>
  BY <1>5, <1>7 DEF AllLeq, Each
<1>9. q[1] - p[1] + 1 # 0
  BY <1>7 DEF Axes
<1> QED
  BY <1>4, <1>8, <1>9 DEF Vec

LEMMA CutAxis ==
    ASSUME NEW g \in Grids, NEW w \in Windows, NEW p \in Places, NEW c, IsCut(c, p, g, w),
           NEW i \in Axes
    PROVE  /\ p[i] \in Nat /\ g.from[i] \in Nat /\ g.strd[i] \in Nat \ {0}
           /\ g.dims[i] \in Nat \ {0} /\ c.dims[i] \in Nat \ {0}
           /\ p[i] + c.dims[i] <= g.dims[i]
           /\ c.from[i] = g.from[i] + p[i] * g.strd[i] /\ c.strd[i] = g.strd[i]
<1>1. /\ c \in Grids /\ c.strd = g.strd /\ c.from = PosAt(g, p) /\ c.dims \in Counts
      /\ g.dims \in Counts /\ g.strd \in Counts /\ g.from \in Places
      /\ p[i] + c.dims[i] <= g.dims[i]
  BY DEF IsCut, Grids
<1>2. \A v \in Places : v[i] \in Nat
  BY DEF Places, Axes
<1>3. \A v \in Counts : v[i] \in Nat \ {0}
  BY DEF Counts, Axes
<1>4. c.from[i] = g.from[i] + p[i] * g.strd[i]
  BY <1>1, PosPlace
<1> QED
  BY <1>1, <1>2, <1>3, <1>4

\* A grid lies in a volume of dimensions n.
Inside(g, n) ==
    /\ g \in Grids /\ n \in Counts
    /\ \A i \in Axes : \A k \in 0 .. g.dims[i] - 1 : g.from[i] + k * g.strd[i] < n[i]

\* A grid that is cut by a window of a volume lies in the volume.
LEMMA CutInside ==
    ASSUME NEW g \in Grids, NEW w \in Windows, NEW p \in Places, NEW c, IsCut(c, p, g, w),
           NEW n \in Counts, \A i \in Axes : LastOf(w)[i] < n[i] /\ g.from[i] < n[i]
    PROVE  Inside(c, n)
<1>1. c \in Grids /\ c.strd = g.strd /\ c.dims \in Counts
  BY DEF IsCut, Grids
<1>2. SUFFICES ASSUME NEW i \in Axes, NEW k \in 0 .. c.dims[i] - 1
               PROVE  c.from[i] + k * c.strd[i] < n[i]
  BY <1>1 DEF Inside
<1>3. /\ p[i] \in Nat /\ g.from[i] \in Nat /\ g.strd[i] \in Nat /\ g.dims[i] \in Nat
      /\ c.dims[i] \in Nat /\ p[i] + c.dims[i] <= g.dims[i]
  BY <1>1 DEF Places, Counts, Grids, Axes, IsCut
<1>4. c.from[i] = g.from[i] + p[i] * g.strd[i]
  BY PosPlace DEF IsCut
<1>5. p[i] + k \in 0 .. g.dims[i] - 1 /\ p[i] + k \in p[i] .. p[i] + c.dims[i] - 1
  BY <1>2, <1>3
<1>6. g.from[i] + (p[i] + k) * g.strd[i] <= EndFor(g, w)[i]
  BY <1>5 DEF IsCut
<1>7. \A f, a, b, s \in Nat : (f + a * s) + b * s = f + (a + b) * s /\ f + (a + b) * s \in Nat
  OBVIOUS
<1>8. (g.from[i] + p[i] * g.strd[i]) + k * g.strd[i] = g.from[i] + (p[i] + k) * g.strd[i]
      /\ g.from[i] + (p[i] + k) * g.strd[i] \in Nat
  BY <1>2, <1>3, <1>7
<1>9. EndFor(g, w)[i] \in Int /\ EndFor(g, w)[i] < n[i] /\ n[i] \in Int
  <2>1. EndFor(g, w)[i] = EndAlong(g.from[i], g.strd[i], LastOf(w)[i])
    BY EndFacts
  <2>2. LastOf(w)[i] \in Nat /\ n[i] \in Int /\ g.strd[i] \in Int /\ g.from[i] \in Nat
    BY <1>3, WindowEnd DEF Places, Counts, Axes
  <2>3. LastOf(w)[i] < n[i] /\ g.from[i] < n[i]
    OBVIOUS
  <2> QED
    BY <2>1, <2>2, <2>3 DEF EndAlong, MaxOf
<1> QED
  BY <1>1, <1>4, <1>6, <1>8, <1>9

\* The assertion of Relative.
LEMMA CutSubGrid ==
    ASSUME NEW g \in Grids, NEW w \in Windows, NEW p \in Places, NEW c, IsCut(c, p, g, w)
    PROVE  IsSubGrid(c, g)
<1>1. c \in Grids /\ c.strd = g.strd
  BY DEF IsCut
<1>2. ASSUME NEW i \in Axes
      PROVE  /\ g.from[i] <= c.from[i] /\ LastOf(c)[i] <= LastOf(g)[i]
             /\ (c.strd[i] % g.strd[i]) = 0
             /\ ((c.from[i] - g.from[i]) % g.strd[i]) = 0
  <2>1. PICK a \in Nat, f \in Nat, s \in Nat \ {0}, d \in Nat, e \in Nat :
           /\ a = p[i] /\ f = g.from[i] /\ s = g.strd[i] /\ d = g.dims[i] /\ e = c.dims[i]
           /\ a + e <= d
    BY CutAxis
  <2>2. c.from[i] = f + a * s /\ c.strd[i] = s
    BY <2>1, CutAxis
  <2>3. LastOf(c)[i] = (f + a * s) + e * s - s /\ LastOf(g)[i] = f + d * s - s
    BY <2>1, <2>2 DEF LastOf, Each, Axes
  <2>4. a * s \in Nat /\ (a + e) * s <= d * s /\ (a + e) * s = a * s + e * s
        /\ e * s \in Nat /\ d * s \in Nat
    <3>1. a * s \in Nat /\ e * s \in Nat /\ d * s \in Nat /\ (a + e) * s = a * s + e * s
      OBVIOUS
    <3>2. a + e \in Int /\ d \in Int /\ a + e <= d
      BY <2>1
    <3>3. (a + e) * s <= d * s
      BY <3>2, Multiples
    <3> QED
      BY <3>1, <3>3
  <2>5. f <= f + a * s /\ (f + a * s) + e * s - s <= f + d * s - s
    BY <2>1, <2>4
  <2>6. (s % s) = 0 /\ ((a * s) % s) = 0
    OBVIOUS
  <2>7. (f + a * s) - f = a * s
    BY <2>1, <2>4
  <2> QED
    BY <2>1, <2>2, <2>3, <2>5, <2>6, <2>7
<1> QED
  BY <1>2 DEF IsSubGrid, AllLeq

\* Relative gives the steps at which the cut grid starts.
LEMMA CutRelative ==
    ASSUME NEW g \in Grids, NEW w \in Windows, NEW p \in Places, NEW c, IsCut(c, p, g, w),
           \A i \in Axes : g.dims[i] < PackLimit
    PROVE  Relative(c, g) = [from |-> p, dims |-> c.dims, strd |-> Vec(1)]
<1>1. /\ c \in Grids /\ c.strd = g.strd /\ c.from = PosAt(g, p) /\ c.dims \in Counts
      /\ g.dims \in Counts /\ g.strd \in Counts /\ g.from \in Places
  BY DEF IsCut, Grids
<1>2. ASSUME NEW i \in Axes
      PROVE  /\ Quot(c.from[i] - g.from[i], g.strd[i]) = p[i]
             /\ Quot(c.strd[i], g.strd[i]) = 1
             /\ p[i] < PackLimit /\ c.dims[i] < PackLimit /\ 1 < PackLimit
  <2>1. PICK a \in Nat, f \in Nat, s \in Nat \ {0}, d \in Nat, e \in Nat \ {0} :
           /\ a = p[i] /\ f = g.from[i] /\ s = g.strd[i] /\ d = g.dims[i] /\ e = c.dims[i]
           /\ a + e <= d
    <3>1. /\ p[i] \in Nat /\ g.from[i] \in Nat /\ g.strd[i] \in Nat \ {0}
          /\ g.dims[i] \in Nat \ {0} /\ c.dims[i] \in Nat \ {0}
          /\ p[i] + c.dims[i] <= g.dims[i]
      BY CutAxis
    <3> QED
      BY <3>1
  <2>2. c.from[i] = f + a * s /\ c.strd[i] = s
    BY <2>1, CutAxis
  <2>3. (f + a * s) - f = a * s /\ s = 1 * s
    BY <2>1, Multiples
  <2>4. Quot(a * s, s) = a /\ Quot(1 * s, s) = 1
    BY <2>1, Strides
  <2>5. d < PackLimit /\ PackLimit \in Nat
    BY <2>1, LimitNat
  <2>6. a < PackLimit /\ e < PackLimit /\ 1 < PackLimit
    BY <2>1, <2>5
  <2> QED
    BY <2>1, <2>2, <2>3, <2>4, <2>6
<1>3. Relative(c, g) = Grid(p, c.dims, <<1, 1, 1>>)
  <2>1. Each(LAMBDA i : Quot(c.from[i] - g.from[i], g.strd[i])) = p
    BY <1>2 DEF Each, Axes, Places
  <2>2. Each(LAMBDA i : Quot(c.strd[i], g.strd[i])) = <<1, 1, 1>>
    BY <1>2 DEF Each, Axes
  <2> QED
    BY <2>1, <2>2 DEF Relative
<1>4. Packed(p) = p
  BY <1>2, PackedVector DEF Places
<1>5. Packed(c.dims) = c.dims
  <2>1. c.dims \in Nat \X Nat \X Nat
    BY <1>1 DEF Counts
  <2> QED
    BY <1>2, <2>1, PackedVector
<1>6. Packed(<<1, 1, 1>>) = <<1, 1, 1>>
  <2>1. <<1, 1, 1>> \in Nat \X Nat \X Nat /\ \A i \in Axes : <<1, 1, 1>>[i] < PackLimit
    BY <1>2 DEF Axes
  <2> QED
    BY <2>1, PackedVector
<1> QED
  BY <1>3, <1>4, <1>5, <1>6 DEF Grid, Vec

\* The cut grid as Relative gives it lies in the volume of the whole one.
LEMMA LocalInside ==
    ASSUME NEW g \in Grids, NEW w \in Windows, NEW p \in Places, NEW c, IsCut(c, p, g, w),
           NEW l, l = [from |-> p, dims |-> c.dims, strd |-> Vec(1)]
    PROVE  Inside(l, g.dims)
<1>1. l \in Grids /\ g.dims \in Counts
  <2>1. c.dims \in Counts /\ g.dims \in Counts /\ Vec(1) \in Counts
    BY DEF IsCut, Grids, Vec, Counts
  <2> QED
    BY <2>1 DEF Grids
<1>2. ASSUME NEW i \in Axes, NEW k \in 0 .. l.dims[i] - 1
      PROVE  l.from[i] + k * l.strd[i] < g.dims[i]
  <2>1. /\ p[i] \in Nat /\ g.dims[i] \in Nat /\ c.dims[i] \in Nat
        /\ p[i] + c.dims[i] <= g.dims[i]
    BY CutAxis
  <2>2. l.strd[i] = 1 /\ l.from[i] = p[i] /\ l.dims[i] = c.dims[i]
    BY DEF Vec, Axes
  <2> QED
    BY <1>2, <2>1, <2>2
<1> QED
  BY <1>1, <1>2 DEF Inside

-----------------------------------------------------------------------------
(* Iterators.  That of a grid goes through its steps in this order.         *)

Before(j, k) ==
    \/ j[3] < k[3]
    \/ j[3] = k[3] /\ j[2] < k[2]
    \/ j[3] = k[3] /\ j[2] = k[2] /\ j[1] < k[1]

NextStep(d, k) ==
    IF k[1] + 1 < d[1] THEN <<k[1] + 1, k[2], k[3]>>
    ELSE IF k[2] + 1 < d[2] THEN <<0, k[2] + 1, k[3]>>
    ELSE <<0, 0, k[3] + 1>>

Final(d) == <<0, 0, d[3]>>

\* The iterator of g at step k.
At(g, k, n) ==
    [grid |-> g, ptr |-> Row(n, PosAt(g, k)), p |-> Each(LAMBDA i : k[i] * g.strd[i])]

LEMMA Origin ==
    ASSUME NEW d \in Counts
    PROVE  <<0, 0, 0>> \in Box(d)
<1>1. d[1] \in Nat \ {0} /\ d[2] \in Nat \ {0} /\ d[3] \in Nat \ {0}
  BY DEF Counts
<1> QED
  BY <1>1 DEF Box

LEMMA StepOrder ==
    ASSUME NEW d \in Counts, NEW k \in Box(d)
    PROVE  /\ NextStep(d, k) \in Box(d) \cup {Final(d)}
           /\ \A j \in Box(d) : Before(j, NextStep(d, k)) <=> Before(j, k) \/ j = k
           /\ \A j \in Box(d) : Before(j, Final(d)) /\ ~ Before(j, <<0, 0, 0>>)
<1>1. /\ d[1] \in Nat \ {0} /\ d[2] \in Nat \ {0} /\ d[3] \in Nat \ {0}
  BY DEF Counts
<1>2. \A j \in Box(d) : /\ j = <<j[1], j[2], j[3]>> /\ j[1] \in 0 .. d[1] - 1
                        /\ j[2] \in 0 .. d[2] - 1 /\ j[3] \in 0 .. d[3] - 1
  BY DEF Box
<1>3. NextStep(d, k) \in Box(d) \cup {Final(d)}
  <2>1. CASE k[1] + 1 < d[1]
    BY <1>1, <1>2, <2>1 DEF NextStep, Box
  <2>2. CASE ~ (k[1] + 1 < d[1]) /\ k[2] + 1 < d[2]
    BY <1>1, <1>2, <2>2 DEF NextStep, Box
  <2>3. CASE ~ (k[1] + 1 < d[1]) /\ ~ (k[2] + 1 < d[2])
    <3>1. NextStep(d, k) = <<0, 0, k[3] + 1>>
      BY <2>3 DEF NextStep
    <3>2. CASE k[3] + 1 < d[3]
      BY <1>1, <1>2, <3>1, <3>2 DEF Box
    <3>3. CASE k[3] + 1 = d[3]
      BY <3>1, <3>3 DEF Final
    <3> QED
      BY <1>1, <1>2, <3>2, <3>3
  <2> QED
    BY <2>1, <2>2, <2>3
<1>4. ASSUME NEW j \in Box(d) PROVE Before(j, NextStep(d, k)) <=> Before(j, k) \/ j = k
  <2>1. PICK x, y, z \in Int : j = <<x, y, z>> /\ x \in 0 .. d[1] - 1
                               /\ y \in 0 .. d[2] - 1 /\ z \in 0 .. d[3] - 1
    BY <1>2, <1>4
  <2>2. PICK a, b, c \in Int : k = <<a, b, c>> /\ a \in 0 .. d[1] - 1
                               /\ b \in 0 .. d[2] - 1 /\ c \in 0 .. d[3] - 1
    BY <1>2
  <2>3. j = k <=> x = a /\ y = b /\ z = c
    BY <2>1, <2>2
  <2>4. Before(j, k) <=> z < c \/ (z = c /\ y < b) \/ (z = c /\ y = b /\ x < a)
    BY <2>1, <2>2 DEF Before
  <2>5. CASE a + 1 < d[1]
    <3>1. Before(j, NextStep(d, k)) <=>
             z < c \/ (z = c /\ y < b) \/ (z = c /\ y = b /\ x < a + 1)
      BY <2>1, <2>2, <2>5 DEF Before, NextStep
    <3> QED
      BY <2>1, <2>2, <2>3, <2>4, <3>1
  <2>6. CASE ~ (a + 1 < d[1]) /\ b + 1 < d[2]
    <3>1. Before(j, NextStep(d, k)) <=>
             z < c \/ (z = c /\ y < b + 1) \/ (z = c /\ y = b + 1 /\ x < 0)
      BY <2>1, <2>2, <2>6 DEF Before, NextStep
    <3> QED
      BY <1>1, <2>1, <2>2, <2>3, <2>4, <2>6, <3>1
  <2>7. CASE ~ (a + 1 < d[1]) /\ ~ (b + 1 < d[2])
    <3>1. Before(j, NextStep(d, k)) <=>
             z < c + 1 \/ (z = c + 1 /\ y < 0) \/ (z = c + 1 /\ y = 0 /\ x < 0)
      BY <2>1, <2>2, <2>7 DEF Before, NextStep
    <3> QED
      BY <1>1, <2>1, <2>2, <2>3, <2>4, <2>7, <3>1
  <2> QED
    BY <2>5, <2>6, <2>7
<1>5. \A j \in Box(d) : Before(j, Final(d)) /\ ~ Before(j, <<0, 0, 0>>)
  BY <1>1, <1>2 DEF Before, Final
<1> QED
  BY <1>3, <1>4, <1>5

\* The sample at a position.
Pointer(m, n, x, y, z) == z * m * n + y * m + x

\* On one axis: a step more, and the end.
LEMMA AxisStep ==
    ASSUME NEW k \in Nat, NEW d \in Nat \ {0}, NEW s \in Nat \ {0}, NEW f \in Int, k < d
    PROVE  /\ k * s \in Int /\ d * s \in Int /\ (k + 1) * s = k * s + s /\ 0 * s = 0
           /\ k * s + s < d * s <=> k + 1 < d
           /\ f + (k + 1) * s = f + k * s + s /\ f + 0 * s = f
           /\ ~ (k + 1 < d) => f + k * s + s - d * s = f
<1>1. k * s \in Int /\ d * s \in Int /\ (k + 1) * s = k * s + s /\ 0 * s = 0
  BY Multiples
<1>2. k + 1 < d <=> (k + 1) * s < d * s
  BY Multiples
<1>3. ~ (k + 1 < d) => k + 1 = d
  OBVIOUS
<1>4. ~ (k + 1 < d) => d * s = k * s + s
  BY <1>1, <1>3
<1>5. PICK x \in Int, e \in Int : x = k * s /\ e = d * s
  BY <1>1
<1>6. f + (x + s) = f + x + s /\ (e = x + s => f + x + s - e = f) /\ f + 0 = f
  OBVIOUS
<1> QED
  BY <1>1, <1>2, <1>4, <1>5, <1>6

\* The iterator goes to the next step, and its pointer with it.
LEMMA StepAt ==
    ASSUME NEW n, NEW g, Inside(g, n), NEW k \in Box(g.dims)
    PROVE  Step(At(g, k, n), n) = At(g, NextStep(g.dims, k), n)
<1>1. /\ g.from \in Places /\ g.dims \in Counts /\ g.strd \in Counts /\ n \in Counts
  BY DEF Inside, Grids
<1>2. PICK f1 \in Int, f2 \in Int, f3 \in Int, d1 \in Nat \ {0}, d2 \in Nat \ {0},
           d3 \in Nat \ {0} : g.from = <<f1, f2, f3>> /\ g.dims = <<d1, d2, d3>>
  <2>1. /\ g.from = <<g.from[1], g.from[2], g.from[3]>>
        /\ g.from[1] \in Int /\ g.from[2] \in Int /\ g.from[3] \in Int
    BY <1>1 DEF Places
  <2>2. /\ g.dims = <<g.dims[1], g.dims[2], g.dims[3]>> /\ g.dims[1] \in Nat \ {0}
        /\ g.dims[2] \in Nat \ {0} /\ g.dims[3] \in Nat \ {0}
    BY <1>1 DEF Counts
  <2> QED
    BY <2>1, <2>2
<1>3. PICK s1 \in Nat \ {0}, s2 \in Nat \ {0}, s3 \in Nat \ {0}, m \in Int, l \in Int :
           g.strd = <<s1, s2, s3>> /\ n[1] = m /\ n[2] = l
  <2>1. /\ g.strd = <<g.strd[1], g.strd[2], g.strd[3]>> /\ g.strd[1] \in Nat \ {0}
        /\ g.strd[2] \in Nat \ {0} /\ g.strd[3] \in Nat \ {0}
        /\ n[1] \in Int /\ n[2] \in Int
    BY <1>1 DEF Counts
  <2> QED
    BY <2>1
<1>4. PICK a \in Nat, b \in Nat, c \in Nat : k = <<a, b, c>> /\ a < d1 /\ b < d2 /\ c < d3
  BY <1>2 DEF Box
<1>5. s1 \in Int /\ s2 \in Int /\ s3 \in Int
  OBVIOUS
<1>6. \A u, v, w \in Int :
          At(g, <<u, v, w>>, n) =
             [grid |-> g, p |-> <<u * s1, v * s2, w * s3>>,
              ptr |-> Pointer(m, l, f1 + u * s1, f2 + v * s2, f3 + w * s3)]
  BY <1>2, <1>3 DEF At, Each, Row, PosAt, Pointer
<1>7. PICK x \in Int, y \in Int, z \in Int : x = a * s1 /\ y = b * s2 /\ z = c * s3
  BY <1>4, <1>5
<1>8. PICK e1 \in Int, e2 \in Int : e1 = d1 * s1 /\ e2 = d2 * s2
  BY <1>5
<1>9. PICK x0 \in Int, y0 \in Int, z0 \in Int : x0 = f1 + x /\ y0 = f2 + y /\ z0 = f3 + z
  OBVIOUS
<1>10. PICK ptr : ptr = Pointer(m, l, x0, y0, z0)
  OBVIOUS
<1>11. At(g, k, n) = [grid |-> g, ptr |-> ptr, p |-> <<x, y, z>>]
  BY <1>4, <1>6, <1>7, <1>9, <1>10
<1>12. /\ (a + 1) * s1 = x + s1 /\ f1 + (a + 1) * s1 = x0 + s1
       /\ x + s1 < e1 <=> a + 1 < d1
       /\ ~ (a + 1 < d1) => x0 + s1 - e1 = f1
       /\ 0 * s1 = 0 /\ f1 + 0 * s1 = f1
  BY <1>4, <1>7, <1>8, <1>9, AxisStep
<1>13. /\ (b + 1) * s2 = y + s2 /\ f2 + (b + 1) * s2 = y0 + s2
       /\ y + s2 < e2 <=> b + 1 < d2
       /\ ~ (b + 1 < d2) => y0 + s2 - e2 = f2
       /\ 0 * s2 = 0 /\ f2 + 0 * s2 = f2
  BY <1>4, <1>7, <1>8, <1>9, AxisStep
<1>14. (c + 1) * s3 = z + s3 /\ f3 + (c + 1) * s3 = z0 + s3
  BY <1>4, <1>7, <1>9, AxisStep
<1>15. PICK adv : adv = Advance([ptr |-> ptr, p |-> <<x, y, z>>], g, n)
  OBVIOUS
<1>16. Step(At(g, k, n), n) = [grid |-> g, ptr |-> adv.ptr, p |-> adv.p]
  <2>1. PICK i : i = [grid |-> g, ptr |-> ptr, p |-> <<x, y, z>>]
    OBVIOUS
  <2>2. Step(i, n) = [i EXCEPT !.ptr = adv.ptr, !.p = adv.p]
    BY <1>15, <2>1 DEF Step
  <2>3. Step(i, n) = [grid |-> g, ptr |-> adv.ptr, p |-> adv.p]
    BY <2>1, <2>2
  <2> QED
    BY <1>11, <2>1, <2>3
<1>17. adv = IF x + s1 < e1 THEN [ptr |-> ptr + s1, p |-> <<x + s1, y, z>>]
             ELSE IF y + s2 < e2
             THEN [ptr |-> ptr + s1 - e1 + m * s2, p |-> <<0, y + s2, z>>]
             ELSE [ptr |-> (ptr + s1 - e1 + m * s2) - e2 * m + s3 * m * l,
                   p |-> <<0, 0, z + s3>>]
  BY <1>2, <1>3, <1>8, <1>15 DEF Advance, Each
<1>18. /\ ptr + s1 = Pointer(m, l, x0 + s1, y0, z0)
       /\ ptr + s1 - e1 + m * s2 = Pointer(m, l, x0 + s1 - e1, y0 + s2, z0)
       /\ (ptr + s1 - e1 + m * s2) - e2 * m + s3 * m * l
            = Pointer(m, l, x0 + s1 - e1, y0 + s2 - e2, z0 + s3)
  <2>1. /\ z0 * m * l \in Int /\ y0 * m \in Int /\ m * s2 \in Int /\ e2 * m \in Int
        /\ s3 * m * l \in Int
    BY <1>5
  <2>2. PICK A \in Int, B \in Int, C \in Int, D \in Int, E \in Int :
           /\ A = z0 * m * l /\ B = y0 * m /\ C = m * s2 /\ D = e2 * m /\ E = s3 * m * l
    BY <2>1
  <2>3. /\ (y0 + s2) * m = B + C /\ (y0 + s2 - e2) * m = B + C - D
        /\ (z0 + s3) * m * l = A + E
    BY <1>5, <2>2
  <2>4. ptr = A + B + x0
    BY <1>10, <2>2 DEF Pointer
  <2>5. Pointer(m, l, x0 + s1, y0, z0) = A + B + (x0 + s1)
    BY <2>2 DEF Pointer
  <2>6. Pointer(m, l, x0 + s1 - e1, y0 + s2, z0) = A + (B + C) + (x0 + s1 - e1)
    BY <2>2, <2>3 DEF Pointer
  <2>7. Pointer(m, l, x0 + s1 - e1, y0 + s2 - e2, z0 + s3)
          = (A + E) + (B + C - D) + (x0 + s1 - e1)
    BY <2>2, <2>3 DEF Pointer
  <2>8. (A + B + x0) + s1 = A + B + (x0 + s1)
    BY <1>5
  <2>9. (A + B + x0) + s1 - e1 + C = A + (B + C) + (x0 + s1 - e1)
    BY <1>5
  <2>10. ((A + B + x0) + s1 - e1 + C) - D + E = (A + E) + (B + C - D) + (x0 + s1 - e1)
    BY <1>5
  <2> QED
    BY <2>2, <2>4, <2>5, <2>6, <2>7, <2>8, <2>9, <2>10
<1>19. CASE a + 1 < d1
  <2>1. NextStep(g.dims, k) = <<a + 1, b, c>>
    BY <1>2, <1>4, <1>19 DEF NextStep
  <2>2. At(g, <<a + 1, b, c>>, n) =
           [grid |-> g, p |-> <<x + s1, y, z>>, ptr |-> Pointer(m, l, x0 + s1, y0, z0)]
    BY <1>6, <1>7, <1>9, <1>12
  <2> QED
    BY <1>12, <1>16, <1>17, <1>18, <1>19, <2>1, <2>2
<1>20. CASE ~ (a + 1 < d1) /\ b + 1 < d2
  <2>1. NextStep(g.dims, k) = <<0, b + 1, c>>
    BY <1>2, <1>4, <1>20 DEF NextStep
  <2>2. At(g, <<0, b + 1, c>>, n) =
           [grid |-> g, p |-> <<0, y + s2, z>>, ptr |-> Pointer(m, l, f1, y0 + s2, z0)]
    BY <1>6, <1>7, <1>9, <1>12, <1>13
  <2> QED
    BY <1>12, <1>13, <1>16, <1>17, <1>18, <1>20, <2>1, <2>2
<1>21. CASE ~ (a + 1 < d1) /\ ~ (b + 1 < d2)
  <2>1. NextStep(g.dims, k) = <<0, 0, c + 1>>
    BY <1>2, <1>4, <1>21 DEF NextStep
  <2>2. At(g, <<0, 0, c + 1>>, n) =
           [grid |-> g, p |-> <<0, 0, z + s3>>, ptr |-> Pointer(m, l, f1, f2, z0 + s3)]
    <3>1. 0 \in Int /\ c + 1 \in Int
      BY <1>4
    <3>2. At(g, <<0, 0, c + 1>>, n) =
             [grid |-> g, p |-> <<0 * s1, 0 * s2, (c + 1) * s3>>,
              ptr |-> Pointer(m, l, f1 + 0 * s1, f2 + 0 * s2, f3 + (c + 1) * s3)]
      BY <1>6, <3>1
    <3> QED
      BY <1>12, <1>13, <1>14, <3>2
  <2> QED
    BY <1>12, <1>13, <1>16, <1>17, <1>18, <1>21, <2>1, <2>2
<1> QED
  BY <1>19, <1>20, <1>21

\* Rows follow each other: a later position of the volume is a later sample.
LEMMA RowOrder ==
    ASSUME NEW n \in Counts, NEW p \in Places, NEW q \in Places,
           p[1] < n[1], p[2] < n[2], Before(p, q)
    PROVE  Row(n, p) \in Nat /\ Row(n, q) \in Nat /\ Row(n, p) < Row(n, q)
<1>1. PICK m \in Nat \ {0}, l \in Nat \ {0} : m = n[1] /\ l = n[2]
  BY DEF Counts
<1>2. PICK x \in Nat, y \in Nat, z \in Nat : x = p[1] /\ y = p[2] /\ z = p[3]
  BY DEF Places
<1>3. PICK a \in Nat, b \in Nat, c \in Nat : a = q[1] /\ b = q[2] /\ c = q[3]
  BY DEF Places
<1>4. m * l \in Nat \ {0}
  OBVIOUS
<1>5. PICK s \in Nat \ {0} : s = m * l
  BY <1>4
<1>6. Row(n, p) = z * s + y * m + x /\ Row(n, q) = c * s + b * m + a
  <2>1. Row(n, p) = z * m * l + y * m + x /\ Row(n, q) = c * m * l + b * m + a
    BY <1>1, <1>2, <1>3 DEF Row
  <2>2. z * m * l = z * (m * l) /\ c * m * l = c * (m * l)
    OBVIOUS
  <2> QED
    BY <1>5, <2>1, <2>2
<1>7. PICK Y \in Nat, B \in Nat, Z \in Nat, C \in Nat :
         Y = y * m /\ B = b * m /\ Z = z * s /\ C = c * s
  <2>1. y * m \in Nat /\ b * m \in Nat /\ z * s \in Nat /\ c * s \in Nat
    OBVIOUS
  <2> QED
    BY <2>1
<1>8. x < m /\ y < l
  BY <1>1, <1>2
<1>9. Y + m <= s
  <2>1. y + 1 <= l /\ y + 1 \in Int /\ l \in Int
    BY <1>8
  <2>2. (y + 1) * m <= l * m
    BY <2>1, Multiples
  <2>3. (y + 1) * m = y * m + m /\ l * m = m * l
    OBVIOUS
  <2> QED
    BY <1>5, <1>7, <2>2, <2>3
<1>10. y < b => Y + m <= B
  <2>1. SUFFICES ASSUME y + 1 <= b PROVE Y + m <= B
    OBVIOUS
  <2>2. y + 1 \in Int /\ b \in Int
    OBVIOUS
  <2>3. (y + 1) * m <= b * m
    BY <2>1, <2>2, Multiples
  <2>4. (y + 1) * m = y * m + m
    OBVIOUS
  <2> QED
    BY <1>7, <2>3, <2>4
<1>11. z < c => Z + s <= C
  <2>1. SUFFICES ASSUME z + 1 <= c PROVE Z + s <= C
    OBVIOUS
  <2>2. z + 1 \in Int /\ c \in Int
    OBVIOUS
  <2>3. (z + 1) * s <= c * s
    BY <2>1, <2>2, Multiples
  <2>4. (z + 1) * s = z * s + s
    OBVIOUS
  <2> QED
    BY <1>7, <2>3, <2>4
<1>12. Row(n, p) = Z + Y + x /\ Row(n, q) = C + B + a
  BY <1>6, <1>7
<1>13. z < c \/ (z = c /\ y < b) \/ (z = c /\ y = b /\ x < a)
  BY <1>2, <1>3 DEF Before
<1>14. z = c => Z = C
  BY <1>7
<1>15. y = b => Y = B
  BY <1>7
<1>16. Z + Y + x < C + B + a
  BY <1>8, <1>9, <1>10, <1>11, <1>13, <1>14, <1>15
<1> QED
  BY <1>12, <1>16

\* Positions of the volume are samples of it.
LEMMA RowInside ==
    ASSUME NEW n \in Counts, NEW p \in Places, \A i \in Axes : p[i] < n[i]
    PROVE  Row(n, p) \in 0 .. Prod(n) - 1
<1>1. n[1] \in Nat /\ n[2] \in Nat /\ n[3] \in Nat
  BY DEF Counts
<1>2. PICK q : q = <<0, 0, n[3]>>
  OBVIOUS
<1>3. q \in Places /\ Before(p, q) /\ p[1] < n[1] /\ p[2] < n[2]
  BY <1>1, <1>2 DEF Places, Before, Axes
<1>4. Row(n, q) = Prod(n)
  <2>1. Row(n, q) = n[3] * n[1] * n[2] + 0 * n[1] + 0
    BY <1>2 DEF Row
  <2>2. n[3] * n[1] * n[2] + 0 * n[1] + 0 = n[1] * n[2] * n[3]
    BY <1>1
  <2> QED
    BY <2>1, <2>2 DEF Prod
<1>5. Row(n, p) \in Nat /\ Row(n, q) \in Nat /\ Row(n, p) < Row(n, q)
  BY <1>3, RowOrder
<1> QED
  BY <1>4, <1>5

\* So are the positions of a window of the volume.
LEMMA WindowRow ==
    ASSUME NEW w \in Windows, NEW n \in Counts, \A i \in Axes : LastOf(w)[i] < n[i],
           NEW p \in Places, p \in Points(w)
    PROVE  Row(n, p) \in 0 .. Prod(n) - 1
<1>1. ASSUME NEW i \in Axes PROVE p[i] < n[i]
  <2>1. p[i] <= LastOf(w)[i] /\ LastOf(w)[i] < n[i]
    BY WindowPoints
  <2>2. p[i] \in Int /\ LastOf(w)[i] \in Int /\ n[i] \in Int
    BY WindowEnd DEF Places, Counts, Axes
  <2> QED
    BY <2>1, <2>2
<1> QED
  BY <1>1, RowInside

\* Where the iterators of a grid begin and end.
Reached(d) == Box(d) \cup {Final(d)}

LEMMA ReachedPlace ==
    ASSUME NEW d \in Counts, NEW k \in Reached(d)
    PROVE  k \in Places
<1>1. Final(d) \in Places
  BY DEF Final, Places, Counts
<1> QED
  BY <1>1, BoxFacts DEF Reached

\* A step of a grid is in the volume, and a later step is a later sample.
LEMMA StepRow ==
    ASSUME NEW n, NEW g, Inside(g, n), NEW k \in Box(g.dims)
    PROVE  /\ Row(n, PosAt(g, k)) \in 0 .. Prod(n) - 1
           /\ \A j \in Reached(g.dims) :
                 Before(k, j) => Row(n, PosAt(g, k)) < Row(n, PosAt(g, j))
<1>1. g \in Grids /\ g.dims \in Counts /\ g.strd \in Counts /\ n \in Counts
  BY DEF Inside, Grids
<1>2. k \in Places /\ \A i \in Axes : k[i] \in 0 .. g.dims[i] - 1
  BY <1>1, BoxFacts
<1>3. PosAt(g, k) \in Places /\ \A i \in Axes : PosAt(g, k)[i] = g.from[i] + k[i] * g.strd[i]
  BY <1>1, <1>2, PosPlace
<1>4. \A i \in Axes : PosAt(g, k)[i] < n[i]
  BY <1>2, <1>3 DEF Inside
<1>5. Row(n, PosAt(g, k)) \in 0 .. Prod(n) - 1
  BY <1>1, <1>3, <1>4, RowInside
<1>6. ASSUME NEW j \in Reached(g.dims), Before(k, j)
      PROVE  Row(n, PosAt(g, k)) < Row(n, PosAt(g, j))
  <2>1. j \in Places
    BY <1>1, ReachedPlace
  <2>2. PosAt(g, j) \in Places
        /\ \A i \in Axes : PosAt(g, j)[i] = g.from[i] + j[i] * g.strd[i]
    BY <1>1, <2>1, PosPlace
  <2>3. ASSUME NEW i \in Axes
        PROVE  /\ k[i] < j[i] => PosAt(g, k)[i] < PosAt(g, j)[i]
               /\ k[i] = j[i] => PosAt(g, k)[i] = PosAt(g, j)[i]
    <3>1. PICK a \in Int, b \in Int, s \in Nat \ {0}, f \in Int :
             a = k[i] /\ b = j[i] /\ s = g.strd[i] /\ f = g.from[i]
      <4>1. k[i] \in Int /\ j[i] \in Int /\ g.strd[i] \in Nat \ {0} /\ g.from[i] \in Int
        BY <1>1, <1>2, <2>1 DEF Places, Counts, Grids, Axes
      <4> QED
        BY <4>1
    <3>2. a < b <=> a * s < b * s
      BY Multiples
    <3>3. a * s \in Int /\ b * s \in Int
      BY Multiples
    <3>4. PosAt(g, k)[i] = f + a * s /\ PosAt(g, j)[i] = f + b * s
      BY <1>3, <2>2, <3>1
    <3> QED
      BY <3>1, <3>2, <3>3, <3>4
  <2>4. Before(PosAt(g, k), PosAt(g, j))
    <3>1. 1 \in Axes /\ 2 \in Axes /\ 3 \in Axes
      BY DEF Axes
    <3> QED
      BY <1>6, <2>3, <3>1 DEF Before
  <2>5. PosAt(g, k)[1] < n[1] /\ PosAt(g, k)[2] < n[2]
    BY <1>4 DEF Axes
  <2> QED
    BY <1>1, <1>3, <2>2, <2>4, <2>5, RowOrder
<1> QED
  BY <1>5, <1>6

LEMMA BeginAt ==
    ASSUME NEW g \in Grids, NEW n
    PROVE  Start(g, n) = At(g, <<0, 0, 0>>, n)
<1>1. PICK f \in Places, s \in Counts : f = g.from /\ s = g.strd
  BY DEF Grids
<1>2. PosAt(g, <<0, 0, 0>>) = g.from
  <2>1. PosAt(g, <<0, 0, 0>>) = <<f[1] + 0 * s[1], f[2] + 0 * s[2], f[3] + 0 * s[3]>>
    BY <1>1 DEF PosAt, Each
  <2>2. \A a \in Nat, b \in Nat : a + 0 * b = a
    OBVIOUS
  <2>3. /\ f = <<f[1], f[2], f[3]>> /\ f[1] \in Nat /\ f[2] \in Nat /\ f[3] \in Nat
        /\ s[1] \in Nat /\ s[2] \in Nat /\ s[3] \in Nat
    BY DEF Places, Counts
  <2> QED
    BY <1>1, <2>1, <2>2, <2>3
<1>3. Each(LAMBDA i : <<0, 0, 0>>[i] * g.strd[i]) = <<0, 0, 0>>
  <2>1. s[1] \in Nat /\ s[2] \in Nat /\ s[3] \in Nat
    BY DEF Counts
  <2>2. Each(LAMBDA i : <<0, 0, 0>>[i] * g.strd[i]) = <<0 * s[1], 0 * s[2], 0 * s[3]>>
    BY <1>1 DEF Each
  <2>3. 0 * s[1] = 0 /\ 0 * s[2] = 0 /\ 0 * s[3] = 0
    BY <2>1
  <2> QED
    BY <2>2, <2>3
<1> QED
  BY <1>2, <1>3 DEF Start, Begin, At, Vec

\* The iterator is at the end after the last step, and only then.
LEMMA EndAt ==
    ASSUME NEW n, NEW g, Inside(g, n), NEW k \in Reached(g.dims)
    PROVE  At(g, k, n).ptr = End(g, n) <=> k = Final(g.dims)
<1>1. g \in Grids /\ g.dims \in Counts
  BY DEF Inside, Grids
<1>2. Row(n, PosAt(g, Final(g.dims))) = End(g, n)
  <2>1. PICK f \in Places, d \in Counts, s \in Counts :
           f = g.from /\ d = g.dims /\ s = g.strd
    BY <1>1 DEF Grids
  <2>2. PosAt(g, Final(g.dims)) = <<f[1] + 0 * s[1], f[2] + 0 * s[2], f[3] + d[3] * s[3]>>
    BY <2>1 DEF PosAt, Each, Final
  <2>3. f[1] + 0 * s[1] = f[1] /\ f[2] + 0 * s[2] = f[2]
    BY DEF Places, Counts
  <2> QED
    BY <2>1, <2>2, <2>3 DEF End
<1>3. At(g, k, n).ptr = Row(n, PosAt(g, k))
  BY DEF At
<1>4. ASSUME k \in Box(g.dims), k # Final(g.dims)
      PROVE  Row(n, PosAt(g, k)) # Row(n, PosAt(g, Final(g.dims)))
  <2>1. Before(k, Final(g.dims))
    BY <1>1, <1>4, StepOrder
  <2>2. Row(n, PosAt(g, k)) < Row(n, PosAt(g, Final(g.dims)))
    BY <1>4, <2>1, StepRow DEF Reached
  <2>3. Row(n, PosAt(g, k)) \in Int
    BY <1>4, StepRow
  <2> QED
    BY <2>2, <2>3
<1> QED
  BY <1>2, <1>3, <1>4 DEF Reached

-----------------------------------------------------------------------------
(* The cases, and the grids of their blocks.                                *)

LEMMA CaseFacts ==
    ASSUME case \in Cases
    PROVE  /\ case.n \in Lengths /\ case.block \in Lengths /\ case.strd \in Lengths
           /\ case.n \in Counts /\ case.window \in Windows
           /\ \A i \in Axes : LastOf(case.window)[i] < case.n[i]
<1>1. /\ case.n \in Lengths /\ case.block \in Lengths /\ case.strd \in Lengths
      /\ case.window \in [from : Nat \X Nat \X Nat, dims : Lengths, strd : {Vec(1)}]
      /\ \A i \in Axes : case.window.from[i] + case.window.dims[i] <= case.n[i]
  BY CasesAssumption
<1>2. \A v \in Lengths : v \in Counts
  BY LimitNat DEF Lengths, Counts
<1>3. case.window \in Windows
  BY <1>1, <1>2 DEF Windows, Places
<1>4. ASSUME NEW i \in Axes PROVE LastOf(case.window)[i] < case.n[i]
  <2>1. PICK f \in Int, d \in Int, m \in Int :
           f = case.window.from[i] /\ d = case.window.dims[i] /\ m = case.n[i]
    <3>1. case.window.from \in Places /\ case.window.dims \in Counts /\ case.n \in Counts
      BY <1>1, <1>2 DEF Places
    <3>2. case.window.from[i] \in Int /\ case.window.dims[i] \in Int /\ case.n[i] \in Int
      BY <3>1 DEF Places, Counts, Axes
    <3> QED
      BY <3>2
  <2>2. case.window.strd[i] = 1
    BY <1>3 DEF Windows, Vec, Axes
  <2>3. LastOf(case.window)[i] = f + d * 1 - 1
    BY <2>1, <2>2 DEF LastOf, Each, Axes
  <2>4. f + d <= m
    BY <1>1, <2>1
  <2> QED
    BY <2>1, <2>3, <2>4
<1> QED
  BY <1>1, <1>2, <1>3, <1>4

\* Rounding up.
LEMMA RoundedUp ==
    ASSUME NEW a \in Nat \ {0}, NEW b \in Nat \ {0}
    PROVE  /\ ((a + b - 1) \div b) \in Nat \ {0}
           /\ ((a + b - 1) \div b) <= a
           /\ ((a + b - 1) \div b) * b <= a + b - 1
<1>1. PICK x \in Int : x = (a + b - 1) \div b
  <2>1. ((a + b - 1) \div b) \in Int
    OBVIOUS
  <2> QED
    BY <2>1
<1>2. x * b <= a + b - 1 /\ a + b - 1 < x * b + b
  BY <1>1
<1>3. x >= 1
  BY <1>2
<1>4. x <= a
  <2>1. SUFFICES ASSUME x >= a + 1 PROVE FALSE
    OBVIOUS
  <2>2. (a + 1) * b <= x * b
    BY <2>1
  <2>3. (a + 1) * b = a * b + b /\ a * b >= a
    OBVIOUS
  <2> QED
    BY <1>2, <2>2, <2>3
<1> QED
  BY <1>1, <1>2, <1>3, <1>4

\* The blocks are numbered row by row.
LEMMA Numbered ==
    ASSUME NEW x \in Nat \ {0}, NEW y \in Nat \ {0}, NEW z \in Nat \ {0},
           NEW k \in 0 .. x * y * z - 1
    PROVE  /\ (k % x) \in 0 .. x - 1 /\ ((k \div x) % y) \in 0 .. y - 1
           /\ (k \div (x * y)) \in 0 .. z - 1
<1>1. k \in Nat /\ k < x * y * z
  <2>1. x * y * z \in Int
    OBVIOUS
  <2> QED
    BY <2>1
<1>2. (k % x) \in 0 .. x - 1
  BY <1>1
<1>3. (k \div x) \in Nat
  BY <1>1
<1>4. \A a \in Nat : (a % y) \in 0 .. y - 1
  OBVIOUS
<1>5. PICK s \in Nat \ {0} : s = x * y
  OBVIOUS
<1>6. PICK q \in Nat : q = k \div s /\ q * s <= k
  BY <1>1
<1>7. k < s * z
  BY <1>1, <1>5
<1>8. q < z
  <2>1. SUFFICES ASSUME z <= q PROVE FALSE
    OBVIOUS
  <2>2. z * s <= q * s
    BY <2>1, Multiples
  <2> QED
    BY <1>1, <1>6, <1>7, <2>2
<1> QED
  BY <1>2, <1>3, <1>4, <1>5, <1>6, <1>8

LEMMA BlockFacts ==
    ASSUME case \in Cases
    PROVE  /\ NBlocks \in Counts /\ BlockDims \in Counts /\ Prod(NBlocks) \in Nat
           /\ \A i \in Axes : BlockDims[i] < PackLimit
           /\ \A b \in 0 .. Prod(NBlocks) - 1 :
                 /\ BlockGrid(b) \in Grids /\ BlockGrid(b).dims = BlockDims
                 /\ \A i \in Axes : BlockGrid(b).from[i] < case.n[i]
<1>1. case.n \in Lengths /\ case.block \in Lengths /\ case.strd \in Lengths
  BY CaseFacts
<1>2. PICK n, w, s : n = case.n /\ w = case.block /\ s = case.strd
                     /\ n \in Lengths /\ w \in Lengths /\ s \in Lengths
  BY <1>1
<1>3. \A v \in Lengths : \A i \in Axes : v[i] \in Nat \ {0} /\ v[i] < PackLimit
  BY LimitNat DEF Lengths, Axes
<1>4. \A i \in Axes : /\ NBlocks[i] = (n[i] + w[i] - 1) \div w[i]
                      /\ BlockDims[i] = (w[i] + s[i] - 1) \div s[i]
  BY <1>2 DEF NBlocks, BlockDims, Each, Axes
<1>5. ASSUME NEW i \in Axes
      PROVE  /\ NBlocks[i] \in Nat \ {0} /\ (NBlocks[i] - 1) * w[i] < n[i]
             /\ BlockDims[i] \in Nat \ {0} /\ BlockDims[i] < PackLimit
  <2>1. PICK a \in Nat \ {0}, b \in Nat \ {0}, c \in Nat \ {0} :
           /\ a = n[i] /\ b = w[i] /\ c = s[i]
           /\ b < PackLimit
    BY <1>2, <1>3
  <2>2. /\ ((a + b - 1) \div b) \in Nat \ {0}
        /\ ((a + b - 1) \div b) * b <= a + b - 1
    BY RoundedUp
  <2>3. /\ ((b + c - 1) \div c) \in Nat \ {0} /\ ((b + c - 1) \div c) <= b
    BY RoundedUp
  <2>4. PICK x \in Nat \ {0}, y \in Nat \ {0} :
           x = NBlocks[i] /\ y = BlockDims[i] /\ x * b <= a + b - 1 /\ y <= b
    BY <1>4, <2>1, <2>2, <2>3
  <2>5. (x - 1) * b = x * b - b /\ x * b \in Int
    OBVIOUS
  <2> QED
    BY <2>1, <2>4, <2>5, LimitNat
<1>6. NBlocks \in Counts /\ BlockDims \in Counts
  <2>1. NBlocks = <<NBlocks[1], NBlocks[2], NBlocks[3]>>
    BY DEF NBlocks, Each
  <2>2. BlockDims = <<BlockDims[1], BlockDims[2], BlockDims[3]>>
    BY DEF BlockDims, Each
  <2> QED
    BY <1>5, <2>1, <2>2 DEF Counts, Axes
<1>7. PICK x \in Nat \ {0}, y \in Nat \ {0}, z \in Nat \ {0} : NBlocks = <<x, y, z>>
  BY <1>6 DEF Counts
<1>8. Prod(NBlocks) = x * y * z /\ x * y * z \in Nat
  BY <1>7 DEF Prod
<1>9. ASSUME NEW b \in 0 .. Prod(NBlocks) - 1
      PROVE  /\ BlockGrid(b) \in Grids /\ BlockGrid(b).dims = BlockDims
             /\ \A i \in Axes : BlockGrid(b).from[i] < case.n[i]
  <2>1. /\ (b % x) \in 0 .. x - 1 /\ ((b \div x) % y) \in 0 .. y - 1
        /\ (b \div (x * y)) \in 0 .. z - 1
    BY <1>8, Numbered
  <2>2. BlockAt(b) = <<b % x, (b \div x) % y, b \div (x * y)>>
    BY <1>7 DEF BlockAt
  <2>3. \A i \in Axes : BlockAt(b)[i] \in 0 .. NBlocks[i] - 1
    BY <1>7, <2>1, <2>2 DEF Axes
  <2>4. PICK f : f = Each(LAMBDA i : BlockAt(b)[i] * case.block[i])
    OBVIOUS
  <2>5. f = <<BlockAt(b)[1] * w[1], BlockAt(b)[2] * w[2], BlockAt(b)[3] * w[3]>>
    BY <1>2, <2>4 DEF Each
  <2>6. ASSUME NEW i \in Axes PROVE f[i] \in Nat /\ f[i] < PackLimit /\ f[i] < case.n[i]
    <3>1. PICK k \in Nat, m \in Nat, c \in Nat, d \in Nat :
             /\ k = BlockAt(b)[i] /\ m = NBlocks[i] /\ c = w[i] /\ d = n[i]
             /\ k <= m - 1 /\ (m - 1) * c < d /\ d < PackLimit
      <4>1. /\ BlockAt(b)[i] \in Nat /\ NBlocks[i] \in Nat /\ w[i] \in Nat /\ n[i] \in Nat
            /\ BlockAt(b)[i] <= NBlocks[i] - 1
            /\ (NBlocks[i] - 1) * w[i] < n[i] /\ n[i] < PackLimit
        BY <1>2, <1>3, <1>5, <2>3
      <4> QED
        BY <4>1
    <3>2. f[i] = k * c
      BY <2>5, <3>1 DEF Axes
    <3>3. k * c <= (m - 1) * c /\ k * c \in Nat /\ (m - 1) * c \in Int
      BY <3>1
    <3>4. f[i] < d /\ case.n[i] = d
      BY <1>2, <3>1, <3>2, <3>3
    <3> QED
      BY <3>1, <3>2, <3>3, <3>4, LimitNat
  <2>7. f \in Places
    BY <2>5, <2>6 DEF Places, Axes
  <2>8. Packed(f) = f
    BY <2>6, <2>7, PackedVector DEF Places
  <2>9. BlockDims \in Places /\ s \in Places /\ s \in Counts
    BY <1>2, <1>6, LimitNat DEF Places, Counts, Lengths
  <2>10. Packed(BlockDims) = BlockDims
    BY <1>5, <2>9, PackedVector DEF Places
  <2>11. Packed(s) = s
    BY <1>2, <1>3, <2>9, PackedVector DEF Places
  <2>12. BlockGrid(b) = [from |-> f, dims |-> BlockDims, strd |-> s]
    BY <1>2, <2>4, <2>8, <2>10, <2>11 DEF BlockGrid, Grid
  <2> QED
    BY <1>6, <2>6, <2>7, <2>9, <2>12 DEF Grids
<1> QED
  BY <1>5, <1>6, <1>8, <1>9

-----------------------------------------------------------------------------
(* The copy.                                                               *)

\* The part of the block's grid in the window, and the same in the buffer.
Cut == Crop(grid, case.window)
Local == Relative(Cut, grid)

\* The samples that the blocks before this one brought back.
CopiedPoints ==
    UNION {InWindow(BlockGrid(b), case.window) : b \in 0 .. block - 1}
CopiedRows == {Row(case.n, p) : p \in CopiedPoints}

\* The samples of the steps of a grid before step k.
RowsBefore(n, g, k) == {Row(n, PosAt(g, j)) : j \in {x \in Box(g.dims) : Before(x, k)}}

\* The buffer has the samples of the steps before k.
Fetched(k) ==
    \A j \in Box(Cut.dims) :
       Before(j, k) =>
          buf[Row(BlockDims, PosAt(Local, j))] = Source(Row(case.n, PosAt(Cut, j)))

\* The volume copied back to has the samples numbered in R and nothing else.
Filled(R) == \A i \in DOMAIN out : out[i] = IF i \in R THEN Source(i) ELSE 0

Shape ==
    /\ case \in Cases
    /\ block \in 0 .. Prod(NBlocks)
    /\ stage \in {"block", "crop", "in", "out"}
    /\ stage # "block" => block < Prod(NBlocks) /\ grid = BlockGrid(block)
    /\ stage \in {"in", "out"} => Cut.dims # Vec(0)
    /\ DOMAIN buf = 0 .. Prod(BlockDims) - 1
    /\ DOMAIN out = 0 .. Prod(case.n) - 1

\* Between two copies out has what the blocks so far had in the window.  In a
\* copy both iterators are at the same step of the cut grid.
Progress ==
    /\ stage \in {"block", "crop", "in"} => Filled(CopiedRows)
    /\ stage = "in" =>
          \E k \in Reached(Cut.dims) :
             it = At(Cut, k, case.n) /\ dit = At(Local, k, BlockDims) /\ Fetched(k)
    /\ stage = "out" =>
          /\ Fetched(Final(Cut.dims))
          /\ \E k \in Reached(Cut.dims) :
                /\ it = At(Local, k, BlockDims) /\ dit = At(Cut, k, case.n)
                /\ Filled(CopiedRows \cup RowsBefore(case.n, Cut, k))

IInv == Shape /\ Progress

\* What the lemmas on grids say of the grids of a copy.
LEMMA CopyFacts ==
    ASSUME Shape, stage \in {"in", "out"} \/ (stage = "crop" /\ Cut.dims # Vec(0))
    PROVE  /\ grid \in Grids /\ case.window \in Windows
           /\ Cut \in Grids /\ Local \in Grids /\ Cut.dims \in Counts
           /\ Local.dims = Cut.dims /\ Local.strd = Vec(1)
           /\ Inside(Cut, case.n) /\ Inside(Local, BlockDims)
           /\ Points(Cut) = InWindow(grid, case.window)
           /\ IsSubGrid(Cut, grid)
<1>1. /\ case \in Cases /\ block \in 0 .. Prod(NBlocks) - 1 /\ grid = BlockGrid(block)
      /\ Cut.dims # Vec(0)
  <2>1. /\ case \in Cases /\ block \in 0 .. Prod(NBlocks) /\ block < Prod(NBlocks)
        /\ grid = BlockGrid(block)
        /\ Cut.dims # Vec(0)
    BY DEF Shape
  <2>2. Prod(NBlocks) \in Nat
    BY <2>1, BlockFacts
  <2> QED
    BY <2>1, <2>2
<1>2. /\ grid \in Grids /\ grid.dims = BlockDims
      /\ \A i \in Axes : grid.dims[i] < PackLimit
  BY <1>1, BlockFacts
<1>3. /\ case.window \in Windows /\ case.n \in Counts
      /\ \A i \in Axes : LastOf(case.window)[i] < case.n[i] /\ grid.from[i] < case.n[i]
  BY <1>1, CaseFacts, BlockFacts
<1>4. PICK p \in Places : IsCut(Cut, p, grid, case.window)
  BY <1>1, <1>2, <1>3, Cutting DEF Cut
<1>5. Local = [from |-> p, dims |-> Cut.dims, strd |-> Vec(1)]
  BY <1>2, <1>3, <1>4, CutRelative DEF Local
<1>6. Cut \in Grids /\ Cut.dims \in Counts
  BY <1>4 DEF IsCut, Grids
<1>7. Inside(Cut, case.n)
  BY <1>2, <1>3, <1>4, CutInside
<1>8. Inside(Local, BlockDims)
  BY <1>2, <1>3, <1>4, <1>5, LocalInside
<1>9. Points(Cut) = InWindow(grid, case.window)
  BY <1>2, <1>3, <1>4, CutPoints
<1>10. IsSubGrid(Cut, grid)
  BY <1>2, <1>3, <1>4, CutSubGrid
<1> QED
  BY <1>2, <1>3, <1>5, <1>6, <1>7, <1>8, <1>9, <1>10 DEF Inside

LEMMA SameCase ==
    ASSUME case' = case
    PROVE  /\ NBlocks' = NBlocks /\ BlockDims' = BlockDims /\ Prod(NBlocks)' = Prod(NBlocks)
           /\ \A b : BlockGrid(b)' = BlockGrid(b)
<1>1. NBlocks' = NBlocks /\ BlockDims' = BlockDims
  BY DEF NBlocks, BlockDims, Each
<1>2. Prod(NBlocks)' = Prod(NBlocks)
  BY <1>1 DEF Prod
<1>3. \A b : BlockAt(b)' = BlockAt(b)
  BY <1>1 DEF BlockAt
<1>4. \A b : BlockGrid(b)' = BlockGrid(b)
  BY <1>1, <1>3 DEF BlockGrid, Each
<1> QED
  BY <1>1, <1>2, <1>4

LEMMA SameGrid ==
    ASSUME case' = case, grid' = grid
    PROVE  Cut' = Cut /\ Local' = Local
BY DEF Cut, Local

LEMMA SameRows ==
    ASSUME case' = case, block' = block
    PROVE  CopiedRows' = CopiedRows
<1>1. CopiedPoints' = CopiedPoints
  BY SameCase DEF CopiedPoints
<1> QED
  BY <1>1 DEF CopiedRows

\* The samples of the steps so far, step by step.
LEMMA RowsOfSteps ==
    ASSUME NEW g \in Grids, NEW n, NEW k \in Box(g.dims)
    PROVE  /\ RowsBefore(n, g, <<0, 0, 0>>) = {}
           /\ RowsBefore(n, g, NextStep(g.dims, k))
                = RowsBefore(n, g, k) \cup {Row(n, PosAt(g, k))}
           /\ RowsBefore(n, g, Final(g.dims)) = {Row(n, p) : p \in Points(g)}
<1>1. g.dims \in Counts
  BY DEF Grids
<1>2. /\ \A j \in Box(g.dims) : Before(j, NextStep(g.dims, k)) <=> Before(j, k) \/ j = k
      /\ \A j \in Box(g.dims) : Before(j, Final(g.dims)) /\ ~ Before(j, <<0, 0, 0>>)
  BY <1>1, StepOrder
<1>3. RowsBefore(n, g, <<0, 0, 0>>) = {}
  BY <1>2 DEF RowsBefore
<1>4. RowsBefore(n, g, NextStep(g.dims, k))
        = RowsBefore(n, g, k) \cup {Row(n, PosAt(g, k))}
  BY <1>2 DEF RowsBefore
<1>5. RowsBefore(n, g, Final(g.dims)) = {Row(n, p) : p \in Points(g)}
  <2>1. RowsBefore(n, g, Final(g.dims)) = {Row(n, PosAt(g, j)) : j \in Box(g.dims)}
    BY <1>2 DEF RowsBefore
  <2> QED
    BY <2>1, GridPoints
<1> QED
  BY <1>3, <1>4, <1>5

-----------------------------------------------------------------------------
(* The invariant.                                                          *)

LEMMA Initially == Init => IInv
<1>1. SUFFICES ASSUME Init PROVE IInv
  OBVIOUS
<1>2. Prod(NBlocks) \in Nat
  BY <1>1, BlockFacts DEF Init
<1>3. Shape
  BY <1>1, <1>2 DEF Init, Shape
<1>4. CopiedRows = {}
  <2>1. 0 .. block - 1 = {}
    BY <1>1 DEF Init
  <2> QED
    BY <2>1 DEF CopiedRows, CopiedPoints
<1>5. Filled(CopiedRows)
  BY <1>1, <1>4 DEF Init, Filled
<1> QED
  BY <1>1, <1>3, <1>5 DEF Init, IInv, Progress

LEMMA Entered == IInv /\ EnterBlock => IInv'
<1>1. SUFFICES ASSUME IInv, EnterBlock PROVE IInv'
  OBVIOUS
<1>2. /\ stage = "block" /\ block < Prod(NBlocks) /\ stage' = "crop"
      /\ grid' = BlockGrid(block) /\ case' = case /\ block' = block
      /\ buf' = buf /\ out' = out
  BY <1>1 DEF EnterBlock
<1>3. Shape'
  BY <1>1, <1>2, SameCase DEF IInv, Shape
<1>4. Filled(CopiedRows)'
  BY <1>1, <1>2, SameRows DEF IInv, Progress, Filled
<1> QED
  BY <1>2, <1>3, <1>4 DEF IInv, Progress

\* One more block is done.
LEMMA NextRows ==
    ASSUME Shape, stage # "block", case' = case, block' = block + 1,
           NEW R, R = {Row(case.n, p) : p \in InWindow(grid, case.window)}
    PROVE  CopiedRows' = CopiedRows \cup R
<1>1. block \in Nat /\ grid = BlockGrid(block)
  BY DEF Shape
<1>2. 0 .. block' - 1 = (0 .. block - 1) \cup {block}
  BY <1>1
<1>3. ASSUME NEW p
      PROVE  p \in CopiedPoints' <=>
                p \in CopiedPoints \/ p \in InWindow(grid, case.window)
  <2>1. p \in CopiedPoints' <=>
           \E b \in 0 .. block' - 1 : p \in InWindow(BlockGrid(b), case.window)
    BY SameCase DEF CopiedPoints
  <2>2. p \in CopiedPoints <=>
           \E b \in 0 .. block - 1 : p \in InWindow(BlockGrid(b), case.window)
    BY DEF CopiedPoints
  <2> QED
    BY <1>1, <1>2, <2>1, <2>2
<1>4. CopiedPoints' = CopiedPoints \cup InWindow(grid, case.window)
  BY <1>3
<1>5. CopiedRows' = {Row(case.n, p) : p \in CopiedPoints \cup InWindow(grid, case.window)}
  BY <1>4 DEF CopiedRows
<1> QED
  BY <1>5 DEF CopiedRows

LEMMA NextBlock ==
    ASSUME Shape, stage # "block", stage' = "block", block' = block + 1, case' = case,
           DOMAIN buf' = DOMAIN buf, DOMAIN out' = DOMAIN out
    PROVE  Shape'
<1>1. case \in Cases /\ block \in 0 .. Prod(NBlocks) /\ block < Prod(NBlocks)
  BY DEF Shape
<1>2. block' \in 0 .. Prod(NBlocks)
  BY <1>1, BlockFacts
<1>3. DOMAIN buf' = 0 .. Prod(BlockDims)' - 1 /\ DOMAIN out' = 0 .. Prod(case.n)' - 1
  BY SameCase DEF Shape, Prod
<1> QED
  BY <1>1, <1>2, <1>3, SameCase DEF Shape

LEMMA Skipped == IInv /\ SkipBlock => IInv'
<1>1. SUFFICES ASSUME IInv, SkipBlock PROVE IInv'
  OBVIOUS
<1>2. /\ stage = "crop" /\ stage' = "block" /\ block' = block + 1 /\ case' = case
      /\ buf' = buf /\ out' = out
      /\ Crop(grid, case.window).dims = Vec(0)
  BY <1>1 DEF SkipBlock
<1>3. Shape /\ Filled(CopiedRows)
  BY <1>1, <1>2 DEF IInv, Progress
<1>4. Shape'
  BY <1>2, <1>3, NextBlock
<1>5. grid \in Grids /\ case.window \in Windows
  <2>1. case \in Cases /\ block \in 0 .. Prod(NBlocks) - 1 /\ grid = BlockGrid(block)
    <3>1. case \in Cases /\ block \in 0 .. Prod(NBlocks) /\ block < Prod(NBlocks)
          /\ grid = BlockGrid(block)
      BY <1>2, <1>3 DEF Shape
    <3> QED
      BY <3>1, BlockFacts
  <2> QED
    BY <2>1, BlockFacts, CaseFacts
<1>6. InWindow(grid, case.window) = {}
  BY <1>2, <1>5, NothingCut
<1>7. CopiedRows' = CopiedRows
  BY <1>2, <1>3, <1>6, NextRows
<1>8. Filled(CopiedRows)'
  BY <1>2, <1>3, <1>7 DEF Filled
<1> QED
  BY <1>2, <1>4, <1>8 DEF IInv, Progress

LEMMA Begun == IInv /\ BeginIn => IInv'
<1>1. SUFFICES ASSUME IInv, BeginIn PROVE IInv'
  OBVIOUS
<1>2. /\ stage = "crop" /\ Cut.dims # Vec(0)
      /\ it' = Start(Cut, case.n) /\ dit' = Start(Local, BlockDims)
      /\ stage' = "in" /\ buf' = [i \in DOMAIN buf |-> 0]
      /\ case' = case /\ block' = block /\ grid' = grid /\ out' = out
  BY <1>1 DEF BeginIn, Cut, Local
<1>3. Shape /\ Filled(CopiedRows)
  BY <1>1, <1>2 DEF IInv, Progress
<1>4. Cut' = Cut /\ Local' = Local /\ CopiedRows' = CopiedRows
  BY <1>2, SameGrid, SameRows
<1>5. Shape'
  BY <1>2, <1>3, <1>4, SameCase DEF Shape
<1>6. /\ it' = At(Cut, <<0, 0, 0>>, case.n) /\ dit' = At(Local, <<0, 0, 0>>, BlockDims)
      /\ Cut.dims \in Counts
  BY <1>2, <1>3, CopyFacts, BeginAt
<1>7. <<0, 0, 0>> \in Box(Cut.dims) /\ \A j \in Box(Cut.dims) : ~ Before(j, <<0, 0, 0>>)
  <2>1. <<0, 0, 0>> \in Box(Cut.dims)
    BY <1>6, Origin
  <2> QED
    BY <1>6, <2>1, StepOrder
<1>8. Fetched(<<0, 0, 0>>)'
  BY <1>4, <1>7 DEF Fetched
<1>9. Filled(CopiedRows)'
  BY <1>2, <1>3, <1>4 DEF Filled
<1>10. \E k \in Reached(Cut'.dims) :
          it' = At(Cut', k, case'.n) /\ dit' = At(Local', k, BlockDims') /\ Fetched(k)'
  <2>1. <<0, 0, 0>> \in Reached(Cut'.dims)
    BY <1>4, <1>7 DEF Reached
  <2>2. it' = At(Cut', <<0, 0, 0>>, case'.n) /\ dit' = At(Local', <<0, 0, 0>>, BlockDims')
    BY <1>2, <1>4, <1>6, SameCase
  <2> QED
    BY <1>8, <2>1, <2>2
<1> QED
  BY <1>2, <1>5, <1>9, <1>10 DEF IInv, Progress

\* Both iterators at the same step of the cut grid: they point into their
\* volumes and go on together, or are both at their ends.
LEMMA StepTogether ==
    ASSUME Shape, stage \in {"in", "out"}, NEW k \in Reached(Cut.dims),
           NEW c, c = At(Cut, k, case.n), NEW l, l = At(Local, k, BlockDims)
    PROVE  /\ c.grid = Cut /\ l.grid = Local
           /\ c.ptr = End(Cut, case.n) <=> k = Final(Cut.dims)
           /\ l.ptr = End(Local, BlockDims) <=> k = Final(Cut.dims)
           /\ c.ptr = Row(case.n, PosAt(Cut, k)) /\ l.ptr = Row(BlockDims, PosAt(Local, k))
           /\ k # Final(Cut.dims) =>
                 /\ k \in Box(Cut.dims) /\ NextStep(Cut.dims, k) \in Reached(Cut.dims)
                 /\ c.ptr \in DOMAIN out /\ l.ptr \in DOMAIN buf
                 /\ Step(c, case.n) = At(Cut, NextStep(Cut.dims, k), case.n)
                 /\ Step(l, BlockDims) = At(Local, NextStep(Cut.dims, k), BlockDims)
<1>1. /\ Cut \in Grids /\ Cut.dims \in Counts /\ Local.dims = Cut.dims
      /\ Inside(Cut, case.n) /\ Inside(Local, BlockDims)
  BY CopyFacts
<1>2. /\ c.grid = Cut /\ l.grid = Local
      /\ c.ptr = Row(case.n, PosAt(Cut, k)) /\ l.ptr = Row(BlockDims, PosAt(Local, k))
  BY DEF At
<1>3. c.ptr = End(Cut, case.n) <=> k = Final(Cut.dims)
  BY <1>1, EndAt
<1>4. l.ptr = End(Local, BlockDims) <=> k = Final(Cut.dims)
  <2>1. k \in Reached(Local.dims)
    BY <1>1
  <2> QED
    BY <1>1, <2>1, EndAt
<1>5. ASSUME k # Final(Cut.dims)
      PROVE  /\ k \in Box(Cut.dims) /\ NextStep(Cut.dims, k) \in Reached(Cut.dims)
             /\ c.ptr \in DOMAIN out /\ l.ptr \in DOMAIN buf
             /\ Step(c, case.n) = At(Cut, NextStep(Cut.dims, k), case.n)
             /\ Step(l, BlockDims) = At(Local, NextStep(Cut.dims, k), BlockDims)
  <2>1. k \in Box(Cut.dims) /\ k \in Box(Local.dims)
    BY <1>1, <1>5 DEF Reached
  <2>2. NextStep(Cut.dims, k) \in Reached(Cut.dims)
    BY <1>1, <2>1, StepOrder DEF Reached
  <2>3. c.ptr \in DOMAIN out
    BY <1>1, <1>2, <2>1, StepRow DEF Shape
  <2>4. l.ptr \in DOMAIN buf
    BY <1>1, <1>2, <2>1, StepRow DEF Shape
  <2>5. Step(c, case.n) = At(Cut, NextStep(Cut.dims, k), case.n)
    BY <1>1, <2>1, StepAt
  <2>6. Step(l, BlockDims) = At(Local, NextStep(Cut.dims, k), BlockDims)
    BY <1>1, <2>1, StepAt
  <2> QED
    BY <2>1, <2>2, <2>3, <2>4, <2>5, <2>6
<1> QED
  BY <1>2, <1>3, <1>4, <1>5

LEMMA SameShape ==
    ASSUME Shape, stage \in {"in", "out"}, stage' \in {"in", "out"},
           case' = case, block' = block, grid' = grid,
           DOMAIN buf' = DOMAIN buf, DOMAIN out' = DOMAIN out
    PROVE  Shape'
<1>1. DOMAIN buf' = 0 .. Prod(BlockDims)' - 1 /\ DOMAIN out' = 0 .. Prod(case.n)' - 1
  BY SameCase DEF Shape, Prod
<1> QED
  BY <1>1, SameCase, SameGrid DEF Shape

LEMMA CopiedIn == IInv /\ CopyIn => IInv' /\ stage' = "in"
<1>1. SUFFICES ASSUME IInv, CopyIn PROVE IInv' /\ stage' = "in"
  OBVIOUS
<1>2. /\ stage = "in" /\ it.ptr # End(it.grid, case.n)
      /\ case' = case /\ block' = block /\ grid' = grid /\ out' = out
  BY <1>1 DEF CopyIn
<1>3. Shape /\ Filled(CopiedRows)
  BY <1>1, <1>2 DEF IInv, Progress
<1>4. PICK k \in Reached(Cut.dims) :
         it = At(Cut, k, case.n) /\ dit = At(Local, k, BlockDims) /\ Fetched(k)
  BY <1>1, <1>2 DEF IInv, Progress
<1>5. PICK next : next = NextStep(Cut.dims, k)
  OBVIOUS
<1>6. /\ k \in Box(Cut.dims) /\ next \in Reached(Cut.dims)
      /\ it.ptr \in DOMAIN out /\ dit.ptr \in DOMAIN buf
      /\ it.ptr = Row(case.n, PosAt(Cut, k)) /\ dit.ptr = Row(BlockDims, PosAt(Local, k))
      /\ Step(it, case.n) = At(Cut, next, case.n)
      /\ Step(dit, BlockDims) = At(Local, next, BlockDims)
  BY <1>2, <1>3, <1>4, <1>5, StepTogether
<1>7. /\ buf' = [buf EXCEPT ![dit.ptr] = Source(it.ptr)] /\ stage' = "in"
      /\ it' = At(Cut, next, case.n) /\ dit' = At(Local, next, BlockDims)
  BY <1>1, <1>2, <1>6 DEF CopyIn
<1>8. Shape'
  BY <1>2, <1>3, <1>7, SameShape
<1>9. Cut' = Cut /\ Local' = Local /\ CopiedRows' = CopiedRows /\ BlockDims' = BlockDims
  BY <1>2, SameCase, SameGrid, SameRows
<1>10. Filled(CopiedRows)'
  BY <1>2, <1>3, <1>9 DEF Filled
<1>11. Fetched(next)'
  <2>1. SUFFICES ASSUME NEW j \in Box(Cut.dims), Before(j, next)
                 PROVE  buf'[Row(BlockDims, PosAt(Local, j))] = Source(Row(case.n, PosAt(Cut, j)))
    BY <1>2, <1>9 DEF Fetched, Source
  <2>2. /\ Cut.dims \in Counts /\ Local.dims = Cut.dims /\ Inside(Local, BlockDims)
    BY <1>2, <1>3, CopyFacts
  <2>3. Before(j, k) \/ j = k
    BY <1>5, <1>6, <2>1, <2>2, StepOrder
  <2>4. CASE j = k
    BY <1>6, <1>7, <2>4
  <2>5. CASE Before(j, k)
    <3>1. j \in Box(Local.dims) /\ k \in Reached(Local.dims)
      BY <2>1, <2>2, <1>4
    <3>2. /\ Row(BlockDims, PosAt(Local, j)) \in 0 .. Prod(BlockDims) - 1
          /\ Row(BlockDims, PosAt(Local, j)) < Row(BlockDims, PosAt(Local, k))
      BY <2>2, <2>5, <3>1, StepRow
    <3>3. Row(BlockDims, PosAt(Local, j)) # dit.ptr
      BY <1>6, <3>2
    <3>4. Row(BlockDims, PosAt(Local, j)) \in DOMAIN buf
      BY <1>3, <3>2 DEF Shape
    <3>5. buf'[Row(BlockDims, PosAt(Local, j))] = buf[Row(BlockDims, PosAt(Local, j))]
      BY <1>7, <3>3, <3>4
    <3> QED
      BY <1>4, <2>1, <2>5, <3>5 DEF Fetched
  <2> QED
    BY <2>3, <2>4, <2>5
<1>12. \E m \in Reached(Cut'.dims) :
          it' = At(Cut', m, case'.n) /\ dit' = At(Local', m, BlockDims') /\ Fetched(m)'
  BY <1>2, <1>6, <1>7, <1>9, <1>11
<1> QED
  BY <1>7, <1>8, <1>10, <1>12 DEF IInv, Progress

LEMMA BegunOut == IInv /\ BeginOut => IInv'
<1>1. SUFFICES ASSUME IInv, BeginOut PROVE IInv'
  OBVIOUS
<1>2. /\ stage = "in" /\ stage' = "out" /\ it.ptr = End(it.grid, case.n)
      /\ it' = Start(dit.grid, BlockDims) /\ dit' = Start(it.grid, case.n)
      /\ case' = case /\ block' = block /\ grid' = grid /\ buf' = buf /\ out' = out
  BY <1>1 DEF BeginOut
<1>3. Shape /\ Filled(CopiedRows)
  BY <1>1, <1>2 DEF IInv, Progress
<1>4. PICK k \in Reached(Cut.dims) :
         it = At(Cut, k, case.n) /\ dit = At(Local, k, BlockDims) /\ Fetched(k)
  BY <1>1, <1>2 DEF IInv, Progress
<1>5. k = Final(Cut.dims) /\ it.grid = Cut /\ dit.grid = Local
  BY <1>2, <1>3, <1>4, StepTogether
<1>6. /\ Cut \in Grids /\ Local \in Grids /\ Cut.dims \in Counts
  BY <1>2, <1>3, CopyFacts
<1>7. it' = At(Local, <<0, 0, 0>>, BlockDims) /\ dit' = At(Cut, <<0, 0, 0>>, case.n)
  BY <1>2, <1>5, <1>6, BeginAt
<1>8. <<0, 0, 0>> \in Box(Cut.dims) /\ RowsBefore(case.n, Cut, <<0, 0, 0>>) = {}
  <2>1. <<0, 0, 0>> \in Box(Cut.dims)
    BY <1>6, Origin
  <2> QED
    BY <1>6, <2>1, RowsOfSteps
<1>9. Shape'
  BY <1>2, <1>3, SameShape
<1>10. Cut' = Cut /\ Local' = Local /\ CopiedRows' = CopiedRows /\ BlockDims' = BlockDims
  BY <1>2, SameCase, SameGrid, SameRows
<1>11. Fetched(Final(Cut.dims))'
  BY <1>2, <1>4, <1>5, <1>10 DEF Fetched
<1>12. \E m \in Reached(Cut'.dims) :
          /\ it' = At(Local', m, BlockDims') /\ dit' = At(Cut', m, case'.n)
          /\ Filled(CopiedRows \cup RowsBefore(case.n, Cut, m))'
  <2>1. <<0, 0, 0>> \in Reached(Cut'.dims)
    BY <1>8, <1>10 DEF Reached
  <2>2. it' = At(Local', <<0, 0, 0>>, BlockDims') /\ dit' = At(Cut', <<0, 0, 0>>, case'.n)
    BY <1>2, <1>7, <1>10
  <2>3. Filled(CopiedRows \cup RowsBefore(case.n, Cut, <<0, 0, 0>>))'
    BY <1>2, <1>3, <1>8, <1>10 DEF Filled
  <2> QED
    BY <2>1, <2>2, <2>3
<1> QED
  BY <1>2, <1>9, <1>11, <1>12 DEF IInv, Progress

LEMMA CopiedOut == IInv /\ CopyOut => IInv' /\ stage' = "out"
<1>1. SUFFICES ASSUME IInv, CopyOut PROVE IInv' /\ stage' = "out"
  OBVIOUS
<1>2. /\ stage = "out" /\ it.ptr # End(it.grid, BlockDims)
      /\ case' = case /\ block' = block /\ grid' = grid /\ buf' = buf
  BY <1>1 DEF CopyOut
<1>3. Shape /\ Fetched(Final(Cut.dims))
  BY <1>1, <1>2 DEF IInv, Progress
<1>4. PICK k \in Reached(Cut.dims) :
         /\ it = At(Local, k, BlockDims) /\ dit = At(Cut, k, case.n)
         /\ Filled(CopiedRows \cup RowsBefore(case.n, Cut, k))
  BY <1>1, <1>2 DEF IInv, Progress
<1>5. PICK next : next = NextStep(Cut.dims, k)
  OBVIOUS
<1>6. /\ k \in Box(Cut.dims) /\ next \in Reached(Cut.dims)
      /\ it.ptr \in DOMAIN buf /\ dit.ptr \in DOMAIN out
      /\ dit.ptr = Row(case.n, PosAt(Cut, k)) /\ it.ptr = Row(BlockDims, PosAt(Local, k))
      /\ Step(dit, case.n) = At(Cut, next, case.n)
      /\ Step(it, BlockDims) = At(Local, next, BlockDims)
  BY <1>2, <1>3, <1>4, <1>5, StepTogether
<1>7. /\ out' = [out EXCEPT ![dit.ptr] = buf[it.ptr]] /\ stage' = "out"
      /\ it' = At(Local, next, BlockDims) /\ dit' = At(Cut, next, case.n)
  BY <1>1, <1>2, <1>6 DEF CopyOut
<1>8. Shape'
  BY <1>2, <1>3, <1>7, SameShape
<1>9. Cut' = Cut /\ Local' = Local /\ CopiedRows' = CopiedRows /\ BlockDims' = BlockDims
  BY <1>2, SameCase, SameGrid, SameRows
<1>10. Cut \in Grids /\ Cut.dims \in Counts
  BY <1>2, <1>3, CopyFacts
<1>11. Fetched(Final(Cut.dims))'
  BY <1>2, <1>3, <1>9 DEF Fetched, Source
<1>12. buf[it.ptr] = Source(dit.ptr)
  <2>1. Before(k, Final(Cut.dims))
    BY <1>6, <1>10, StepOrder
  <2> QED
    BY <1>3, <1>6, <2>1 DEF Fetched
<1>13. PICK R, S : /\ R = CopiedRows \cup RowsBefore(case.n, Cut, k)
                   /\ S = CopiedRows \cup RowsBefore(case.n, Cut, next)
  OBVIOUS
<1>14. S = R \cup {dit.ptr}
  BY <1>5, <1>6, <1>10, <1>13, RowsOfSteps
<1>15. Filled(S)'
  <2>1. SUFFICES ASSUME NEW i \in DOMAIN out
                 PROVE  out'[i] = IF i \in S THEN Source(i) ELSE 0
    BY <1>7 DEF Filled, Source
  <2>2. out[i] = IF i \in R THEN Source(i) ELSE 0
    BY <1>4, <1>13 DEF Filled
  <2>3. out'[i] = IF i = dit.ptr THEN Source(dit.ptr) ELSE out[i]
    BY <1>7, <1>12
  <2> QED
    BY <1>14, <2>2, <2>3
<1>16. \E m \in Reached(Cut'.dims) :
          /\ it' = At(Local', m, BlockDims') /\ dit' = At(Cut', m, case'.n)
          /\ Filled(CopiedRows \cup RowsBefore(case.n, Cut, m))'
  <2>1. Filled(CopiedRows \cup RowsBefore(case.n, Cut, next))'
    BY <1>2, <1>9, <1>13, <1>15 DEF Filled
  <2> QED
    BY <1>2, <1>6, <1>7, <1>9, <2>1
<1> QED
  BY <1>7, <1>8, <1>11, <1>16 DEF IInv, Progress

LEMMA BlockEnded == IInv /\ EndBlock => IInv'
<1>1. SUFFICES ASSUME IInv, EndBlock PROVE IInv'
  OBVIOUS
<1>2. /\ stage = "out" /\ stage' = "block" /\ it.ptr = End(it.grid, BlockDims)
      /\ block' = block + 1 /\ case' = case /\ buf' = buf /\ out' = out
  BY <1>1 DEF EndBlock
<1>3. Shape
  BY <1>1, <1>2 DEF IInv, Progress
<1>4. PICK k \in Reached(Cut.dims) :
         /\ it = At(Local, k, BlockDims) /\ dit = At(Cut, k, case.n)
         /\ Filled(CopiedRows \cup RowsBefore(case.n, Cut, k))
  BY <1>1, <1>2 DEF IInv, Progress
<1>5. k = Final(Cut.dims)
  BY <1>2, <1>3, <1>4, StepTogether
<1>6. /\ Cut \in Grids /\ Cut.dims \in Counts
      /\ Points(Cut) = InWindow(grid, case.window)
  BY <1>2, <1>3, CopyFacts
<1>7. PICK R : R = RowsBefore(case.n, Cut, Final(Cut.dims))
  OBVIOUS
<1>8. R = {Row(case.n, p) : p \in InWindow(grid, case.window)}
  <2>1. <<0, 0, 0>> \in Box(Cut.dims)
    BY <1>6, Origin
  <2>2. R = {Row(case.n, p) : p \in Points(Cut)}
    BY <1>6, <1>7, <2>1, RowsOfSteps
  <2> QED
    BY <1>6, <2>2
<1>9. CopiedRows' = CopiedRows \cup R
  BY <1>2, <1>3, <1>8, NextRows
<1>10. Filled(CopiedRows)'
  BY <1>2, <1>4, <1>5, <1>7, <1>9 DEF Filled
<1>11. Shape'
  BY <1>2, <1>3, NextBlock
<1> QED
  BY <1>2, <1>10, <1>11 DEF IInv, Progress

LEMMA Stuttered == IInv /\ UNCHANGED vars => IInv'
<1>1. SUFFICES ASSUME IInv, UNCHANGED vars PROVE IInv'
  OBVIOUS
<1>2. /\ case' = case /\ block' = block /\ stage' = stage /\ grid' = grid
      /\ it' = it /\ dit' = dit /\ buf' = buf /\ out' = out
  BY <1>1 DEF vars
<1>3. Cut' = Cut /\ Local' = Local /\ CopiedRows' = CopiedRows /\ BlockDims' = BlockDims
  BY <1>2, SameCase, SameGrid, SameRows
<1>4. Shape'
  BY <1>1, <1>2, <1>3, SameCase DEF IInv, Shape
<1>5. /\ \A k : Fetched(k) => Fetched(k)'
      /\ Filled(CopiedRows) => Filled(CopiedRows)'
      /\ \A k : Filled(CopiedRows \cup RowsBefore(case.n, Cut, k))
                  => Filled(CopiedRows \cup RowsBefore(case.n, Cut, k))'
  BY <1>2, <1>3 DEF Fetched, Filled, Source
<1>6. stage' \in {"block", "crop", "in"} => Filled(CopiedRows)'
  BY <1>1, <1>2, <1>5 DEF IInv, Progress
<1>7. ASSUME stage = "in"
      PROVE  \E k \in Reached(Cut'.dims) :
                it' = At(Cut', k, case'.n) /\ dit' = At(Local', k, BlockDims') /\ Fetched(k)'
  BY <1>1, <1>2, <1>3, <1>5, <1>7 DEF IInv, Progress
<1>8. ASSUME stage = "out"
      PROVE  /\ Fetched(Final(Cut.dims))'
             /\ \E k \in Reached(Cut'.dims) :
                   /\ it' = At(Local', k, BlockDims') /\ dit' = At(Cut', k, case'.n)
                   /\ Filled(CopiedRows \cup RowsBefore(case.n, Cut, k))'
  BY <1>1, <1>2, <1>3, <1>5, <1>8 DEF IInv, Progress
<1> QED
  BY <1>2, <1>4, <1>6, <1>7, <1>8 DEF IInv, Progress

\* The invariant holds: the copy in either direction keeps its two iterators at
\* the same step of the cut grid, whatever the volume, the blocks and the window.
THEOREM Invariance == Spec => []IInv
<1>1. IInv /\ [Next]_vars => IInv'
  BY Entered, Skipped, Begun, CopiedIn, BegunOut, CopiedOut, BlockEnded, Stuttered
     DEF Next
<1> QED
  BY Initially, <1>1, PTL DEF Spec

\* No iterator of a copy leaves its volume: the pointer of Begin and the steps of
\* the iterators only ever name samples of the two volumes.
THEOREM NeverAstray == Spec => [](stage # "astray")
<1>1. IInv => stage # "astray"
  BY DEF IInv, Shape
<1> QED
  BY Invariance, <1>1, PTL

\* Crop leaves of a block's grid what is in the window, and its first positions
\* where the window ends less than a stride before them; a block that is left out
\* has neither; and what is left may be given to Relative: for every block and stride
\* of every volume, and every window of it.
THEOREM CropsCorrect == Spec => []CropsExactly
<1>1. IInv => CropsExactly
  <2>1. ASSUME IInv, stage \in {"crop", "in"}
        PROVE  grid \in Grids /\ case.window \in Windows
    <3>1. /\ case \in Cases /\ block \in 0 .. Prod(NBlocks) /\ block < Prod(NBlocks)
          /\ grid = BlockGrid(block)
      BY <2>1 DEF IInv, Shape
    <3>2. block \in 0 .. Prod(NBlocks) - 1
      BY <3>1, BlockFacts
    <3> QED
      BY <3>1, <3>2, BlockFacts, CaseFacts
  <2>2. ASSUME IInv, stage = "crop", Crop(grid, case.window).dims = Vec(0)
        PROVE  InWindow(grid, case.window) = {}
    BY <2>1, <2>2, NothingCut
  <2>3. ASSUME IInv, stage = "in"
        PROVE  /\ Points(it.grid) = InWindow(grid, case.window)
               /\ AllLeq(grid.from, LastOf(case.window)) =>
                     Points(it.grid) = Points(grid) \cap Points(case.window)
               /\ IsSubGrid(it.grid, grid)
               /\ dit.grid.strd = Vec(1)
    <3>1. PICK k : it = At(Cut, k, case.n) /\ dit = At(Local, k, BlockDims)
      BY <2>3 DEF IInv, Progress
    <3>2. it.grid = Cut /\ dit.grid = Local
      BY <3>1 DEF At
    <3>3. /\ Points(Cut) = InWindow(grid, case.window) /\ IsSubGrid(Cut, grid)
          /\ Local.strd = Vec(1)
      BY <2>3, CopyFacts DEF IInv
    <3>4. AllLeq(grid.from, LastOf(case.window)) =>
             InWindow(grid, case.window) = Points(grid) \cap Points(case.window)
      BY <2>1, <2>3, CutMeets
    <3> QED
      BY <3>2, <3>3, <3>4
  <2> QED
    BY <2>2, <2>3 DEF CropsExactly
<1> QED
  BY Invariance, <1>1, PTL

\* After all the blocks the positions of their grids in the window have their
\* samples, and nothing was written but these and what Crop takes besides.
THEOREM RebuildsCorrect == Spec => []RebuildsWindow
<1>1. IInv => RebuildsWindow
  <2> DEFINE grids == {BlockGrid(k) : k \in 0 .. Prod(NBlocks) - 1}
             asked == (UNION {Points(g) : g \in grids}) \cap Points(case.window)
             taken == UNION {InWindow(g, case.window) : g \in grids}
  <2>1. SUFFICES ASSUME IInv, block = Prod(NBlocks)
                 PROVE  /\ \A i \in {Row(case.n, p) : p \in asked} : out[i] = Source(i)
                        /\ \A i \in DOMAIN out :
                              out[i] = IF i \in {Row(case.n, p) : p \in taken}
                                       THEN Source(i) ELSE 0
    BY DEF RebuildsWindow
  <2>2. case \in Cases /\ Prod(NBlocks) \in Nat
    BY <2>1, BlockFacts DEF IInv, Shape
  <2>3. stage = "block"
    BY <2>1, <2>2 DEF IInv, Shape
  <2>4. Filled(CopiedRows)
    BY <2>1, <2>3 DEF IInv, Progress
  <2>5. CopiedPoints = taken
    BY <2>1 DEF CopiedPoints
  <2>6. ASSUME NEW p \in asked
        PROVE  p \in taken /\ Row(case.n, p) \in DOMAIN out
    <3>1. PICK b \in 0 .. Prod(NBlocks) - 1 :
             p \in Points(BlockGrid(b)) /\ p \in Points(case.window)
      BY <2>6
    <3>5. p \in Places
      <4>1. BlockGrid(b) \in Grids
        BY <2>2, BlockFacts
      <4>2. PICK x \in Box(BlockGrid(b).dims) : p = PosAt(BlockGrid(b), x)
        BY <3>1, <4>1, GridPoints
      <4>3. x \in Places
        BY <4>1, BoxFacts DEF Grids
      <4> QED
        BY <4>1, <4>2, <4>3, PosPlace
    <3>2. /\ BlockGrid(b) \in Grids /\ case.window \in Windows
          /\ case.n \in Counts /\ \A i \in Axes : LastOf(case.window)[i] < case.n[i]
      BY <2>2, BlockFacts, CaseFacts
    <3>3. p \in InWindow(BlockGrid(b), case.window)
      BY <3>1, <3>2, CutMeets
    <3>4. Row(case.n, p) \in 0 .. Prod(case.n) - 1
      BY <3>1, <3>2, <3>5, WindowRow
    <3> QED
      BY <2>1, <3>3, <3>4 DEF IInv, Shape
  <2>7. \A i \in DOMAIN out : out[i] = IF i \in {Row(case.n, p) : p \in taken}
                                        THEN Source(i) ELSE 0
    BY <2>4, <2>5 DEF Filled, CopiedRows
  <2>8. \A i \in {Row(case.n, p) : p \in asked} : out[i] = Source(i)
    BY <2>6, <2>7
  <2> QED
    BY <2>7, <2>8
<1> QED
  BY Invariance, <1>1, PTL
=============================================================================
