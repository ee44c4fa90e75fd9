------------------------------ MODULE Subbands -----------------------------
(***************************************************************************)
(* The subbands of a wavelet transform, src/src/mg_wavelet.cpp.  A level    *)
(* splits every axis of what the level before left in a lower half (low     *)
(* frequencies, rounded up) and an upper half.  The transform of the codec  *)
(* moves the halves apart, so that a subband is an extent; the transform in *)
(* place leaves them interleaved, so that a subband is a grid.              *)
(***************************************************************************)
EXTENDS Volumes, Sequences

Bit(v, i) == (v \div 2^i) % 2

\* SubbandOrders: in three dimensions 3 and 4 change places.
Orders ==
    <<[j \in 0 .. 1 |-> j], [j \in 0 .. 3 |-> j],
      [j \in 0 .. 7 |-> IF j = 3 THEN 4 ELSE IF j = 4 THEN 3 ELSE j]>>

\* The dimensions left to level l: M in the loop of BuildSubbands.
DimsLeft(n, l) == Each(LAMBDA i : (n[i] + 2^l - 1) \div 2^l)

\* Which half of each axis subband j of a level is.
Halves(nd, j) ==
    Each(LAMBDA i : Bit(Orders[nd][j], MaxOf(nd - i, 0)))

SubbandDims(n, l, h) ==
    Each(LAMBDA i : IF h[i] = 0 THEN DimsLeft(n, l + 1)[i]
                    ELSE DimsLeft(n, l)[i] - DimsLeft(n, l + 1)[i])

\* "Child exists", for as many axes as the volume has.
Exists(nd, sm) == \A i \in 1 .. nd : sm[i] # 0

\* The upper half starts where the level starts.
WrongExtentOf(n, l, j) ==
    LET nd == NumDims(n)
        h == Halves(nd, j)
        sm == SubbandDims(n, l, h)
    IN Extent(Vec(0), Each(LAMBDA i : IF i <= nd THEN sm[i] ELSE 1))

\* With nothing in the upper half of an axis that is one sample long the third
\* branch is taken, whatever the number of axes: only x counts then.
ExtentOf(n, l, j) ==
    LET nd == NumDims(n)
        h == Halves(nd, j)
        sm == SubbandDims(n, l, h)
        kept == IF nd \in {2, 3} /\ Exists(nd, sm) THEN nd ELSE 1
    IN Extent(Each(LAMBDA i : IF i <= kept THEN h[i] * DimsLeft(n, l + 1)[i] ELSE 0),
              Each(LAMBDA i : IF i <= kept THEN sm[i] ELSE 1))

GridOf(n, l, j) ==
    LET nd == NumDims(n)
        h == Halves(nd, j)
        sm == SubbandDims(n, l, h)
    IN Grid(Each(LAMBDA i : IF i <= nd THEN h[i] * 2^l ELSE 0),
            Each(LAMBDA i : IF i <= nd THEN sm[i] ELSE 1), Vec(2^(l + 1)))

\* The coarsest subband first, then level by level down to the finest.
Levels(last, n, levels, Of(_, _, _)) ==
    LET c == 2^NumDims(n) - 1
    IN [s \in 1 .. 1 + levels * c |->
          IF s = 1 THEN last ELSE Of(n, levels - 1 - (s - 2) \div c, ((s - 2) % c) + 1)]

SubbandExtents(n, levels) ==
    Levels(Extent(Vec(0), DimsLeft(n, levels)), n, levels, ExtentOf)

AllGrids(n, levels) ==
    Levels(Grid(Vec(0), DimsLeft(n, levels), Vec(2^levels)), n, levels, GridOf)

\* Here a subband that would be empty is left out.
SubbandGrids(n, levels) ==
    LET all == AllGrids(n, levels)
        kept[s \in 0 .. Len(all)] ==
            IF s = 0 THEN <<>>
            ELSE IF Exists(NumDims(n), all[s].dims) THEN Append(kept[s - 1], all[s])
            ELSE kept[s - 1]
    IN kept[Len(all)]

\* An axis that starts with two samples or more is down to one before the
\* last level.
Collapses(n, levels) ==
    levels > 0 /\ \E i \in Axes : n[i] > 1 /\ DimsLeft(n, levels - 1)[i] = 1

-----------------------------------------------------------------------------
WrongSubbandToLevel(nd, sb, norm) ==
    IF sb = 0 THEN Vec(0)
    ELSE LET n == 2^nd - 1
             lvl == (sb + n - 1) \div n
             b == sb - n * (lvl - 1)
             bits == <<Bit(b, nd - 1), Bit(b, nd - 2), Bit(b, 0)>>
         IN IF norm THEN bits ELSE Each(LAMBDA i : lvl - (1 - bits[i]))

\* The level of the transform each axis of subband sb comes from, or which
\* half of the axis it is (norm).  There is no bit -1: nd is two or three.
SubbandToLevel(nd, sb, norm) ==
    IF sb = 0 THEN Vec(0)
    ELSE LET n == 2^nd - 1
             lvl == (sb + n - 1) \div n
             b == Orders[nd][sb - n * (lvl - 1)]
             bits == <<Bit(b, nd - 1), Bit(b, nd - 2), Bit(b, 0)>>
         IN IF norm THEN bits ELSE Each(LAMBDA i : lvl - (1 - bits[i]))

LevelToSubband(lvl3) ==
    LET lvl == MaxOf(MaxOf(lvl3[1], lvl3[2]), lvl3[3])
        top(i) == IF lvl3[i] = lvl THEN 1 ELSE 0
    IN IF lvl3 = Vec(0) THEN 0
       ELSE 7 * (lvl - 1) + Orders[3][4 * top(1) + 2 * top(2) + top(3)]
=============================================================================
