------------------------------ MODULE Volumes ------------------------------
(***************************************************************************)
(* Volumes, extents and grids, src/src/mg_volume.inl.  A vector (v3i) is a *)
(* triple; an extent is a grid of stride one; the samples of a volume of   *)
(* dimensions n are numbered row by row.  The operators of a grid are the  *)
(* code's; Points, the set of the positions a grid stands for, is the       *)
(* reference they are judged by.                                           *)
(*                                                                         *)
(* An operator named Wrong... is the one after it with a mistake: the       *)
(* properties are checked to fail when it takes that one's place.           *)
(***************************************************************************)
EXTENDS Integers

Axes == 1 .. 3
Vec(n) == <<n, n, n>>
Each(F(_)) == <<F(1), F(2), F(3)>>

MinOf(a, b) == IF a <= b THEN a ELSE b
MaxOf(a, b) == IF a >= b THEN a ELSE b

\* Integer division as C does it, towards zero.
Quot(a, b) == IF a >= 0 THEN a \div b ELSE -((-a) \div b)

AllLeq(a, b) == \A i \in Axes : a[i] <= b[i]
Prod(v) == v[1] * v[2] * v[3]
NumDims(n) == LET big(i) == IF n[i] > 1 THEN 1 ELSE 0 IN big(1) + big(2) + big(3)

Row(n, p) == p[3] * n[1] * n[2] + p[2] * n[1] + p[1]

\* A vector is kept in 64 bits, 21 of them for each component, which are read
\* back with their sign (Pack3i64, then Unpack3i64).
PackLimit == 2^20
Packed(v) == Each(LAMBDA i : ((v[i] + PackLimit) % (2 * PackLimit)) - PackLimit)

\* The dimensions there can be.
Lengths == (1 .. PackLimit - 1) \X (1 .. PackLimit - 1) \X (1 .. PackLimit - 1)

Grid(from, dims, strd) ==
    [from |-> Packed(from), dims |-> Packed(dims), strd |-> Packed(strd)]
Extent(from, dims) == Grid(from, dims, Vec(1))

\* A grid without a position.
Invalid == Extent(Vec(0), Vec(0))

LastOf(g) == Each(LAMBDA i : g.from[i] + g.dims[i] * g.strd[i] - g.strd[i])

\* Reference: what a grid stands for.
Points(g) ==
    {Each(LAMBDA i : g.from[i] + k[i] * g.strd[i]) :
        k \in (0 .. g.dims[1] - 1) \X (0 .. g.dims[2] - 1) \X (0 .. g.dims[3] - 1)}

-----------------------------------------------------------------------------
SubGrid(g, h) ==
    Grid(Each(LAMBDA i : g.from[i] + g.strd[i] * h.from[i]), h.dims,
         Each(LAMBDA i : g.strd[i] * h.strd[i]))

IsSubGrid(g, h) ==
    /\ AllLeq(h.from, g.from) /\ AllLeq(LastOf(g), LastOf(h))
    /\ \A i \in Axes : g.strd[i] % h.strd[i] = 0
    /\ \A i \in Axes : (g.from[i] - h.from[i]) % h.strd[i] = 0

Relative(g, h) ==
    Grid(Each(LAMBDA i : Quot(g.from[i] - h.from[i], h.strd[i])), g.dims,
         Each(LAMBDA i : Quot(g.strd[i], h.strd[i])))

\* The first position is not moved up to one of the grid.
WrongCrop(g, h) ==
    LET frst == Each(LAMBDA i : MaxOf(g.from[i], h.from[i]))
        last == Each(LAMBDA i :
                   Quot(MinOf(LastOf(g)[i], LastOf(h)[i]) - g.from[i], g.strd[i])
                     * g.strd[i] + g.from[i])
    IN [g EXCEPT !.from = frst,
          !.dims = IF AllLeq(frst, last)
                   THEN Each(LAMBDA i : Quot(last[i] - frst[i], g.strd[i]) + 1)
                   ELSE Vec(0)]

\* Both ends are cut to h and rounded to positions of g.
Crop(g, h) ==
    LET up(x, s) == Quot(x + s - 1, s) * s
        frst == Each(LAMBDA i :
                   up(MaxOf(g.from[i], h.from[i]) - g.from[i], g.strd[i]) + g.from[i])
        last == Each(LAMBDA i :
                   Quot(MinOf(LastOf(g)[i], LastOf(h)[i]) - g.from[i], g.strd[i])
                     * g.strd[i] + g.from[i])
    IN [g EXCEPT !.from = frst,
          !.dims = IF AllLeq(frst, last)
                   THEN Each(LAMBDA i : Quot(last[i] - frst[i], g.strd[i]) + 1)
                   ELSE Vec(0)]

-----------------------------------------------------------------------------
\* The iterator of grid g in a volume of dimensions n: a position relative to
\* the start of g, and the sample pointed to.  The iterators of an extent and
\* of a whole volume are this one with stride one.
Begin(g, n) == [ptr |-> Row(n, g.from), p |-> Vec(0)]
End(g, n) == Row(n, <<g.from[1], g.from[2], g.from[3] + g.dims[3] * g.strd[3]>>)

\* At the end of a row the stride of y is left out.
WrongAdvance(it, g, n) ==
    LET d == Each(LAMBDA i : g.dims[i] * g.strd[i])
        x == it.p[1] + g.strd[1]
        y == it.p[2] + g.strd[2]
    IN IF x < d[1]
       THEN [ptr |-> it.ptr + g.strd[1], p |-> <<x, it.p[2], it.p[3]>>]
       ELSE IF y < d[2]
       THEN [ptr |-> it.ptr + g.strd[1] - d[1] + n[1], p |-> <<0, y, it.p[3]>>]
       ELSE [ptr |-> it.ptr + g.strd[1] - d[1] + n[1] * g.strd[2]
                       - d[2] * n[1] + g.strd[3] * n[1] * n[2],
             p |-> <<0, 0, it.p[3] + g.strd[3]>>]

Advance(it, g, n) ==
    LET d == Each(LAMBDA i : g.dims[i] * g.strd[i])
        x == it.p[1] + g.strd[1]
        y == it.p[2] + g.strd[2]
        nextRow == it.ptr + g.strd[1] - d[1] + n[1] * g.strd[2]
    IN IF x < d[1]
       THEN [ptr |-> it.ptr + g.strd[1], p |-> <<x, it.p[2], it.p[3]>>]
       ELSE IF y < d[2]
       THEN [ptr |-> nextRow, p |-> <<0, y, it.p[3]>>]
       ELSE [ptr |-> nextRow - d[2] * n[1] + g.strd[3] * n[1] * n[2],
             p |-> <<0, 0, it.p[3] + g.strd[3]>>]
=============================================================================
