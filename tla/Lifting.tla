------------------------------ MODULE Lifting ------------------------------
(***************************************************************************)
(* The CDF 5/3 lifting steps of src/src/mg_wavelet.inl, on one row of       *)
(* samples (a function of the position) and then on all rows of a volume    *)
(* along an axis.  A stencil says which positions of the row are odd and    *)
(* what their neighbours are; the two implementations differ in that only:  *)
(* the one of the codec mirrors at the end of the row and then moves the    *)
(* odd samples behind the even ones, the one in place stores an             *)
(* extrapolated sample after the end and leaves every sample where it is.   *)
(***************************************************************************)
EXTENDS Volumes, FiniteSets

\* Every odd sample loses half of both its neighbours (sign is -1), or gets
\* them back (sign is 1).
Predict(f, st, sign) ==
    [x \in DOMAIN f |->
        IF x \in st.odd
        THEN f[x] + sign * (Quot(f[x - st.s], 2) + Quot(f[st.right[x]], 2))
        ELSE f[x]]

\* Both neighbours of every odd sample get a quarter of it.  Only the last odd
\* one has a neighbour that may be further than s away.
Update(f, st, sign) ==
    LET times(x, y) == (IF x - st.s = y THEN 1 ELSE 0) + (IF st.right[x] = y THEN 1 ELSE 0)
        part(x, y) == IF x \in st.odd THEN times(x, y) * Quot(f[x], 4) ELSE 0
        share(y) == part(y - st.s, y) + part(y + st.s, y)
                      + IF st.end \in {y - st.s, y + st.s} THEN 0 ELSE part(st.end, y)
    IN [y \in DOMAIN f |-> IF y \in st.odd THEN f[y] ELSE f[y] + sign * share(y)]

-----------------------------------------------------------------------------
\* The rows of the codec: the first m samples of a row.
Mirrored(m) ==
    LET odd == {x \in 1 .. m - 1 : x % 2 = 1}
    IN [odd |-> odd, s |-> 1, end |-> m - 1,
        right |-> [x \in odd |-> IF x < m - 1 THEN x + 1 ELSE x - 1]]

\* The even samples first, then the odd ones.
Split(f, m) ==
    LET half == (m + 1) \div 2
    IN [x \in DOMAIN f |-> IF x < half THEN f[2 * x]
                           ELSE IF x < m THEN f[2 * (x - half) + 1] ELSE f[x]]

Merge(f, m) ==
    LET half == (m + 1) \div 2
    IN [x \in DOMAIN f |-> IF x >= m THEN f[x]
                           ELSE IF x % 2 = 0 THEN f[x \div 2] ELSE f[half + x \div 2]]

FLiftOld(f, m) ==
    LET st == Mirrored(m) IN Split(Update(Predict(f, st, -1), st, 1), m)

ILiftOld(f, m) ==
    LET st == Mirrored(m) IN Predict(Update(Merge(f, m), st, -1), st, 1)

-----------------------------------------------------------------------------
\* The rows in place: d positions from p on, s apart, in a row whose own
\* samples end before m.  No odd position is left out when d is odd; when it
\* is even the last one is not lifted.
EndsOf(p, d, s, m) ==
    [last |-> MinOf(p + s * (d - 1), m), second |-> p + s * (d - 2)]

InPlace(p, d, s, m) ==
    LET e == EndsOf(p, d, s, m)
        odd == {p + s * k : k \in {j \in 1 .. d - 2 : j % 2 = 1}}
    IN [odd |-> odd, s |-> s, end |-> e.second,
        right |-> [x \in odd |-> IF x = e.second THEN e.last ELSE x + s]]

Extrapolates(d) == d % 2 = 0

\* The assertions at the head of the lifting functions, for one axis.
LiftAsserts(p, d, s, m, n) ==
    d = 1 \/ (m <= n /\ p % 2 = 0 /\ p + s * (d - 2) < m /\ (Extrapolates(d) => m < n))

\* Takes no notice of the option.
WrongFLift(f, p, d, s, m, opt) ==
    LET e == EndsOf(p, d, s, m)
        st == InPlace(p, d, s, m)
        g == IF Extrapolates(d)
             THEN [f EXCEPT ![m] = 2 * f[e.last] - f[e.second]] ELSE f
    IN Update(Predict(g, st, -1), st, 1)

\* With PartialUpdateLast the share of the last odd sample replaces the last
\* sample: the tile above, which shares that column, adds the sample itself.
FLift(f, p, d, s, m, opt) ==
    LET e == EndsOf(p, d, s, m)
        st == InPlace(p, d, s, m)
        g == IF Extrapolates(d)
             THEN [f EXCEPT ![m] = 2 * f[e.last] - f[e.second]] ELSE f
        h == Predict(g, st, -1)
        u == Update(h, st, 1)
    IN IF opt = "PartialUpdateLast" /\ ~Extrapolates(d)
       THEN [u EXCEPT ![e.last] = Quot(h[e.second], 4)] ELSE u

ILift(f, p, d, s, m) ==
    LET e == EndsOf(p, d, s, m)
        st == InPlace(p, d, s, m)
        g == Update(f, st, -1)
        fixed == IF Extrapolates(d)
                 THEN [g EXCEPT ![e.last] = Quot(g[m], 2) + Quot(g[e.second], 2)]
                 ELSE g
    IN Predict(fixed, st, 1)

-----------------------------------------------------------------------------
Indices(n) == 0 .. Prod(n) - 1
Position(n, i) == <<i % n[1], (i \div n[1]) % n[2], i \div (n[1] * n[2])>>

\* Lift every row along axis a of a volume of dimensions n that starts at one
\* of the given places on the two other axes.
OnRows(vol, n, a, starts, LiftRow(_, _)) ==
    LET row(q) == [x \in 0 .. n[a] - 1 |-> vol[Row(n, [q EXCEPT ![a] = x])]]
        rows == [q \in starts |-> LiftRow(q, row(q))]
        start(i) == [Position(n, i) EXCEPT ![a] = 0]
    IN [i \in DOMAIN vol |-> IF start(i) \in starts
                             THEN rows[start(i)][Position(n, i)[a]] ELSE vol[i]]

\* A pass of the codec's transform, m the dimensions left to its level.
Starts(m, a) ==
    {q \in (0 .. m[1] - 1) \X (0 .. m[2] - 1) \X (0 .. m[3] - 1) : q[a] = 0}

ForwardOld(vol, n, a, m) ==
    IF m[a] <= 1 THEN vol
    ELSE OnRows(vol, n, a, Starts(m, a), LAMBDA q, f : FLiftOld(f, m[a]))

InverseOld(vol, n, a, m) ==
    IF m[a] <= 1 THEN vol
    ELSE OnRows(vol, n, a, Starts(m, a), LAMBDA q, f : ILiftOld(f, m[a]))

\* A pass in place over grid g of a volume of dimensions n whose own samples
\* end before m.  The loops go through the positions of the grid on the two
\* other axes, and each that is behind the end stands for the row of the
\* extrapolated samples: that row is lifted as often as there are such positions.
StartAt(m, a, p) == Each(LAMBDA i : IF i = a THEN 0 ELSE MinOf(p[i], m[i]))
RowStarts(g, m, a) == {StartAt(m, a, p) : p \in Points(g)}

Visits(g, m, a, q) ==
    Cardinality({p \in Points(g) : p[a] = g.from[a] /\ StartAt(m, a, p) = q})

Repeated(f, times, Lift(_)) ==
    LET lifted[k \in 0 .. times] == IF k = 0 THEN f ELSE Lift(lifted[k - 1])
    IN lifted[times]

ForwardInPlace(vol, n, a, g, m, opt) ==
    IF g.dims[a] = 1 THEN vol
    ELSE OnRows(vol, n, a, RowStarts(g, m, a), LAMBDA q, f :
            Repeated(f, Visits(g, m, a, q), LAMBDA h :
                FLift(h, g.from[a], g.dims[a], g.strd[a], m[a], opt)))

InverseInPlace(vol, n, a, g, m) ==
    IF g.dims[a] = 1 THEN vol
    ELSE OnRows(vol, n, a, RowStarts(g, m, a), LAMBDA q, f :
            Repeated(f, Visits(g, m, a, q), LAMBDA h :
                ILift(h, g.from[a], g.dims[a], g.strd[a], m[a])))
=============================================================================
