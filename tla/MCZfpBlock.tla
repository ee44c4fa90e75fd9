----------------------------- MODULE MCZfpBlock -----------------------------
(* Blocks whose samples are the product of a row along each axis, and blocks *)
(* all of whose coefficients have one absolute value.                        *)
EXTENDS ZfpBlock

\* The largest, the least, a third (which takes all the planes of a negabinary
\* number) and an odd one.
MCLevels == {-MaxInt, -(MaxInt \div 3), 1, MaxInt}
MCRows == [0 .. 3 -> MCLevels]

\* Across it: the same everywhere, alternating, and all but the last.
MCSigns == {[i \in 0 .. 3 |-> 1],
            [i \in 0 .. 3 |-> IF i % 2 = 0 THEN 1 ELSE -1],
            [i \in 0 .. 3 |-> IF i = 3 THEN -1 ELSE 1]}

MCProducts ==
    {[p \in Points |-> r[p[a]] * s[p[(a % 3) + 1]] * t[p[((a + 1) % 3) + 1]]] :
        <<a, r, s, t>> \in (1 .. 3) \X MCRows \X MCSigns \X MCSigns}

\* The samples some coefficients stand for.
MCBack(c) == Along(Along(Along(c, 3, ILift), 2, ILift), 1, ILift)

\* Whether the coefficients have the sign of the first alternates along some axes.
\* 1 and 2 lose most without one and two planes.
MCCoefs ==
    {[p \in Points |-> n * (-1) ^ Cardinality({a \in A : p[a] % 2 = 1})] :
        <<n, A>> \in {-5, -2, -1, 1, 2, 3} \X SUBSET (1 .. 3)}

MCSamples == MCProducts \cup {b \in {MCBack(c) : c \in MCCoefs} :
                                 \A p \in Points : b[p] \in -MaxInt .. MaxInt}

MCCuts == {0, 1, 2}
=============================================================================
