----------------------------- MODULE MCWavelet -----------------------------
(* Volumes of one, two and three dimensions; tiles of two blocks along x.   *)
EXTENDS Wavelet

\* Odd, even and two samples; an axis that is used up before the last level
\* ((2,3,1) and (6,1,1)); tiles cut by the end of a subband.
MCCodecCases ==
    {<<<<7, 1, 1>>, 2>>, <<<<6, 1, 1>>, 4>>, <<<<5, 4, 1>>, 2>>,
     <<<<2, 3, 1>>, 2>>, <<<<3, 2, 3>>, 1>>, <<<<4, 3, 3>>, 2>>, <<<<4, 3, 2>>, 2>>}

\* An axis that needs an extrapolated sample at every level, at a later one
\* only, or never; with 6 x 5, 6 x 6 and 2 x 2 x 5 samples a row is lifted twice or
\* more often.
MCInPlaceCases ==
    {<<<<10, 1, 1>>, 3>>, <<<<7, 1, 1>>, 3>>, <<<<4, 1, 1>>, 4>>,
     <<<<6, 5, 1>>, 2>>, <<<<6, 6, 1>>, 2>>, <<<<7, 4, 1>>, 2>>, <<<<3, 2, 4>>, 1>>,
     <<<<2, 2, 5>>, 2>>}

\* Two columns behind the end at the second level, whose rows are extrapolated.
MCReliftedCases == {<<<<6, 7, 1>>, 2>>}

MCFormCases == {<<<<9, 1, 1>>, 2>>, <<<<5, 9, 1>>, 2>>, <<<<3, 3, 5>>, 1>>}

MCTileCases == {<<<<5, 3, 1>>, 2>>, <<<<9, 5, 1>>, 4>>, <<<<7, 3, 1>>, 2>>}

\* Negative and odd: halves and quarters are rounded towards zero.
MCHeights == {-3}
MCTileDims == <<4, 2, 2>>
MCZDims == Vec(2)

\* Two levels in both dimensions: coefficients of stride two and four.
MCLookupCases == {<<<<7, 4, 1>>, 2>>}
=============================================================================
