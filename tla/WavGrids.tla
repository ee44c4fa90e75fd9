------------------------------ MODULE WavGrids -----------------------------
(***************************************************************************)
(* Which wavelet coefficients reach which samples, WavFootprint and          *)
(* ComputeWavGrids of src/src/mg_wavelet.cpp.  A scaling coefficient of      *)
(* stride s reaches s - 1 samples to either side, a wavelet 3s/2 - 1.        *)
(***************************************************************************)
EXTENDS Subbands

Reach(nd, sb, strd) ==
    LET half == SubbandToLevel(nd, sb, TRUE)
    IN Each(LAMBDA i : IF half[i] = 1 THEN (3 * strd[i]) \div 2 - 1 ELSE strd[i] - 1)

WavFootprint(nd, sb, g) ==
    LET r == Reach(nd, sb, g.strd)
    IN Extent(Each(LAMBDA i : g.from[i] - r[i]),
              Each(LAMBDA i : LastOf(g)[i] - g.from[i] + 2 * r[i] + 1))

\* From one position to another in steps of strd.
Span(from, last, strd) ==
    Grid(from, Each(LAMBDA i : Quot(last[i] - from[i], strd[i]) + 1), strd)

NoGrids == [wav |-> Invalid, val |-> Invalid]

\* The end of what reaches the values is not extended by the reach.
WrongReachRange(nd, sb, values, g) ==
    LET r == Reach(nd, sb, g.strd)
        sbFrst == Each(LAMBDA i : g.from[i] % g.strd[i])
        frst == Each(LAMBDA i : MaxOf(values.from[i], sbFrst[i] + r[i]))
        last == Each(LAMBDA i : MaxOf(LastOf(values)[i], sbFrst[i]))
    IN [frst |-> Each(LAMBDA i : sbFrst[i] + g.strd[i] *
                    Quot(frst[i] - r[i] - sbFrst[i] + g.strd[i] - 1, g.strd[i])),
        last |-> Each(LAMBDA i : sbFrst[i] + g.strd[i] *
                    Quot(last[i] - sbFrst[i], g.strd[i]))]

\* The first and last coefficient of the subband that reach the values.
ReachRange(nd, sb, values, g) ==
    LET r == Reach(nd, sb, g.strd)
        sbFrst == Each(LAMBDA i : g.from[i] % g.strd[i])
        frst == Each(LAMBDA i : MaxOf(values.from[i], sbFrst[i] + r[i]))
        last == Each(LAMBDA i : MaxOf(LastOf(values)[i], sbFrst[i] - r[i]))
    IN [frst |-> Each(LAMBDA i : sbFrst[i] + g.strd[i] *
                    Quot(frst[i] - r[i] - sbFrst[i] + g.strd[i] - 1, g.strd[i])),
        last |-> Each(LAMBDA i : sbFrst[i] + g.strd[i] *
                    Quot(last[i] + r[i] - sbFrst[i], g.strd[i]))]

\* valStrd is the stride the client wants the values in, or finer.
ComputeWavGrids(nd, sb, values, g, valStrd) ==
    LET range == ReachRange(nd, sb, values, g)
        frst == Each(LAMBDA i : MaxOf(range.frst[i], g.from[i]))
        last == Each(LAMBDA i : MinOf(range.last[i], LastOf(g)[i]))
        half == SubbandToLevel(nd, sb, TRUE)
        strd == Each(LAMBDA i : MinOf(g.strd[i] \div 2^half[i], valStrd[i]))
    IN IF ~AllLeq(frst, last) THEN NoGrids
       ELSE [wav |-> Span(frst, last, g.strd),
             val |-> Span(Each(LAMBDA i : strd[i] * Quot(values.from[i] + strd[i] - 1, strd[i])),
                          Each(LAMBDA i : strd[i] * Quot(LastOf(values)[i], strd[i])),
                          strd)]
=============================================================================
