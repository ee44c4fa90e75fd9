------------------------------ MODULE ZfpBlock ------------------------------
(***************************************************************************)
(* What WriteTile does to a block of 4 x 4 x 4 samples before its bit      *)
(* planes are coded, and DecompressTile after they are decoded: Quantize,  *)
(* ForwardZfp, ForwardShuffle and their inverses (src/src/mg_zfp.inl:21-245, *)
(* mg_signal_processing.cpp:195-223, mg_file_format.cpp:179-193, 525-531).   *)
(*                                                                         *)
(* Init is a block already quantized: what Quantize does to the samples is  *)
(* to bring the largest below 2^(QuantBits - 1).  The coder writes Prec      *)
(* planes, and the decoder has those from "cut" up.  The order of the        *)
(* coefficients (Perm3) is left out: both sides use the same table.  The     *)
(* inverse is not given a width: see the README for how large it can get.    *)
(***************************************************************************)
EXTENDS BlockRange, FiniteSetsExt

CONSTANTS
    Width,     \* bits of the integers
    Samples,   \* the blocks to code
    Cuts       \* the lowest plane the decoder has

\* A point of the block: its coordinates along the three axes.
Points == [1 .. 3 -> 0 .. 3]

\* Five planes or more: with four, two units may become more than the rounding
\* takes away.
BlockParameters ==
    /\ Prec \in Nat /\ Prec >= 5
    /\ Width \in Nat /\ Prec <= Width
    /\ Samples \subseteq [Points -> -MaxInt .. MaxInt]
    /\ Cuts \subseteq 0 .. Prec

ASSUME BlockAssumption == BlockParameters

VARIABLES
    pass    \* the axes done

vars == <<orig, blk, pc, pass, cut>>

-----------------------------------------------------------------------------
Half(x) == x \div 2     \* x >> 1

\* The second step does not halve.
WrongFLift(X, Y, Z, W) ==
    LET x1 == Half(X + W)   w1 == W - x1
        z1 == Z + Y         y1 == Y - z1
        x2 == Half(x1 + z1) z2 == z1 - x2
        w2 == Half(w1 + y1) y2 == y1 - w2
        w3 == w2 + Half(y2) y3 == y2 - Half(w3)
    IN <<x2, y3, z2, w3>>

\* Four samples in place, each half of a sum and what is left of the difference.
FLift(X, Y, Z, W) ==
    LET x1 == Half(X + W)   w1 == W - x1
        z1 == Half(Z + Y)   y1 == Y - z1
        x2 == Half(x1 + z1) z2 == z1 - x2
        w2 == Half(w1 + y1) y2 == y1 - w2
        w3 == w2 + Half(y2) y3 == y2 - Half(w3)
    IN <<x2, y3, z2, w3>>

\* The steps undone from the last to the first; the bits the halves lost are
\* not known, and taken for zeros.
ILift(X, Y, Z, W) ==
    LET y1 == Y + Half(W)  w1 == W - Half(y1)
        y2 == y1 + w1      w2 == 2 * w1 - y2
        z1 == Z + X        x1 == 2 * X - z1
        y3 == y2 + z1      z2 == 2 * z1 - y3
        w3 == w2 + x1      x2 == 2 * x1 - w3
    IN <<x2, y3, z2, w3>>

\* Every row of a block along an axis, lifted.
Along(b, a, Lift(_, _, _, _)) ==
    [p \in Points |->
        LET row == [i \in 0 .. 3 |-> b[[p EXCEPT ![a] = i]]]
        IN Lift(row[0], row[1], row[2], row[3])[p[a] + 1]]

-----------------------------------------------------------------------------
\* The planes of a number of Width bits, and the number with some planes.
Planes(u) == {i \in 0 .. Width - 1 : (u \div 2 ^ i) % 2 = 1}
Number(s) == MapThenSumSet(LAMBDA i : 2 ^ i, s)

\* traits<u>::NBinaryMask, as planes and as a number; exclusive or.
MaskPlanes == {i \in 0 .. Width - 1 : i % 2 = 1}
Mask == Number(MaskPlanes)
Xor(s, t) == (s \ t) \cup (t \ s)

\* (x + Mask) ^ Mask and (u ^ Mask) - Mask, with signed numbers of Width bits.
Negabinary(x) == Xor(Planes((x + Mask) % 2 ^ Width), MaskPlanes)

Signed(x) == LET u == x % 2 ^ Width
             IN IF u < 2 ^ (Width - 1) THEN u ELSE u - 2 ^ Width
InverseNegabinary(s) == Signed(Number(Xor(s, MaskPlanes)) - Mask)

-----------------------------------------------------------------------------
Init ==
    /\ orig \in Samples /\ blk = orig
    /\ pc = "forward" /\ pass = 0 /\ cut = 0

\* X, then Y, then Z.
ForwardZfp ==
    /\ pc = "forward"
    /\ blk' = Along(blk, pass + 1, FLift)
    /\ pass' = pass + 1
    /\ pc' = IF pass = 2 THEN "shuffle" ELSE "forward"
    /\ UNCHANGED <<orig, cut>>

ForwardShuffle ==
    /\ pc = "shuffle" /\ pc' = "coded"
    /\ blk' = [p \in Points |-> Negabinary(blk[p])]
    /\ UNCHANGED <<orig, pass, cut>>

\* The planes from Prec - 1 down to some plane are coded and decoded; then
\* InverseShuffle.
InverseShuffle ==
    /\ pc = "coded" /\ pc' = "inverse"
    /\ cut' \in Cuts
    /\ blk' = [p \in Points |-> InverseNegabinary(blk[p] \cap (cut' .. Prec - 1))]
    /\ UNCHANGED <<orig, pass>>

\* Z, then Y, then X.
InverseZfp ==
    /\ pc = "inverse"
    /\ blk' = Along(blk, pass, ILift)
    /\ pass' = pass - 1
    /\ pc' = IF pass = 1 THEN "done" ELSE "inverse"
    /\ UNCHANGED <<orig, cut>>

Next == ForwardZfp \/ ForwardShuffle \/ InverseShuffle \/ InverseZfp

Spec == Init /\ [][Next]_vars
=============================================================================
