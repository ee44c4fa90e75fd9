----------------------------- MODULE BlockRange -----------------------------
(***************************************************************************)
(* The integers a block of 4 x 4 x 4 samples is made of while zfp transforms *)
(* it (WriteTile, src/src/mg_file_format.cpp:179-187), and what may become  *)
(* of them.  This much of ZfpBlock is a module of its own for the proofs    *)
(* about it, which share a module with those about BitPlane.                *)
(***************************************************************************)
EXTENDS Integers

CONSTANTS Prec       \* Ff.Prec

VARIABLES
    orig,   \* history: the block as it was quantized
    cut,    \* the planes from cut up were there to decode
    blk,    \* the block: samples, or for each coefficient its set of planes
    pc      \* "forward", "shuffle", "coded", "inverse" or "done"

\* All the planes are for the samples.
WrongQuantBits == Prec
\* FloatBuf is quantized to Ff.Prec - 2 bits.
QuantBits == Prec - 2

\* (type2)(Scale * x) for |x| < 2^EMax and Scale = 2^(QuantBits - 1 - EMax).
MaxInt == 2 ^ (QuantBits - 1) - 1

-----------------------------------------------------------------------------
\* "TODO: look into range expansion for this transform" (mg_zfp.inl:19): there is
\* none.  The coefficients are never larger than the samples were allowed to
\* be, whatever is lost in rounding, so that no sum of two overflows and one bit
\* of sign and one of negabinary are room enough.
NoExpansion ==
    pc \in {"forward", "shuffle"} => blk \in [[1 .. 3 -> 0 .. 3] -> -MaxInt .. MaxInt]

\* "this lifting is not perfectly reversible" (mg_zfp.inl:35): what is lost is at
\* most 36 units of the quantization when all planes are there, and at most
\* doubles with each plane that is missing; no coefficient has a plane the coder
\* does not write.
Abs(x) == IF x < 0 THEN -x ELSE x
Loss == 36
WithinLoss ==
    pc = "done" =>
        \A p \in [1 .. 3 -> 0 .. 3] : Abs(blk[p] - orig[p]) <= Loss * 2 ^ cut
=============================================================================
