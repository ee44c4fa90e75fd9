----------------------------- MODULE MCBitPlane -----------------------------
(* Blocks of four coefficients and chunks of two to six bits: every plane, *)
(* every N and every position of the chunk boundary.                       *)
EXTENDS BitPlane

MCChunkBits == 2 .. 6
=============================================================================
