---------------------------- MODULE MCTileCodec ----------------------------
(* Chunk sizes for tiles of two blocks, two planes and two-bit exponents,   *)
(* whose EMaxes take two to six bits.                                       *)
EXTENDS TileCodec

\* A size an EMax may end exactly; one bit more; a size that splits planes
\* anywhere and holds some tiles whole.
MCChunkBits == {3, 4, 8}

\* A chunk that holds a tile whole.
MCWholeTile == {16}
\* Below what two bits and a bias of one can say, as the exponent of a block of
\* zeros is for a volume of f32; and the exponent of the tolerance zero.
MCMinExp == -2
=============================================================================
