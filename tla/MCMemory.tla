------------------------------ MODULE MCMemory -----------------------------
(* Clients and blocks are interchangeable.                                  *)
EXTENDS Memory, TLC

Symmetry == Permutations(Clients) \cup Permutations(Blocks)
=============================================================================
