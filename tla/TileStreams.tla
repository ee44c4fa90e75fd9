---------------------------- MODULE TileStreams ----------------------------
(***************************************************************************)
(* What the chunk files of src/src/mg_file_format.cpp promise, without the *)
(* files: each tile has a place for its chunk 0, 1, 2, ...; an encoding    *)
(* fills the places of one tile after the other, each in order, and each   *)
(* fill is atomic; it may stop anywhere; a reader finds, for each tile,    *)
(* whatever fills the places up to the first empty one.  A chunk is known  *)
(* by its generation, the encoding that wrote it; 0 is an empty place.     *)
(***************************************************************************)
EXTENDS Integers, Sequences

CONSTANTS
    NT,       \* tiles of the file, NTilesInSubbands
    NK,       \* places of a tile
    MaxGen    \* encodings into the same files

Tiles == 0 .. NT - 1
Places == 0 .. NK - 1

VARIABLES
    pub,      \* the generation in each place of each tile
    gen,      \* encodings started
    need,     \* the chunks of each tile in the present encoding
    at,       \* <<tile, place>> it fills next, or <<>> when none is running
    lost,     \* places that a stopped encoding has left unusable
    result    \* per tile, the generations the last reading found

vars == <<pub, gen, need, at, lost, result>>

Init ==
    /\ pub = [t \in Tiles |-> [k \in Places |-> 0]]
    /\ gen = 0
    /\ need = [t \in Tiles |-> 1]
    /\ at = <<>>
    /\ lost = {}
    /\ result = [t \in Tiles |-> <<>>]

Encode ==
    /\ at = <<>> /\ gen < MaxGen
    /\ gen' = gen + 1
    /\ need' \in [Tiles -> 1 .. NK]
    /\ at' = <<0, 0>>
    /\ result' = [t \in Tiles |-> <<>>]
    /\ UNCHANGED <<pub, lost>>

\* The place after p, <<>> at the end of the encoding.
After(p) ==
    IF p[2] + 1 < need[p[1]] THEN <<p[1], p[2] + 1>>
    ELSE IF p[1] + 1 < NT THEN <<p[1] + 1, 0>> ELSE <<>>

Publish ==
    /\ at # <<>>
    /\ pub' = IF at[2] \in lost THEN pub ELSE [pub EXCEPT ![at[1]][at[2]] = gen]
    /\ at' = After(at)
    /\ UNCHANGED <<gen, need, lost, result>>

\* Only a place no tile has ever filled can be lost.
Stop ==
    /\ at # <<>>
    /\ \/ lost' = lost
       \/ /\ \A t \in Tiles : pub[t][at[2]] = 0
          /\ lost' = lost \union {at[2]}
    /\ at' = <<>>
    /\ UNCHANGED <<pub, gen, need, result>>

\* The places a reader of tile t finds filled.
Found(t) == {k \in Places : \A j \in 0 .. k : j \notin lost /\ pub[t][j] # 0}

\* A tile is read whole.  A reading begins with nothing found.
Read ==
    /\ at = <<>>
    /\ \/ \E t \in Tiles :
             \E n \in 1 .. NK :
                /\ Found(t) = 0 .. n - 1
                /\ result' = [result EXCEPT ![t] = [k \in 1 .. n |-> pub[t][k - 1]]]
       \/ result' = [t \in Tiles |-> <<>>]
    /\ UNCHANGED <<pub, gen, need, at, lost>>

Next == Encode \/ Publish \/ Stop \/ Read

Spec == Init /\ [][Next]_vars
=============================================================================
