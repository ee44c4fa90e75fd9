------------------------------ MODULE GridCopy -----------------------------
(***************************************************************************)
(* Copying between grids of volumes, src/src/mg_volume.inl, the way the      *)
(* programs of the library do it: for every block of a volume, the part of   *)
(* its grid that lies in a window is copied into a buffer of the block's      *)
(* size and back from it into another volume (InitBlocks of                   *)
(* src/src/app_visualizer.cpp, the loop over the blocks of                    *)
(* src/src/app_mixed_resolution_grid_test.cpp).  A copy moves one sample per   *)
(* step, and goes astray when one of its two iterators leaves its volume.     *)
(***************************************************************************)
EXTENDS Volumes

CONSTANT Cases       \* records: the dimensions n, the block size and the stride
                     \* of the blocks' grids, and the window

\* Nothing is empty or larger than a vector can say, and the window lies in the
\* volume.
ASSUME CasesAssumption ==
    \A c \in Cases :
       /\ c.n \in Lengths /\ c.block \in Lengths /\ c.strd \in Lengths
       /\ c.window \in [from : Nat \X Nat \X Nat, dims : Lengths, strd : {Vec(1)}]
       /\ \A i \in Axes : c.window.from[i] + c.window.dims[i] <= c.n[i]

VARIABLES case,
          block,     \* the number of the block, and then the number of blocks
          stage,     \* "block", "crop", "in", "out", "astray"
          grid,      \* the grid of the block
          it, dit,   \* the iterators of the source and of the destination
          buf, out   \* the volume of the block and the one copied back to

vars == <<case, block, stage, grid, it, dit, buf, out>>

\* The volume copied from: no two samples are the same.
Source(i) == i + 1

NBlocks == Each(LAMBDA i : (case.n[i] + case.block[i] - 1) \div case.block[i])
BlockAt(k) == <<k % NBlocks[1], (k \div NBlocks[1]) % NBlocks[2],
                k \div (NBlocks[1] * NBlocks[2])>>
BlockDims == Each(LAMBDA i : (case.block[i] + case.strd[i] - 1) \div case.strd[i])

BlockGrid(k) ==
    Grid(Each(LAMBDA i : BlockAt(k)[i] * case.block[i]), BlockDims, case.strd)

NoCopy == [grid |-> Invalid, ptr |-> 0, p |-> Vec(0)]

Init ==
    /\ case \in Cases
    /\ block = 0 /\ stage = "block"
    /\ grid = BlockGrid(0)
    /\ it = NoCopy /\ dit = NoCopy
    /\ buf = [i \in 0 .. Prod(BlockDims) - 1 |-> 0]
    /\ out = [i \in 0 .. Prod(case.n) - 1 |-> 0]

-----------------------------------------------------------------------------
\* An iterator together with its grid.
Start(g, n) == [grid |-> g, ptr |-> Begin(g, n).ptr, p |-> Begin(g, n).p]
Step(i, n) ==
    LET a == Advance([ptr |-> i.ptr, p |-> i.p], i.grid, n)
    IN [i EXCEPT !.ptr = a.ptr, !.p = a.p]

EnterBlock ==
    /\ stage = "block" /\ block < Prod(NBlocks)
    /\ stage' = "crop" /\ grid' = BlockGrid(block)
    /\ UNCHANGED <<case, block, it, dit, buf, out>>

\* A block of which Crop leaves nothing is left out.
SkipBlock ==
    /\ stage = "crop" /\ Crop(grid, case.window).dims = Vec(0)
    /\ stage' = "block" /\ block' = block + 1
    /\ UNCHANGED <<case, grid, it, dit, buf, out>>

\* Copy from the volume to the block's buffer, which is cleared first.
BeginIn ==
    /\ stage = "crop"
    /\ LET crop == Crop(grid, case.window)
       IN /\ crop.dims # Vec(0)
          /\ it' = Start(crop, case.n)
          /\ dit' = Start(Relative(crop, grid), BlockDims)
    /\ stage' = "in"
    /\ buf' = [i \in DOMAIN buf |-> 0]
    /\ UNCHANGED <<case, block, grid, out>>

CopyIn ==
    /\ stage = "in" /\ it.ptr # End(it.grid, case.n)
    /\ IF it.ptr \in DOMAIN out /\ dit.ptr \in DOMAIN buf
       THEN /\ buf' = [buf EXCEPT ![dit.ptr] = Source(it.ptr)]
            /\ it' = Step(it, case.n)
            /\ dit' = Step(dit, BlockDims)
            /\ UNCHANGED stage
       ELSE stage' = "astray" /\ UNCHANGED <<it, dit, buf>>
    /\ UNCHANGED <<case, block, grid, out>>

\* The iterator of the destination is given the dimensions of the source.
WrongBeginOut ==
    /\ stage = "in" /\ it.ptr = End(it.grid, case.n)
    /\ stage' = "out"
    /\ it' = Start(dit.grid, BlockDims)
    /\ dit' = Start(it.grid, BlockDims)
    /\ UNCHANGED <<case, block, grid, buf, out>>

\* Copy back, with the two grids in each other's place.
BeginOut ==
    /\ stage = "in" /\ it.ptr = End(it.grid, case.n)
    /\ stage' = "out"
    /\ it' = Start(dit.grid, BlockDims)
    /\ dit' = Start(it.grid, case.n)
    /\ UNCHANGED <<case, block, grid, buf, out>>

CopyOut ==
    /\ stage = "out" /\ it.ptr # End(it.grid, BlockDims)
    /\ IF it.ptr \in DOMAIN buf /\ dit.ptr \in DOMAIN out
       THEN /\ out' = [out EXCEPT ![dit.ptr] = buf[it.ptr]]
            /\ it' = Step(it, BlockDims)
            /\ dit' = Step(dit, case.n)
            /\ UNCHANGED stage
       ELSE stage' = "astray" /\ UNCHANGED <<it, dit, out>>
    /\ UNCHANGED <<case, block, grid, buf>>

EndBlock ==
    /\ stage = "out" /\ it.ptr = End(it.grid, BlockDims)
    /\ stage' = "block" /\ block' = block + 1
    /\ it' = NoCopy /\ dit' = NoCopy
    /\ UNCHANGED <<case, grid, buf, out>>

Next == EnterBlock \/ SkipBlock \/ BeginIn \/ CopyIn \/ BeginOut \/ CopyOut \/ EndBlock

\* The copy is a loop of one thread that nothing stops.
Spec == Init /\ [][Next]_vars /\ WF_vars(Next)
-----------------------------------------------------------------------------
\* Where window w ends for a grid g that is cut to it.  Crop rounds the last
\* position towards the start of g, and so does it from before the start: less than
\* a stride before g, the window ends at the start of g.
EndFor(g, w) ==
    Each(LAMBDA i : IF g.from[i] - g.strd[i] < LastOf(w)[i]
                    THEN MaxOf(g.from[i], LastOf(w)[i]) ELSE LastOf(w)[i])

\* What of grid g is taken for its part in window w: the positions in the window,
\* and the first ones of a grid that starts less than a stride behind its end.
InWindow(g, w) ==
    LET end == EndFor(g, w) IN {p \in Points(g) : AllLeq(w.from, p) /\ AllLeq(p, end)}

\* After all the blocks, out has the samples of the volume at the positions that
\* Crop takes for those in the window, which all of those are, and nothing else
\* was written: Relative and the iterators of both volumes agree in both
\* directions, also where a block is cut off on any side.
RebuildsWindow ==
    block = Prod(NBlocks) =>
        LET grids == {BlockGrid(k) : k \in 0 .. Prod(NBlocks) - 1}
            asked == {Row(case.n, p) : p \in (UNION {Points(g) : g \in grids})
                                               \cap Points(case.window)}
            taken == {Row(case.n, p) : p \in UNION {InWindow(g, case.window) : g \in grids}}
        IN /\ \A i \in asked : out[i] = Source(i)
           /\ \A i \in DOMAIN out : out[i] = IF i \in taken THEN Source(i) ELSE 0

\* Every copy comes to its end: both iterators stay inside their volumes and
\* the one of the source meets the end it is compared with.
CopiesEnd == <>[](stage = "block" /\ block = Prod(NBlocks))

\* Crop is the intersection, save for the start of a grid that the window ends less
\* than a stride before; nothing that is in the window is left out with a block; and
\* what Crop leaves is a grid that Relative may take: IsSubGrid, as it asserts.
CropsExactly ==
    /\ stage = "crop" /\ Crop(grid, case.window).dims = Vec(0) =>
          InWindow(grid, case.window) = {}
    /\ stage = "in" /\ it.p = Vec(0) =>
          /\ Points(it.grid) = InWindow(grid, case.window)
          /\ AllLeq(grid.from, LastOf(case.window)) =>
                Points(it.grid) = Points(grid) \cap Points(case.window)
          /\ IsSubGrid(it.grid, grid)
          /\ dit.grid.strd = Vec(1)
=============================================================================
