------------------------------ MODULE Wavelet ------------------------------
(***************************************************************************)
(* The wavelet transforms of src/src/mg_wavelet.cpp, one action per pass    *)
(* over an axis, and what is done with their coefficients.  A task is       *)
(*                                                                         *)
(*   codec    Encode and Decode of src/src/mg_file_format.cpp: transform,    *)
(*            write the tiles of every subband, read them into a new volume, *)
(*            transform back.  A tile comes back as it was written: what the *)
(*            coding of a tile loses is the subject of TileCodec.            *)
(*   inplace  ForwardCdf53 and InverseCdf53, in a volume with room for one   *)
(*            extrapolated sample more along each axis.                      *)
(*   form     ForwardCdf53, then FormSubbands.                               *)
(*   tiles    a level of the transform of two tiles that share a column,     *)
(*            and their sum, as TestWaveletBlock does it;                    *)
(*   lookup   a block of a subband and a part of the volume: which of the     *)
(*            coefficients reach it, as the visualizer asks in every frame.   *)
(*                                                                         *)
(* Samples are integers.  The codec's transform undoes itself for every one *)
(* of them; the one in place does so only where no half is rounded, as in    *)
(* floating point: there the samples are multiples of Scale.                 *)
(***************************************************************************)
EXTENDS Lifting, WavGrids

CONSTANTS CodecCases, InPlaceCases, FormCases,   \* sets of <<dimensions, levels>>
          TileCases,       \* set of <<dimensions, shared column>>
          LookupCases,     \* set of <<dimensions, levels>>, of two dimensions
          Heights,         \* of the impulses the codec is given
          Scale,
          TileDims, ZDims  \* of a tile and of a block

\* Volumes are flat along the axes that BuildSubbands does not look at.
FlatLast(n) == \A i \in Axes : i > NumDims(n) => n[i] = 1

\* No level of the transform in place has an even number of samples.
NeverExtrapolates(n, levels) == \A i \in Axes : (n[i] - 1) % 2^levels = 0

\* The visualizer goes through both lists of subbands at once, and asks with
\* strides that 21 bits hold three of, behind the end of the volume too.
Searchable(n, levels) ==
    /\ n \in Lengths /\ levels \in Nat
    /\ FlatLast(n) /\ NumDims(n) = 2 /\ ~Collapses(n, levels)
    /\ 3 * 2^levels <= PackLimit
    /\ \A i \in Axes : n[i] + 2^levels <= PackLimit

\* The tiles of TestWaveletBlock meet in a column inside of the volume, and are
\* lifted without an extrapolated sample: all their rows have an odd number.
SharesColumn(n, c) ==
    /\ n \in Lengths /\ n[1] % 2 = 1 /\ n[2] % 2 = 1
    /\ c \in 1 .. n[1] - 2 /\ c % 2 = 0

ASSUME CasesAssumption ==
    /\ \A c \in CodecCases \cup InPlaceCases \cup FormCases :
          c \in Lengths \X Nat /\ FlatLast(c[1])
    /\ \A c \in LookupCases : Searchable(c[1], c[2])
    /\ \A c \in FormCases : NeverExtrapolates(c[1], c[2])
    /\ \A c \in TileCases : SharesColumn(c[1], c[2])
    /\ Heights \subseteq Int /\ Scale \in Int /\ Scale % 64 = 0
    /\ TileDims \in [Axes -> Nat \ {0}] /\ ZDims \in [Axes -> Nat \ {0}]

VARIABLES task,    \* what is done: kind, n, levels or shared column, src
          phase, step,
          band,    \* the subband whose tiles are written or read
          vol,     \* the volume that is transformed
          file,    \* the tiles written, by their GlobalId
          out,     \* the volume a result is gathered in
          look     \* the last lookup

vars == <<task, phase, step, band, vol, file, out, look>>

\* The content of memory nobody has written.
Junk == 1

\* Room along x only.
WrongDims(t) ==
    Each(LAMBDA i : IF t.kind = "inplace" /\ i = 1 THEN t.n[i] + 1 ELSE t.n[i])

\* The volume a task works in: as large as n, with room where in place.
Dims(t) ==
    Each(LAMBDA i : IF t.kind = "inplace" /\ t.n[i] > 1 THEN t.n[i] + 1 ELSE t.n[i])
Sample(v, i) == IF i \in DOMAIN v THEN v[i] ELSE Junk

\* Impulses, which show where a transform of the kind in place goes wrong since
\* it is linear, and a volume without two equal samples.
Inputs(n, heights) ==
    {[i \in Indices(n) |-> IF i = j THEN h ELSE 0] : j \in Indices(n), h \in heights}
    \cup {[i \in Indices(n) |-> h * (i + 1)] : h \in heights}

\* src, the samples of an n volume, in the volume of the task.
Placed(t) ==
    [i \in Indices(Dims(t)) |->
        LET p == Position(Dims(t), i)
        IN IF \A a \in Axes : p[a] < t.n[a] THEN t.src[Row(t.n, p)] ELSE Junk]

Tasks(kind, cases, heights) ==
    UNION {{[kind |-> kind, n |-> c[1], levels |-> c[2], src |-> s] :
                s \in Inputs(c[1], heights)} : c \in cases}

LookupTasks ==
    {[kind |-> "lookup", n |-> c[1], levels |-> c[2], src |-> [i \in Indices(c[1]) |-> 0]] :
        c \in LookupCases}

NoLookup == [sb |-> -1]

Init ==
    /\ task \in Tasks("codec", CodecCases, Heights)
                \cup Tasks("inplace", InPlaceCases, {Scale})
                \cup Tasks("form", FormCases, {Scale})
                \cup Tasks("tiles", TileCases, {Scale})
                \cup LookupTasks
    /\ phase = CASE task.kind = "tiles" -> "lower"
                 [] task.kind = "lookup" -> "lookup"
                 [] OTHER -> "forward"
    /\ step = 0 /\ band = 1
    /\ vol = Placed(task)
    /\ file = <<>>
    /\ out = [i \in DOMAIN vol |-> 0]
    /\ look = NoLookup

-----------------------------------------------------------------------------
\* The passes go through the axes x, y, z of the levels 0, 1, ...
NPasses == 3 * task.levels
LevelOf(k) == k \div 3
AxisOf(k) == (k % 3) + 1

\* Dims3 of ForwardCdf53: an even dimension is extended by one, then all are
\* halved.
GridDims(n, l) ==
    LET dims[k \in 0 .. l] ==
            IF k = 0 THEN n ELSE Each(LAMBDA i : dims[k - 1][i] \div 2 + 1)
    IN dims[l]

\* The stride is not doubled from level to level.
WrongPassGrid(n, k) ==
    LET d == GridDims(n, LevelOf(k))
        ext(i) == IF i < AxisOf(k) /\ Extrapolates(d[i]) THEN 1 ELSE 0
    IN Grid(Vec(0), Each(LAMBDA i : d[i] + ext(i)), Vec(1))

PassGrid(n, k) ==
    LET d == GridDims(n, LevelOf(k))
        ext(i) == IF i < AxisOf(k) /\ Extrapolates(d[i]) THEN 1 ELSE 0
    IN Grid(Vec(0), Each(LAMBDA i : d[i] + ext(i)), Vec(2^LevelOf(k)))

ForwardPass(v, t, k) ==
    IF t.kind = "codec" THEN ForwardOld(v, t.n, AxisOf(k), DimsLeft(t.n, LevelOf(k)))
    ELSE ForwardInPlace(v, Dims(t), AxisOf(k), PassGrid(t.n, k), t.n, "Normal")

InversePass(v, t, k) ==
    IF t.kind = "codec" THEN InverseOld(v, t.n, AxisOf(k), DimsLeft(t.n, LevelOf(k)))
    ELSE InverseInPlace(v, Dims(t), AxisOf(k), PassGrid(t.n, k), t.n)

ForwardAxis ==
    /\ phase = "forward" /\ step < NPasses
    /\ vol' = ForwardPass(vol, task, step)
    /\ step' = step + 1
    /\ UNCHANGED <<task, phase, band, file, out, look>>

EndForward ==
    /\ phase = "forward" /\ step = NPasses
    /\ phase' = CASE task.kind = "codec" -> "write"
                  [] task.kind = "inplace" -> "inverse"
                  [] OTHER -> "form"
    /\ step' = IF phase' = "inverse" THEN NPasses ELSE 0
    /\ UNCHANGED <<task, band, vol, file, out, look>>

InverseAxis ==
    /\ phase = "inverse" /\ step > 0
    /\ vol' = InversePass(vol, task, step - 1)
    /\ step' = step - 1
    /\ UNCHANGED <<task, phase, band, file, out, look>>

EndInverse ==
    /\ phase = "inverse" /\ step = 0
    /\ phase' = "done"
    /\ UNCHANGED <<task, step, band, vol, file, out, look>>

-----------------------------------------------------------------------------
\* The tiles cut by the end of the subband are not counted.
WrongNumTiles(sb) == Each(LAMBDA i : sb.dims[i] \div TileDims[i])

NumTiles(sb) == Each(LAMBDA i : (sb.dims[i] + TileDims[i] - 1) \div TileDims[i])

NTilesInSubbands(sbs, from, to) ==
    LET sum[s \in from .. to] == IF s = from THEN 0 ELSE sum[s - 1] + Prod(NumTiles(sbs[s - 1]))
    IN sum[to]

\* Tile number k of subband s, at tile and with real samples.
TileOf(sbs, s, k) ==
    LET sb == sbs[s]
        at == Each(LAMBDA i : sb.from[i] + Position(NumTiles(sb), k)[i] * TileDims[i])
    IN [at |-> at,
        real |-> Each(LAMBDA i : MinOf(sb.from[i] + sb.dims[i] - at[i], TileDims[i])),
        id |-> NTilesInSubbands(sbs, 1, s)
                 + Row(NumTiles(sb), Each(LAMBDA i : (at[i] - sb.from[i]) \div TileDims[i]))]

\* The voxels of a tile: block by block, as far as the tile reaches.
Voxels(tile, reach) ==
    LET starts(i) == {z \in 0 .. tile.real[i] - 1 : z % ZDims[i] = 0}
        voxels(i) == 0 .. ZDims[i] - 1
    IN {x \in (starts(1) \X starts(2) \X starts(3))
                \X (voxels(1) \X voxels(2) \X voxels(3)) :
            \A i \in Axes : x[1][i] + x[2][i] < reach[i]}

VoxelRow(n, tile, x) == Row(n, Each(LAMBDA i : tile.at[i] + x[1][i] + x[2][i]))

\* A tile at the end of a subband reads on behind it.
CopyForward(v, n, tile) ==
    [x \in Voxels(tile, TileDims) |-> Sample(v, VoxelRow(n, tile, x))]

CopyInverse(v, n, tile, content) ==
    LET xs == Voxels(tile, tile.real)
        to == {VoxelRow(n, tile, x) : x \in xs}
        from(i) == CHOOSE x \in xs : VoxelRow(n, tile, x) = i
    IN [i \in DOMAIN v |-> IF i \in to THEN content[from(i)] ELSE v[i]]

\* The loops of Encode and Decode over the subbands, and those of WriteSubband
\* and ReadSubband over the tiles.
Coding == phase \in {"write", "read"}
Bands == SubbandExtents(task.n, task.levels)

WriteTile ==
    /\ phase = "write" /\ band \in DOMAIN Bands /\ step < Prod(NumTiles(Bands[band]))
    /\ LET tile == TileOf(Bands, band, step)
       IN file' = [i \in DOMAIN file \cup {tile.id} |->
                     IF i = tile.id THEN CopyForward(vol, task.n, tile) ELSE file[i]]
    /\ step' = step + 1
    /\ UNCHANGED <<task, phase, band, vol, out, look>>

ReadTile ==
    /\ phase = "read" /\ band \in DOMAIN Bands /\ step < Prod(NumTiles(Bands[band]))
    /\ LET tile == TileOf(Bands, band, step)
       IN vol' = CopyInverse(vol, task.n, tile, file[tile.id])
    /\ step' = step + 1
    /\ UNCHANGED <<task, phase, band, file, out, look>>

NextSubband ==
    /\ Coding /\ band \in DOMAIN Bands /\ step = Prod(NumTiles(Bands[band]))
    /\ band' = band + 1 /\ step' = 0
    /\ UNCHANGED <<task, phase, vol, file, out, look>>

\* The volume that is decoded into is new.
BeginDecode ==
    /\ phase = "write" /\ band \notin DOMAIN Bands
    /\ phase' = "read" /\ band' = 1
    /\ vol' = [i \in DOMAIN vol |-> Junk]
    /\ UNCHANGED <<task, step, file, out, look>>

EndRead ==
    /\ phase = "read" /\ band \notin DOMAIN Bands
    /\ phase' = "inverse" /\ step' = NPasses
    /\ UNCHANGED <<task, band, vol, file, out, look>>

-----------------------------------------------------------------------------
\* Copy between the positions of a grid and those of an extent, in order.
FormSubbands ==
    LET extents == SubbandExtents(task.n, task.levels)
        grids == SubbandGrids(task.n, task.levels)
        source(i) ==
            LET s == CHOOSE j \in DOMAIN extents : Position(task.n, i) \in Points(extents[j])
                p == Position(task.n, i)
            IN Row(task.n, Each(LAMBDA a : grids[s].from[a]
                              + (p[a] - extents[s].from[a]) * grids[s].strd[a]))
    IN /\ phase = "form"
       /\ out' = [i \in DOMAIN vol |-> vol[source(i)]]
       /\ phase' = "done"
       /\ UNCHANGED <<task, step, band, vol, file, look>>

-----------------------------------------------------------------------------
\* The lower tile ends with the shared column, the upper one starts with it.
TileExtent(t) ==
    IF phase = "lower" THEN Extent(Vec(0), [t.n EXCEPT ![1] = t.levels + 1])
    ELSE Extent([Vec(0) EXCEPT ![1] = t.levels], [t.n EXCEPT ![1] = @ - t.levels])

LiftTile ==
    /\ phase \in {"lower", "upper"} /\ step < 2
    /\ vol' = ForwardInPlace(vol, task.n, AxisOf(step), TileExtent(task), task.n,
                  IF phase = "lower" /\ step = 0 THEN "PartialUpdateLast" ELSE "Normal")
    /\ step' = step + 1
    /\ UNCHANGED <<task, phase, band, file, out, look>>

\* The upper tile is lifted in a copy of its own of the samples.
AddTile ==
    /\ phase \in {"lower", "upper"} /\ step = 2
    /\ out' = [i \in DOMAIN out |-> IF Position(task.n, i) \in Points(TileExtent(task))
                                    THEN out[i] + vol[i] ELSE out[i]]
    /\ phase' = IF phase = "lower" THEN "upper" ELSE "done"
    /\ step' = 0
    /\ vol' = task.src
    /\ UNCHANGED <<task, band, file, look>>

-----------------------------------------------------------------------------
\* Block number k of two by two coefficients of subband s, in place.
BlockOf(s, k) ==
    LET sb == SubbandExtents(task.n, task.levels)[s]
        from == Each(LAMBDA i : sb.from[i] + 2 * k[i])
        crop == Crop(Extent(from, <<2, 2, 1>>), sb)
        local == Extent(Each(LAMBDA i : crop.from[i] - sb.from[i]), crop.dims)
    IN SubGrid(SubbandGrids(task.n, task.levels)[s], local)

LookUp ==
    LET halves(m) == 0 .. (m - 1) \div 2
    IN /\ phase = "lookup" /\ look = NoLookup
       /\ \E s \in DOMAIN SubbandExtents(task.n, task.levels) :
            LET d == SubbandExtents(task.n, task.levels)[s].dims
            IN \E k \in halves(d[1]) \X halves(d[2]) \X {0},
                  from \in Points(Extent(Vec(0), task.n)),
                  to \in Points(Extent(Vec(0), task.n)) :
                 LET g == BlockOf(s, k)
                     values == Extent(from, Each(LAMBDA i : to[i] - from[i] + 1))
                 IN /\ AllLeq(from, to)
                    /\ look' = [sb |-> s - 1, g |-> g, values |-> values,
                                grids |-> ComputeWavGrids(2, s - 1, values, g, Vec(1000))]
       /\ UNCHANGED <<task, phase, step, band, vol, file, out>>

\* The next frame asks anew.
EndLookUp ==
    /\ phase = "lookup" /\ look # NoLookup
    /\ look' = NoLookup
    /\ UNCHANGED <<task, phase, step, band, vol, file, out>>

Done == phase = "done" /\ UNCHANGED vars

Next ==
    \/ ForwardAxis \/ EndForward \/ InverseAxis \/ EndInverse
    \/ WriteTile \/ ReadTile \/ NextSubband \/ BeginDecode \/ EndRead
    \/ FormSubbands \/ LiftTile \/ AddTile
    \/ LookUp \/ EndLookUp \/ Done

Spec == Init /\ [][Next]_vars
-----------------------------------------------------------------------------
\* Some pass in place lifts a row more than once and, each time, extrapolates it
\* from its own last sample: two positions of another axis are behind the end.
Relifts(n, levels) ==
    \E k \in 0 .. 3 * levels - 1 :
        LET g == PassGrid(n, k)
            a == AxisOf(k)
        IN /\ Extrapolates(g.dims[a]) /\ g.dims[a] > 2 /\ LastOf(g)[a] < n[a]
           /\ \E i \in Axes \ {a} : LastOf(g)[i] - g.strd[i] >= n[i]

SamplesReturn ==
    \A i \in Indices(task.n) : vol[Row(Dims(task), Position(task.n, i))] = task.src[i]

\* What Decode puts together is what Encode was given, and InverseCdf53 gives
\* back what ForwardCdf53 has transformed, unless Relifts: no sample is lost where
\* an axis has an odd number of them, where it is used up before the last level,
\* where a tile is cut by the end of a subband, in the extrapolated samples, or in
\* the rows of those that are lifted several times and not extrapolated themselves.
Reconstructs ==
    phase = "done" /\ ( \/ task.kind = "codec"
                        \/ task.kind = "inplace" /\ ~Relifts(task.n, task.levels))
        => SamplesReturn

\* InverseCdf53 gives back what ForwardCdf53 has transformed, whatever the
\* dimensions, as TestWavelet asserts for its volumes (mg_wavelet_test.cpp:193).
InverseUndoesForward ==
    phase = "done" /\ task.kind = "inplace" => SamplesReturn

\* The codec's transform, pass by pass.
OldPasses(t) ==
    LET v[k \in 0 .. 3 * t.levels] ==
            IF k = 0 THEN t.src
            ELSE ForwardOld(v[k - 1], t.n, AxisOf(k - 1), DimsLeft(t.n, LevelOf(k - 1)))
    IN v

\* The transform in place followed by FormSubbands is the transform of the
\* codec, where nothing is extrapolated.
AgreesWithOld ==
    phase = "done" /\ task.kind = "form" => out = OldPasses(task)[NPasses]

\* Two tiles that share a column, the lower one with PartialUpdateLast, add up
\* to the transform of the whole (TestWaveletBlock).
TilesAddUp ==
    phase = "done" /\ task.kind = "tiles" =>
        out = LET g == Extent(Vec(0), task.n)
              IN ForwardInPlace(ForwardInPlace(task.src, task.n, 1, g, task.n, "Normal"),
                                task.n, 2, g, task.n, "Normal")

\* The assertions at the head of the lifting functions hold at every pass in
\* place, whatever the dimensions and for any number of levels.
LiftsAreLegal ==
    phase \in {"forward", "inverse"} /\ task.kind # "codec" =>
        \A k \in 0 .. NPasses - 1, a \in Axes :
            LET g == PassGrid(task.n, k)
            IN a = AxisOf(k) =>
                 LiftAsserts(g.from[a], g.dims[a], g.strd[a], task.n[a], Dims(task)[a])

\* The subbands of the transform in place are a partition of the volume; those
\* of the codec cover it, and do so without overlap and one for one with the
\* others unless an axis is used up before the last level.
SubbandsPartition ==
    LET extents == SubbandExtents(task.n, task.levels)
        grids == SubbandGrids(task.n, task.levels)
        all == Points(Extent(Vec(0), task.n))
        covers(sbs) == UNION {Points(sbs[s]) : s \in DOMAIN sbs} = all
        disjoint(sbs) == \A s, u \in DOMAIN sbs :
                            s # u => Points(sbs[s]) \cap Points(sbs[u]) = {}
    IN phase = "forward" /\ step = 0 =>
          /\ covers(extents) /\ covers(grids) /\ disjoint(grids)
          /\ ~Collapses(task.n, task.levels) =>
                /\ disjoint(extents)
                /\ [s \in DOMAIN extents |-> extents[s].dims]
                     = [s \in DOMAIN grids |-> grids[s].dims]

\* SubbandToLevel tells where BuildSubbands has put a subband, and
\* LevelToSubband is its inverse.
LevelsAgree ==
    LET grids == SubbandGrids(task.n, task.levels)
        nd == NumDims(task.n)
    IN phase = "forward" /\ step = 0 /\ nd > 1 /\ ~Collapses(task.n, task.levels) =>
          \A s \in DOMAIN grids :
             /\ \A i \in 1 .. nd :
                   (SubbandToLevel(nd, s - 1, TRUE)[i] = 1) <=> (grids[s].from[i] > 0)
             /\ nd = 3 => LevelToSubband(SubbandToLevel(3, s - 1, FALSE)) = s - 1

\* The wavelet grid of ComputeWavGrids holds just the coefficients whose
\* footprint (WavFootprint) meets the values that are asked for; the value grid
\* holds the values at the multiples of its stride.
LookupsExact ==
    look # NoLookup =>
        LET at(p) == [look.g EXCEPT !.from = p, !.dims = Vec(1)]
            meets(p) == LET f == WavFootprint(2, look.sb, at(p))
                        IN /\ AllLeq(f.from, LastOf(look.values))
                           /\ AllLeq(look.values.from, LastOf(f))
            reaching == {p \in Points(look.g) : meets(p)}
        IN /\ Points(look.grids.wav) = reaching
           /\ reaching # {} =>
                Points(look.grids.val) =
                  {p \in Points(look.values) :
                     \A i \in Axes : p[i] % look.grids.val.strd[i] = 0}
=============================================================================
