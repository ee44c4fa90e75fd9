# Morning Glory: verification project

Morning Glory is a C++ library that stores a volume of floating-point samples
as chunks of bits that can be read progressively: the volume is wavelet
transformed, cut into tiles and blocks of 4 x 4 x 4, each block is coded bit
plane by bit plane as zfp does it, and the bits of a tile are cut into chunks of
a fixed size that are spread over files. A reader may have only the first few
chunks of every tile and gets an approximation.

This directory holds TLA+ models of that program, the TLC configurations that
check them on small instances, and proofs for TLAPS of what holds for every
instance. Paths are relative to the directory above this one; the library is
in `src/src/`.

Run from this directory, for example:

    tlc -workers 2 -config ChunkFile.cfg ChunkFile
    tlapm ChunkFile_proofs.tla

`PROJECT.json` lists the components, the runs, the lines each definition
models, the hazards, the theorems and, for each property, a mistake in the code
that breaks it. An operator named `Wrong...` is such a mistake, defined beside
the operator whose place it takes; no specification uses it.

## 1. The system

One thread encodes, and one thread, in the same or another process and usually
later, decodes. Nothing is shared but the files. The difficulty is not in
concurrency but in *resumption*: the coder stops wherever a chunk ends, in the
middle of three nested loops, and the decoder must stop and continue in the same
places with no information but the bits; and in *what is left behind* when an
encoding stops half way through files that others will read or append to.

| Component | Sources in `src/src/` | State | Operations | Used by | What makes it correct |
|---|---|---|---|---|---|
| bit-plane coder | `mg_zfp.cpp` 9-86 | N, M, P, InnerLoop of a call; N carried from plane to plane | Encode, Decode of one plane, until it is complete or the chunk is full | tile codec | the decoder follows the encoder bit by bit over any chunk boundaries; no bit is lost or added twice; nothing out of the block or chunk |
| tile codec | `mg_file_format.cpp` 100-128, 162-262, 477-539 | Bp, Block, Ns, EMaxes, the stream, the chunks of the tile | WriteTile, DecompressTile, WriteEMax, ReadEMax | chunk files | any prefix of the chain decodes to a prefix of the tile; chunks are full, none is empty; both sides end |
| chunk files | `mg_file_format.cpp` 130-156, 381-473, 543-611 | one file per chunk number: meta data, header (one entry per tile), chunks | WriteChunk, ReadNextChunk, Encode, Decode | applications | a header leads only to a whole chunk of its tile; an encoding that dies leaves what was complete readable |
| bit stream | `mg_bitstream.h/.inl` | BitPtr, BitBuf, BitPos, the bytes | Write, WriteLong, RepeatedWrite, Put, Flush; Read, ReadLong, Refill, Peek, Consume; InitWrite, InitRead, GrowToAccomodate, Rewind | coder, codec | what is read is what was written; nothing beyond the slack of one word |
| in-block transforms | `mg_zfp.inl`, `mg_signal_processing.*` | none | lifting, negabinary, shuffle, Quantize, Dequantize | tile codec | nothing outgrows the planes that are coded; what is lost is bounded |
| wavelet and subbands | `mg_wavelet.*` | the volume, in place; for each level its grid | ForwardCdf53Old, ForwardCdf53 and their inverses, BuildSubbands, FormSubbands, ComputeWavGrids | Encode, Decode, visualizer | the subbands partition the volume; forward and inverse agree, and the two transforms; a lookup finds the coefficients that matter and no others |
| volumes and grids | `mg_volume.*` | packed dimensions and strides | Crop, Relative, SubGrid, Copy, Add, iteration | wavelet, tile codec | a copy moves the samples it should and no others, and ends |
| allocators | `mg_memory.*` | linear: a bump pointer; free list: blocks taken back | Alloc, Dealloc, DeallocAll | everything | no byte handed out twice, no block lost, each returned to its owner |
| containers | `mg_array.*`, `mg_linked_list.*` | size, capacity, nodes | PushBack, Resize, Clear, Dealloc | everything | growth keeps the elements |
| logger | `mg_logger.*` | a table of 16 open files | Log, SetBuf | diagnostics | an open file is found again |
| errors | `mg_error.*`, `mg_expected.*`, `mg_scopeguard.h` | a thread-local stack of 64 places | mg_Error, mg_PropagateError | everything | the stack stays within its arrays |
| the rest | see `PROJECT.json` | | text, files, time, mutexes, diagnostics, vendored code | | |

How they interact. `Encode` transforms the volume and walks the subbands and
tiles; `WriteTile` alternates `WriteEMax`/`Encode` (zfp) on one bit stream and,
each time the stream holds a chunk, hands it to `WriteChunk`, which opens the
file of that chunk number, appends, and then goes back to set the tile's header
entry. `Decode` reads the meta data from the first file, then for each tile
calls `ReadNextChunk` until there is no next one, and `DecompressTile` on the
list it has built. The only state that survives a process is in the files.

Hard behaviours, by component: the coder, resumption at every bit; the codec,
exponents interleaved with the first plane, tolerance, a chain that ends
early; the files, death between any two file operations, encoding again into
the same files; the bit stream, shifts at the width of a word and stale bits;
the transforms, axes of every parity that are used up at different levels, and
arithmetic that must fit the planes; the allocators, long sequences of legal
calls; the grids, windows that cut a block between two of its positions. `PROJECT.json` lists each at its line, under "hazards".

## 2. The modules

| Module | Models | |
|---|---|---|
| `ZfpCoder` | one pass of each loop of Encode and Decode | operators only, shared by the next two |
| `BitPlane` | one plane of one block, over as many chunks as it takes | Encode then Decode |
| `TileCodec` | a whole tile: planes, blocks, exponents, chain of chunks | WriteTile then DecompressTile |
| `ChunkFile` | the files; Encode, Decode, and encodings that die | |
| `TileStreams` | what the files promise | abstract; `ChunkFile` implements it |
| `Bitstream` | the words and bytes of a bit stream | |
| `BitSequence` | what a bit stream promises | abstract; `Bitstream` implements it |
| `Volumes` | extents, grids, Crop, Relative, iterators | operators only, shared by the next five |
| `Subbands` | BuildSubbands in both forms, the numbers of the subbands | operators only |
| `WavGrids` | which coefficients reach which samples | operators only |
| `Lifting` | the lifting steps on a row and on the rows of a volume, both transforms | operators only |
| `Wavelet` | the two transforms pass by pass, the tiles of a volume, the lookups | five tasks |
| `GridCopy` | copying blocks of a volume out and back, sample by sample | Copy, Crop, Relative |
| `BlockRange` | the integers of a block: that they stay in their range, and how much of them is lost | shared by `ZfpBlock` and the proofs about it |
| `ZfpBlock` | what is done to a block before its planes are coded and after they are decoded | ForwardZfp, ForwardShuffle and inverses |
| `Memory` | the four allocators, one on top of the other, and their clients | |
| `Logger` | the table of open files | |
| `MCBitPlane`, `MCTileCodec`, `MCWavelet`, `MCGridCopy`, `MCMemory`, `MCZfpBlock` | values and inputs for TLC | |
| `Operators_proofs` | lemmas about the operators of `ZfpCoder`, `Volumes` and `Lifting` | shared by the next two and the last |
| `Block_proofs` | proofs about `BitPlane` and `ZfpBlock` | |
| `TileCodec_proofs` | proofs about `TileCodec` | |
| `ChunkFile_proofs`, `Bitstream_proofs` | proofs about `ChunkFile` and `Bitstream`, with their refinements | |
| `Memory_proofs` | proofs about `Memory` | |
| `GridCopy_proofs` | proofs about `GridCopy` and the operators of `Volumes` | |
| `Transforms_proofs` | proofs about `Lifting`, `Subbands` and `Wavelet` | |

What one module hands to another. A volume goes through `Wavelet` (transform,
subbands, tiles); a tile comes back there as it was written. What the coding of a
tile does is `ZfpBlock` for its samples and `TileCodec` for its bits, on the coder
that `BitPlane` examines one plane at a time. The chunks `TileCodec` produces are
what `ChunkFile` stores, and the bits in them what `Bitstream` packs.

### ZfpCoder and BitPlane

A call of `Encode` is a record: `n`, `m`, `p` are N, M and P, `in` is InnerLoop,
`lb` the last bit written (the `Write(...)` in a loop's condition), `ci` and
`fill` the chunk and the bits in it, `pc` the place in the code. The pieces are
the refinement bits (`EncCall`, 14-21), the outer loop's test (`EncGroup`, 24),
the inner loop (`EncInner`, 28), what follows it (`EncAfter`, 34-45), and
the return. `Decode` has the same pieces; it has its own record with the bits X
and the block, and sees the encoder only through the set `ones` of
addresses that hold a one. A plane is the set of coefficients whose bit is set:
the value of a coefficient is the union of its planes, and the planes do not
interact except through `n`.

What the caller does when a call returns (write the chunk or take the next one,
call again) is part of the actions `Encode_Return` and `Decode_Return`. The plane
may start with any `n` and any fill of the chunk, as it does in the middle of a
tile.

### TileCodec

`WriteTile_Block` is the head of the block loop with `WriteEMax`; `EncodePiece` a
piece of zfp's Encode; `WriteTile_Turn` the end of the `do ... while`. On the
reading side the same three, and `DecompressTile_Begin`, which chooses how many
chunks of the chain were found. Chunks are sequences of bits here. An exponent
has its bits (`BitsOf`, `ValueAt`), as its width is what matters at a
boundary. `MinExp` is the least exponent Quantize gives: the buffer it reads is
of f64 whatever the type of the volume, so that it may be less than the exponent
field can say. `Ns`, `EMaxes` and the chain position are carried from
plane to plane as the code does.

The pieces of zfp's coder come from the same `ZfpCoder` as `BitPlane`. The code
may leave its buffers, when an exponent crosses the end of a chunk; the
models go to "outside" there and stop, and `torn` records the circumstances.
`StaysInside` says that this is the only way.

### ChunkFile and TileStreams

A file is a flag for its existence, one for its header, the sequence of chunks
after it (`body`), and the header entries (`where`), which hold the number of a
chunk rather than its offset. A chunk is known by the encoding that wrote it
(`gen`), its tile and number. `WriteChunk` is three actions because the program
may die between them: `WriteChunk_Open` (fopen), `WriteChunk_Data` (everything up to
the `mg_FSeek` back to the header, which makes it reach the file) and
`WriteChunk_Where` (the header entry and `fclose`, then `WriteTile`'s next chunk or
the next tile). `Die` may happen before each, with any part of what was buffered
in the file: a chunk, a part of a chunk, the header alone. `Encode` may then
run again over what is there. Reading is one action per chunk of a tile.
A Decode and an Encode do not run at the same time.

`rpc = "outside"` stands for behaviour that depends on bytes the model does not
have: reading with no meta data, an entry inside a file without a header, a part
of a chunk, a tile without chunks. `CompleteReadable` says when it cannot happen.

`TileStreams` promises, without files, that each tile has places that an
encoding fills in order and atomically, and that a reader finds what fills the
places up to the first empty one. The refinement maps the entry of file `k` for
tile `t` to the generation of the chunk it leads to. The one thing that is not
hidden is `lost`: a place whose file was created but died without its header
remains unusable for good, since a later `WriteChunk` finds the file there and does
not write the header.

### Bitstream and BitSequence

Words and bytes have widths that are parameters (`WordBytes` bytes of `ByteBits`
bits for 8 of 8). A number is the set of the positions of its ones, and the
memory the set of the addresses of the ones in it, so that shifts and masks are
sums and intersections. `Flush` shifts by `(BytePos << 3) - 1`; with no whole byte
in the buffer that is a shift by -1, and any result is possible. The abstract
`BitSequence` is a sequence of bits, written at the end and read from the front.

Flush and Refill move a whole word at the place of the cursor. The memory of the model has
as many bits as `Limit`, those of a chunk, and the slack of one word behind them:
`InsideStream` says that no word begins behind `Limit`, hence none ends behind the slack. For the writer
that is what WriteSubband allocates, `ChunkBytes + BufferSize` (`mg_file_format.cpp:250`).
The reader's stream is allocated with the same slack (565), but never read from: InitRead
replaces it by the chunk itself, whose buffer, `ChunkBuf` (575), has exactly `ChunkBytes`
and no slack. So for the reader `InsideStream`, and `StaysInsideStream`
in section 5, hold relative to a word of room that the code does not give it: the last
Refill of a chunk may load up to seven bytes from behind the buffer.
None of these bits is used, as only bits that were written are asked for.

### Volumes, Subbands, WavGrids, Lifting and Wavelet

`Volumes` has the vectors, grids and iterators of the library as the code
computes them, with C's division towards zero and components that are kept in
21 bits; the reference they are judged by is `Points`, the set of the positions a
grid stands for. `Subbands` gives the two forms of BuildSubbands (extents for the
transform that moves the halves of an axis apart, grids of growing stride for the
one in place), the order of the subbands with 3 and 4 exchanged, and the two
functions between a subband and its level. `WavGrids` is the arithmetic of
WavFootprint and ComputeWavGrids.

In `Lifting` a row is a function of the position, and a *stencil* says which
positions are odd and what their neighbours are: that is all in which the two
implementations differ, apart from the extrapolated sample and the move of the
odd samples. `OnRows` applies a row's lifting to the rows of a volume along an axis. In
place, the loops go through the positions of the grid on the two other axes, and each of
them that is behind the end of its axis stands for the row of extrapolated samples
(`Min(y, M.y)`, `mg_wavelet.inl:31` and 33). There may be several: 6 samples have the
positions 0, 2, 4, 6 at the second level and one more, 8, once they are extrapolated there,
so that 6 and 8 are the same column. The row is then lifted as often as there are such positions (`Visits`,
`Repeated`), in the same pass, each time from what the last time has left.

`Wavelet` is one action per pass over an axis (`ForwardAxis`, `InverseAxis`), per tile
(`WriteTile`, `ReadTile`) and per turn of the loops over the subbands (`NextSubband`);
`band` and `step` are the subband and the tile or pass that come next. A task is a
*codec* run (forward passes, the tiles of all subbands written and read in the order of
the loops of Encode and Decode, inverse passes), a run of the transform *in place*, the same with
FormSubbands (*form*), two *tiles* with a common column lifted one after the
other and added, or the *lookup*s of the visualizer.

### GridCopy

What InitBlocks and the mixed-resolution program do with every block: cut its
grid by a window (`Crop`), copy that to a buffer of the block, and back into
another volume. One step is one sample; the iterators are the code's, which compare
a pointer with the one behind the last sample and never look at the position, so that
one that steps wrongly goes on for ever or leaves its volume ("astray").
A block is copied when Crop leaves anything of it, whatever that is. Crop divides towards
zero, so that a window that ends before the first position of a block's grid, but less than
a stride before it, is rounded up to that position: it is copied although it is not in
the window.

### ZfpBlock

A block is a function on the 64 points of the block, first to samples, then to
sets of planes. `Along` lifts all the rows along an axis; a pass is an action. The
decoder has the planes from `cut` up. Both sides use the same table of
coefficients, which is left out, and Quantize is what it guarantees: samples of
at most `MaxInt`.

### Memory

A pointer is a block and an offset. Each buffer says which allocator it is to be
given back to (`alloc`), while arrays remember the allocator they asked (`via`): the
two differ for the fallback allocator, and both ways of giving back are actions.
`LinearDeallocAll` has the one duty the code leaves to its clients as its guard. The
allocators but malloc have no callers in the sources at present (the only use of
the free list is commented out), so the clients are any that obey the interface.
malloc never fails here: the code ends the program when it does.

### Logger

The slot a name is hashed to is chosen by Init. Two different names are taken to
have different hashes.

## 3. The runs

| Run | Instance | States | Shows |
|---|---|---|---|
| `bitplane` | blocks of 4, chunks of 2 to 6 bits, all planes, all N and fills | 43 000 | Decode follows Encode over every boundary |
| `tilecodec` | 2 blocks of 3, 2 planes, exponents of 2 bits, chunks of 3, 4, 8 bits, every tile and every prefix of its chain | 1 040 000 | a prefix of the chain decodes to a prefix of the tile; both loops end |
| `tilecodec_emaxes` | as `tilecodec` | | *violated*, see below |
| `tilecodec_exponents` | blocks of 2, the tolerance zero, a chunk that holds the tile | | *violated*, see below |
| `chunkfile` | 2 tiles, 3 files, 2 encodings that may die | 48 000 | headers, generations, what is readable; the files implement `TileStreams` |
| `bitstream` | bytes of 2 bits, words of 3 bytes, writes of up to 4 bits, 8 bits | 41 000 | the stream implements `BitSequence` |
| `wavelet` | 22 volumes of one to three dimensions, of 4 to 45 samples, one to four levels | 14 000 | both transforms undo themselves and agree, tiles add up, subbands partition the volume, lookups are exact |
| `wavelet_inplace` | 6 x 7 samples, two levels, in place | | *violated*, see below |
| `gridcopy` | 3 volumes, 3 strides, windows that cut at either end | 4 700 | blocks copied out and back rebuild the window |
| `memory` | 3 clients, 3 blocks, a stack of 5 bytes, requests of 1 to 4 | 43 000 | nothing handed out twice, lost, or given to the wrong owner |
| `zfpblock` | 12 planes, 6 800 blocks, all planes or all but the lowest one or two | 116 000 | no range expansion, bounded loss |
| `logger_documented` | 3 names, 3 slots | | *violated*, see below |

Why the bounds are enough. *Coder*: the loops treat the first coefficient, the
last (no bit of its own) and those between differently, and with four there is a
run of two in between; 2 bits are less than any group, 6 hold most planes whole,
and every fill at the start puts the boundary on every bit. (What holds for
all sizes is proved, section 5.) *Tile*: two blocks and two planes have every
kind of succession (next block, next plane, first plane with its exponent, last
block of the last plane); the chunk sizes are named in `MCTileCodec`; exponents
of two bits cover an insignificant block, one plane, and all planes.
*Files*: two tiles have a first and a last, three files give a chunk after a
chunk that died, two encodings an old and a new one; more of each is covered by
proofs. *Bit stream*: a word of three bytes of two bits has a first, middle
and last byte; a stream of 8 bits is longer than a word, so that the word
moves. The longest write, 4, is to the word of 6 bits what 56 is to 64: the
longest that never meets a word with less than a byte to flush. (`Write` is declared for
"Count <= 64 - 7", `mg_bitstream.h:61`. With `BitPos` at 7 and a `Count` of 57 it would
call `Flush` with less than a byte used, which shifts by -1, `mg_bitstream.inl:92`: the bound
in the comment is one too high. The sources never ask for so many bits.)

*Wavelet*: samples are integers. The codec's transform undoes itself for all of
them, as the same rounded halves are taken and given back, so its inputs are odd and
negative. The transform in place does so only where no half is rounded (it is used
on floating point), so its samples are multiples of 65536, of which all halves and
quarters that occur are exact. Impulses at every sample suffice for a transform
that is linear there; a volume without two equal samples is added. The volumes have
odd, even and two samples along an axis, axes that are used up at different
levels, and levels that need an extrapolated sample first, later or never; with 6 x 5,
6 x 6 and 2 x 2 x 5 samples the row of extrapolated samples is lifted several times in one
pass, without being extrapolated itself. Blocks
are two samples wide instead of four, tiles 4 x 2 x 2, so that tiles have more
than one block and end inside a block. Only the last axes of a volume are flat, as in all clients.
Lookups are in two dimensions, for every pair of corners of the window.
*Copies*: on each axis a last block that is cut, a window that starts and ends
inside a block and, with the strides, between two positions, or less than a stride before a
block. *Allocators*: the stack
holds one block of the free list or more small buffers; requests are below, in and
above what the list keeps; three clients allow one buffer between two others. What
holds for all sizes is proved. *Blocks*: the transform rounds, so that no set of
inputs is enough; the products of a row over the four levels of `MCZfpBlock` include the
extremes and the numbers whose negabinary takes all planes, and the blocks rebuilt from
coefficients of one absolute value are those that lose most without one or two planes.
`NoExpansion` and `WithinLoss` are proved for all blocks: these come to a loss of more
than 27 units for each 2^cut, where the theorem allows 36.

`MaxGen` bounds the encodings, `Limit` the bits of a stream, `NK` the chunks of a tile,
`Blocks` the heap, `Cap` the stack, `MaxSlots` the table of the logger.
`CHECK_DEADLOCK FALSE` is given where the program ends: the coder, the codec, the
copy of all blocks, the coding of a block, the logger after its abort, and the
files when the encodings are used up and the reader has read. `Wavelet` stutters
when it is done, and `Memory` never stops.

Fairness. `TileCodec!FairSpec` and `GridCopy!Spec` have weak fairness on `Next`: one
thread, which never waits. `ChunkFile!FairSpec` has weak fairness on `WriteChunk` and
on `Reading`, as each is a loop that runs on; there is none on `Encode` and `Decode`,
which somebody has to call, nor on `Die`.

### Four disagreements

*`tilecodec_emaxes`.* `Finalize` says "Chunk size must be large enough to store
all the EMaxes in a tile" (`mg_file_format.cpp:271`) and requires
`Prod(TileDims / ZDims) * ExpBits` bits. `WriteEMax` writes one bit more for a
significant block (106-110), and the EMaxes are interleaved with the first bit plane
(178-203) rather than put in front. The run finds an accepted size with
which an EMax is not wholly in the first chunk. `WriteEMax` does not check the
room, so that an EMax may also be cut.

*`tilecodec_exponents`.* `Exponent` clamps "in case Val is denormal"
(`mg_math.inl:57`), so that the exponent fits the field of the type. But a block is
quantized from a buffer of f64 also where the volume is of f32, and `WriteEMax<f32>`
writes 8 bits of it. With the default tolerance 0 a block of zeros counts as
significant: its exponent -1023 is written as -1023 + 127, which is 128 modulo 256,
and read as 1. The encoder has coded one plane of that block, the decoder expects
all of them, and the rest of the tile is read out of step.

*`wavelet_inplace`.* TestWavelet asserts that ForwardCdf53 and InverseCdf53 on
7 x 6 x 5 samples with two levels give back every sample (`mg_wavelet_test.cpp:193`). With
x and y exchanged they do not. An axis x of 6 samples has the positions 0, 2, 4, 6, 8 at the
second level, the last two of which are both the extrapolated column 6. The pass along an
axis y of 7 samples, which has 4 positions there and so extrapolates, lifts that column
twice: the second time from a last sample whose neighbour the first has updated,
and what was stored behind the end is overwritten. The inverse goes through the column
twice, too, but finds the last sample again from the second extrapolation only, and the
samples (5, 5) and (5, 6) come back changed. It takes two positions behind the end of one axis and
an extrapolation along another (`Relifts`): a volume with equal sides, or that of the test,
is not affected.

*`logger_documented`.* `GetFileHandle` aborts with "No more logger slots" for "no more
open slots" (`mg_logger.cpp:47`). After a collision the probe stops at an empty slot or
where this very file is open already; the test that follows takes the second for
a full table. Logging twice to a file that was moved from its slot ends the program.

## 4. What the properties say

*Coder* (`BitPlane`): `Lockstep` — after k pieces the decoder is where the
encoder was after k pieces, for the same chunk, bit, N, M, P and In.
`PlaneRecovered` — a plane reported as decoded is the plane. `DecodedOrExhausted` — the
assertion of `DecompressTile`. `WithinBounds`, `DepositedOnce`.

*Tile* (`TileCodec`): `DecodesThePrefix`, `StaysInside`, `AllBlocksCopied`,
`ChainWellFormed`, `Finishes`. The first three exclude, by `torn`, tiles one of
whose exponents crossed the end of a chunk. `AllBlocksCopied` also requires room in
the last chunk: when it is exactly full, the decoder takes "no next chunk" for
a truncated chain and stops at the block it is in (`mg_file_format.cpp:524-535`).

*Files* (`ChunkFile`): `HeaderIntegrity`, `NewestFirst`, `CompleteReadable`,
`InItsPlace`, `AppendOnly`, `Terminates`, `Implements`.

*Bit stream*: `InsideStream`, `CleanAbove`, `Implements`.

*Wavelet* (`Wavelet`): `Reconstructs` — what Decode puts together from the tiles is
what Encode was given, and InverseCdf53 undoes ForwardCdf53 but for the volumes of `Relifts`,
where a row that is extrapolated is lifted twice in a pass. `InverseUndoesForward` is the
same for all volumes, and does not hold. `AgreesWithOld` — the
transform in place, brought into the order of the subbands, is the codec's.
`TilesAddUp` — two tiles that share a column may be lifted apart, as the test
TestWaveletBlock does. `LiftsAreLegal` — the assertions of the lifting functions.
`SubbandsPartition`, `LevelsAgree` — three functions count the subbands in the
same order, and each sample belongs to one. It holds for the extents of the codec
only while no axis is used up before the last level: then BuildSubbands makes
extents that overlap (`Collapses`), which costs space and not correctness, as
`Reconstructs` shows for such volumes. `LookupsExact` — the coefficients
ComputeWavGrids returns are those whose footprint meets the window.

*Copies* (`GridCopy`): `CropsExactly` — what Crop leaves of a block is its intersection with
the window, unless the window ends before the block's grid starts. Then it should be
nothing, and is not where the window ends less than a stride before: the grid keeps its
first position on that axis. `EndFor` says where a window ends for Crop, `InWindow` what is in
it so. `RebuildsWindow` — after all the blocks, every position of their grids that is in
the window has its sample, and nothing was written besides, but for those first
positions. `CopiesEnd`.

*Blocks* (`ZfpBlock`): `NoExpansion` answers a TODO of the code (`mg_zfp.inl:19`);
`WithinLoss` bounds what a comment calls not perfectly reversible (35), for a decoder
with all planes and for one with fewer.
The bound is for all blocks, since no set of inputs shows it: products of rows alone lose
24 units, the constant coefficients of -2 without their two lowest planes 105 / 4.

*Allocators* (`Memory`): `LiveApart`, `LiveBacked`, `NoLeak`, `FreesItsOwn`. `LiveBacked`
is about what was set aside, not what was asked: the free list serves a request of more
than `MaxBytes` with `MaxBytes` bytes and records what was asked for
(`mg_memory.cpp:135`); the interface has no way to refuse.

## 5. What is proved

All of it for every value of the constants. The assumptions are `NCAssumption`
(a block has at least one coefficient), `ChunkBitsAssumption` (a chunk has at
least two bits), `TileAssumption` (a tile has blocks and planes, chunks as for the
coder, and the least exponent is that of f64), `ChunkFileAssumption` (at least one tile, file and encoding),
`BitstreamAssumption` (a word has two bytes or more, a stream is whole bytes, and no
caller writes more at once than fits beside the rest of a byte),
`MemoryAssumption` (the stack is not a block of malloc, the free list keeps
something, nobody asks for nothing), the `CasesAssumption` of `GridCopy` and that of
`Wavelet` (nothing is empty or longer than the 20 bits a component of a vector has
besides its sign, the window lies in the volume, only the last axes are flat, samples
are integers, tiles and blocks are not empty, the *form* tasks are those that
nothing is extrapolated in, those of two tiles are as `SharesColumn` says — rows of odd
numbers of samples, and a column inside that both levels keep, since the lifting functions assert
that there is room where they extrapolate, which the volumes of the test do not have — with
samples that are multiples of 64, and the lookups are as `Searchable` says: in two
dimensions and with no axis used up, since the visualizer, the one caller, draws planes and takes a
number in one list of subbands for the same in the other, and 21 bits hold three strides
of the coarsest subband and a place one stride behind the volume) and `BlockAssumption` (five planes or more: with
samples of -1, 0 and 1 the transform does expand, as 1, 0, 0, -1 has a
coefficient 2).

*`Operators_proofs`.* The lemmas about operators that other proofs cite, in three groups.

The pieces of the coder: each piece of Encode keeps its call well formed (`CallGood`, `GroupGood`, `InnerGood`, `AfterGood`); a piece of Decode
that reads the bits this piece of Encode wrote goes to the same next call (`CallStep`
to `AfterStep`); and a piece of Decode keeps its own shape whatever it reads (`CallShape` to
`AfterShape`).

Powers of two, which `TileCodec` has as the range of exponents and `Wavelet` as the strides of
subbands.

Rows and passes. `Predict` changes the odd samples by amounts made of even ones and `Update` the
even ones by amounts made of odd ones, so that each is taken back exactly, with
whatever rounding, and `Merge` undoes `Split`: `RowUndone`. Two rows along an axis have no
sample in common (`InPlaceOf`), so a pass over a volume is undone row by row: `PassUndone`,
for any part of the volume that is left to a level. A row of an odd number of samples, of
which nothing is extrapolated, gets the same values from both lifts (`LiftedAt`, `InPlaceRow`,
`OldRow`), and a pass in place gives them to the positions of its grid (`PassInPlace`). What
two parts of such a row that share a sample are lifted to is `TwoParts` and `PartialRow`.

*`Block_proofs`.* In `BitPlane` the hard property is `Lockstep`, which compares two runs
through the bits alone. Its strengthening `IInv` says: the history of the encoder
is a chain in which each state is well formed and is made from the one before
by the piece its `pc` names; positions in the stream only grow along it; the
bits in the stream are those the pieces wrote, each at the address it was
written at (so a later piece cannot change what the decoder reads); and the
decoder equals one state of that history and holds exactly the bits of the plane
below its cursor. A decoder's step then reads the bit that the encoder's step
wrote, and both go to the same next state. Theorems: `TypeCorrect`,
`LockstepCorrect`, `RecoveryCorrect`, `AssertionHolds`, `BoundsCorrect`,
`DepositsCorrect`.

`NoExpansion`, in `ZfpBlock`, holds through all axes once it holds for one
row, `FLiftRange`. The first two sums are halved, and the halves stay within the range
(`HalfSum`); the last two steps are a rotation that could leave it but for the rounding:
`Rotation` needs that what is rotated are two differences of numbers within the
range, each halved. Theorem: `NoExpansionCorrect`.

`WithinLoss` follows an error through the decoder. A set of planes is a number, the sum of
their powers of two, whatever the order it is added up in (`NumberPick`, `NumberUnion`), and the planes
of a number add up to it (`NumberLow`). The coefficients take no more than `Prec` planes once they
are biased by the mask (`Biased`), since they have not outgrown the samples; without the planes
below `c`, a coefficient has lost at most `Short(c)`, the even planes, and gained at most
`Over(c)`, the odd ones (`Decoded`; `OddsSize` adds up the odd ones to one or two thirds of 2^c). ILift
of four coefficients that are off is the row that was lifted, off by four sums of these
amounts and of the bits that the halves of both lifts lost (`RowOff`); so if the coefficients
are off by -a to b, the row is off by -c to d, with `Grows(a, b, c, d)` (`RowNear`), and an axis of the
block is (`AxisNear`). Without any error in the coefficients the lost bits alone make -2 to 1. Three
axes make -34 to 32 with all planes, and 36 times 2^c with those from an odd or even `c` up, each by its
own chain of bounds (`ChainExists`). The inductive invariant `LossInv` says that the
block is that of Init with the first `pass` axes lifted, then that of three axes in negabinary, then
near the one with `pass` axes lifted, by the bounds of the chain. It is assumed that `Prec` is five or
more, because four planes leave samples of -1 to 1, which the transform does expand, and that the
integers have at least as many bits. Theorem: `WithinLossCorrect`.

*`ChunkFile_proofs`.* `IInv` is `TypeOK` and `HeaderIntegrity`, strengthened by: a
file without a header has no chunks and no entries; an encoding runs only while
nobody reads, the file it is in exists, and the one it is creating has no header;
between the append and the entry, the last chunk of the file is the one the
entry is for. Theorems: `TypeCorrect`,
`HeadersCorrect`, `PlacesCorrect`, `AppendOnlyCorrect`.

`NewestFirst` is not inductive: a new chunk raises the
generation of one place, so one must know that the places before it in the tile
have the present generation already. `OrderInv` adds that, and that no
generation exceeds the present one. Theorem: `NewestFirstCorrect`.
`CompleteInv` follows what the running encoding has
completed and what the last complete one left; `ReadInv` what a reader
has found so far. Together with the two invariants before they give
`CompleteReadableCorrect`: once an encoding has ended and no file is lost, whatever dies
later, no Decode fails, and each finds every chunk, of that encoding or newer.
The refinement (`ImplementsStreams`) also needs `SoFarInv`: while a Decode runs,
what it has got of each tile is what the headers it has been through list, and it has
nothing of the tiles after the present one. The steps are then matched one by one:
opening a file and appending to it are not seen, writing `Where` fills a place, dying
is `Stop` and may lose one.

*`TileCodec_proofs`.* The types and the chain need only what the encoder does itself
(`EncInv`: the chunks of the chain are full, the present one has room, `call` is a state
of zfp's Encode in the right block and plane; `DecInv` the same for the reader). The
rest compares two runs, as `Lockstep` does, but over a tile: `History` lists the states
WriteTile went through to where it is, each made from the one before and with the bits it
wrote still in the chunks where it wrote them; an existential quantifier carries it, and no
variable. `Tracks` says that the decoder is at one of
these states, or `Behind` it by a chunk boundary that the encoder crosses at once and
the decoder when it next reads; `DecodedOK` that the exponents and the planes before
its cursor are those of the tile. A step of the decoder at a block's head reads an exponent
(`HeadReads`, `HeadTracks`), a piece of the coder is in `Operators_proofs`, and the end of a
block and of a plane go together on both sides. All of that requires that no exponent was torn, and
`ExponentsFit`: the tolerance is not below the normal numbers of the volume's type, or
that type is f64, so that the least exponent fits its field. An f32 volume with the
default tolerance 0 is what is left out; `TileCodecExponents.cfg` shows what happens to it. Theorems: `TypeCorrect` and
`ChainCorrect` without a hypothesis; `PrefixCorrect`, `StaysInBuffers`, `CopyCorrect` and
`ExponentsCorrect` with it.

*`Bitstream_proofs`.* `IInv` says what the bytes, the buffer and `BitPos` of the writer
stand for: the bits written, in order, and zeros above; and the same for
the reader, whose buffer holds the bits from its cursor to the end of the word. The
clean part above (`StaysClean`) is what lets `Write` put its bits in by an OR, and is
itself kept by `Flush` only since it shifts the whole bytes out. Theorems: `TypeCorrect`,
`StaysInsideStream`, `StaysClean`, and `ImplementsSequence`, which has the hypothesis
`MaxWrite < LongestWrite`: no write of the longest kind the comment of `Write` admits (section 3), which no
caller makes.

*`Memory_proofs`.* The four invariants need one another, and `Kinds`: what a buffer
says about its origin agrees with where it lies and who was asked. Giving
back a buffer keeps the others apart from it only if they were apart before; the fallback
allocator sends it to the right owner (`OwnTellsRight`) only because what lies on the
stack lies below `CurrentBytes`, which is part of `LiveBacked`; no block is lost or freed twice
because each has one owner (`OneOwner`), which follows from `LiveApart` and the footprints
being positive. The proof has a lemma for each way memory changes hands: granted
(`GrantKeeps`), returned to malloc or the stack (`ReturnKeeps`), pushed and popped
(`PushKeeps`, `PopKeeps`), all nodes given up, the stack cleared. Theorems: `Invariance`,
`TypeCorrect`, `LiveApartCorrect`, `LiveBackedCorrect`, `NoLeakCorrect`, `FreesItsOwnCorrect`.

*`GridCopy_proofs`.* First the operators of `Volumes`, for all grids and windows. On each
axis Crop rounds both ends to positions of the grid; `CropAxis` shows that these are the
first and the last step within the window, with the roundings towards zero of C and
whichever end is cut, as long as the window does not end before the grid starts. Where it does,
`LastRounded` shows that Crop goes on as if it ended where `EndFor` says: at the first
position if that is less than a stride away. So the cropped grid is a run of the steps of the whole one and stands
for `InWindow` (`CutPoints`), which is the intersection but in that case (`CutMeets`), is accepted by Relative (`CutSubGrid`), which gives the
same run in the buffer (`CutRelative`), and lies in both volumes, the position taken from outside the window too; where Crop gives nothing there is
nothing in `InWindow` (`NoneLeft`, `NothingCut`). `StepAt` shows that the three branches of Advance go through the
steps of a grid row by row with the pointer at the sample of each, `RowOrder` that a later
position is a later sample, hence that the pointer stays in the volume (`StepRow`) and meets
End after the last step only (`EndAt`). The invariant `IInv` of the copy is then that both
iterators are at the same step of the cut grid, the buffer holds the samples of the steps
before it (on the way in) and all of them (on the way back), and the volume copied to holds
those of the blocks and steps so far and no others. Theorems: `CropsCorrect`,
`RebuildsCorrect`, `NeverAstray`. That the copy ends (`CopiesEnd`) is left to TLC, but what it
hangs on, that the source's iterator meets the end it is compared with, is `EndAt`.

*`Transforms_proofs`.* That Decode gives back what Encode was given rests on `PassUndone`
and on three more parts.

The subbands. They need not be apart, but they must cover the volume. For a position take
the first level that does not leave it to the next: there it lies in the upper half of some
axis, and the subband of the axes where it does holds it; if there is no such level it lies
in the coarsest subband. `BandNumbers` says where the list has each subband, `ExtentFits` that
21 bits are enough for it; both together give `Covered`.

The tiles. The numbers of the tiles of one subband lie between the sums for this subband and
the next (`Summed`), hence `IdsDiffer`: no tile is written over another. A sample is in the tile
its position divided by the tile's dimensions says, and in a block of it, also where
a tile is cut: `Tiled`.

The invariant `CodecInv`, of the tasks of the codec. Before the tiles, `vol` is what the first
`step` passes make of the input (`OldPasses`); in "write", `vol` holds the coefficients and
the file, for each tile up to the present one, the voxels `CopyForward` takes from them; in "read", `vol`
agrees with the coefficients wherever a tile was read, whatever memory nobody has written holds
elsewhere; on the way back `vol` is again what the first `step` passes make. `CopyForward` may bring
samples from beyond the end of a tile into the file, but `CopyInverse` copies only what lies in
the tile. After the last subband the tiles cover the volume, and the way back takes one pass
after another back. `CodecInv` was checked by TLC on the instance of `wavelet` before it was
proved. Theorems: `WaveletCodecInv`, `WaveletReconstructs`, which is `Reconstructs` for the tasks of
the codec.

`LiftsAreLegal`, for the transform in place: at level l an axis of n > 1 samples has
(n - 2) div 2^l + 2 of them (`Closed`, `ClosedStep`), in steps of 2^l. So the last but one of
a level is always before the last sample of the volume, and only the last may lie
behind the end, where one sample has room. `LegalPass` draws the assertions of the
lifting functions from this. Theorem: `WaveletLegal`.

`SubbandsPartition`. Along an axis the positions that level l leaves to the next are the
multiples of 2^(l + 1), and those of its upper half the odd multiples of 2^l (`LowerHalf`,
`UpperHalf`; `PackedRun` and `OnGrid` carry this through the 21 bits a component is packed in). Two subbands
of one level differ in a half (`HalvesDiffer`), hence in a residue; one of an earlier level has
an axis in its upper half, whose residue no later one has (`NotCoarser`): `GridsApart`.
A position belongs to the first level that has it in the upper half of an axis, or else to the coarsest
subband: `GridsCover`. BuildSubbands leaves the empty grids out; `GridsKept` says that the
list it makes has all the others, each once and in order. As long as no
axis is used up nothing is left out, and a subband has the same dimensions in both lists
(`SameDims`); there `BandsApart` separates the extents the way Decode reads them. Theorem:
`WaveletPartition`.

`LevelsAgree`: subband s of the list is number j of level l (`Numbered`), the number
SubbandToLevel divides s into, and the halves of j are the bits it returns. The inverse goes
through the seven halves one by one (`LevelOfBand`). Theorem: `WaveletLevelsAgree`.

`LookupsExact` is shown axis by axis. With the coefficients of a subband numbered along an axis,
those whose footprint reaches a value from `from` on are the numbers from some x on, and those
that reach one up to `last` the numbers up to some y (`Reached`, with the roundings
towards zero of ReachRange, also where a footprint begins before the volume); those of the block are
numbers q to t; and from the larger of x and q to the smaller of y and t is what
ComputeWavGrids keeps (`KeptNumbers`, `KeptAxis`), the empty range included. `ValueAxis` does the
same for the values on the finer grid, `WindowIs` for the window.
`EveryFits` and `BlockAt` show that what Crop and SubGrid make of any corner is a block within the
subband and the volume, so that no component met on the way overflows, `WavIs` and `ValIs` take
the grids apart into axes, and `Footprint` shows that one coefficient's footprint, the
reference, is what the axes say. The invariant `LookupInv` is that the last lookup was such a block and
such a window. Theorem: `WaveletLookups`.

`AgreesWithOld` compares two transforms that keep the same samples at different places:
ForwardCdf53Old moves the halves of a row apart after each pass, ForwardCdf53 leaves them
interleaved and looks at every second sample at the next level. Where no level has an even number of
samples, nothing is extrapolated and both lifts give a row the same values (`LiftedAt`, whatever the
samples are, also where halves are not exact). `MatchAt` says where, after the first axes of
some level, the sample that one transform has at a position stands in the other (`SentTo`);
a pass takes it from one axis to the next (`MatchPass`), and after the third it is the one of the
next level (`MatchLevel`). At last FormSubbands takes for each place of a subband's
extent the sample of its grid with the same number, and that is the one `MatchAt` names
(`FormTakes`, `FormsOld`). The inductive invariant is `FormInv`: `MatchAt` between `vol` and the
passes of the other transform. Theorem: `WaveletAgrees`.

`TilesAddUp`. A row in two parts that share a sample is lifted like the row, but for the shared
one: with PartialUpdateLast the lower part has only what the detail before it adds (`PartialRow`),
the upper part has the sample and what the detail after it adds, and both together are the sample of
the row (`TwoParts`). So after the pass along x the tiles hold the transform of the volume on
either side of the shared column and their sum holds it there (`TilesAlongX`). The pass along y
goes up and down the column itself and would round the two shares apart, were it not that samples
that are multiples of 64 leave multiples of 8 (`LiftedExact`), of which half and quarter are
exact and lifting adds up (`LiftedSum`, `TilesAlongY`). The inductive invariant `TilesInv` says how far
the tile at hand is lifted and what has been added so far. Theorem: `WaveletTiles`.

Only model-checked:

- In `Wavelet`: `Reconstructs` for the tasks in place. It holds only for samples whose halves
  are exact, since the sample behind the end is extrapolated from two others and they are
  found again from it, so that a proof would carry the powers of two that divide each sample
  through every pass, and the positions behind the end that each pass has filled, with the
  number of times it has.
- `Terminates`, `Finishes` and `CopiesEnd`: liveness under fairness is out of the prover's
  reach.

## 6. What is not modelled

In the tile codec and the files: the text of the meta data, assumed the same in
every encoding; failing writes, whose results the code ignores; a loss of power that
reorders what the system had accepted; an encoding and a decoding at the same
time; the variants of Encode and Decode without resumption, which tests use; who owns
the buffers of a tile (the stream of a tile is replaced by a chunk on reading, and
`CleanUp` frees the lists but not the chunks, so memory is lost on every tile but
nothing is freed twice); a chunk of one bit, for which the coder makes no
progress (`ChunkBytes` is at least 1, hence 8 bits).

In the transforms: floating point, in Quantize and Dequantize and in the samples of
the wavelet transform (Scale is infinite for a block of zeros, and what the conversion
of its product with zero yields is undefined; `TileCodec` takes any planes); the order of
the coefficients, the same table on both sides; the width of the integers in the
inverse: without its lower planes a block may reach several times the range of the
samples in between, which the integers of the code hold while `Prec` is a few bits less
than they have; the norms.

In the wavelet and the volumes: the work grid of ComputeWavGrids, the other lift
options and the extended transforms, which nothing calls; volumes whose first axes are
flat; Resize, Clone and files of volumes. In the allocators: what is in the
memory, so Resize and Clone of a buffer; `malloc` that fails. OpenMP pragmas stand
over loops of the codec's transform, whose rows are independent; a pass is one step here.

Components not modelled at all, with the reason, are in `PROJECT.json`: they are
formatting, parsing, system calls, floating point, diagnostics, drivers, and vendored
code. The library's own files (`mg_*`) are about 10 500 lines; most of what the
repository holds besides is third-party (bgfx with its examples' fonts and icons,
roaring, lz4, openjp3d and others), which no model of this program would cover.

## 7. What could follow

A proof that ILift undoes FLift in place on rows whose halves are exact, extrapolated sample
included, and with it of `Reconstructs` for the tasks in place. Of the model:

1. `TileBuffers`: who owns the stream and the chunks between InitWrite, InitRead,
   ReadNextChunk, DeallocBuf and CleanUp (`mg_file_format.cpp` 242-257, 543-589,
   613-624), with `GrowToAccomodate`.
2. `MetaData`: an encoding with other parameters into the same files; failing writes.
3. `Containers`: array growth and the nodes of the list as clients of `Memory`.
