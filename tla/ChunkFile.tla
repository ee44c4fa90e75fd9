----------------------------- MODULE ChunkFile -----------------------------
(***************************************************************************)
(* The files of an encoded volume: WriteChunk, called by WriteTile for each *)
(* tile in turn (src/src/mg_file_format.cpp:130-156, 162-262, 381-407), and *)
(* ReadNextChunk, called by ReadSubband for each tile in turn (438-473,    *)
(* 543-611).  The k-th chunk of every tile goes to the k-th file: the meta *)
(* data, one header entry per tile, then chunks in the order they came.    *)
(*                                                                         *)
(* An encoding may die between any two of its calls to the file, and       *)
(* whoever runs it may encode again, into the same files, with the same    *)
(* parameters and other data: a new generation.  What a call has written   *)
(* is in the file once the stream has been positioned or closed; when the  *)
(* encoding dies before that, any part of it may be.  (A loss of power,    *)
(* which could reorder what the system had accepted, is not modelled.)     *)
(*                                                                         *)
(* A header entry, Where, is the number of the chunk in the file instead   *)
(* of its offset; 0 is "no chunk" in both.  A file that died without its   *)
(* header stays without: what a later WriteChunk appends to it begins      *)
(* inside the header's place, at Where = 0 for an empty file, and the      *)
(* entries overwrite it.  Its contents are not followed any further.       *)
(*                                                                         *)
(* An operator named Wrong... is the one after it with a mistake: the       *)
(* properties are checked to fail when it takes that one's place.           *)
(***************************************************************************)
EXTENDS Integers, Sequences

CONSTANTS
    NT,       \* tiles of the volume, NTilesInSubbands
    NK,       \* the most chunks a tile takes
    MaxGen    \* encodings into the same files

ASSUME ChunkFileAssumption ==
    NT \in Nat \ {0} /\ NK \in Nat \ {0} /\ MaxGen \in Nat \ {0}

Tiles == 0 .. NT - 1
Files == 0 .. NK - 1
Gens == 1 .. MaxGen

\* A chunk in a file; only a part of it if it is not whole.
Chunk == [gen : Gens, tile : Tiles, file : Files, whole : BOOLEAN]

VARIABLES
    exists,   \* the files there are
    headed,   \* those with their meta data and headers
    body,     \* what follows the headers in each file, in order
    where,    \* the header entries of each file
    \* Encode
    gen,      \* encodings started
    need,     \* the chunks each tile takes in the present one
    wpc,      \* "idle", or in WriteChunk: "open", "create", "append", "where"
    wt, wk,   \* Tl->GlobalId and Ci
    done,     \* history: the last encoding that ended, and its need
    \* Decode
    rpc,      \* "idle", "read", "done", "failed" or "outside"
    rt,       \* Tl->GlobalId
    got       \* Ff->Chunks: the chunks read for each tile

files == <<exists, headed, body, where>>
encVars == <<gen, need, wpc, wt, wk, done>>
decVars == <<rpc, rt, got>>
vars == <<files, encVars, decVars>>

NoneRead == [t \in Tiles |-> <<>>]

Init ==
    /\ exists = {} /\ headed = {}
    /\ body = [k \in Files |-> <<>>]
    /\ where = [k \in Files |-> [t \in Tiles |-> 0]]
    /\ gen = 0 /\ need = [t \in Tiles |-> 1]
    /\ wpc = "idle" /\ wt = 0 /\ wk = 0
    /\ done = [gen |-> 0, need |-> need]
    /\ rpc = "idle" /\ rt = 0 /\ got = NoneRead

-----------------------------------------------------------------------------
(* Encode.                                                                 *)

\* How many chunks each tile takes depends on the data: any number is possible.
Encode ==
    /\ wpc = "idle" /\ rpc # "read" /\ gen < MaxGen
    /\ gen' = gen + 1
    /\ need' \in [Tiles -> 1 .. NK]
    /\ wpc' = "open" /\ wt' = 0 /\ wk' = 0
    /\ rpc' = "idle" /\ rt' = 0 /\ got' = NoneRead
    /\ UNCHANGED <<files, done>>

\* fopen: "r+b" if the file is there, else "wb", which makes an empty one.
WriteChunk_Open ==
    /\ wpc = "open"
    /\ wpc' = IF wk \in exists THEN "append" ELSE "create"
    /\ exists' = exists \union {wk}
    /\ UNCHANGED <<headed, body, where, gen, need, wt, wk, done, decVars>>

\* At the start of the file instead.
WrongAppended(whole) ==
    [body EXCEPT ![wk] =
        <<[gen |-> gen, tile |-> wt, file |-> wk, whole |-> whole]>>]

\* The file's chunks with this one, or a part of it, at the end.
Appended(whole) ==
    [body EXCEPT ![wk] =
        Append(@, [gen |-> gen, tile |-> wt, file |-> wk, whole |-> whole])]

\* Everything up to mg_FSeek to the header entry: the meta data and the headers
\* (all zero: TileHeaders is never written to) if the file is new, the chunk.
WriteChunk_Data ==
    /\ wpc \in {"create", "append"}
    /\ headed' = IF wpc = "create" THEN headed \union {wk} ELSE headed
    /\ body' = IF wk \in headed' THEN Appended(TRUE) ELSE body
    /\ wpc' = "where"
    /\ UNCHANGED <<exists, where, gen, need, wt, wk, done, decVars>>

\* An entry that is there is left as it is.
WrongWhere == IF where[wk][wt] = 0 THEN Len(body[wk]) ELSE where[wk][wt]

\* Where: the place of the chunk just appended.
Where == Len(body[wk])

WrongLastCi == wk = need[wt]

\* The tile needs no other chunk.
LastCi == wk + 1 = need[wt]

\* The header entry and fclose; then WriteTile's next chunk, or the next tile.
WriteChunk_Where ==
    /\ wpc = "where"
    /\ where' = IF wk \in headed THEN [where EXCEPT ![wk][wt] = Where]
                                 ELSE where
    /\ IF ~ LastCi
       THEN wk' = wk + 1 /\ wpc' = "open" /\ UNCHANGED <<wt, done>>
       ELSE IF wt + 1 < NT
       THEN wt' = wt + 1 /\ wk' = 0 /\ wpc' = "open" /\ UNCHANGED done
       ELSE wpc' = "idle" /\ done' = [gen |-> gen, need |-> need]
            /\ UNCHANGED <<wt, wk>>
    /\ UNCHANGED <<exists, headed, body, gen, need, decVars>>

\* The encoding dies: of what the stream still buffered, any part is written.
Die ==
    /\ wpc # "idle"
    /\ \/ UNCHANGED <<headed, body>>
       \/ wpc = "create" /\ headed' = headed \union {wk} /\ UNCHANGED body
       \/ /\ wpc \in {"create", "append"}
          /\ headed' = IF wpc = "create" THEN headed \union {wk} ELSE headed
          /\ wk \in headed'
          /\ \E whole \in BOOLEAN : body' = Appended(whole)
    /\ wpc' = "idle"
    /\ UNCHANGED <<exists, where, gen, need, wt, wk, done, decVars>>

-----------------------------------------------------------------------------
(* Decode.                                                                 *)

\* ParseMeta, whose error is ignored: without the meta data the parameters are
\* not those of the file, and nothing that follows is modelled.
Decode ==
    /\ wpc = "idle" /\ rpc # "read"
    /\ rpc' = IF 0 \in headed THEN "read" ELSE "outside"
    /\ rt' = 0 /\ got' = NoneRead
    /\ UNCHANGED <<files, encVars>>

\* Counted from one.
WrongChunkId == Len(got[rt]) + 1

\* ChunkId: the file the next chunk of the tile is in.
ChunkId == Len(got[rt])

\* The entry of the first tile, whatever the tile.
WrongEntry == where[ChunkId][0]

\* The header entry of the tile in that file.
Entry == where[ChunkId][rt]

\* The list keeps one chunk only.
WrongPushed(chunk) == [got EXCEPT ![rt] = <<chunk>>]

\* PushBack on the tile's list.
Pushed(chunk) == [got EXCEPT ![rt] = Append(@, chunk)]

\* ReadNextChunk when there is a chunk: it is pushed on the tile's list.  A
\* part of a chunk at the end of the file cannot be read; followed by others it
\* would be read with a part of the next.
ReadNextChunk ==
    /\ rpc = "read"
    /\ ChunkId \in headed /\ Entry > 0
    /\ LET chunk == body[ChunkId][Entry]
       IN IF chunk.whole
          THEN got' = Pushed(chunk) /\ UNCHANGED rpc
          ELSE rpc' \in {"failed", "outside"} /\ UNCHANGED got
    /\ UNCHANGED <<files, encVars, rt>>

\* FileReadFailed in a file too short to have the entry; if chunks have been
\* appended to it, what is read for the entry is not modelled.
ReadNextChunk_Headless ==
    /\ rpc = "read"
    /\ ChunkId \in exists \ headed
    /\ rpc' \in {"failed", "outside"}
    /\ UNCHANGED <<files, encVars, rt, got>>

\* FileOpenFailed or ChunkReadFailed: these are all the chunks; DecompressTile,
\* which takes the first of them without looking; the next tile.
DecompressTile ==
    /\ rpc = "read"
    /\ \/ ChunkId \notin exists
       \/ ChunkId \in headed /\ Entry = 0
    /\ IF got[rt] = <<>> THEN rpc' = "outside" /\ UNCHANGED rt
       ELSE IF rt + 1 < NT THEN rt' = rt + 1 /\ UNCHANGED rpc
       ELSE rpc' = "done" /\ UNCHANGED rt
    /\ UNCHANGED <<files, encVars, got>>

WriteChunk == WriteChunk_Open \/ WriteChunk_Data \/ WriteChunk_Where

Reading == ReadNextChunk \/ ReadNextChunk_Headless \/ DecompressTile

Next == Encode \/ WriteChunk \/ Die \/ Decode \/ Reading

Spec == Init /\ [][Next]_vars

\* Nothing makes an encoding or a decoding start, or die; one that runs does
\* not stop by itself.
FairSpec == Spec /\ WF_vars(WriteChunk) /\ WF_vars(Reading)

-----------------------------------------------------------------------------
(* Properties.                                                             *)

TypeOK ==
    /\ headed \subseteq exists /\ exists \subseteq Files
    /\ body \in [Files -> Seq(Chunk)]
    /\ where \in [Files -> [Tiles -> Nat]]
    /\ gen \in 0 .. MaxGen
    /\ need \in [Tiles -> 1 .. NK]
    /\ wpc \in {"idle", "open", "create", "append", "where"}
    /\ wt \in Tiles /\ wk \in Files
    /\ done \in [gen : 0 .. MaxGen, need : [Tiles -> 1 .. NK]]
    /\ rpc \in {"idle", "read", "done", "failed", "outside"}
    /\ rt \in Tiles
    /\ got \in [Tiles -> Seq(Chunk)]

\* Files whose creation died before the header was written.
Lost == (exists \ headed) \ (IF wpc = "create" THEN {wk} ELSE {})

\* The generation the header of file k has for tile t, 0 if it has no chunk.
Listed(k, t) == IF where[k][t] = 0 THEN 0 ELSE body[k][where[k][t]].gen

\* The header never leads a reader astray: an entry that is not 0 is the place
\* of a whole chunk of that tile with that number, whenever an encoding died and
\* however often it was started again (WriteChunk writes Where last,
\* mg_file_format.cpp:151-153).
HeaderIntegrity ==
    \A k \in headed, t \in Tiles : where[k][t] > 0 =>
       /\ where[k][t] <= Len(body[k])
       /\ LET chunk == body[k][where[k][t]]
          IN chunk.whole /\ chunk.tile = t /\ chunk.file = k

\* Along the chunks of a tile generations never increase, and none is missing
\* before another: a reader finds some chunks of the newest encoding that got
\* that far, then those of older ones (the order of WriteTile, 171-219).
NewestFirst ==
    \A t \in Tiles : \A j, k \in headed : j < k => Listed(j, t) >= Listed(k, t)

\* Once an encoding has ended, with no file lost, a later one that dies cannot
\* make a reader fail: every Decode ends, and finds for each tile at least as
\* many chunks as the last complete encoding made, none older than it
\* (mg_file_format.cpp:573-586).
CompleteReadable ==
    (done.gen > 0 /\ Lost = {}) =>
       /\ rpc \notin {"failed", "outside"}
       /\ rpc = "done" => \A t \in Tiles :
            /\ Len(got[t]) >= done.need[t]
            /\ \A k \in 1 .. done.need[t] : got[t][k].gen >= done.gen

\* The chunks a decoding puts together for a tile are the chunks 0, 1, 2, ... of
\* that tile (GlobalId and Size(ChunkList), mg_file_format.cpp:441, 449).
InItsPlace ==
    \A t \in Tiles : \A k \in 1 .. Len(got[t]) :
       got[t][k].tile = t /\ got[t][k].file = k - 1 /\ got[t][k].whole

\* What a step may do to the files: append, and move an entry forward.
Grows ==
    \A k \in Files :
       /\ Len(body'[k]) >= Len(body[k])
       /\ SubSeq(body'[k], 1, Len(body[k])) = body[k]
       /\ \A t \in Tiles : where'[k][t] >= where[k][t]

\* Nothing in a file is overwritten but header entries, and an entry only by a
\* chunk that came later (SEEK_END, mg_file_format.cpp:142).
AppendOnly == [][Grows]_files

\* An encoding or a decoding that is running comes to an end: ReadSubband's
\* while (true) (573-585) stops at the first missing chunk.
Terminates ==
    /\ wpc # "idle" ~> wpc = "idle"
    /\ rpc = "read" ~> rpc # "read"

\* The files keep the promise of TileStreams.  A tile counts as read when
\* DecompressTile has been called for it.
Published == [t \in Tiles |-> [k \in Files |-> Listed(k, t)]]

TheResult ==
    [t \in Tiles |-> IF t < rt \/ rpc = "done"
                     THEN [k \in 1 .. Len(got[t]) |-> got[t][k].gen] ELSE <<>>]

Streams == INSTANCE TileStreams WITH
    pub <- Published, at <- IF wpc = "idle" THEN <<>> ELSE <<wt, wk>>,
    lost <- Lost, result <- TheResult

Implements == Streams!Spec
=============================================================================
