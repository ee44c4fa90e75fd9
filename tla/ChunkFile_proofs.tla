-------------------------- MODULE ChunkFile_proofs --------------------------
(***************************************************************************)
(* Proofs about ChunkFile, for every number of tiles, files and encodings. *)
(*                                                                         *)
(* The header entries can be relied upon because of two facts about files  *)
(* that are never stated in the code: a file without its header holds      *)
(* nothing that is followed (FilesOK), and between the append and the      *)
(* write of Where the last chunk of the file is the one that was appended  *)
(* (Appending).  With them IInv is inductive, and gives the type invariant, *)
(* HeaderIntegrity, InItsPlace and AppendOnly.                              *)
(*                                                                         *)
(* From there on: what a reader finds in the files, however many encodings  *)
(* died before.  The chunks of a tile come from the newest encoding to the *)
(* oldest (NewestFirst); everything the last encoding that ended wrote is   *)
(* there, or newer (CompleteReadable); in short, the files are streams in   *)
(* which places are filled one at a time (Implements).                     *)
(***************************************************************************)
EXTENDS ChunkFile, TLAPS

\* What holds while an encoding runs.
Running ==
    wpc # "idle" =>
       /\ gen \in Gens /\ wk < need[wt] /\ rpc = "idle"
       /\ wpc # "open" => wk \in exists
       /\ wpc = "create" => wk \notin headed

FilesOK ==
    \A k \in Files : k \notin headed =>
       body[k] = <<>> /\ \A t \in Tiles : where[k][t] = 0

\* Between WriteChunk's append and its write of Where.
Appending ==
    (wpc = "where" /\ wk \in headed) =>
       /\ body[wk] # <<>>
       /\ body[wk][Len(body[wk])] =
             [gen |-> gen, tile |-> wt, file |-> wk, whole |-> TRUE]

IInv == TypeOK /\ Running /\ FilesOK /\ Appending /\ HeaderIntegrity /\ InItsPlace

-----------------------------------------------------------------------------
\* What Append does, in the form the proofs use it.
LEMMA AppendFacts ==
    ASSUME NEW T, NEW s \in Seq(T), NEW x \in T
    PROVE  /\ Append(s, x) \in Seq(T)
           /\ Len(Append(s, x)) = Len(s) + 1
           /\ \A i \in 1 .. Len(s) : Append(s, x)[i] = s[i]
           /\ Append(s, x)[Len(s) + 1] = x
           /\ Append(s, x) # <<>>
           /\ Len(s) \in Nat
           /\ \A i \in 1 .. Len(s) : s[i] \in T
  OBVIOUS

\* The file numbers and tile numbers are naturals, and there is a first of each.
LEMMA Numbers ==
    /\ 0 \in Tiles /\ 0 \in Files
    /\ \A t \in Tiles : t \in Nat
    /\ \A k \in Files : k \in Nat
  BY ChunkFileAssumption DEF Tiles, Files

\* Initially there are no files, and the invariant holds.
LEMMA InitIInv == Init => IInv
<1> SUFFICES ASSUME Init PROVE IInv
  OBVIOUS
<1>0. 1 \in 1 .. NK /\ 0 \in 0 .. MaxGen
  BY ChunkFileAssumption
<1>1. TypeOK
  <2>1. need \in [Tiles -> 1 .. NK]
    BY <1>0 DEF Init
  <2>2. done \in [gen : 0 .. MaxGen, need : [Tiles -> 1 .. NK]]
    BY <2>1, <1>0 DEF Init
  <2>3. body \in [Files -> Seq(Chunk)] /\ got \in [Tiles -> Seq(Chunk)]
    BY DEF Init, NoneRead
  <2> QED
    BY <1>0, <2>1, <2>2, <2>3, Numbers DEF Init, TypeOK
<1>2. Running /\ FilesOK /\ Appending /\ HeaderIntegrity
  BY DEF Init, Running, FilesOK, Appending, HeaderIntegrity
<1>3. InItsPlace
  BY DEF Init, InItsPlace, NoneRead
<1> QED
  BY <1>1, <1>2, <1>3 DEF IInv

-----------------------------------------------------------------------------
\* Appending a chunk, or a part of one, to a file that has, or is given, its
\* header: every chunk that was there is where it was.
LEMMA AppendedFacts ==
    ASSUME IInv, wpc \in {"create", "append"}, NEW w \in BOOLEAN
    PROVE  /\ Appended(w) \in [Files -> Seq(Chunk)]
           /\ \A k \in Files : k # wk => Appended(w)[k] = body[k]
           /\ Len(body[wk]) \in Nat
           /\ Len(Appended(w)[wk]) = Len(body[wk]) + 1
           /\ \A i \in 1 .. Len(body[wk]) : Appended(w)[wk][i] = body[wk][i]
           /\ Appended(w)[wk][Len(body[wk]) + 1] =
                 [gen |-> gen, tile |-> wt, file |-> wk, whole |-> w]
           /\ Appended(w)[wk] # <<>>
           /\ \A k \in Files : SubSeq(Appended(w)[k], 1, Len(body[k])) = body[k]
           /\ \A k \in Files : Len(Appended(w)[k]) >= Len(body[k])
<1> DEFINE c == [gen |-> gen, tile |-> wt, file |-> wk, whole |-> w]
<1>1. c \in Chunk
  BY DEF IInv, TypeOK, Running, Chunk
<1>2. wk \in Files /\ body \in [Files -> Seq(Chunk)]
  BY DEF IInv, TypeOK
<1>3. Appended(w) = [body EXCEPT ![wk] = Append(@, c)]
  BY DEF Appended
<1>4. /\ Appended(w)[wk] = Append(body[wk], c)
      /\ \A k \in Files : k # wk => Appended(w)[k] = body[k]
  BY <1>2, <1>3
<1>5. /\ Append(body[wk], c) \in Seq(Chunk)
      /\ Len(Append(body[wk], c)) = Len(body[wk]) + 1
      /\ \A i \in 1 .. Len(body[wk]) : Append(body[wk], c)[i] = body[wk][i]
      /\ Append(body[wk], c)[Len(body[wk]) + 1] = c
      /\ Append(body[wk], c) # <<>>
      /\ Len(body[wk]) \in Nat
  <2> HIDE DEF c
  <2> QED
    BY <1>1, <1>2, AppendFacts
<1>6. Appended(w) \in [Files -> Seq(Chunk)]
  <2> HIDE DEF c
  <2> QED
    BY <1>2, <1>3, <1>5
<1>7. \A k \in Files : SubSeq(Appended(w)[k], 1, Len(body[k])) = body[k]
  <2> HIDE DEF c
  <2> TAKE k \in Files
  <2>1. body[k] \in Seq(Chunk)
    BY <1>2
  <2>2. CASE k = wk
    <3>1. SubSeq(Append(body[k], c), 1, Len(body[k])) = body[k]
      BY <2>1, <1>1
    <3> QED
      BY <2>2, <3>1, <1>4
  <2>3. CASE k # wk
    <3>1. SubSeq(body[k], 1, Len(body[k])) = body[k]
      BY <2>1
    <3> QED
      BY <2>3, <3>1, <1>4
  <2> QED
    BY <2>2, <2>3
<1>8. \A k \in Files : Len(Appended(w)[k]) >= Len(body[k])
  <2> HIDE DEF c
  <2> TAKE k \in Files
  <2>1. Len(body[k]) \in Nat
    BY <1>2
  <2> QED
    BY <2>1, <1>4, <1>5
<1> QED
  BY <1>4, <1>5, <1>6, <1>7, <1>8

\* A step of WriteChunk or of a dying encoding that appends to a file keeps the
\* facts about files: what the entries point to has not moved.
LEMMA AppendKeepsFiles ==
    ASSUME IInv, wpc \in {"create", "append"}, NEW w \in BOOLEAN,
           headed' = IF wpc = "create" THEN headed \union {wk} ELSE headed,
           wk \in headed', body' = Appended(w), where' = where
    PROVE  FilesOK' /\ HeaderIntegrity'
<1>0. /\ \A k \in Files : k # wk => body'[k] = body[k]
      /\ Len(body[wk]) \in Nat
      /\ Len(body'[wk]) = Len(body[wk]) + 1
      /\ \A i \in 1 .. Len(body[wk]) : body'[wk][i] = body[wk][i]
  BY AppendedFacts
<1>1. /\ wk \in Files /\ where \in [Files -> [Tiles -> Nat]] /\ headed \subseteq Files
      /\ \A k \in Files : Len(body[k]) \in Nat
  BY DEF IInv, TypeOK
<1>2. FilesOK'
  <2> SUFFICES ASSUME NEW k \in Files, k \notin headed'
               PROVE  body'[k] = <<>> /\ \A t \in Tiles : where'[k][t] = 0
    BY DEF FilesOK
  <2>1. k # wk /\ k \notin headed
    OBVIOUS
  <2> QED
    BY <2>1, <1>0 DEF IInv, FilesOK
<1>3. HeaderIntegrity'
  <2> SUFFICES ASSUME NEW k \in headed', NEW t \in Tiles, where'[k][t] > 0
               PROVE  /\ where'[k][t] <= Len(body'[k])
                      /\ body'[k][where'[k][t]].whole
                      /\ body'[k][where'[k][t]].tile = t
                      /\ body'[k][where'[k][t]].file = k
    BY DEF HeaderIntegrity
  <2>1. k \in headed
    BY <1>1 DEF IInv, FilesOK
  <2>2. /\ where[k][t] \in 1 .. Len(body[k])
        /\ body[k][where[k][t]].whole
        /\ body[k][where[k][t]].tile = t
        /\ body[k][where[k][t]].file = k
    BY <2>1, <1>1 DEF IInv, HeaderIntegrity
  <2>3. body'[k][where'[k][t]] = body[k][where[k][t]]
    BY <2>1, <2>2, <1>0, <1>1
  <2>4. Len(body'[k]) >= Len(body[k])
    BY <2>1, <1>0, <1>1
  <2> QED
    BY <2>2, <2>3, <2>4, <1>1
<1> QED
  BY <1>2, <1>3

\* A step that leaves the files alone keeps the facts about them.
LEMMA FilesKept ==
    ASSUME IInv, UNCHANGED files
    PROVE  FilesOK' /\ HeaderIntegrity'
  BY DEF IInv, FilesOK, HeaderIntegrity, files

\* WriteChunk's first step keeps the invariant.
LEMMA OpenStep == ASSUME IInv, WriteChunk_Open PROVE IInv'
<1> USE DEF WriteChunk_Open, decVars
<1>1. TypeOK'
  BY DEF IInv, TypeOK
<1>2. Running'
  <2>1. headed \subseteq exists
    BY DEF IInv, TypeOK
  <2> QED
    BY <2>1 DEF IInv, Running
<1>3. FilesOK' /\ HeaderIntegrity' /\ InItsPlace'
  BY DEF IInv, FilesOK, HeaderIntegrity, InItsPlace
<1>4. Appending'
  BY DEF Appending
<1> QED
  BY <1>1, <1>2, <1>3, <1>4 DEF IInv

\* The append keeps it, and makes the file's last chunk the one Where is for.
LEMMA DataStep == ASSUME IInv, WriteChunk_Data PROVE IInv'
<1> USE DEF WriteChunk_Data, decVars
<1>0. wk \in exists /\ wk \in Files
  BY DEF IInv, Running, TypeOK
<1>1. CASE wk \in headed'
  <2>1. body' = Appended(TRUE)
    BY <1>1
  <2>2. FilesOK' /\ HeaderIntegrity'
    BY <1>1, <2>1, AppendKeepsFiles
  <2>3. TypeOK'
    <3>1. body' \in [Files -> Seq(Chunk)]
      BY <2>1, AppendedFacts
    <3> QED
      BY <3>1, <1>0 DEF IInv, TypeOK
  <2>4. Running' /\ InItsPlace'
    BY <1>0 DEF IInv, Running, InItsPlace
  <2>5. Appending'
    <3>1. /\ body'[wk] # <<>>
          /\ body'[wk][Len(body'[wk])] =
                [gen |-> gen, tile |-> wt, file |-> wk, whole |-> TRUE]
      BY <2>1, AppendedFacts
    <3> QED
      BY <3>1 DEF Appending
  <2> QED
    BY <2>2, <2>3, <2>4, <2>5 DEF IInv
<1>2. CASE wk \notin headed'
  <2>1. UNCHANGED files
    BY <1>2 DEF files
  <2>2. TypeOK' /\ Running' /\ InItsPlace' /\ Appending'
    BY <1>0, <1>2, <2>1 DEF IInv, TypeOK, Running, InItsPlace, Appending, files
  <2> QED
    BY <2>1, <2>2, FilesKept DEF IInv
<1> QED
  BY <1>1, <1>2

\* The write of Where keeps it: the entry is the place of the last chunk.
LEMMA WhereStep == ASSUME IInv, WriteChunk_Where PROVE IInv'
<1> USE DEF WriteChunk_Where, decVars
<1>0. /\ wk \in Files /\ wt \in Tiles /\ wk < need[wt]
      /\ where \in [Files -> [Tiles -> Nat]]
      /\ body \in [Files -> Seq(Chunk)]
      /\ need \in [Tiles -> 1 .. NK]
      /\ gen \in Gens /\ wk \in exists /\ rpc = "idle"
      /\ headed \subseteq Files
  BY DEF IInv, Running, TypeOK
<1>1. Len(body[wk]) \in Nat /\ (wk \in headed => Len(body[wk]) > 0)
  <2>1. body[wk] \in Seq(Chunk)
    BY <1>0
  <2> QED
    BY <2>1 DEF IInv, Appending
<1>2. where' \in [Files -> [Tiles -> Nat]]
  BY <1>0, <1>1 DEF Where
<1>3. /\ wt' \in Tiles /\ wk' \in Files /\ done' \in [gen : 0 .. MaxGen, need : [Tiles -> 1 .. NK]]
      /\ wpc' \in {"idle", "open"}
      /\ wpc' # "idle" => wk' < need'[wt']
  <2>1. CASE ~ LastCi
    <3>1. wk + 1 \in Files /\ wk + 1 < need[wt]
      <4>1. need[wt] \in 1 .. NK /\ wk \in Nat
        BY <1>0, Numbers
      <4> QED
        BY <4>1, <1>0, <2>1, ChunkFileAssumption DEF LastCi, Files
    <3> QED
      BY <2>1, <3>1, <1>0 DEF IInv, TypeOK
  <2>2. CASE LastCi /\ wt + 1 < NT
    <3>1. wt + 1 \in Tiles
      BY <1>0, <2>2, ChunkFileAssumption DEF Tiles
    <3>2. 0 < need[wt + 1]
      BY <3>1, <1>0
    <3> QED
      BY <2>2, <3>1, <3>2, <1>0, Numbers DEF IInv, TypeOK
  <2>3. CASE LastCi /\ ~ (wt + 1 < NT)
    <3>1. gen \in 0 .. MaxGen
      BY <1>0, ChunkFileAssumption DEF Gens
    <3> QED
      BY <2>3, <3>1, <1>0
  <2> QED
    BY <2>1, <2>2, <2>3
<1>4. TypeOK'
  BY <1>2, <1>3 DEF IInv, TypeOK
<1>5. Running' /\ Appending' /\ InItsPlace'
  BY <1>0, <1>3 DEF IInv, Running, Appending, InItsPlace
<1>6. FilesOK'
  BY <1>0 DEF IInv, FilesOK
<1>7. HeaderIntegrity'
  <2> SUFFICES ASSUME NEW k \in headed, NEW t \in Tiles, where'[k][t] > 0
               PROVE  /\ where'[k][t] <= Len(body[k])
                      /\ body[k][where'[k][t]].whole
                      /\ body[k][where'[k][t]].tile = t
                      /\ body[k][where'[k][t]].file = k
    BY DEF HeaderIntegrity
  <2>1. CASE k = wk /\ t = wt
    <3>1. where'[k][t] = Len(body[wk])
      BY <2>1, <1>0 DEF Where
    <3>2. body[wk][Len(body[wk])] =
             [gen |-> gen, tile |-> wt, file |-> wk, whole |-> TRUE]
      BY <2>1 DEF IInv, Appending
    <3> QED
      BY <3>1, <3>2, <2>1, <1>1
  <2>2. CASE ~ (k = wk /\ t = wt)
    <3>1. where'[k][t] = where[k][t]
      BY <2>2, <1>0
    <3> QED
      BY <3>1 DEF IInv, HeaderIntegrity
  <2> QED
    BY <2>1, <2>2
<1> QED
  BY <1>4, <1>5, <1>6, <1>7 DEF IInv

\* Whatever part of the stream is written when the encoding dies, it keeps it.
LEMMA DieStep == ASSUME IInv, Die PROVE IInv'
<1> USE DEF Die, decVars
<1>0. wk \in Files /\ (wpc # "open" => wk \in exists)
  BY DEF IInv, TypeOK, Running
<1>1. Running' /\ InItsPlace' /\ Appending'
  BY DEF IInv, Running, InItsPlace, Appending
<1>2. CASE UNCHANGED <<headed, body>>
  <2>1. TypeOK'
    BY <1>2 DEF IInv, TypeOK
  <2>2. FilesOK' /\ HeaderIntegrity'
    BY <1>2, FilesKept DEF files
  <2> QED
    BY <2>1, <2>2, <1>1 DEF IInv
<1>3. CASE wpc = "create" /\ headed' = headed \union {wk} /\ UNCHANGED body
  <2>1. TypeOK'
    BY <1>3, <1>0 DEF IInv, TypeOK
  <2>2. FilesOK'
    BY <1>3 DEF IInv, FilesOK
  <2>3. \A t \in Tiles : where[wk][t] = 0
    BY <1>3, <1>0 DEF IInv, Running, FilesOK
  <2>4. HeaderIntegrity'
    BY <1>3, <2>3 DEF IInv, HeaderIntegrity
  <2> QED
    BY <2>1, <2>2, <2>4, <1>1 DEF IInv
<1>4. CASE /\ wpc \in {"create", "append"}
           /\ headed' = IF wpc = "create" THEN headed \union {wk} ELSE headed
           /\ wk \in headed'
           /\ \E whole \in BOOLEAN : body' = Appended(whole)
  <2>1. PICK w \in BOOLEAN : body' = Appended(w)
    BY <1>4
  <2>2. TypeOK'
    <3>1. body' \in [Files -> Seq(Chunk)]
      BY <1>4, <2>1, AppendedFacts
    <3> QED
      BY <3>1, <1>4, <1>0 DEF IInv, TypeOK
  <2>3. FilesOK' /\ HeaderIntegrity'
    BY <1>4, <2>1, AppendKeepsFiles
  <2> QED
    BY <2>2, <2>3, <1>1 DEF IInv
<1> QED
  BY <1>2, <1>3, <1>4

\* Starting an encoding or a decoding keeps it.
LEMMA StartStep == ASSUME IInv, Encode \/ Decode PROVE IInv'
<1>1. NoneRead \in [Tiles -> Seq(Chunk)]
      /\ \A t \in Tiles : NoneRead[t] = <<>>
  BY DEF NoneRead
<1>2. CASE Encode
  <2> USE <1>2 DEF Encode
  <2>1. UNCHANGED files
    OBVIOUS
  <2>2. TypeOK'
    <3>1. gen' \in 0 .. MaxGen
      BY ChunkFileAssumption DEF IInv, TypeOK
    <3> QED
      BY <1>1, <2>1, <3>1, Numbers DEF IInv, TypeOK, files
  <2>3. Running'
    <3>1. gen' \in Gens
      BY ChunkFileAssumption DEF IInv, TypeOK, Gens
    <3>2. 0 < need'[0]
      BY Numbers
    <3> QED
      BY <3>1, <3>2 DEF Running
  <2>4. Appending' /\ InItsPlace'
    BY <1>1 DEF Appending, InItsPlace
  <2> QED
    BY <2>1, <2>2, <2>3, <2>4, FilesKept DEF IInv
<1>3. CASE Decode
  <2> USE <1>3 DEF Decode, encVars
  <2>1. TypeOK'
    BY <1>1, Numbers DEF IInv, TypeOK, files
  <2>2. Running' /\ Appending' /\ InItsPlace'
    BY <1>1 DEF Running, Appending, InItsPlace
  <2> QED
    BY <2>1, <2>2, FilesKept DEF IInv
<1> QED
  BY <1>2, <1>3

\* A step of the reader keeps it: the chunk an entry points to is the next one
\* of the tile.
LEMMA ReadStep == ASSUME IInv, Reading PROVE IInv'
<1>0. UNCHANGED <<files, encVars>> /\ rpc = "read" /\ wpc = "idle"
  BY DEF Reading, ReadNextChunk, ReadNextChunk_Headless, DecompressTile, IInv, Running
<1>1. Running' /\ Appending'
  BY <1>0 DEF Running, Appending, encVars
<1>2. FilesOK' /\ HeaderIntegrity'
  BY <1>0, FilesKept
<1>3. CASE UNCHANGED got
  <2>1. rt' \in Tiles /\ rpc' \in {"read", "done", "failed", "outside"}
    <3>1. rt \in Tiles
      BY DEF IInv, TypeOK
    <3>2. CASE UNCHANGED rt
      BY <1>0, <3>1, <3>2 DEF Reading, ReadNextChunk, ReadNextChunk_Headless,
                              DecompressTile
    <3>3. CASE rt' # rt
      <4>1. rt' = rt + 1 /\ rt + 1 < NT /\ rpc' = rpc
        BY <1>0, <3>3 DEF Reading, ReadNextChunk, ReadNextChunk_Headless,
                          DecompressTile
      <4> QED
        BY <1>0, <3>1, <4>1, ChunkFileAssumption DEF Tiles
    <3> QED
      BY <3>2, <3>3
  <2>2. TypeOK' /\ InItsPlace'
    BY <1>0, <1>3, <2>1 DEF IInv, TypeOK, InItsPlace, files, encVars
  <2> QED
    BY <1>1, <1>2, <2>2 DEF IInv
<1>4. CASE got' # got
  <2>1. /\ ReadNextChunk
        /\ body[ChunkId][Entry].whole
        /\ got' = Pushed(body[ChunkId][Entry])
        /\ UNCHANGED <<rpc, rt>>
    BY <1>4 DEF Reading, ReadNextChunk, ReadNextChunk_Headless, DecompressTile
  <2>2. /\ rt \in Tiles /\ got \in [Tiles -> Seq(Chunk)]
        /\ where \in [Files -> [Tiles -> Nat]] /\ body \in [Files -> Seq(Chunk)]
        /\ headed \subseteq Files
    BY DEF IInv, TypeOK
  <2>3. ChunkId \in headed /\ Entry > 0
    BY <2>1 DEF ReadNextChunk
  <2> DEFINE c == body[ChunkId][Entry]
  <2>4. c \in Chunk /\ c.whole /\ c.tile = rt /\ c.file = ChunkId
    <3>1. /\ Entry \in 1 .. Len(body[ChunkId])
          /\ c.whole /\ c.tile = rt /\ c.file = ChunkId
      BY <2>1, <2>2, <2>3 DEF IInv, HeaderIntegrity, Entry
    <3> QED
      BY <3>1, <2>2, <2>3
  <2>5. got' = [got EXCEPT ![rt] = Append(@, c)]
    BY <2>1 DEF Pushed
  <2> HIDE DEF c
  <2>6. /\ Append(got[rt], c) \in Seq(Chunk)
        /\ Len(Append(got[rt], c)) = Len(got[rt]) + 1
        /\ \A i \in 1 .. Len(got[rt]) : Append(got[rt], c)[i] = got[rt][i]
        /\ Append(got[rt], c)[Len(got[rt]) + 1] = c
        /\ Len(got[rt]) \in Nat
    BY <2>2, <2>4, AppendFacts
  <2>7. got' \in [Tiles -> Seq(Chunk)]
    BY <2>2, <2>5, <2>6
  <2>8. InItsPlace'
    <3> SUFFICES ASSUME NEW t \in Tiles, NEW k \in 1 .. Len(got'[t])
                 PROVE  /\ got'[t][k].tile = t
                        /\ got'[t][k].file = k - 1
                        /\ got'[t][k].whole
      BY DEF InItsPlace
    <3>1. CASE t # rt
      <4>1. got'[t] = got[t]
        BY <3>1, <2>2, <2>5
      <4> QED
        BY <4>1 DEF IInv, InItsPlace
    <3>2. CASE t = rt
      <4>1. got'[t] = Append(got[rt], c)
        BY <3>2, <2>2, <2>5
      <4>2. CASE k \in 1 .. Len(got[rt])
        <5>1. got'[t][k] = got[rt][k]
          BY <4>1, <4>2, <2>6
        <5> QED
          BY <5>1, <4>2, <3>2 DEF IInv, InItsPlace
      <4>3. CASE k = Len(got[rt]) + 1
        <5>1. got'[t][k] = c
          BY <4>1, <4>3, <2>6
        <5> QED
          BY <5>1, <4>3, <3>2, <2>4, <2>6 DEF ChunkId
      <4> QED
        BY <4>1, <4>2, <4>3, <2>6
    <3> QED
      BY <3>1, <3>2
  <2>9. TypeOK'
    BY <1>0, <2>1, <2>7 DEF IInv, TypeOK, files, encVars
  <2> QED
    BY <1>1, <1>2, <2>8, <2>9 DEF IInv
<1> QED
  BY <1>3, <1>4

\* Every step keeps the invariant.
LEMMA NextIInv == IInv /\ [Next]_vars => IInv'
<1> SUFFICES ASSUME IInv, [Next]_vars PROVE IInv'
  OBVIOUS
<1>1. CASE Encode \/ Decode
  BY <1>1, StartStep
<1>2. CASE WriteChunk
  BY <1>2, OpenStep, DataStep, WhereStep DEF WriteChunk
<1>3. CASE Die
  BY <1>3, DieStep
<1>4. CASE Reading
  BY <1>4, ReadStep
<1>5. CASE UNCHANGED vars
  BY <1>5 DEF vars, files, encVars, decVars, IInv, TypeOK, Running, FilesOK,
              Appending, HeaderIntegrity, InItsPlace
<1> QED
  BY <1>1, <1>2, <1>3, <1>4, <1>5 DEF Next

\* IInv holds in every state of every behaviour.
THEOREM Invariance == Spec => []IInv
  BY InitIInv, NextIInv, PTL DEF Spec

\* The type invariant, for every number of tiles, files and encodings.
THEOREM TypeCorrect == Spec => []TypeOK
<1>1. IInv => TypeOK
  BY DEF IInv
<1> QED
  BY <1>1, Invariance, PTL

\* However often an encoding dies and is started again, an entry of a header that
\* is not 0 is the place of a whole chunk of that tile with that number.
THEOREM HeadersCorrect == Spec => []HeaderIntegrity
<1>1. IInv => HeaderIntegrity
  BY DEF IInv
<1> QED
  BY <1>1, Invariance, PTL

\* What a decoding puts together for a tile are its chunks 0, 1, 2, ...
THEOREM PlacesCorrect == Spec => []InItsPlace
<1>1. IInv => InItsPlace
  BY DEF IInv
<1> QED
  BY <1>1, Invariance, PTL

-----------------------------------------------------------------------------
(* What may happen to the files in one step.                               *)

\* A step that leaves body and where alone only lets them be.
LEMMA GrowsNot ==
    ASSUME IInv, UNCHANGED <<body, where>> PROVE Grows
<1>1. body \in [Files -> Seq(Chunk)] /\ where \in [Files -> [Tiles -> Nat]]
  BY DEF IInv, TypeOK
<1>2. \A k \in Files : Len(body[k]) \in Nat /\ SubSeq(body[k], 1, Len(body[k])) = body[k]
  BY <1>1
<1>3. \A k \in Files, t \in Tiles : where[k][t] \in Nat
  BY <1>1
<1> QED
  BY <1>2, <1>3 DEF Grows

\* Appending to a file only lets it grow.
LEMMA GrowsAppended ==
    ASSUME IInv, wpc \in {"create", "append"}, NEW w \in BOOLEAN,
           body' = Appended(w), where' = where
    PROVE  Grows
<1>1. \A k \in Files, t \in Tiles : where[k][t] \in Nat
  BY DEF IInv, TypeOK
<1>2. \A k \in Files : /\ SubSeq(body'[k], 1, Len(body[k])) = body[k]
                        /\ Len(body'[k]) >= Len(body[k])
  BY AppendedFacts
<1>3. \A k \in Files, t \in Tiles : where'[k][t] >= where[k][t]
  BY <1>1
<1> QED
  BY <1>2, <1>3 DEF Grows

\* Every step appends, moves an entry forward, or leaves the files alone.
LEMMA NextGrows == IInv /\ [Next]_vars => [Grows]_files
<1> SUFFICES ASSUME IInv, [Next]_vars PROVE [Grows]_files
  OBVIOUS
<1>1. CASE WriteChunk_Open
  BY <1>1, GrowsNot DEF WriteChunk_Open
<1>2. CASE WriteChunk_Data
  <2>1. CASE wk \in headed'
    BY <1>2, <2>1, GrowsAppended DEF WriteChunk_Data
  <2>2. CASE wk \notin headed'
    BY <1>2, <2>2, GrowsNot DEF WriteChunk_Data
  <2> QED
    BY <2>1, <2>2
<1>3. CASE WriteChunk_Where
  <2>1. /\ body \in [Files -> Seq(Chunk)] /\ where \in [Files -> [Tiles -> Nat]]
        /\ wk \in Files /\ wt \in Tiles
    BY DEF IInv, TypeOK
  <2>2. \A k \in Files : Len(body[k]) \in Nat /\ SubSeq(body[k], 1, Len(body[k])) = body[k]
    BY <2>1
  <2>3. wk \in headed => where[wk][wt] <= Len(body[wk])
    BY <2>1, <2>2 DEF IInv, HeaderIntegrity
  <2>4. \A k \in Files, t \in Tiles : where'[k][t] >= where[k][t]
    BY <1>3, <2>1, <2>2, <2>3 DEF WriteChunk_Where, Where
  <2>5. body' = body
    BY <1>3 DEF WriteChunk_Where
  <2> QED
    BY <2>2, <2>4, <2>5 DEF Grows
<1>4. CASE Die
  <2>1. CASE UNCHANGED body
    BY <1>4, <2>1, GrowsNot DEF Die
  <2>2. CASE wpc \in {"create", "append"} /\ \E w \in BOOLEAN : body' = Appended(w)
    BY <1>4, <2>2, GrowsAppended DEF Die
  <2> QED
    BY <1>4, <2>1, <2>2 DEF Die
<1>5. CASE Encode \/ Decode \/ Reading \/ UNCHANGED vars
  BY <1>5 DEF Encode, Decode, Reading, ReadNextChunk, ReadNextChunk_Headless,
              DecompressTile, vars
<1> QED
  BY <1>1, <1>2, <1>3, <1>4, <1>5 DEF Next, WriteChunk

\* No chunk in a file is ever overwritten, by a later chunk, an encoding that dies
\* or one that starts again, and no header entry goes back to an older chunk.
THEOREM AppendOnlyCorrect == Spec => AppendOnly
<1>1. IInv /\ [Next]_vars => [Grows]_files
  BY NextGrows
<1> QED
  BY <1>1, Invariance, PTL DEF Spec, AppendOnly

-----------------------------------------------------------------------------
(* The order of the chunks.  NewestFirst is not inductive: files are        *)
(* created in the order of their numbers and a tile's chunks are listed in  *)
(* that order, so that the files below the one being written list this     *)
(* encoding's chunks: OrderInv.                                             *)

\* File k is there, and lists for t a chunk not older than g if it has a header.
Has(k, t, g) == k \in exists /\ (k \in headed => Listed(k, t) >= g)

OrderInv ==
    /\ \A j, k \in Files : j < k /\ k \in exists => j \in exists
    /\ wpc # "idle" => \A j \in Files : j < wk => Has(j, wt, gen)
    /\ wpc = "create" => \A k \in exists : k <= wk
    /\ \A k \in Files, t \in Tiles : Listed(k, t) \in 0 .. gen
    /\ NewestFirst

-----------------------------------------------------------------------------
(* What each step does to what the files list.                             *)

\* A file without its header lists nothing, and a chunk that is listed was
\* written by some encoding.
LEMMA ListedFacts ==
    ASSUME IInv
    PROVE  /\ \A k \in Files, t \in Tiles : Listed(k, t) \in 0 .. MaxGen
           /\ \A k \in Files, t \in Tiles : Listed(k, t) = 0 <=> where[k][t] = 0
           /\ \A k \in Files, t \in Tiles : k \notin headed => Listed(k, t) = 0
           /\ \A k \in Files, t \in Tiles : where[k][t] > 0 =>
                 k \in headed /\ where[k][t] \in 1 .. Len(body[k])
<1>1. /\ where \in [Files -> [Tiles -> Nat]] /\ body \in [Files -> Seq(Chunk)]
      /\ headed \subseteq Files
  BY DEF IInv, TypeOK
<1>2. \A k \in Files, t \in Tiles : where[k][t] > 0 =>
         k \in headed /\ where[k][t] \in 1 .. Len(body[k])
  BY <1>1 DEF IInv, FilesOK, HeaderIntegrity
<1>3. \A k \in Files, t \in Tiles : where[k][t] > 0 =>
         body[k][where[k][t]] \in Chunk
  BY <1>1, <1>2
<1>4. \A k \in Files, t \in Tiles : where[k][t] > 0 => Listed(k, t) \in Gens
  BY <1>3 DEF Listed, Chunk
<1>5. \A k \in Files, t \in Tiles : where[k][t] = 0 => Listed(k, t) = 0
  BY DEF Listed
<1>6. \A k \in Files, t \in Tiles : where[k][t] = 0 \/ where[k][t] > 0
  BY <1>1
<1>7. \A k \in Files, t \in Tiles : k \notin headed => where[k][t] = 0
  BY DEF IInv, FilesOK
<1> QED
  BY <1>2, <1>4, <1>5, <1>6, <1>7, ChunkFileAssumption DEF Gens

\* An append lists nothing yet.
LEMMA ListedAppended ==
    ASSUME IInv, wpc \in {"create", "append"}, NEW w \in BOOLEAN,
           body' = Appended(w), where' = where
    PROVE  \A k \in Files, t \in Tiles : Listed(k, t)' = Listed(k, t)
<1> SUFFICES ASSUME NEW k \in Files, NEW t \in Tiles
             PROVE  Listed(k, t)' = Listed(k, t)
  OBVIOUS
<1>1. where[k][t] \in Nat /\ wk \in Files
  BY DEF IInv, TypeOK
<1>2. CASE where[k][t] = 0
  BY <1>2 DEF Listed
<1>3. CASE where[k][t] > 0
  <2>1. where[k][t] \in 1 .. Len(body[k])
    BY <1>3, ListedFacts
  <2>2. body'[k][where[k][t]] = body[k][where[k][t]]
    BY <2>1, AppendedFacts
  <2> QED
    BY <1>3, <2>2 DEF Listed
<1> QED
  BY <1>1, <1>2, <1>3

\* Data and Die list nothing new, whatever they leave in the files.
LEMMA ListedKept ==
    ASSUME IInv, WriteChunk_Open \/ WriteChunk_Data \/ Die \/ UNCHANGED files
    PROVE  \A k \in Files, t \in Tiles : Listed(k, t)' = Listed(k, t)
<1>1. CASE UNCHANGED <<body, where>>
  BY <1>1 DEF Listed
<1>2. CASE WriteChunk_Open \/ UNCHANGED files
  BY <1>1, <1>2 DEF WriteChunk_Open, files
<1>3. CASE WriteChunk_Data
  <2>1. CASE wk \in headed'
    BY <1>3, <2>1, ListedAppended DEF WriteChunk_Data
  <2>2. CASE wk \notin headed'
    BY <1>3, <2>2, <1>1 DEF WriteChunk_Data
  <2> QED
    BY <2>1, <2>2
<1>4. CASE Die
  <2>1. CASE UNCHANGED body
    BY <1>4, <2>1, <1>1 DEF Die
  <2>2. CASE wpc \in {"create", "append"} /\ \E w \in BOOLEAN : body' = Appended(w)
    BY <1>4, <2>2, ListedAppended DEF Die
  <2> QED
    BY <1>4, <2>1, <2>2 DEF Die
<1> QED
  BY <1>2, <1>3, <1>4

\* Where lists the chunk of the present encoding.
LEMMA ListedWhere ==
    ASSUME IInv, WriteChunk_Where
    PROVE  /\ \A k \in Files, t \in Tiles :
                 ~ (k = wk /\ t = wt) => Listed(k, t)' = Listed(k, t)
           /\ \A k \in Files, t \in Tiles :
                 k = wk /\ t = wt =>
                    Listed(k, t)' = IF wk \in headed THEN gen ELSE Listed(k, t)
<1>1. /\ wk \in Files /\ wt \in Tiles /\ where \in [Files -> [Tiles -> Nat]]
      /\ body \in [Files -> Seq(Chunk)]
  BY DEF IInv, TypeOK
<1>2. body' = body
  BY DEF WriteChunk_Where
<1>3. CASE wk \in headed
  <2>1. where' = [where EXCEPT ![wk][wt] = Len(body[wk])]
    BY <1>3 DEF WriteChunk_Where, Where
  <2>2. \A k \in Files, t \in Tiles :
           ~ (k = wk /\ t = wt) => Listed(k, t)' = Listed(k, t)
    <3> SUFFICES ASSUME NEW k \in Files, NEW t \in Tiles, ~ (k = wk /\ t = wt)
                 PROVE  Listed(k, t)' = Listed(k, t)
      OBVIOUS
    <3>1. where'[k][t] = where[k][t]
      BY <1>1, <2>1
    <3> QED
      BY <3>1, <1>2 DEF Listed
  <2>3. body[wk] # <<>> /\ body[wk][Len(body[wk])].gen = gen
    BY <1>3 DEF WriteChunk_Where, IInv, Appending
  <2>4. where'[wk][wt] = Len(body[wk]) /\ Len(body[wk]) # 0
    <3>1. body[wk] \in Seq(Chunk)
      BY <1>1
    <3> QED
      BY <3>1, <1>1, <2>1, <2>3
  <2>5. \A k \in Files, t \in Tiles : k = wk /\ t = wt => Listed(k, t)' = gen
    BY <2>3, <2>4, <1>2 DEF Listed
  <2> QED
    BY <1>3, <2>2, <2>5
<1>4. CASE wk \notin headed
  BY <1>2, <1>4 DEF WriteChunk_Where, Listed
<1> QED
  BY <1>3, <1>4

-----------------------------------------------------------------------------
(* The order.                                                              *)

\* Nothing is listed at first.
LEMMA InitOrder == Init => OrderInv
  BY ChunkFileAssumption DEF Init, OrderInv, NewestFirst, Listed, Has

\* A step that lists nothing new, creates no file and gives none its header keeps
\* the order, if the encoding stays where it is or stops, or a reader steps.
LEMMA OrderKept ==
    ASSUME IInv, OrderInv,
           \A k \in Files, t \in Tiles : Listed(k, t)' = Listed(k, t),
           UNCHANGED <<exists, headed, gen, wt, wk>>,
           wpc' \in {wpc, "idle"} \/ (wpc # "idle" /\ wpc' # "create")
    PROVE  OrderInv'
<1>1. headed \subseteq Files /\ wt \in Tiles
  BY DEF IInv, TypeOK
<1>2. \A j, k \in Files : j < k /\ k \in exists' => j \in exists'
  BY DEF OrderInv
<1>3. wpc' # "idle" => \A j \in Files : j < wk' => Has(j, wt, gen)'
  <2> SUFFICES ASSUME wpc' # "idle", NEW j \in Files, j < wk PROVE Has(j, wt, gen)'
    OBVIOUS
  <2>1. Has(j, wt, gen)
    BY DEF OrderInv
  <2>2. PICK t \in Tiles : t = wt
    BY <1>1
  <2>3. Has(j, t, gen)
    BY <2>1, <2>2
  <2>4. j \in exists' /\ (j \in headed' => Listed(j, t)' >= gen')
    BY <2>3 DEF Has
  <2>5. wt' = t
    BY <2>2
  <2> QED
    BY <2>4, <2>5 DEF Has, Listed
<1>4. wpc' = "create" => \A k \in exists' : k <= wk'
  BY DEF OrderInv
<1>5. \A k \in Files, t \in Tiles : Listed(k, t)' \in 0 .. gen'
  BY DEF OrderInv
<1>6. NewestFirst'
  BY <1>1 DEF OrderInv, NewestFirst
<1> QED
  BY <1>2, <1>3, <1>4, <1>5, <1>6 DEF OrderInv

\* So does one that gives the newest file its header.
LEMMA OrderHeaded ==
    ASSUME IInv, OrderInv, wpc = "create", wpc' \in {"where", "idle"},
           \A k \in Files, t \in Tiles : Listed(k, t)' = Listed(k, t),
           headed' = headed \union {wk},
           UNCHANGED <<exists, gen, wt, wk>>
    PROVE  OrderInv'
<1>1. /\ headed \subseteq exists /\ exists \subseteq Files /\ wt \in Tiles
      /\ wk \in Files /\ wk \in exists
  BY DEF IInv, TypeOK, Running
<1>2. \A k \in exists : k <= wk
  BY DEF OrderInv
<1>3. \A j, k \in Files : j < k /\ k \in exists' => j \in exists'
  BY DEF OrderInv
<1>4. wpc' # "idle" => \A j \in Files : j < wk' => Has(j, wt, gen)'
  <2> SUFFICES ASSUME NEW j \in Files, j < wk PROVE Has(j, wt, gen)'
    OBVIOUS
  <2>1. PICK t \in Tiles : t = wt
    BY <1>1
  <2>2. Has(j, t, gen)
    BY <2>1 DEF OrderInv
  <2>3. j # wk
    BY Numbers, <1>1
  <2>4. j \in exists' /\ (j \in headed' => Listed(j, t)' >= gen')
    BY <2>2, <2>3 DEF Has
  <2>5. wt' = t
    BY <2>1
  <2> QED
    BY <2>4, <2>5 DEF Has, Listed
<1>5. \A k \in Files, t \in Tiles : Listed(k, t)' \in 0 .. gen'
  BY DEF OrderInv
<1>6. NewestFirst'
  <2> SUFFICES ASSUME NEW t \in Tiles, NEW j \in headed', NEW k \in headed', j < k
               PROVE  Listed(j, t)' >= Listed(k, t)'
    BY DEF NewestFirst
  <2>1. j \in Files /\ k \in Files /\ k \in exists
    BY <1>1
  <2>2. j # wk
    BY <1>1, <1>2, <2>1, Numbers
  <2>3. CASE k = wk
    <3>1. wk \notin headed
      BY DEF IInv, Running
    <3>2. Listed(k, t) = 0
      BY <2>1, <2>3, <3>1, ListedFacts
    <3>3. Listed(j, t) >= 0
      BY <2>1, ListedFacts
    <3> QED
      BY <2>1, <3>2, <3>3
  <2>4. CASE k # wk
    <3>1. Listed(j, t) >= Listed(k, t)
      BY <2>2, <2>4 DEF OrderInv, NewestFirst
    <3> QED
      BY <2>1, <3>1
  <2> QED
    BY <2>3, <2>4
<1> QED
  BY <1>3, <1>4, <1>5, <1>6 DEF OrderInv

\* Opening creates the next file only when those before it are there.
LEMMA OrderOpen == ASSUME IInv, OrderInv, WriteChunk_Open PROVE OrderInv'
<1>1. headed \subseteq exists /\ exists \subseteq Files /\ wt \in Tiles /\ wk \in Files
  BY DEF IInv, TypeOK
<1>2. /\ exists' = exists \union {wk} /\ wpc = "open"
      /\ wpc' = IF wk \in exists THEN "append" ELSE "create"
      /\ UNCHANGED <<headed, body, where, gen, wt, wk>>
  BY DEF WriteChunk_Open
<1>3. \A k \in Files, t \in Tiles : Listed(k, t)' = Listed(k, t)
  BY <1>2 DEF Listed
<1>4. \A j \in Files : j < wk => Has(j, wt, gen)
  BY <1>2 DEF OrderInv
<1>5. \A j, k \in Files : j < k /\ k \in exists' => j \in exists'
  BY <1>2, <1>4 DEF OrderInv, Has
<1>6. \A j \in Files : j < wk' => Has(j, wt, gen)'
  <2> SUFFICES ASSUME NEW j \in Files, j < wk PROVE Has(j, wt, gen)'
    BY <1>2
  <2>1. Has(j, wt, gen)
    BY <1>4
  <2> QED
    BY <2>1, <1>2 DEF Has, Listed
<1>7. wpc' = "create" => \A k \in exists' : k <= wk'
  <2> SUFFICES ASSUME wk \notin exists, NEW k \in exists PROVE k <= wk
    BY <1>1, <1>2, Numbers
  <2>1. ~ (wk < k)
    BY <1>1 DEF OrderInv
  <2> QED
    BY <2>1, <1>1, Numbers
<1>8. \A k \in Files, t \in Tiles : Listed(k, t)' \in 0 .. gen'
  BY <1>2, <1>3 DEF OrderInv
<1>9. NewestFirst'
  BY <1>1, <1>2, <1>3 DEF OrderInv, NewestFirst
<1> QED
  BY <1>5, <1>6, <1>7, <1>8, <1>9 DEF OrderInv

\* Where lists a chunk of this encoding after those it has listed in the files
\* before, and nothing is newer.
LEMMA OrderWhere == ASSUME IInv, OrderInv, WriteChunk_Where PROVE OrderInv'
<1>1. /\ headed \subseteq exists /\ exists \subseteq Files /\ wt \in Tiles /\ wk \in Files
      /\ gen \in Nat
  BY DEF IInv, TypeOK
<1>2. UNCHANGED <<exists, headed, body, gen>> /\ wpc = "where"
  BY DEF WriteChunk_Where
<1>3. /\ \A k \in Files, t \in Tiles :
            ~ (k = wk /\ t = wt) => Listed(k, t)' = Listed(k, t)
      /\ \A k \in Files, t \in Tiles : k = wk /\ t = wt =>
            Listed(k, t)' = IF wk \in headed THEN gen ELSE Listed(k, t)
  BY ListedWhere
<1>4. \A j \in Files : j < wk => Has(j, wt, gen)
  BY <1>2 DEF OrderInv
<1>5. \A k \in Files, t \in Tiles : Listed(k, t) \in 0 .. gen
  BY DEF OrderInv
<1>6. \A k \in Files, t \in Tiles : Listed(k, t)' \in 0 .. gen'
  BY <1>1, <1>2, <1>3, <1>5
<1>7. NewestFirst'
  <2> SUFFICES ASSUME NEW t \in Tiles, NEW j \in headed, NEW k \in headed, j < k
               PROVE  Listed(j, t)' >= Listed(k, t)'
    BY <1>2 DEF NewestFirst
  <2>1. j \in Files /\ k \in Files
    BY <1>1
  <2>2. Listed(j, t) >= Listed(k, t)
    BY DEF OrderInv, NewestFirst
  <2>3. CASE t = wt /\ k = wk
    <3>1. Listed(j, t) >= gen /\ j # wk
      BY <2>1, <2>3, <1>4, Numbers DEF Has
    <3>2. Listed(j, t)' = Listed(j, t) /\ Listed(k, t)' = gen
      BY <2>1, <2>3, <3>1, <1>3
    <3> QED
      BY <3>1, <3>2
  <2>4. CASE t = wt /\ j = wk
    <3>1. Listed(j, t)' = gen /\ Listed(k, t)' = Listed(k, t)
      BY <2>1, <2>4, <1>3, Numbers
    <3>2. Listed(k, t) \in 0 .. gen
      BY <2>1, <1>5
    <3> QED
      BY <3>1, <3>2, <1>1
  <2>5. CASE ~ (t = wt /\ k = wk) /\ ~ (t = wt /\ j = wk)
    <3>1. Listed(j, t)' = Listed(j, t) /\ Listed(k, t)' = Listed(k, t)
      BY <2>1, <2>5, <1>3
    <3> QED
      BY <3>1, <2>2
  <2> QED
    BY <2>3, <2>4, <2>5
<1>8. wpc' # "idle" => \A j \in Files : j < wk' => Has(j, wt, gen)'
  <2> SUFFICES ASSUME wpc' # "idle", NEW j \in Files, j < wk' PROVE Has(j, wt, gen)'
    OBVIOUS
  <2>1. wk' = wk + 1 /\ wt' = wt
    <3>1. wk' # 0
      BY Numbers
    <3> QED
      BY <3>1 DEF WriteChunk_Where
  <2>2. CASE j < wk
    <3>1. PICK t \in Tiles : t = wt
      BY <1>1
    <3>2. Has(j, t, gen) /\ j # wk
      BY <2>2, <3>1, <1>1, <1>4, Numbers
    <3>3. Listed(j, t)' = Listed(j, t)
      BY <1>3, <3>2
    <3>4. wt' = t
      BY <2>1, <3>1
    <3>5. j \in exists' /\ (j \in headed' => Listed(j, t)' >= gen')
      BY <3>2, <3>3, <1>2 DEF Has
    <3> QED
      BY <3>4, <3>5 DEF Has, Listed
  <2>3. CASE j = wk
    <3>1. PICK t \in Tiles : t = wt
      BY <1>1
    <3>2. j \in exists
      BY <2>3, <1>2 DEF IInv, Running
    <3>3. j \in headed => Listed(j, t)' = gen
      BY <2>3, <3>1, <1>3
    <3>4. wt' = t
      BY <2>1, <3>1
    <3>5. j \in exists' /\ (j \in headed' => Listed(j, t)' >= gen')
      BY <3>2, <3>3, <1>1, <1>2
    <3> QED
      BY <3>4, <3>5 DEF Has, Listed
  <2> QED
    BY <2>1, <2>2, <2>3, <1>1, Numbers
<1>9. /\ \A j, k \in Files : j < k /\ k \in exists' => j \in exists'
      /\ wpc' # "create"
  BY <1>2 DEF OrderInv, WriteChunk_Where
<1> QED
  BY <1>6, <1>7, <1>8, <1>9 DEF OrderInv

\* A new encoding has no file before its first, and is newer than any listed.
LEMMA OrderEncode == ASSUME IInv, OrderInv, Encode PROVE OrderInv'
<1>1. UNCHANGED files /\ wk' = 0 /\ gen' = gen + 1 /\ wpc' = "open" /\ gen \in Nat
  BY DEF Encode, IInv, TypeOK
<1>2. \A k \in Files, t \in Tiles : Listed(k, t)' = Listed(k, t)
  BY <1>1, ListedKept
<1>3. \A j \in Files : ~ (j < wk')
  BY <1>1, Numbers DEF Files
<1>4. \A k \in Files, t \in Tiles : Listed(k, t)' \in 0 .. gen'
  BY <1>1, <1>2 DEF OrderInv
<1>5. headed \subseteq Files
  BY DEF IInv, TypeOK
<1>6. NewestFirst'
  BY <1>1, <1>2, <1>5 DEF OrderInv, NewestFirst, files
<1> QED
  BY <1>1, <1>3, <1>4, <1>6 DEF OrderInv, files

\* Every step keeps the order.
LEMMA NextOrder == IInv /\ OrderInv /\ [Next]_vars => OrderInv'
<1> SUFFICES ASSUME IInv, OrderInv, [Next]_vars PROVE OrderInv'
  OBVIOUS
<1>1. CASE Encode
  BY <1>1, OrderEncode
<1>2. CASE WriteChunk_Open
  BY <1>2, OrderOpen
<1>3. CASE WriteChunk_Data
  <2>1. \A k \in Files, t \in Tiles : Listed(k, t)' = Listed(k, t)
    BY <1>3, ListedKept
  <2>2. CASE wpc = "create"
    BY <1>3, <2>1, <2>2, OrderHeaded DEF WriteChunk_Data
  <2>3. CASE wpc = "append"
    BY <1>3, <2>1, <2>3, OrderKept DEF WriteChunk_Data
  <2> QED
    BY <1>3, <2>2, <2>3 DEF WriteChunk_Data
<1>4. CASE WriteChunk_Where
  BY <1>4, OrderWhere
<1>5. CASE Die
  <2>1. \A k \in Files, t \in Tiles : Listed(k, t)' = Listed(k, t)
    BY <1>5, ListedKept
  <2>2. CASE headed' = headed
    BY <1>5, <2>1, <2>2, OrderKept DEF Die
  <2>3. CASE wpc = "create" /\ headed' = headed \union {wk}
    BY <1>5, <2>1, <2>3, OrderHeaded DEF Die
  <2> QED
    BY <1>5, <2>2, <2>3 DEF Die
<1>6. CASE Decode \/ Reading \/ UNCHANGED vars
  <2>1. UNCHANGED <<files, encVars>>
    BY <1>6 DEF Decode, Reading, ReadNextChunk, ReadNextChunk_Headless,
                DecompressTile, vars
  <2>2. \A k \in Files, t \in Tiles : Listed(k, t)' = Listed(k, t)
    BY <2>1, ListedKept
  <2> QED
    BY <2>1, <2>2, OrderKept DEF files, encVars
<1> QED
  BY <1>1, <1>2, <1>3, <1>4, <1>5, <1>6 DEF Next, WriteChunk

\* OrderInv holds in every state of every behaviour.
THEOREM OrderInvariance == Spec => []OrderInv
  BY InitOrder, NextOrder, Invariance, PTL DEF Spec

\* Along the chunks of a tile, generations never increase and none is missing
\* before another, for every number of tiles, files and encodings that die.
THEOREM NewestFirstCorrect == Spec => []NewestFirst
<1>1. OrderInv => NewestFirst
  BY DEF OrderInv
<1> QED
  BY <1>1, OrderInvariance, PTL

-----------------------------------------------------------------------------
(* Once an encoding has ended, and no file is lost, every Decode succeeds   *)
(* and finds all that encoding wrote, or newer.                             *)

\* The tiles the present encoding has done with have all their chunks listed,
\* as have all tiles of the last encoding that ended; a file being created is
\* not one of those.
CompleteInv ==
    /\ wpc # "idle" => \A t \in Tiles, k \in Files :
          t < wt /\ k < need[t] => Has(k, t, gen)
    /\ done.gen > 0 => \A t \in Tiles, k \in Files :
          k < done.need[t] => Has(k, t, done.gen)
    /\ done.gen <= gen
    /\ wpc = "create" => \A t \in Tiles :
          /\ t < wt => need[t] <= wk
          /\ done.gen > 0 => done.need[t] <= wk

\* What a reader has got so far.
ReadInv ==
    (done.gen > 0 /\ Lost = {}) =>
       /\ rpc \notin {"failed", "outside"}
       /\ rpc \in {"read", "done"} => \A t \in Tiles :
            /\ \A k \in 1 .. Len(got[t]) :
                  k <= done.need[t] => got[t][k].gen >= done.gen
            /\ t < rt \/ rpc = "done" => Len(got[t]) >= done.need[t]

-----------------------------------------------------------------------------
\* No encoding has ended at first, and there is no tile before the first.
LEMMA InitComplete == Init => CompleteInv /\ ReadInv
<1> SUFFICES ASSUME Init PROVE CompleteInv /\ ReadInv
  OBVIOUS
<1>1. done.gen = 0 /\ gen = 0 /\ wpc = "idle"
  BY DEF Init
<1> QED
  BY <1>1 DEF CompleteInv, ReadInv

\* A file that lists for t a chunk not older than g goes on doing so, unless it
\* has just been created and gets its header.
LEMMA HasKept ==
    ASSUME IInv, OrderInv, [Next]_vars, NEW k \in Files, NEW t \in Tiles,
           NEW g \in Nat, g <= gen, Has(k, t, g), wpc = "create" => k # wk
    PROVE  Has(k, t, g)'
<1>1. k \in exists /\ (k \in headed => Listed(k, t) >= g)
  BY DEF Has
<1>2. Listed(k, t) \in 0 .. MaxGen /\ MaxGen \in Nat
  BY ListedFacts, ChunkFileAssumption
<1>3. gen \in Nat
  BY DEF IInv, TypeOK
<1>4. k \in exists'
  BY <1>1 DEF Next, Encode, WriteChunk, WriteChunk_Open, WriteChunk_Data,
     WriteChunk_Where, Die, Decode, Reading, ReadNextChunk, ReadNextChunk_Headless,
     DecompressTile, vars, files
<1>5. k \in headed' => k \in headed
  <2>1. headed' = headed \/ (wpc = "create" /\ headed' = headed \union {wk})
    BY DEF Next, Encode, WriteChunk, WriteChunk_Open, WriteChunk_Data,
       WriteChunk_Where, Die, Decode, Reading, ReadNextChunk,
       ReadNextChunk_Headless, DecompressTile, vars, files
  <2> QED
    BY <2>1
<1>6. k \in headed => Listed(k, t)' >= g
  <2>1. CASE WriteChunk_Where
    <3>1. CASE k = wk /\ t = wt
      BY <1>1, <1>3, <2>1, <3>1, ListedWhere
    <3>2. CASE ~ (k = wk /\ t = wt)
      BY <1>1, <2>1, <3>2, ListedWhere
    <3> QED
      BY <3>1, <3>2
  <2>2. CASE WriteChunk_Open \/ WriteChunk_Data \/ Die \/ UNCHANGED files
    <3>1. Listed(k, t)' = Listed(k, t)
      BY <2>2, ListedKept
    <3> QED
      BY <1>1, <3>1
  <2>3. CASE Encode \/ Decode \/ Reading \/ UNCHANGED vars
    <3>1. UNCHANGED files
      BY <2>3 DEF Encode, Decode, Reading, ReadNextChunk, ReadNextChunk_Headless,
                  DecompressTile, vars
    <3> QED
      BY <3>1, <2>2
  <2> QED
    BY <2>1, <2>2, <2>3 DEF Next, WriteChunk
<1> QED
  BY <1>4, <1>5, <1>6 DEF Has

\* Every step but the end of a WriteChunk keeps what the tiles have listed.
LEMMA CompleteKept ==
    ASSUME IInv, OrderInv, CompleteInv, [Next]_vars, ~ WriteChunk_Where, ~ Encode
    PROVE  CompleteInv'
<1>1. /\ UNCHANGED <<gen, need, wt, wk, done>>
      /\ wpc' # "idle" => wpc # "idle"
  BY DEF Next, WriteChunk, WriteChunk_Open, WriteChunk_Data, Die, Decode, Reading,
     ReadNextChunk, ReadNextChunk_Headless, DecompressTile, vars, encVars
<1>2. /\ wt \in Tiles /\ wk \in Files /\ need \in [Tiles -> 1 .. NK] /\ gen \in Nat
      /\ done.gen \in Nat /\ done.need \in [Tiles -> 1 .. NK]
  BY DEF IInv, TypeOK
<1>3. wpc' # "idle" => \A t \in Tiles, k \in Files :
         t < wt' /\ k < need'[t] => Has(k, t, gen)'
  <2> SUFFICES ASSUME wpc' # "idle", NEW t \in Tiles, NEW k \in Files,
                      t < wt, k < need[t]
               PROVE  Has(k, t, gen)'
    BY <1>1
  <2>1. PICK g \in Nat : g = gen
    BY <1>2
  <2>2. Has(k, t, g)
    BY <1>1, <2>1 DEF CompleteInv
  <2>3. wpc = "create" => k # wk
    BY <1>2, Numbers DEF CompleteInv
  <2>4. Has(k, t, g)'
    BY <2>1, <2>2, <2>3, HasKept, <1>2
  <2> QED
    BY <1>1, <2>1, <2>4 DEF Has
<1>4. done'.gen > 0 => \A t \in Tiles, k \in Files :
         k < done'.need[t] => Has(k, t, done.gen)'
  <2> SUFFICES ASSUME done.gen > 0, NEW t \in Tiles, NEW k \in Files,
                      k < done.need[t]
               PROVE  Has(k, t, done.gen)'
    BY <1>1
  <2>1. PICK g \in Nat : g = done.gen
    BY <1>2
  <2>2. Has(k, t, g) /\ g <= gen
    BY <2>1 DEF CompleteInv
  <2>3. wpc = "create" => k # wk
    BY <1>2, Numbers DEF CompleteInv
  <2>4. Has(k, t, g)'
    BY <2>2, <2>3, HasKept
  <2> QED
    BY <1>1, <2>1, <2>4 DEF Has
<1>5. wpc' = "create" => \A t \in Tiles :
          /\ t < wt' => need'[t] <= wk'
          /\ done'.gen > 0 => done'.need[t] <= wk'
  <2> SUFFICES ASSUME wpc' = "create", wpc # "create", NEW t \in Tiles
               PROVE  /\ t < wt => need[t] <= wk
                      /\ done.gen > 0 => done.need[t] <= wk
    BY <1>1 DEF CompleteInv
  <2>1. wpc = "open" /\ wk \notin exists
    BY DEF Next, WriteChunk, WriteChunk_Open, WriteChunk_Data, Die, Decode, Reading,
       ReadNextChunk, ReadNextChunk_Headless, DecompressTile, vars, encVars
  <2>2. ~ (t < wt /\ wk < need[t])
    BY <1>2, <2>1 DEF CompleteInv, Has
  <2>3. ~ (done.gen > 0 /\ wk < done.need[t])
    BY <1>2, <2>1 DEF CompleteInv, Has
  <2>4. need[t] \in Nat /\ done.need[t] \in Nat /\ wk \in Nat
    BY <1>2, Numbers
  <2> QED
    BY <2>2, <2>3, <2>4
<1>6. done'.gen <= gen'
  BY <1>1 DEF CompleteInv
<1> QED
  BY <1>3, <1>4, <1>5, <1>6 DEF CompleteInv

\* The last chunk of a tile listed, the tile has all of them listed.
LEMMA WhereHas ==
    ASSUME IInv, OrderInv, CompleteInv, WriteChunk_Where, LastCi,
           NEW t \in Tiles, NEW k \in Files, t <= wt, k < need[t]
    PROVE  Has(k, t, gen)'
<1>1. /\ wt \in Nat /\ wk \in Nat /\ t \in Nat /\ k \in Nat /\ gen \in Nat
      /\ need[t] \in Nat
  <2>1. /\ wt \in Tiles /\ wk \in Files /\ gen \in Nat
        /\ need \in [Tiles -> 1 .. NK]
    BY DEF IInv, TypeOK
  <2> QED
    BY <2>1, Numbers
<1>2. /\ wpc = "where" /\ gen' = gen /\ exists' = exists /\ headed' = headed
      /\ wk \in exists
  BY DEF WriteChunk_Where, IInv, Running
<1>3. PICK g \in Nat : g = gen
  BY <1>1
<1>4. Has(k, t, g) => Has(k, t, g)'
  BY <1>1, <1>2, <1>3, HasKept DEF Next, WriteChunk
<1>5. CASE t < wt
  <2>1. Has(k, t, g)
    BY <1>1, <1>2, <1>3, <1>5 DEF CompleteInv
  <2> QED
    BY <1>1, <1>2, <1>3, <1>4, <2>1 DEF Has
<1>6. CASE t = wt /\ k < wk
  <2>1. Has(k, t, g)
    BY <1>1, <1>2, <1>3, <1>6 DEF OrderInv
  <2> QED
    BY <1>1, <1>2, <1>3, <1>4, <2>1 DEF Has
<1>7. CASE t = wt /\ k = wk
  <2>1. k \in headed => Listed(k, t)' = gen
    BY <1>7, ListedWhere
  <2> QED
    BY <1>1, <1>2, <1>7, <2>1 DEF Has
<1>8. t = wt => k <= wk
  BY <1>1 DEF LastCi
<1> QED
  BY <1>1, <1>2, <1>5, <1>6, <1>7, <1>8

\* The end of a WriteChunk, of a tile, of an encoding.
LEMMA CompleteWhere ==
    ASSUME IInv, OrderInv, CompleteInv, WriteChunk_Where PROVE CompleteInv'
<1>1. /\ wt \in Tiles /\ wk \in Files /\ need \in [Tiles -> 1 .. NK] /\ gen \in Nat
      /\ done.gen \in Nat /\ done.need \in [Tiles -> 1 .. NK]
  BY DEF IInv, TypeOK
<1>2. gen' = gen /\ need' = need /\ wpc = "where" /\ wpc' # "create"
  BY DEF WriteChunk_Where
<1>3. \A t \in Tiles, k \in Files, g \in Nat :
         g <= gen /\ Has(k, t, g) => Has(k, t, g)'
  BY <1>2, HasKept DEF Next, WriteChunk
<1>4. wpc' # "idle" => \A t \in Tiles, k \in Files :
         t < wt' /\ k < need'[t] => Has(k, t, gen)'
  <2> SUFFICES ASSUME wpc' # "idle", NEW t \in Tiles, NEW k \in Files,
                      t < wt', k < need[t]
               PROVE  Has(k, t, gen)'
    BY <1>2
  <2>1. CASE LastCi
    <3>1. t <= wt
      BY <1>1, <2>1, Numbers DEF WriteChunk_Where
    <3> QED
      BY <2>1, <3>1, WhereHas
  <2>2. CASE ~ LastCi
    <3>1. t < wt
      BY <2>2 DEF WriteChunk_Where
    <3>2. PICK g \in Nat : g = gen
      BY <1>1
    <3>3. Has(k, t, g)
      BY <1>2, <3>1, <3>2 DEF CompleteInv
    <3>4. Has(k, t, g)'
      BY <1>3, <3>2, <3>3
    <3> QED
      BY <1>2, <3>2, <3>4 DEF Has
  <2> QED
    BY <2>1, <2>2
<1>5. done'.gen > 0 => \A t \in Tiles, k \in Files :
         k < done'.need[t] => Has(k, t, done.gen)'
  <2> SUFFICES ASSUME done'.gen > 0, NEW t \in Tiles, NEW k \in Files,
                      k < done'.need[t]
               PROVE  Has(k, t, done.gen)'
    OBVIOUS
  <2>1. CASE UNCHANGED done
    <3>1. PICK g \in Nat : g = done.gen
      BY <1>1
    <3>2. Has(k, t, g) /\ g <= gen
      BY <2>1, <3>1 DEF CompleteInv
    <3>3. Has(k, t, g)'
      BY <1>3, <3>1, <3>2
    <3> QED
      BY <2>1, <3>1, <3>3 DEF Has
  <2>2. CASE LastCi /\ ~ (wt + 1 < NT) /\ done' = [gen |-> gen, need |-> need]
    <3>1. t <= wt
      BY <1>1, <2>2, Numbers, ChunkFileAssumption DEF Tiles
    <3>2. Has(k, t, gen)'
      BY <2>2, <3>1, WhereHas
    <3> QED
      BY <1>2, <2>2, <3>2 DEF Has
  <2> QED
    BY <2>1, <2>2 DEF WriteChunk_Where
<1>6. done'.gen <= gen'
  BY <1>1, <1>2 DEF WriteChunk_Where, CompleteInv
<1> QED
  BY <1>2, <1>4, <1>5, <1>6 DEF CompleteInv

\* A new encoding has done with no tile.
LEMMA CompleteEncode ==
    ASSUME IInv, OrderInv, CompleteInv, Encode PROVE CompleteInv'
<1>1. gen \in Nat /\ done.gen \in Nat
  BY DEF IInv, TypeOK
<1>2. wpc = "idle" /\ wpc' = "open" /\ wt' = 0 /\ gen' = gen + 1 /\ done' = done
  BY DEF Encode
<1>3. \A t \in Tiles : ~ (t < wt')
  BY <1>2, Numbers
<1>4. done'.gen > 0 => \A t \in Tiles, k \in Files :
         k < done'.need[t] => Has(k, t, done.gen)'
  <2> SUFFICES ASSUME done.gen > 0, NEW t \in Tiles, NEW k \in Files,
                      k < done.need[t]
               PROVE  Has(k, t, done.gen)'
    BY <1>2
  <2>1. PICK g \in Nat : g = done.gen
    BY <1>1
  <2>2. Has(k, t, g) /\ g <= gen
    BY <2>1 DEF CompleteInv
  <2>3. Has(k, t, g)'
    BY <1>2, <2>2, HasKept DEF Next
  <2> QED
    BY <1>2, <2>1, <2>3 DEF Has
<1>5. done'.gen <= gen'
  BY <1>1, <1>2 DEF CompleteInv
<1> QED
  BY <1>2, <1>3, <1>4, <1>5 DEF CompleteInv

\* Every step keeps what the tiles have listed.
LEMMA NextComplete ==
    IInv /\ OrderInv /\ CompleteInv /\ [Next]_vars => CompleteInv'
  BY CompleteKept, CompleteWhere, CompleteEncode

-----------------------------------------------------------------------------
(* What a reader gets.                                                     *)

\* An encoding that has ended, with no file lost since: while no other runs,
\* every tile finds its chunks in the files, none older.
LEMMA AllThere ==
    ASSUME IInv, CompleteInv, done.gen > 0, Lost = {}, wpc # "create",
           NEW t \in Tiles, NEW k \in Files, k < done.need[t]
    PROVE  k \in headed /\ k \in exists /\ Listed(k, t) >= done.gen /\ where[k][t] # 0
<1>1. Has(k, t, done.gen)
  BY DEF CompleteInv
<1>2. k \in exists /\ k \in headed
  BY <1>1 DEF Has, Lost
<1>3. Listed(k, t) >= done.gen
  BY <1>1, <1>2 DEF Has
<1>4. done.gen \in Nat
  BY DEF IInv, TypeOK
<1>5. Listed(k, t) # 0
  BY <1>3, <1>4
<1> QED
  BY <1>2, <1>3, <1>5, ListedFacts

\* The first file is not missing, so that a Decode starts.
LEMMA ReadDecode ==
    ASSUME IInv, CompleteInv, Decode, done.gen > 0, Lost' = {}
    PROVE  rpc' = "read" /\ rt' = 0 /\ \A t \in Tiles : got'[t] = <<>>
<1>1. wpc = "idle" /\ Lost = {}
  BY DEF Decode, Lost, files, encVars
<1>2. done.need \in [Tiles -> 1 .. NK]
  BY DEF IInv, TypeOK
<1>3. 0 < done.need[0]
  BY <1>2, Numbers
<1>4. 0 \in headed
  BY <1>1, <1>3, Numbers, AllThere
<1> QED
  BY <1>4 DEF Decode, NoneRead

\* A chunk that is read is whole, and if the tile needs it not too old.
LEMMA ReadChunk ==
    ASSUME IInv, CompleteInv, ReadInv, ReadNextChunk, done.gen > 0, Lost = {}
    PROVE  /\ rpc' = "read" /\ rt' = rt
           /\ \A t \in Tiles :
                 /\ Len(got'[t]) \in Nat /\ Len(got'[t]) >= Len(got[t])
                 /\ \A k \in 1 .. Len(got'[t]) :
                       k <= done.need[t] => got'[t][k].gen >= done.gen
<1>1. /\ rt \in Tiles /\ got \in [Tiles -> Seq(Chunk)] /\ headed \subseteq Files
      /\ body \in [Files -> Seq(Chunk)] /\ done.need \in [Tiles -> 1 .. NK]
      /\ exists \subseteq Files
  BY DEF IInv, TypeOK
<1>2. rpc = "read" /\ wpc = "idle"
  BY DEF ReadNextChunk, IInv, Running
<1>3. ChunkId \in headed /\ where[ChunkId][rt] > 0
  BY DEF ReadNextChunk, Entry
<1>4. PICK k0 \in Files : k0 = ChunkId
  BY <1>1, <1>3
<1>5. PICK c : c = body[k0][where[k0][rt]]
  OBVIOUS
<1>6. c \in Chunk /\ c.whole
  <2>1. where[k0][rt] \in 1 .. Len(body[k0])
    BY <1>1, <1>3, <1>4, ListedFacts
  <2>2. c \in Chunk
    BY <1>1, <1>5, <2>1
  <2>3. c.whole
    BY <1>1, <1>3, <1>4, <1>5 DEF IInv, HeaderIntegrity
  <2> QED
    BY <2>2, <2>3
<1>7. /\ got' = [got EXCEPT ![rt] = Append(@, c)]
      /\ rpc' = "read" /\ rt' = rt
  BY <1>2, <1>4, <1>5, <1>6 DEF ReadNextChunk, Entry, Pushed
<1>8. k0 < done.need[rt] => c.gen >= done.gen
  <2> SUFFICES ASSUME k0 < done.need[rt] PROVE c.gen >= done.gen
    OBVIOUS
  <2>1. Listed(k0, rt) >= done.gen /\ where[k0][rt] # 0
    BY <1>1, <1>2, AllThere
  <2> QED
    BY <1>5, <2>1 DEF Listed
<1>9. ASSUME NEW t \in Tiles
      PROVE  /\ Len(got'[t]) \in Nat /\ Len(got'[t]) >= Len(got[t])
             /\ \A k \in 1 .. Len(got'[t]) :
                   k <= done.need[t] => got'[t][k].gen >= done.gen
  <2>1. got[t] \in Seq(Chunk)
    BY <1>1
  <2>2. Len(got[t]) \in Nat
    BY <2>1
  <2>3. \A k \in 1 .. Len(got[t]) : k <= done.need[t] => got[t][k].gen >= done.gen
    BY <1>2 DEF ReadInv
  <2>4. CASE t # rt
    <3>1. got'[t] = got[t]
      BY <1>1, <1>7, <2>4
    <3> QED
      BY <2>2, <2>3, <3>1
  <2>5. CASE t = rt
    <3>1. got'[t] = Append(got[t], c) /\ k0 = Len(got[t])
      BY <1>1, <1>4, <1>7, <2>5 DEF ChunkId
    <3>2. /\ Len(got'[t]) = k0 + 1
          /\ \A k \in 1 .. k0 : got'[t][k] = got[t][k]
          /\ got'[t][k0 + 1] = c
      BY <1>6, <2>1, <3>1, AppendFacts
    <3>3. done.need[t] \in Nat
      BY <1>1
    <3>4. \A k \in 1 .. k0 + 1 : k \in 1 .. k0 \/ k = k0 + 1
      BY <2>2, <3>1
    <3>5. k0 + 1 <= done.need[t] => c.gen >= done.gen
      BY <1>8, <2>2, <2>5, <3>1, <3>3
    <3>6. \A k \in 1 .. k0 + 1 : k <= done.need[t] => got'[t][k].gen >= done.gen
      BY <2>3, <3>1, <3>2, <3>4, <3>5
    <3> QED
      BY <2>2, <3>1, <3>2, <3>6
  <2> QED
    BY <2>4, <2>5
<1> QED
  BY <1>7, <1>9

\* A tile whose chunks have all been read has as many as it needs.
LEMMA ReadTile ==
    ASSUME IInv, CompleteInv, DecompressTile, done.gen > 0, Lost = {}
    PROVE  Len(got[rt]) >= done.need[rt] /\ got[rt] # <<>>
<1>1. /\ rt \in Tiles /\ got \in [Tiles -> Seq(Chunk)]
      /\ done.need \in [Tiles -> 1 .. NK]
  BY DEF IInv, TypeOK
<1>2. /\ done.need[rt] \in 1 .. NK /\ Len(got[rt]) \in Nat
      /\ got[rt] = <<>> => Len(got[rt]) = 0
  BY <1>1
<1>3. wpc = "idle"
  BY DEF DecompressTile, IInv, Running
<1>4. ~ (Len(got[rt]) < done.need[rt])
  <2> SUFFICES ASSUME Len(got[rt]) < done.need[rt] PROVE FALSE
    OBVIOUS
  <2>1. PICK k \in Files : k = Len(got[rt])
    BY <1>2, ChunkFileAssumption DEF Files
  <2>2. k \in headed /\ k \in exists /\ where[k][rt] # 0
    BY <1>1, <1>3, <2>1, AllThere
  <2> QED
    BY <2>1, <2>2 DEF DecompressTile, ChunkId, Entry
<1> QED
  BY <1>2, <1>4, ChunkFileAssumption

\* Every step of a reader keeps ReadInv; a writer's finds none.
LEMMA NextRead ==
    ASSUME IInv, OrderInv, CompleteInv, ReadInv, [Next]_vars PROVE ReadInv'
<1> SUFFICES ASSUME done'.gen > 0, Lost' = {}
             PROVE  /\ rpc' \notin {"failed", "outside"}
                    /\ rpc' \in {"read", "done"} => \A t \in Tiles :
                         /\ \A k \in 1 .. Len(got'[t]) :
                               k <= done'.need[t] => got'[t][k].gen >= done'.gen
                         /\ t < rt' \/ rpc' = "done" => Len(got'[t]) >= done'.need[t]
  BY DEF ReadInv
<1>1. CASE Encode
  BY <1>1 DEF Encode
<1>2. CASE WriteChunk \/ Die
  BY <1>2 DEF WriteChunk, WriteChunk_Open, WriteChunk_Data, WriteChunk_Where, Die,
              decVars, IInv, Running
<1>3. CASE Decode
  <2>1. done' = done
    BY <1>3 DEF Decode, encVars
  <2>2. rpc' = "read" /\ rt' = 0 /\ \A t \in Tiles : got'[t] = <<>>
    BY <1>3, <2>1, ReadDecode
  <2>3. \A t \in Tiles : ~ (t < rt') /\ 1 .. Len(got'[t]) = {}
    BY <2>2, Numbers
  <2> QED
    BY <2>2, <2>3
<1>4. CASE Reading
  <2>1. done' = done /\ Lost = {} /\ wpc = "idle" /\ rpc = "read"
    BY <1>4 DEF Reading, ReadNextChunk, ReadNextChunk_Headless, DecompressTile,
                encVars, files, Lost, IInv, Running
  <2>2. /\ got \in [Tiles -> Seq(Chunk)] /\ done.need \in [Tiles -> 1 .. NK]
        /\ rt \in Tiles
    BY DEF IInv, TypeOK
  <2>3. \A t \in Tiles : Len(got[t]) \in Nat /\ done.need[t] \in Nat
    BY <2>2
  <2>4. \A t \in Tiles :
           /\ \A k \in 1 .. Len(got[t]) :
                 k <= done.need[t] => got[t][k].gen >= done.gen
           /\ t < rt => Len(got[t]) >= done.need[t]
    BY <2>1 DEF ReadInv
  <2>5. CASE ReadNextChunk
    <3>1. /\ rpc' = "read" /\ rt' = rt
          /\ \A t \in Tiles :
                /\ Len(got'[t]) \in Nat /\ Len(got'[t]) >= Len(got[t])
                /\ \A k \in 1 .. Len(got'[t]) :
                      k <= done.need[t] => got'[t][k].gen >= done.gen
      BY <2>1, <2>5, ReadChunk
    <3> QED
      BY <2>1, <2>3, <2>4, <3>1
  <2>6. CASE ReadNextChunk_Headless
    BY <2>1, <2>6 DEF ReadNextChunk_Headless, Lost
  <2>7. CASE DecompressTile
    <3>1. Len(got[rt]) >= done.need[rt] /\ got[rt] # <<>>
      BY <2>1, <2>7, ReadTile
    <3>2. got' = got /\ rpc' \in {"read", "done"}
      BY <2>1, <2>7, <3>1 DEF DecompressTile
    <3>3. rt' = rt + 1 \/ rt' = rt
      BY <2>7 DEF DecompressTile
    <3>4. rpc' = "done" => ~ (rt + 1 < NT)
      BY <2>1, <2>7, <3>1 DEF DecompressTile
    <3>5. \A t \in Tiles : t < rt' \/ rpc' = "done" => t < rt \/ t = rt
      BY <2>2, <3>3, <3>4, ChunkFileAssumption DEF Tiles
    <3>6. \A t \in Tiles : t < rt' \/ rpc' = "done" => Len(got'[t]) >= done'.need[t]
      BY <2>1, <2>4, <3>1, <3>2, <3>5
    <3>7. \A t \in Tiles : \A k \in 1 .. Len(got'[t]) :
             k <= done'.need[t] => got'[t][k].gen >= done'.gen
      BY <2>1, <2>4, <3>2
    <3> QED
      BY <3>2, <3>6, <3>7
  <2> QED
    BY <1>4, <2>5, <2>6, <2>7 DEF Reading
<1>5. CASE UNCHANGED vars
  BY <1>5 DEF vars, files, encVars, decVars, ReadInv, Lost
<1> QED
  BY <1>1, <1>2, <1>3, <1>4, <1>5 DEF Next

\* CompleteInv and ReadInv hold in every state of every behaviour.
THEOREM CompleteInvariance == Spec => [](CompleteInv /\ ReadInv)
<1>1. Init => CompleteInv /\ ReadInv
  BY InitComplete
<1>2. IInv /\ OrderInv /\ CompleteInv /\ ReadInv /\ [Next]_vars
         => (CompleteInv /\ ReadInv)'
  BY NextComplete, NextRead
<1> QED
  BY <1>1, <1>2, Invariance, OrderInvariance, PTL DEF Spec

\* Once an encoding has ended, with no file lost, every Decode that ends finds
\* all its chunks or newer ones, and none fails, for every number of tiles,
\* files and encodings that die later.
THEOREM CompleteReadableCorrect == Spec => []CompleteReadable
<1>1. IInv /\ ReadInv => CompleteReadable
  <2> SUFFICES ASSUME IInv, ReadInv, done.gen > 0, Lost = {}, rpc = "done",
                      NEW t \in Tiles
               PROVE  /\ Len(got[t]) >= done.need[t]
                      /\ \A k \in 1 .. done.need[t] : got[t][k].gen >= done.gen
    BY DEF CompleteReadable, ReadInv
  <2>1. got \in [Tiles -> Seq(Chunk)] /\ done.need \in [Tiles -> 1 .. NK]
    BY DEF IInv, TypeOK
  <2>2. Len(got[t]) \in Nat /\ done.need[t] \in Nat
    BY <2>1
  <2> QED
    BY <2>2 DEF ReadInv
<1> QED
  BY <1>1, Invariance, CompleteInvariance, PTL

-----------------------------------------------------------------------------
(* The chunk files implement TileStreams: the files, their headers and the  *)
(* order of the calls to them, any of which may be the last before an       *)
(* encoding dies, look to a reader like places that are filled one at a     *)
(* time, each at once.                                                      *)
(*                                                                         *)
(* A step that writes Where is Publish, one that dies is Stop, and the      *)
(* other calls of WriteChunk are no step at all.  A reading is one Read     *)
(* when it starts and one for each tile that DecompressTile takes; for      *)
(* that the chunks read so far have to be the ones the headers list:        *)
(* SoFarInv says so, while nobody writes.                                   *)

\* The chunks read for a tile are those that are listed for it, in order, and
\* nothing is read ahead.
SoFarInv ==
    rpc = "read" =>
       /\ \A t \in Tiles : \A k \in 1 .. Len(got[t]) :
             /\ k - 1 \in headed
             /\ Listed(k - 1, t) # 0
             /\ got[t][k].gen = Listed(k - 1, t)
       /\ \A t \in Tiles : rt < t => got[t] = <<>>

-----------------------------------------------------------------------------
(* The chunks read so far.                                                 *)

\* A chunk that is read is the one the next header lists.
LEMMA SoFarRead == ASSUME IInv, SoFarInv, ReadNextChunk PROVE SoFarInv'
<1>1. /\ rt \in Tiles /\ got \in [Tiles -> Seq(Chunk)] /\ body \in [Files -> Seq(Chunk)]
      /\ where \in [Files -> [Tiles -> Nat]] /\ headed \subseteq Files
  BY DEF IInv, TypeOK
<1>2. UNCHANGED <<headed, body, where, rt>> /\ ChunkId \in headed /\ Entry > 0 /\ rpc = "read"
  BY DEF ReadNextChunk, files
<1>3. \A k \in Files, t \in Tiles : Listed(k, t)' = Listed(k, t)
  BY <1>2 DEF Listed
<1> SUFFICES ASSUME rpc' = "read" PROVE SoFarInv'
  BY DEF SoFarInv
<1>4. PICK k0 \in Files : k0 = Len(got[rt]) /\ k0 \in headed
  BY <1>1, <1>2 DEF ChunkId
<1> DEFINE c == body[k0][where[k0][rt]]
<1>5. /\ got' = [got EXCEPT ![rt] = Append(got[rt], c)]
      /\ k0 \in Nat /\ where[k0][rt] > 0
  BY <1>2, <1>4, Numbers DEF ReadNextChunk, Pushed, ChunkId, Entry
<1>6. Listed(k0, rt) = c.gen /\ Listed(k0, rt) # 0
  BY <1>1, <1>5, ListedFacts DEF Listed
<1>7. c \in Chunk
  BY <1>1, <1>5, ListedFacts
<1> SUFFICES ASSUME NEW t \in Tiles
             PROVE  /\ \A k \in 1 .. Len(got'[t]) :
                          /\ k - 1 \in headed
                          /\ Listed(k - 1, t)' # 0
                          /\ got'[t][k].gen = Listed(k - 1, t)'
                    /\ rt < t => got'[t] = <<>>
  BY <1>2 DEF SoFarInv
<1>8. CASE t # rt
  <2>1. got'[t] = got[t]
    BY <1>1, <1>5, <1>8
  <2> QED
    BY <2>1, <1>1, <1>2, <1>3 DEF SoFarInv
<1>9. CASE t = rt
  <2>1. got'[t] = Append(got[t], c) /\ got[t] \in Seq(Chunk)
    BY <1>1, <1>5, <1>9
  <2>2. /\ Len(got'[t]) = k0 + 1
        /\ \A k \in 1 .. k0 : got'[t][k] = got[t][k]
        /\ got'[t][k0 + 1] = c
    BY <2>1, <1>4, <1>7, <1>9, AppendFacts
  <2>3. \A k \in 1 .. Len(got'[t]) : k \in 1 .. k0 \/ k = k0 + 1
    BY <2>2, <1>5
  <2>4. \A k \in 1 .. k0 : /\ k - 1 \in headed
                           /\ Listed(k - 1, t)' # 0
                           /\ got'[t][k].gen = Listed(k - 1, t)'
    <3>1. \A k \in 1 .. k0 : /\ k - 1 \in headed
                             /\ Listed(k - 1, t) # 0
                             /\ got[t][k].gen = Listed(k - 1, t)
      BY <1>2, <1>4, <1>9 DEF SoFarInv
    <3>2. \A k \in 1 .. k0 : Listed(k - 1, t)' = Listed(k - 1, t)
      BY <3>1, <1>1, <1>3
    <3> QED
      BY <3>1, <3>2, <2>2
  <2>5. Listed(k0, t)' = Listed(k0, rt) /\ k0 + 1 - 1 = k0
    <3>1. Listed(k0, t)' = Listed(k0, t)
      BY <1>3, <1>5
    <3> QED
      BY <3>1, <1>5, <1>9
  <2>6. /\ k0 \in headed
        /\ Listed(k0, t)' # 0
        /\ got'[t][k0 + 1].gen = Listed(k0, t)'
    BY <2>2, <2>5, <1>4, <1>6
  <2>7. ~ (rt < t)
    BY <1>9, Numbers
  <2>8. \A k \in 1 .. k0 + 1 : /\ k - 1 \in headed
                               /\ Listed(k - 1, t)' # 0
                               /\ got'[t][k].gen = Listed(k - 1, t)'
    <3> SUFFICES ASSUME NEW k \in 1 .. k0 + 1
                 PROVE  /\ k - 1 \in headed
                        /\ Listed(k - 1, t)' # 0
                        /\ got'[t][k].gen = Listed(k - 1, t)'
      OBVIOUS
    <3>1. CASE k \in 1 .. k0
      BY <3>1, <2>4
    <3>2. CASE k = k0 + 1
      <4>1. k - 1 = k0
        BY <3>2, <1>5
      <4> QED
        BY <4>1, <3>2, <2>6
    <3>3. k \in 1 .. k0 \/ k = k0 + 1
      BY <1>5
    <3> QED
      BY <3>1, <3>2, <3>3
  <2> QED
    BY <2>2, <2>7, <2>8
<1> QED
  BY <1>8, <1>9

\* Every step keeps to it.
LEMMA NextSoFar == IInv /\ SoFarInv /\ [Next]_vars => SoFarInv'
<1> SUFFICES ASSUME IInv, SoFarInv, [Next]_vars PROVE SoFarInv'
  OBVIOUS
<1>0. rt \in Tiles /\ got \in [Tiles -> Seq(Chunk)]
  BY DEF IInv, TypeOK
<1>1. CASE Encode \/ WriteChunk \/ Die
  BY <1>1 DEF Encode, WriteChunk, WriteChunk_Open, WriteChunk_Data, WriteChunk_Where,
              Die, decVars, IInv, Running, SoFarInv
<1>2. CASE Decode
  <2>1. \A t \in Tiles : got'[t] = <<>> /\ Len(got'[t]) = 0
    BY <1>2 DEF Decode, NoneRead
  <2>2. \A t \in Tiles : 1 .. Len(got'[t]) = {}
    BY <2>1
  <2> QED
    BY <2>1, <2>2 DEF SoFarInv
<1>3. CASE ReadNextChunk
  BY <1>3, SoFarRead
<1>4. CASE ReadNextChunk_Headless
  BY <1>4 DEF ReadNextChunk_Headless, SoFarInv
<1>5. CASE DecompressTile
  <2>1. UNCHANGED <<headed, body, where, got>> /\ (rt' = rt \/ rt' = rt + 1)
    BY <1>5 DEF DecompressTile, files
  <2>2. \A t \in Tiles : rt' < t => rt < t
    BY <2>1, <1>0, Numbers
  <2>3. rpc = "read"
    BY <1>5 DEF DecompressTile
  <2> QED
    BY <2>1, <2>2, <2>3 DEF SoFarInv, Listed
<1>6. CASE UNCHANGED vars
  BY <1>6 DEF vars, files, decVars, SoFarInv, Listed
<1> QED
  BY <1>1, <1>2, <1>3, <1>4, <1>5, <1>6 DEF Next, Reading

\* A decoding has read what is listed.
THEOREM SoFarInvariance == Spec => []SoFarInv
<1>1. Init => SoFarInv
  BY DEF Init, SoFarInv
<1> QED
  BY <1>1, NextSoFar, Invariance, PTL DEF Spec

-----------------------------------------------------------------------------
(* The states and steps of TileStreams.                                    *)

At == IF wpc = "idle" THEN <<>> ELSE <<wt, wk>>

\* What a step that leaves the reader alone leaves of the result.
LEMMA ResultKept == UNCHANGED decVars => TheResult' = TheResult
  BY DEF decVars, TheResult

\* The places stay what they are when the files list the same chunks.
LEMMA PublishedKept ==
    ASSUME \A k \in Files, t \in Tiles : Listed(k, t)' = Listed(k, t)
    PROVE  Published' = Published
  BY DEF Published

\* At first nothing is listed and nothing is read.
LEMMA InitStreams == Init => Streams!Init
<1> SUFFICES ASSUME Init PROVE Streams!Init
  OBVIOUS
<1>1. Published = [t \in Tiles |-> [k \in Files |-> 0]]
  BY DEF Init, Published, Listed
<1>2. TheResult = [t \in Tiles |-> <<>>]
  <2>1. \A t \in Tiles : ~ (t < rt)
    BY Numbers DEF Init
  <2> QED
    BY <2>1 DEF Init, TheResult
<1>3. Lost = {}
  BY DEF Init, Lost
<1> QED
  BY <1>1, <1>2, <1>3 DEF Init, Streams!Init, Streams!Tiles, Streams!Places, Tiles, Files

\* Encode is Encode: it begins at the first place of the first tile.
LEMMA EncodeStreams == ASSUME IInv, Encode PROVE Streams!Encode
<1>1. UNCHANGED files /\ wpc = "idle" /\ wpc' = "open" /\ rpc' = "idle" /\ rt' = 0
  BY DEF Encode
<1>2. Published' = Published
  BY <1>1, ListedKept, PublishedKept
<1>3. Lost' = Lost
  BY <1>1 DEF Lost, files
<1>4. TheResult' = [t \in Tiles |-> <<>>]
  <2>1. \A t \in Tiles : ~ (t < rt')
    BY <1>1, Numbers
  <2> QED
    BY <1>1, <2>1 DEF TheResult
<1> QED
  BY <1>2, <1>3, <1>4 DEF Encode, Streams!Encode, Streams!Tiles, Tiles

\* Opening a file and appending to it are not seen: the file is not lost while
\* it is being created.
LEMMA CallsStreams ==
    ASSUME IInv, WriteChunk_Open \/ WriteChunk_Data PROVE UNCHANGED Streams!vars
<1>1. Published' = Published
  BY ListedKept, PublishedKept
<1>2. TheResult' = TheResult
  BY ResultKept DEF WriteChunk_Open, WriteChunk_Data
<1>3. Lost' = Lost
  <2>1. headed \subseteq exists /\ (wpc = "create" => wk \notin headed /\ wk \in exists)
    BY DEF IInv, TypeOK, Running
  <2>2. CASE WriteChunk_Open
    BY <2>1, <2>2 DEF WriteChunk_Open, Lost
  <2>3. CASE WriteChunk_Data
    BY <2>1, <2>3 DEF WriteChunk_Data, Lost
  <2> QED
    BY <2>2, <2>3
<1>4. UNCHANGED <<gen, need, wt, wk>> /\ wpc # "idle" /\ wpc' # "idle"
  BY DEF WriteChunk_Open, WriteChunk_Data
<1> QED
  BY <1>1, <1>2, <1>3, <1>4 DEF Streams!vars

\* Writing Where fills the place, unless its file is lost.
LEMMA WhereStreams == ASSUME IInv, WriteChunk_Where PROVE Streams!Publish
<1>1. /\ wk \in Files /\ wt \in Tiles /\ need[wt] \in Nat /\ wk < need[wt]
      /\ wk \in exists
  <2>1. need \in [Tiles -> 1 .. NK] /\ wt \in Tiles
    BY DEF IInv, TypeOK
  <2>2. need[wt] \in Nat
    BY <2>1
  <2> QED
    BY <2>1, <2>2 DEF IInv, TypeOK, Running, WriteChunk_Where
<1>2. /\ UNCHANGED <<exists, headed, gen, need, decVars>>
      /\ wpc = "where" /\ wpc' \in {"open", "idle"}
  BY DEF WriteChunk_Where
<1>3. Lost = exists \ headed /\ Lost' = Lost
  BY <1>2 DEF Lost
<1>4. Published' = IF wk \in Lost THEN Published
                   ELSE [Published EXCEPT ![wt][wk] = gen]
  <2>1. /\ \A k \in Files, t \in Tiles :
              ~ (k = wk /\ t = wt) => Listed(k, t)' = Listed(k, t)
        /\ \A k \in Files, t \in Tiles : k = wk /\ t = wt =>
              Listed(k, t)' = IF wk \in headed THEN gen ELSE Listed(k, t)
    BY ListedWhere
  <2>2. CASE wk \in headed
    BY <2>1, <2>2, <1>1, <1>3 DEF Published
  <2>3. CASE wk \notin headed
    <3>1. \A k \in Files, t \in Tiles : Listed(k, t)' = Listed(k, t)
      BY <2>1, <2>3
    <3> QED
      BY <3>1, <2>3, <1>1, <1>3, PublishedKept
  <2> QED
    BY <2>2, <2>3
<1>5. At' = IF wk + 1 < need[wt] THEN <<wt, wk + 1>>
            ELSE IF wt + 1 < NT THEN <<wt + 1, 0>> ELSE <<>>
  <2>1. wk \in Nat /\ wt \in Nat
    BY <1>1, Numbers
  <2>2. LastCi <=> ~ (wk + 1 < need[wt])
    BY <1>1, <2>1 DEF LastCi
  <2> QED
    BY <2>2 DEF WriteChunk_Where, At
<1>6. At = <<wt, wk>> /\ At # <<>>
  BY <1>2 DEF At
<1>7. TheResult' = TheResult
  BY <1>2, ResultKept
<1> QED
  BY <1>2, <1>3, <1>4, <1>5, <1>6, <1>7 DEF Streams!Publish, Streams!After, At

\* Dying is Stop: what is lost is the place whose file never got its header, and
\* no file without one lists a chunk.
LEMMA DieStreams == ASSUME IInv, Die PROVE Streams!Stop
<1>1. wk \in Files /\ wt \in Tiles /\ headed \subseteq exists
  BY DEF IInv, TypeOK
<1>2. Published' = Published
  BY ListedKept, PublishedKept
<1>3. TheResult' = TheResult
  BY ResultKept DEF Die
<1>4. UNCHANGED <<exists, gen, need, wt, wk>> /\ wpc # "idle" /\ wpc' = "idle"
  BY DEF Die
<1>5. \/ Lost' = Lost
      \/ (\A t \in Tiles : Published[t][wk] = 0) /\ Lost' = Lost \union {wk}
  <2>1. wpc = "create" => wk \in exists /\ wk \notin headed
    BY DEF IInv, Running
  <2>2. CASE wpc # "create"
    BY <2>2, <1>4 DEF Die, Lost
  <2>3. CASE wpc = "create" /\ headed' = headed \union {wk}
    BY <2>1, <2>3, <1>4 DEF Lost
  <2>4. CASE wpc = "create" /\ headed' = headed
    <3>1. Lost' = Lost \union {wk}
      BY <2>1, <2>4, <1>4 DEF Lost
    <3>2. \A t \in Tiles : Published[t][wk] = 0
      BY <2>1, <2>4, <1>1, ListedFacts DEF Published
    <3> QED
      BY <3>1, <3>2
  <2> QED
    BY <2>2, <2>3, <2>4 DEF Die
<1>6. At = <<wt, wk>> /\ At # <<>> /\ At' = <<>>
  BY <1>4 DEF At
<1> QED
  BY <1>2, <1>3, <1>4, <1>5, <1>6 DEF Streams!Stop, Streams!Tiles, Tiles, At

\* A reading begins with nothing found.
LEMMA DecodeStreams == ASSUME IInv, Decode PROVE Streams!Read
<1>1. /\ UNCHANGED <<files, encVars>> /\ wpc = "idle" /\ rt' = 0
      /\ rpc' \in {"read", "outside"}
  BY DEF Decode
<1>2. Published' = Published
  BY <1>1, ListedKept, PublishedKept
<1>3. TheResult' = [t \in Tiles |-> <<>>]
  <2>1. \A t \in Tiles : ~ (t < rt')
    BY <1>1, Numbers
  <2> QED
    BY <1>1, <2>1 DEF TheResult
<1> QED
  BY <1>1, <1>2, <1>3 DEF Lost, files, encVars, Streams!Read, Streams!Tiles, Tiles

\* A tile's chunks are the ones it has up to the first place that is empty.
LEMMA FoundTile ==
    ASSUME IInv, SoFarInv, DecompressTile, got[rt] # <<>>
    PROVE  /\ Len(got[rt]) \in 1 .. NK
           /\ Streams!Found(rt) = 0 .. Len(got[rt]) - 1
           /\ [k \in 1 .. Len(got[rt]) |-> got[rt][k].gen]
                 = [k \in 1 .. Len(got[rt]) |-> Published[rt][k - 1]]
<1> DEFINE n == Len(got[rt])
<1>1. rt \in Tiles /\ got[rt] \in Seq(Chunk) /\ headed \subseteq exists /\ exists \subseteq Files
  BY DEF IInv, TypeOK
<1>2. n \in Nat /\ n # 0
  BY <1>1
<1>3. rpc = "read" /\ wpc = "idle"
  BY DEF DecompressTile, IInv, Running
<1>4. \A k \in 1 .. n : /\ k - 1 \in headed
                        /\ Listed(k - 1, rt) # 0
                        /\ got[rt][k].gen = Listed(k - 1, rt)
  BY <1>1, <1>3 DEF SoFarInv
<1>5. n \in 1 .. NK
  <2>1. n \in 1 .. n
    BY <1>2
  <2>2. n - 1 \in Files
    BY <2>1, <1>4, <1>1
  <2> QED
    BY <2>2, <1>2, ChunkFileAssumption DEF Files
<1>6. \A j \in Files, t \in Tiles : Published[t][j] = Listed(j, t)
  BY DEF Published
<1>7. \A j \in 0 .. n - 1 : j \in Files /\ j \notin Lost /\ Published[rt][j] # 0
  <2> SUFFICES ASSUME NEW j \in 0 .. n - 1
               PROVE  j \in Files /\ j \notin Lost /\ Published[rt][j] # 0
    OBVIOUS
  <2>1. j + 1 \in 1 .. n /\ j + 1 - 1 = j
    BY <1>2
  <2>2. j \in headed /\ Listed(j, rt) # 0
    BY <2>1, <1>4
  <2> QED
    BY <2>2, <1>1, <1>6 DEF Lost
<1>8. n \in Files => n \in Lost \/ Published[rt][n] = 0
  <2> SUFFICES ASSUME n \in Files PROVE n \in Lost \/ Published[rt][n] = 0
    OBVIOUS
  <2>1. n \notin headed => Listed(n, rt) = 0
    BY <1>1, ListedFacts
  <2>2. n \in headed => where[n][rt] = 0
    BY <1>1 DEF DecompressTile, ChunkId, Entry
  <2>3. where[n][rt] = 0 => Listed(n, rt) = 0
    BY DEF Listed
  <2> QED
    BY <2>1, <2>2, <2>3, <1>1, <1>6
<1>9. Streams!Found(rt) = 0 .. n - 1
  <2> DEFINE Ok(j) == j \notin Lost /\ Published[rt][j] # 0
  <2>1. Streams!Found(rt) = {k \in Files : \A j \in 0 .. k : Ok(j)}
    BY DEF Streams!Found, Streams!Places, Files
  <2>2. \A j \in 0 .. n - 1 : j \in Files /\ Ok(j)
    BY <1>7
  <2>3. n \in Files => ~ Ok(n)
    BY <1>8
  <2> HIDE DEF Ok
  <2>4. \A k \in 0 .. n - 1 : k \in Files /\ \A j \in 0 .. k : Ok(j)
    BY <2>2, <1>2
  <2>5. \A k \in Files : (\A j \in 0 .. k : Ok(j)) => k \in 0 .. n - 1
    <3> SUFFICES ASSUME NEW k \in Files, \A j \in 0 .. k : Ok(j), ~ (k <= n - 1)
                 PROVE  FALSE
      BY <1>2, Numbers DEF Files
    <3>1. k \in Nat /\ n \in 0 .. k
      BY <1>2, Numbers
    <3>2. n \in Files
      BY <3>1, <1>2, ChunkFileAssumption DEF Files
    <3> QED
      BY <3>1, <3>2, <2>3
  <2> QED
    BY <2>1, <2>4, <2>5
<1>10. [k \in 1 .. n |-> got[rt][k].gen] = [k \in 1 .. n |-> Published[rt][k - 1]]
  <2>1. \A k \in 1 .. n : got[rt][k].gen = Published[rt][k - 1]
    BY <1>1, <1>4, <1>6
  <2> QED
    BY <2>1
<1> QED
  BY <1>5, <1>9, <1>10

\* Decompressing a tile is reading it whole.
LEMMA DecompressStreams ==
    ASSUME IInv, SoFarInv, DecompressTile PROVE [Streams!Next]_Streams!vars
<1>1. /\ UNCHANGED <<files, encVars, got>> /\ wpc = "idle" /\ rpc = "read"
  BY DEF DecompressTile, IInv, Running
<1>2. Published' = Published /\ Lost' = Lost /\ At' = At /\ At = <<>>
      /\ UNCHANGED <<gen, need>>
  BY <1>1, ListedKept, PublishedKept DEF Lost, files, encVars, At
<1>3. rt \in Tiles /\ rt \in Nat /\ \A t \in Tiles : t \in Nat
  BY Numbers DEF IInv, TypeOK
<1>4. CASE got[rt] = <<>>
  <2>1. TheResult' = TheResult
    BY <1>1, <1>4 DEF DecompressTile, TheResult
  <2> QED
    BY <2>1, <1>2 DEF Streams!vars, At
<1>5. CASE got[rt] # <<>>
  <2> DEFINE n == Len(got[rt])
  <2>1. /\ n \in 1 .. NK
        /\ Streams!Found(rt) = 0 .. n - 1
        /\ [k \in 1 .. n |-> got[rt][k].gen] = [k \in 1 .. n |-> Published[rt][k - 1]]
    BY <1>5, FoundTile
  <2>2. \A t \in Tiles : t < rt' \/ rpc' = "done" <=> t < rt \/ t = rt
    <3>1. CASE rt + 1 < NT
      BY <3>1, <1>1, <1>3, <1>5 DEF DecompressTile
    <3>2. CASE ~ (rt + 1 < NT)
      BY <3>2, <1>3, <1>5, ChunkFileAssumption DEF DecompressTile, Tiles
    <3> QED
      BY <3>1, <3>2
  <2>3. TheResult' = [TheResult EXCEPT ![rt] =
                         [k \in 1 .. n |-> got[rt][k].gen]]
    <3>1. \A t \in Tiles : t # rt => TheResult'[t] = TheResult[t]
      BY <2>2, <1>1 DEF TheResult
    <3>2. TheResult'[rt] = [k \in 1 .. n |-> got[rt][k].gen]
      BY <2>2, <1>1, <1>3 DEF TheResult
    <3>3. TheResult' = [t \in Tiles |-> TheResult'[t]]
          /\ TheResult = [t \in Tiles |-> TheResult[t]]
      BY DEF TheResult
    <3> QED
      BY <3>1, <3>2, <3>3, <1>3
  <2>4. TheResult' = [TheResult EXCEPT ![rt] =
                         [k \in 1 .. n |-> Published[rt][k - 1]]]
    BY <2>1, <2>3
  <2>5. rt \in Streams!Tiles
    BY <1>3 DEF Streams!Tiles, Tiles
  <2>6. Streams!Read
    <3> HIDE DEF n
    <3>1. \E t \in Streams!Tiles : \E m \in 1 .. NK :
             /\ Streams!Found(t) = 0 .. m - 1
             /\ TheResult' = [TheResult EXCEPT ![t] =
                                 [k \in 1 .. m |-> Published[t][k - 1]]]
      BY <2>1, <2>4, <2>5
    <3> QED
      BY <3>1, <1>2 DEF Streams!Read, At
  <2> QED
    BY <2>6 DEF Streams!Next
<1> QED
  BY <1>4, <1>5

\* Reading another chunk of the tile, or failing to, is not seen.
LEMMA ReadStreams ==
    ASSUME IInv, ReadNextChunk \/ ReadNextChunk_Headless PROVE UNCHANGED Streams!vars
<1>1. /\ UNCHANGED <<files, encVars, rt>> /\ rpc = "read" /\ rpc' # "done"
      /\ got' = got \/ \E c : got' = Pushed(c)
  BY DEF ReadNextChunk, ReadNextChunk_Headless
<1>2. Published' = Published /\ Lost' = Lost /\ At' = At /\ UNCHANGED <<gen, need>>
  BY <1>1, ListedKept, PublishedKept DEF Lost, files, encVars, At
<1>3. rt \in Tiles /\ got \in [Tiles -> Seq(Chunk)]
  BY DEF IInv, TypeOK
<1>4. \A t \in Tiles : t < rt => got'[t] = got[t]
  <2>1. \A t \in Tiles : t < rt => t # rt
    BY <1>3, Numbers
  <2> QED
    BY <2>1, <1>1, <1>3 DEF Pushed
<1>5. TheResult' = TheResult
  BY <1>1, <1>4 DEF TheResult
<1> QED
  BY <1>2, <1>5 DEF Streams!vars, At

\* Every step of the files is a step of TileStreams, or none.
LEMMA NextStreams == IInv /\ SoFarInv /\ [Next]_vars => [Streams!Next]_Streams!vars
<1> SUFFICES ASSUME IInv, SoFarInv, [Next]_vars PROVE [Streams!Next]_Streams!vars
  OBVIOUS
<1>1. CASE Encode
  BY <1>1, EncodeStreams DEF Streams!Next
<1>2. CASE WriteChunk
  BY <1>2, CallsStreams, WhereStreams DEF WriteChunk, Streams!Next
<1>3. CASE Die
  BY <1>3, DieStreams DEF Streams!Next
<1>4. CASE Decode
  BY <1>4, DecodeStreams DEF Streams!Next
<1>5. CASE Reading
  BY <1>5, ReadStreams, DecompressStreams DEF Reading
<1>6. CASE UNCHANGED vars
  <2>1. Published' = Published /\ TheResult' = TheResult
    BY <1>6, ListedKept, PublishedKept, ResultKept DEF vars
  <2> QED
    BY <2>1, <1>6 DEF vars, files, encVars, Lost, Streams!vars
<1> QED
  BY <1>1, <1>2, <1>3, <1>4, <1>5, <1>6 DEF Next

\* The chunk files keep the promise of TileStreams, for every number of tiles,
\* files and encodings: whenever an encoding dies and however often it is started
\* again, a reader finds of each tile what fills its places up to the first that
\* is empty or lost.
THEOREM ImplementsStreams == Spec => Implements
<1>1. Init => Streams!Init
  BY InitStreams
<1>2. IInv /\ SoFarInv /\ [Next]_vars => [Streams!Next]_Streams!vars
  BY NextStreams
<1> QED
  BY <1>1, <1>2, Invariance, SoFarInvariance, PTL DEF Spec, Implements, Streams!Spec
=============================================================================
