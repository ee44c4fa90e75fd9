----------------------------- MODULE TileCodec -----------------------------
(***************************************************************************)
(* A tile written as a chain of chunks and read back: WriteTile and        *)
(* DecompressTile, src/src/mg_file_format.cpp:163-221 and 477-539.  A tile  *)
(* is a row of zfp blocks.  Both go through the bit planes from the most   *)
(* significant down, and through the blocks of a plane in order; the first *)
(* plane also carries the exponent (EMax) of each block.  The encoder cuts *)
(* its stream into chunks of S = ChunkBytes * 8 bits as it goes; the       *)
(* decoder has the first nread chunks of the chain.                         *)
(*                                                                         *)
(* The coefficients, already transformed, quantized and shuffled, are the  *)
(* input; what is done to them before and after is not modelled here.  A   *)
(* plane that the tolerance excludes is never looked at, and is empty.      *)
(*                                                                         *)
(* "outside" is where the code leaves its buffers: Encode called with a    *)
(* stream already past S has a negative P and reads Block[-k]; a read past *)
(* the chunk returns whatever follows it in memory.  Nothing is modelled   *)
(* after that; the properties say when it cannot happen.                    *)
(*                                                                         *)
(* An operator named Wrong... is the one after it with a mistake: the       *)
(* properties are checked to fail when it takes that one's place.           *)
(***************************************************************************)
EXTENDS ZfpCoder, Sequences

CONSTANTS
    NB,         \* blocks of the tile, Prod(NBlocks3)
    Prec,       \* bit planes, Ff.Prec
    ExpBits,    \* traits<t>::ExpBits
    ExpBias,    \* traits<t>::ExpBias
    MinExp,     \* the least exponent Quantize gives: the tile's buffer is of f64
                \* for a volume of f32 too, and so is the clamp of Exponent
    TolExp,     \* Exponent(Ff.Tolerance)
    ChunkBits   \* the capacities a chunk may have

ASSUME TileAssumption ==
    /\ NB \in Nat \ {0} /\ Prec \in Nat \ {0} /\ ExpBits \in Nat \ {0}
    /\ ExpBias \in Nat /\ MinExp \in Int /\ MinExp <= -ExpBias
    /\ TolExp \in Int /\ TolExp >= MinExp
    /\ ChunkBits \subseteq Nat \ {0, 1}

Blocks == 0 .. NB - 1
Planes == 0 .. Prec - 1

\* What Quantize finds for the blocks.  No sample is too large for its type,
\* but the least exponent, that of a block of zeros, is the one of f64.
Exponents == MinExp .. 2 ^ ExpBits - 1 - ExpBias

VARIABLES
    S,          \* ChunkBytes * 8
    emax,       \* the exponent of each block
    planes,     \* the bit planes of each block
    \* WriteTile
    epc,        \* "block", "encode", "turn", "done" or "outside"
    ebp, eb,    \* Bp and Block
    ens,        \* Tl->Ns
    call,       \* the call of Encode: N, M, InnerLoop
    bits,       \* the stream: the bits of the chunk being filled
    chunks,     \* the chunks written
    torn,       \* history: an EMax crossed a chunk's end, or ended it with no
                \* plane of its block and another EMax following
    emaxOut,    \* history: an EMax lies, in part, beyond the first chunk
    \* DecompressTile
    dpc,        \* "idle", "block", "decode", "turn", "done" or "outside"
    nread,      \* the chunks ReadNextChunk has found
    dbp, db,    \* Bp and Block
    dns,        \* Tl->Ns
    dcall,      \* the call of Decode, with the bits it reads
    ck,         \* ChunkIt, nread + 1 at End
    demax,      \* Tl->EMaxes
    got,        \* Tl->UInts
    copied      \* <<block, exponent, planes>> CopyBlockInverse has put in the volume

data == <<S, emax, planes>>
encVars == <<epc, ebp, eb, ens, call, bits, chunks, torn, emaxOut>>
decVars == <<dpc, nread, dbp, db, dns, dcall, ck, demax, got, copied>>
vars == <<data, encVars, decVars>>

-----------------------------------------------------------------------------
\* The number of planes worth encoding, less one: Prec - Bp <= Depth(e).
Depth(e) == e - TolExp + 1

\* DoEncode, DoDecode.
Wanted(bp, e) == Prec - bp <= Depth(e)

Significant(e) == 0 <= Depth(e)

\* Write(Bs, V, ExpBits): the low bit first; Put masks what does not fit.
BitsOf(v) == [i \in 1 .. ExpBits |-> (v \div 2 ^ (i - 1)) % 2]

\* Read(Bs, ExpBits), from position p of chunk c.
ValueAt(c, p) == CHOOSE v \in 0 .. 2 ^ ExpBits - 1 :
                    BitsOf(v) = SubSeq(c, p + 1, p + ExpBits)

WriteEMax(e) == IF Significant(e) THEN <<1>> \o BitsOf(e + ExpBias) ELSE <<0>>

WrongLastBlock(b) == b = NB

\* The next block in the order of the two loops.
LastBlock(b) == b = NB - 1
NextBlock(b) == IF LastBlock(b) THEN 0 ELSE b + 1
NextPlane(bp, b) == IF LastBlock(b) THEN bp - 1 ELSE bp

\* The bits of plane pl from coefficient i on.
PlaneBits(pl, i, k) == [j \in 1 .. k |-> IF i + j - 1 \in pl THEN 1 ELSE 0]

-----------------------------------------------------------------------------
Init ==
    /\ S \in ChunkBits
    /\ emax \in [Blocks -> Exponents]
    /\ planes \in [Blocks -> [Planes -> SUBSET Coefs]]
    /\ \A b \in Blocks, bp \in Planes :
          ~ Wanted(bp, emax[b]) => planes[b][bp] = {}
    /\ epc = "block" /\ ebp = Prec - 1 /\ eb = 0
    /\ ens = [b \in Blocks |-> 0]
    /\ call = Entry(0, 0)
    /\ bits = <<>> /\ chunks = <<>>
    /\ torn = FALSE /\ emaxOut = FALSE
    /\ dpc = "idle" /\ nread = 0 /\ dbp = Prec - 1 /\ db = 0
    /\ dns = [b \in Blocks |-> 0]
    /\ dcall = DecEntry(0, 0)
    /\ ck = 1
    /\ demax = [b \in Blocks |-> TolExp - 2]
    /\ got = [b \in Blocks |-> [bp \in Planes |-> {}]]
    /\ copied = {}

\* The head of the block loop: on the first plane, WriteEMax (it does not look
\* at the room left in the chunk); then M = 0, InnerLoop = false.
WriteTile_Block ==
    /\ epc = "block"
    /\ LET first == ebp = Prec - 1
           out   == IF first THEN bits \o WriteEMax(emax[eb]) ELSE bits
           doEnc == Wanted(ebp, emax[eb])
       IN /\ bits' = out
          /\ call' = Entry(ens[eb], Len(out))
          /\ emaxOut' = (emaxOut \/ (first /\ (chunks # <<>> \/ Len(out) > S)))
          /\ torn' = (torn \/ (first /\ (\/ Len(out) > S
                                         \/ Len(out) = S /\ ~ doEnc /\ ~ LastBlock(eb))))
          /\ epc' = IF ~ doEnc THEN "turn"
                    ELSE IF Len(out) > S THEN "outside" ELSE "encode"
    /\ UNCHANGED <<data, ebp, eb, ens, chunks, decVars>>

\* Encode, piece by piece.
EncodePiece ==
    /\ epc = "encode"
    /\ LET pl == planes[eb][ebp]
       IN \/ /\ call.pc = "call"
             /\ call' = EncCall(S, call)
             /\ bits' = bits \o PlaneBits(pl, call.m, Refinement(S, call))
          \/ /\ call.pc = "group"
             /\ call' = EncGroup(pl, S, call)
             /\ bits' = IF AtGroupBit(S, call)
                        THEN Append(bits, GroupBit(pl, call)) ELSE bits
          \/ /\ call.pc = "inner"
             /\ call' = EncInner(pl, S, call)
             /\ bits' = IF AtCoefBit(S, call)
                        THEN Append(bits, CoefBit(pl, call)) ELSE bits
          \/ /\ call.pc = "after"
             /\ call' = EncAfter(S, call)
             /\ bits' = bits
    /\ epc' = IF call'.pc = "return" THEN "turn" ELSE "encode"
    /\ UNCHANGED <<data, ebp, eb, ens, chunks, torn, emaxOut, decVars>>

\* What is left when the tile ends is not written.
WrongChunkDue(last) == Len(bits) > 0 /\ Len(bits) >= S

\* There is something to write, and the chunk is complete or the tile ends.
ChunkDue(last) == Len(bits) > 0 /\ (Len(bits) >= S \/ last)

\* The rest of a turn of the do ... while: M += P; WriteChunk, if one
\* is due; then the next turn or, when the plane is fully encoded (or not
\* wanted), the next block.
WriteTile_Turn ==
    /\ epc = "turn"
    /\ LET full  == Wanted(ebp, emax[eb]) => Full(call)
           last  == ebp = 0 /\ LastBlock(eb)
           write == ChunkDue(last)
           left  == IF write THEN <<>> ELSE bits
       IN /\ chunks' = IF write THEN Append(chunks, SubSeq(bits, 1, Lesser(S, Len(bits))))
                                ELSE chunks
          /\ bits' = left
          /\ ens' = [ens EXCEPT ![eb] = call.n]
          /\ call' = [call EXCEPT !.pc = "call", !.m = Cursor(call), !.p = 0,
                                  !.fill = Len(left)]
          /\ IF ~ full THEN epc' = "encode" /\ UNCHANGED <<ebp, eb>>
             ELSE IF last THEN epc' = "done" /\ UNCHANGED <<ebp, eb>>
             ELSE /\ epc' = "block"
                  /\ eb' = NextBlock(eb) /\ ebp' = NextPlane(ebp, eb)
    /\ UNCHANGED <<data, torn, emaxOut, decVars>>

-----------------------------------------------------------------------------
\* ReadSubband has read the chunks it found, at least one; DecompressTile
\* starts on the first.
DecompressTile_Begin ==
    /\ epc = "done" /\ dpc = "idle"
    /\ nread' \in 1 .. Len(chunks)
    /\ dpc' = "block"
    /\ UNCHANGED <<data, encVars, dbp, db, dns, dcall, ck, demax, got, copied>>

Chunk == chunks[ck]

\* The chunk has k more bits to read at position p.
Has(p, k) == p + k <= Len(Chunk)

Bit(p) == Chunk[p + 1]

\* The head of the block loop: ReadEMax on the first plane; M = 0.
DecompressTile_Block ==
    /\ dpc = "block"
    /\ LET p   == dcall.fill
           sig == Has(p, 1) /\ Bit(p) = 1
           len == IF sig THEN 1 + ExpBits ELSE 1
           e   == IF dbp # Prec - 1 THEN demax[db]
                  ELSE IF sig THEN ValueAt(Chunk, p + 1) - ExpBias ELSE TolExp - 2
       IN IF dbp = Prec - 1 /\ ~ Has(p, len)
          THEN dpc' = "outside" /\ UNCHANGED <<demax, dcall>>
          ELSE /\ demax' = [demax EXCEPT ![db] = e]
               /\ dcall' = [DecEntry(dns[db], IF dbp = Prec - 1 THEN p + len ELSE p)
                              EXCEPT !.block = got[db][dbp]]
               /\ dpc' = IF Wanted(dbp, e) THEN "decode" ELSE "turn"
    /\ UNCHANGED <<data, encVars, nread, dbp, db, dns, ck, got, copied>>

\* The next piece of Decode reads a bit the chunk does not have.
Strays ==
    LET p == dcall.fill
    IN \/ dcall.pc = "call" /\ ~ Has(p, Refinement(S, dcall))
       \/ dcall.pc = "group" /\ AtGroupBit(S, dcall) /\ ~ Has(p, 1)
       \/ dcall.pc = "inner" /\ AtCoefBit(S, dcall) /\ ~ Has(p, 1)

\* Decode, piece by piece.
DecodePiece ==
    /\ dpc = "decode"
    /\ LET p   == dcall.fill
           bit == IF Has(p, 1) THEN Bit(p) ELSE 0
           ones == {i \in 0 .. Refinement(S, dcall) - 1 : Bit(p + i) = 1}
       IN dcall' = IF Strays THEN dcall
                   ELSE CASE dcall.pc = "call"  -> DecCall(S, dcall, ones)
                          [] dcall.pc = "group" -> DecGroup(S, dcall, bit)
                          [] dcall.pc = "inner" -> DecInner(S, dcall, bit)
                          [] dcall.pc = "after" -> DecAfter(S, dcall)
    /\ dpc' = IF Strays THEN "outside"
              ELSE IF dcall'.pc = "return" THEN "turn" ELSE "decode"
    /\ UNCHANGED <<data, encVars, nread, dbp, db, dns, ck, demax, got, copied>>

\* A chunk read to its last bit does not count.
WrongExhausted == dcall.fill > S

\* ExhaustedBits.
Exhausted == dcall.fill >= S

\* Only the last block is copied.
WrongBlockDue(full, last) == (full /\ dbp = 0 /\ LastBlock(db)) \/ last

\* The block is copied to the volume: after its last plane, or at the last chunk.
BlockDue(full, last) == (full /\ dbp = 0) \/ last

\* The rest of a turn of the while, if the plane is wanted: the deposit, M += P,
\* and the next chunk when this one is exhausted. When the loop is left, or was
\* never entered: the copy to the volume, then the next block, or END.
DecompressTile_Turn ==
    /\ dpc = "turn"
    /\ LET want == Wanted(dbp, demax[db])
           full == want => Full(dcall)
           gone == want /\ Exhausted
           nck  == IF gone THEN ck + 1 ELSE ck
           last == nck = nread + 1
           dep  == Deposit(dcall)
       IN /\ ck' = nck
          /\ got' = [got EXCEPT ![db][dbp] = dep.block]
          /\ dns' = [dns EXCEPT ![db] = dep.n]
          /\ dcall' = [dep EXCEPT !.pc = "call", !.fill = IF gone THEN 0 ELSE @]
          /\ copied' = IF BlockDue(full, last)
                       THEN copied \union {<<db, demax[db], got'[db]>>} ELSE copied
          /\ IF last \/ (full /\ dbp = 0 /\ LastBlock(db))
             THEN dpc' = "done" /\ UNCHANGED <<dbp, db>>
             ELSE IF ~ full THEN dpc' = "decode" /\ UNCHANGED <<dbp, db>>
             ELSE /\ dpc' = "block"
                  /\ db' = NextBlock(db) /\ dbp' = NextPlane(dbp, db)
    /\ UNCHANGED <<data, encVars, nread, demax>>

Next ==
    \/ WriteTile_Block
    \/ EncodePiece
    \/ WriteTile_Turn
    \/ DecompressTile_Begin
    \/ DecompressTile_Block
    \/ DecodePiece
    \/ DecompressTile_Turn

Spec == Init /\ [][Next]_vars

\* One thread runs WriteTile and, later, DecompressTile; it never waits.
FairSpec == Spec /\ WF_vars(Next)

-----------------------------------------------------------------------------
(* Properties.                                                             *)

CallOK(c) ==
    /\ c.pc \in {"call", "group", "inner", "after", "return"}
    /\ c.n \in 0 .. NC /\ c.m \in 0 .. c.n /\ c.p \in 0 .. c.n
    /\ c.in \in {0, 1} /\ c.lb \in {0, 1} /\ c.fill \in Nat

TypeOK ==
    /\ epc \in {"block", "encode", "turn", "done", "outside"}
    /\ ebp \in Planes /\ eb \in Blocks /\ dbp \in Planes /\ db \in Blocks
    /\ ens \in [Blocks -> 0 .. NC] /\ dns \in [Blocks -> 0 .. NC]
    /\ CallOK(call) /\ CallOK(dcall)
    /\ bits \in Seq({0, 1}) /\ chunks \in Seq(Seq({0, 1}))
    /\ torn \in BOOLEAN /\ emaxOut \in BOOLEAN
    /\ dpc \in {"idle", "block", "decode", "turn", "done", "outside"}
    /\ nread \in 0 .. Len(chunks) /\ ck \in 1 .. Len(chunks) + 1
    /\ demax \in [Blocks -> Int]
    /\ got \in [Blocks -> [Planes -> SUBSET Coefs]]
    /\ copied \subseteq Blocks \X Int \X [Planes -> SUBSET Coefs]

\* What the decoder should know of the exponent of block b.
CodedExponent(b) == IF Significant(emax[b]) THEN emax[b] ELSE TolExp - 2

\* Whether the decoder has left plane bp of block b behind.
Passed(bp, b) == dbp < bp \/ (dbp = bp /\ b < db)

\* Whatever part of the chain is there, the decoder only ever deposits bits the
\* encoder coded, and has every bit of each plane it has gone past and the right
\* exponent of each block: it never loses step with WriteTile, across planes,
\* blocks and chunks (DecompressTile, mg_file_format.cpp:485-536), unless an
\* EMax was torn.
DecodesThePrefix ==
    ~ torn /\ dpc # "idle" =>
       \A b \in Blocks, bp \in Planes :
          /\ got[b][bp] \subseteq planes[b][bp]
          /\ Passed(bp, b) =>
                got[b][bp] = planes[b][bp] /\ demax[b] = CodedExponent(b)

\* Neither function leaves its buffers (a negative P in Encode, mg_zfp.cpp:14-16;
\* a bit the chunk does not have in Read), unless an EMax was torn.
StaysInside == "outside" \in {epc, dpc} => torn

\* With the whole chain and room left in its last chunk, DecompressTile copies
\* every block back to the volume, with its exponent and all of its planes
\* (mg_file_format.cpp:525-532).
AllBlocksCopied ==
    (dpc = "done" /\ ~ torn /\ nread = Len(chunks) /\ Len(chunks[nread]) < S) =>
       copied = {<<b, CodedExponent(b), planes[b]>> : b \in Blocks}

\* The chain is what ReadNextChunk and the format rely on: every chunk but the
\* last is full, none is empty (`mg_Assert(Size(Tl->Bs) > 0)`,
\* mg_file_format.cpp:131), and a finished tile leaves no bit unwritten.
ChainWellFormed ==
    /\ \A k \in 1 .. Len(chunks) :
          /\ chunks[k] # <<>>
          /\ (k < Len(chunks) \/ epc # "done") => Len(chunks[k]) = S
    /\ epc = "done" => bits = <<>> /\ chunks # <<>>

\* "clamp exponent in case Val is denormal" (mg_math.inl:57), so that it fits
\* ExpBits bits: the reader finds the exponent WriteEMax was given
\* (mg_file_format.cpp:105-128).
ExponentsReturn ==
    ~ torn /\ dpc # "idle" =>
       \A b \in Blocks : Passed(Prec - 1, b) => demax[b] = CodedExponent(b)

\* Coding and decoding a tile both come to an end: no chunk boundary makes the
\* do ... while (199-217) or the while (503-523) turn forever.
Finishes == <>(dpc = "done" \/ "outside" \in {epc, dpc})

\* "Chunk size must be large enough to store all the EMaxes in a tile"
\* (mg_file_format.cpp:271): what Finalize requires of the chunk size.
ChunkSizeAccepted == S >= NB * ExpBits

\* The chunk size Finalize accepts stores all the EMaxes of a tile: each lies
\* in the tile's first chunk (mg_file_format.cpp:271-278).
EMaxesStored == ChunkSizeAccepted => ~ emaxOut
=============================================================================
