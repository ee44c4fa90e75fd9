------------------------------ MODULE BitPlane ------------------------------
(***************************************************************************)
(* One bit plane of one block, written by Encode over as many chunks as it *)
(* takes and read back by Decode.  The caller of Encode is the do ... while *)
(* of WriteTile (src/src/mg_file_format.cpp:199-217), which writes a chunk *)
(* out when it is full and calls again until the plane is fully encoded;   *)
(* the caller of Decode is the while of DecompressTile (503-523), which    *)
(* takes the next chunk when the one it reads is exhausted.                 *)
(*                                                                         *)
(* The decoder shares nothing with the encoder but the bits in the chunks, *)
(* N (which both carry from plane to plane) and the place the plane starts *)
(* at.  hist is a history variable: every state the encoder went through.  *)
(***************************************************************************)
EXTENDS ZfpCoder, Sequences

CONSTANT ChunkBits    \* the capacities a chunk may have, ChunkBytes * 8

ASSUME ChunkBitsAssumption == ChunkBits \subseteq Nat \ {0, 1}

VARIABLES
    S,        \* the capacity of a chunk of this file
    plane,    \* the bit plane to write
    enc,      \* the call of Encode
    written,  \* the addresses <<chunk, position>> of the bits written so far
    ones,     \* those whose bit is 1
    hist,     \* history: the states of enc, the last one included
    dec,      \* the call of Decode
    dk        \* history: the number of pieces Decode has run

vars == <<S, plane, enc, written, ones, hist, dec, dk>>
encVars == <<enc, written, ones, hist>>
decVars == <<dec, dk>>

\* The stream may already hold bits of other blocks when the plane starts.
Init ==
    /\ S \in ChunkBits
    /\ plane \in SUBSET Coefs
    /\ \E n \in 0 .. NC, fill \in 0 .. S :
          /\ enc = Entry(n, fill)
          /\ dec = DecEntry(n, fill)
    /\ written = {}
    /\ ones = {}
    /\ hist = <<enc>>
    /\ dk = 1

Here(e) == <<e.ci, e.fill>>

\* The stream when b (0 or 1) has been written at the encoder's position.
Write(b) ==
    /\ written' = written \union {Here(enc)}
    /\ ones' = IF b = 1 THEN ones \union {Here(enc)} ELSE ones

EncGoes(e) ==
    /\ enc' = e
    /\ hist' = Append(hist, e)
    /\ UNCHANGED <<S, plane, dec, dk>>

\* The addresses the P bits of WriteLong go to.
RefinementAt(e) == {<<e.ci, e.fill + i>> : i \in 0 .. Refinement(S, e) - 1}

Encode_Call ==
    /\ enc.pc = "call"
    /\ written' = written \union RefinementAt(enc)
    /\ ones' = ones \union {<<enc.ci, enc.fill + i>> :
                  i \in {k \in 0 .. Refinement(S, enc) - 1 : enc.m + k \in plane}}
    /\ EncGoes(EncCall(S, enc))

Encode_Group ==
    /\ enc.pc = "group"
    /\ IF AtGroupBit(S, enc)
       THEN Write(GroupBit(plane, enc))
       ELSE UNCHANGED <<written, ones>>
    /\ EncGoes(EncGroup(plane, S, enc))

Encode_Inner ==
    /\ enc.pc = "inner"
    /\ IF AtCoefBit(S, enc)
       THEN Write(CoefBit(plane, enc))
       ELSE UNCHANGED <<written, ones>>
    /\ EncGoes(EncInner(plane, S, enc))

Encode_After ==
    /\ enc.pc = "after"
    /\ EncGoes(EncAfter(S, enc))
    /\ UNCHANGED <<written, ones>>

\* M += P; then WriteTile writes the chunk out if it is complete, and calls
\* again unless the plane is fully encoded.
NextChunk(e) ==
    IF Room(S, e) THEN e ELSE [e EXCEPT !.ci = @ + 1, !.fill = 0]

EncReturn(e) ==
    NextChunk([e EXCEPT !.m = Cursor(e), !.p = 0,
                        !.pc = IF Full(e) THEN "done" ELSE "call"])

Encode_Return ==
    /\ enc.pc = "return"
    /\ EncGoes(EncReturn(enc))
    /\ UNCHANGED <<written, ones>>

-----------------------------------------------------------------------------
DecGoes(d) ==
    /\ dec' = d
    /\ dk' = dk + 1
    /\ UNCHANGED <<S, plane, enc, written, ones, hist>>

\* What Read finds at the decoder's position.
ReadBit == IF Here(dec) \in ones THEN 1 ELSE 0

\* The file is decoded once it has been encoded.
Decode_Call ==
    /\ enc.pc = "done" /\ dec.pc = "call"
    /\ DecGoes(DecCall(S, dec, {i \in 0 .. Refinement(S, dec) - 1 :
                                    <<dec.ci, dec.fill + i>> \in ones}))

Decode_Group ==
    /\ enc.pc = "done" /\ dec.pc = "group"
    /\ DecGoes(DecGroup(S, dec, ReadBit))

Decode_Inner ==
    /\ enc.pc = "done" /\ dec.pc = "inner"
    /\ DecGoes(DecInner(S, dec, ReadBit))

Decode_After ==
    /\ enc.pc = "done" /\ dec.pc = "after"
    /\ DecGoes(DecAfter(S, dec))

\* The next chunk is not taken.
WrongDecReturn(d) == [Deposit(d) EXCEPT !.pc = IF Full(d) THEN "done" ELSE "call"]

\* The bits of X are deposited and M += P; DecompressTile then moves to the
\* next chunk if this one is exhausted, and calls again unless fully decoded.
DecReturn(d) ==
    NextChunk([Deposit(d) EXCEPT !.pc = IF Full(d) THEN "done" ELSE "call"])

Decode_Return ==
    /\ enc.pc = "done" /\ dec.pc = "return"
    /\ DecGoes(DecReturn(dec))

Encode == Encode_Call \/ Encode_Group \/ Encode_Inner \/ Encode_After \/ Encode_Return
Decode == Decode_Call \/ Decode_Group \/ Decode_Inner \/ Decode_After \/ Decode_Return

Next == Encode \/ Decode

Spec == Init /\ [][Next]_vars

-----------------------------------------------------------------------------
(* Properties.                                                             *)

TypeOK ==
    /\ S \in ChunkBits
    /\ plane \subseteq Coefs
    /\ enc \in CallState
    /\ written \subseteq Nat \X Nat
    /\ ones \subseteq written
    /\ hist \in Seq(CallState)
    /\ dec \in [pc : PCs, n : Nat, m : Nat, p : Nat, in : {0, 1}, lb : {0, 1},
                ci : Nat, fill : Nat, x : SUBSET Coefs, block : SUBSET Coefs]
    /\ dk \in 1 .. Len(hist)

\* The decoder repeats the encoder's run piece by piece, across every chunk
\* boundary: after k pieces it is where the encoder was after k pieces, on the
\* same chunk and bit, with the same N, M, P and In (mg_zfp.cpp:11-86).
Lockstep == dk <= Len(hist) /\ Common(dec) = hist[dk]

\* When Decode says the plane is fully decoded, Block holds the plane that was
\* encoded, wherever the chunk boundaries fell (mg_zfp.cpp:81-85).
PlaneRecovered == dec.pc = "done" => dec.block = plane

\* `mg_Assert(FullyDecoded)`, mg_file_format.cpp:521: a call that ends before
\* the chunk is exhausted has decoded the whole plane.
DecodedOrExhausted ==
    dec.pc = "return" => (Full(dec) \/ ~ Room(S, dec))

\* Encode never writes past the chunk and never counts more coefficients than
\* a block has: `mg_Assert(N <= 64)`, mg_zfp.cpp:48.
WithinBounds ==
    /\ enc.fill <= S
    /\ Cursor(enc) <= enc.n
    /\ enc.n <= NC

\* Block[I] += bit << B (mg_zfp.cpp:82-83) is a deposit, not an addition: no
\* coefficient of the plane is deposited twice, although a bit that ends a
\* chunk is read again at the start of the next.
DepositedOnce == dec.x \intersect dec.block = {}
=============================================================================
