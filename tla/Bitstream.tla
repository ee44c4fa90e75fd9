----------------------------- MODULE Bitstream -----------------------------
(***************************************************************************)
(* The bit stream, src/src/mg_bitstream.h and mg_bitstream.inl: a word in  *)
(* which bits are gathered (BitBuf, of which BitPos are used) and the      *)
(* memory it is flushed to and refilled from, a whole word at a time at    *)
(* the byte BitPtr.  Only the widths are abstracted: a byte has ByteBits   *)
(* bits (8 in the code), a word WordBytes bytes (8).                        *)
(*                                                                         *)
(* A number is the set of the positions of its ones; the memory is the set *)
(* of the addresses of the ones in it, bit i of byte b being at            *)
(* b * ByteBits + i (bytes are little-endian).  The stream is written,     *)
(* flushed, then read from the start, as a chunk of a file is.             *)
(*                                                                         *)
(* An operator named Wrong... is the one after it with a mistake: the       *)
(* properties are checked to fail when it takes that one's place.           *)
(***************************************************************************)
EXTENDS Integers, Sequences

CONSTANTS
    ByteBits,
    WordBytes,
    MaxWrite,    \* the largest Count a caller gives to Write (and to Read)
    Limit        \* the bits of the stream the callers fill, ChunkBytes * 8

WordBits == ByteBits * WordBytes

\* 64 - 7: the largest Count Write and Read admit.
LongestWrite == WordBits - (ByteBits - 1)

ASSUME BitstreamAssumption ==
    /\ ByteBits \in Nat \ {0} /\ WordBytes \in Nat \ {0, 1}
    /\ MaxWrite \in 1 .. LongestWrite
    /\ Limit \in Nat /\ Limit % ByteBits = 0

VARIABLES
    mem,      \* Stream.Data
    bs,       \* BitPtr - Stream.Data, BitBuf and BitPos: ptr, buf and pos
    mode,     \* "write", "repeat" (in the loop of RepeatedWrite) or "read"
    rest,     \* in that loop, B and the Count that is left
    end,      \* history: BitSize when the writing ended
    last      \* history: the bits the last step wrote or returned

vars == <<mem, bs, mode, rest, end, last>>

MinOf(a, b) == IF a <= b THEN a ELSE b

BitSize == bs.ptr * ByteBits + bs.pos

\* The bits of v, n of them, the low one first.
Bits(v, n) == [i \in 1 .. n |-> IF i - 1 \in v THEN 1 ELSE 0]

\* x >> n, x << n (no bit is shifted out where the code uses it), x & Masks[n].
ShiftRight(x, n) == {i - n : i \in {j \in x : j >= n}}
ShiftLeft(x, n) == {i + n : i \in x}
Low(x, n) == x \intersect (0 .. n - 1)

\* The word in memory at byte p.
WordAt(p) ==
    {i \in 0 .. WordBits - 1 : p * ByteBits + i \in mem}

-----------------------------------------------------------------------------
\* v is not masked.
WrongPut(s, v, n) ==
    [s EXCEPT !.buf = @ \union ShiftLeft(v, s.pos), !.pos = @ + n]

Put(s, v, n) ==
    [s EXCEPT !.buf = @ \union ShiftLeft(Low(v, n), s.pos), !.pos = @ + n]

\* Flush, the memory and then the stream.  With less than a byte used the code
\* shifts by -1: on x86 that clears the word; a compiler that knows a right
\* shift never is negative may leave the word alone.
Stored(s) ==
    {a \in mem : a \notin s.ptr * ByteBits .. s.ptr * ByteBits + WordBits - 1}
    \union {s.ptr * ByteBits + i : i \in s.buf}

\* BitPos &= 7 is missing.
WrongFlushed_Pos(s) ==
    LET bytes == s.pos \div ByteBits
    IN {[ptr |-> s.ptr + bytes, pos |-> s.pos, buf |-> ShiftRight(s.buf, bytes * ByteBits)]}

\* BitPtr advances by a word.
WrongFlushed_Ptr(s) ==
    {[ptr |-> s.ptr + WordBytes, pos |-> s.pos % ByteBits,
      buf |-> ShiftRight(s.buf, (s.pos \div ByteBits) * ByteBits)]}

Flushed(s) ==
    LET bytes == s.pos \div ByteBits
    IN {[ptr |-> s.ptr + bytes, pos |-> s.pos % ByteBits, buf |-> b] :
          b \in IF bytes = 0 THEN {{}, s.buf}
                ELSE {ShiftRight(s.buf, bytes * ByteBits)}}

\* The bits left over from the last byte are dropped.
WrongRefill(s) ==
    LET p == s.ptr + s.pos \div ByteBits
    IN [ptr |-> p, pos |-> 0, buf |-> WordAt(p)]

Refill(s) ==
    LET p == s.ptr + s.pos \div ByteBits
    IN [ptr |-> p, pos |-> s.pos % ByteBits, buf |-> WordAt(p)]

Peek(s, n) == Low(ShiftRight(s.buf, s.pos), n)

Consume(s, n) == [s EXCEPT !.pos = @ + n]

-----------------------------------------------------------------------------
Empty == [ptr |-> 0, buf |-> {}, pos |-> 0]

\* InitWrite, on memory that may hold an older chunk.
Init ==
    /\ mem \in {{}, 0 .. Limit - 1}
    /\ bs = Empty
    /\ mode = "write"
    /\ rest = [b |-> 0, count |-> 0]
    /\ end = 0
    /\ last = <<>>

\* Callers watch BitSize and ask for no more than there is room for.
Fits(n) == BitSize + n <= Limit

\* A value to write in n bits, perhaps with a bit too many.
Values(n) == SUBSET (0 .. MinOf(n, WordBits - 1))

\* The body of Write.
DoWrite(v, n) ==
    IF n + bs.pos >= WordBits
    THEN mem' = Stored(bs) /\ \E s \in Flushed(bs) : bs' = Put(s, v, n)
    ELSE bs' = Put(bs, v, n) /\ UNCHANGED mem

Write ==
    /\ mode = "write"
    /\ \E n \in 0 .. MaxWrite : Fits(n) /\ \E v \in Values(n) :
          DoWrite(v, n) /\ last' = Bits(v, n)
    /\ UNCHANGED <<mode, rest, end>>

WriteLong ==
    /\ mode = "write"
    /\ \E n \in 0 .. WordBits : Fits(n) /\ \E v \in Values(n) :
          LET first == MinOf(n, WordBits - bs.pos)
              s     == Put(bs, v, first)
          IN /\ IF n > first
                THEN /\ mem' = Stored(s)
                     /\ \E f \in Flushed(s) :
                           bs' = Put(f, ShiftRight(v, first), n - first)
                ELSE bs' = s /\ UNCHANGED mem
             /\ last' = Bits(v, n)
    /\ UNCHANGED <<mode, rest, end>>

\* N is all ones or zero.
Copies(b) == IF b = 1 THEN 0 .. WordBits - 1 ELSE {}

RepeatedWrite ==
    /\ mode = "write"
    /\ \E b \in {0, 1}, n \in (0 .. Limit) \ (MaxWrite + 1 .. LongestWrite) :
          /\ Fits(n)
          /\ IF n <= LongestWrite
             THEN DoWrite(Copies(b), n) /\ last' = Bits(Copies(b), n)
                  /\ UNCHANGED <<mode, rest>>
             ELSE mode' = "repeat" /\ rest' = [b |-> b, count |-> n]
                  /\ last' = <<>> /\ UNCHANGED <<mem, bs>>
    /\ UNCHANGED end

\* A turn of its while (true).
RepeatedWrite_Turn ==
    /\ mode = "repeat"
    /\ LET room == WordBits - bs.pos
           n    == MinOf(room, rest.count)
           s    == Put(bs, Copies(rest.b), n)
       IN /\ IF room <= rest.count
             THEN mem' = Stored(s) /\ bs' \in Flushed(s) /\ UNCHANGED mode
             ELSE bs' = s /\ mode' = "write" /\ UNCHANGED mem
          /\ rest' = [rest EXCEPT !.count = @ - n]
          /\ last' = Bits(Copies(rest.b), n)
    /\ UNCHANGED end

\* The Flush of WriteChunk, then InitRead on the same bytes; or InitRead again.
InitRead ==
    /\ mode # "repeat"
    /\ mem' = IF mode = "write" THEN Stored(bs) ELSE mem
    /\ end' = IF mode = "write" THEN BitSize ELSE end
    /\ bs' = [Empty EXCEPT !.buf = {i \in 0 .. WordBits - 1 : i \in mem'}]
    /\ mode' = "read"
    /\ last' = <<>>
    /\ UNCHANGED rest

Read ==
    /\ mode = "read"
    /\ \E n \in 0 .. MaxWrite :
          /\ BitSize + n <= end
          /\ LET s == IF n + bs.pos > WordBits THEN Refill(bs) ELSE bs
             IN bs' = Consume(s, n) /\ last' = Bits(Peek(s, n), n)
    /\ UNCHANGED <<mem, mode, rest, end>>

ReadLong ==
    /\ mode = "read"
    /\ \E n \in 0 .. WordBits :
          /\ BitSize + n <= end
          /\ LET first == MinOf(n, WordBits - bs.pos)
                 low   == Peek(bs, first)
                 s     == Consume(bs, first)
                 f     == Refill(s)
                 high  == ShiftLeft(Peek(f, n - first), first)
             IN IF n > first
                THEN bs' = Consume(f, n - first) /\ last' = Bits(low \union high, n)
                ELSE bs' = s /\ last' = Bits(low, n)
    /\ UNCHANGED <<mem, mode, rest, end>>

Next ==
    \/ Write \/ WriteLong \/ RepeatedWrite \/ RepeatedWrite_Turn
    \/ InitRead \/ Read \/ ReadLong

Spec == Init /\ [][Next]_vars

-----------------------------------------------------------------------------
(* Properties.                                                             *)

TypeOK ==
    /\ mem \subseteq Nat
    /\ bs \in [ptr : Nat, buf : SUBSET (0 .. WordBits - 1), pos : 0 .. WordBits]
    /\ mode \in {"write", "repeat", "read"}
    /\ rest \in [b : {0, 1}, count : 0 .. Limit]
    /\ end \in 0 .. Limit
    /\ \A i \in 1 .. Len(last) : last[i] \in {0, 1}

\* The stream never touches a byte beyond those WriteSubband allocates for it,
\* ChunkBytes + BufferSize (mg_file_format.cpp:250): the word at BitPtr is
\* inside them.  For the reader it is what its last Refill loaded, inside a buffer
\* with the same slack: the chunk it is given has none (mg_file_format.cpp:575).
InsideStream == bs.ptr * ByteBits <= Limit

\* While writing, no one is left above BitPos: Put only sets bits, and would mix
\* them with the next ones (mg_bitstream.inl:103-108).
CleanAbove == mode # "read" => \A i \in bs.buf : i < bs.pos

\* The bits of the stream: those already in memory, then those in the word.
Contents ==
    IF mode = "read" THEN [a \in 1 .. end |-> IF a - 1 \in mem THEN 1 ELSE 0]
    ELSE [a \in 1 .. BitSize |->
            IF (IF a <= bs.ptr * ByteBits THEN a - 1 \in mem
                ELSE a - 1 - bs.ptr * ByteBits \in bs.buf) THEN 1 ELSE 0]

\* The stream is a BitSequence: every write of Count bits adds exactly those bits
\* at the end and changes none before ("Write "Count" bits into the stream",
\* mg_bitstream.h:61-66); reads return them, however they are split.
Sequence == INSTANCE BitSequence WITH
    seq <- Contents, reading <- mode = "read",
    taken <- IF mode = "read" THEN BitSize ELSE 0

Implements == Sequence!Spec
=============================================================================
