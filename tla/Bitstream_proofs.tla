-------------------------- MODULE Bitstream_proofs --------------------------
(***************************************************************************)
(* The bit stream is a sequence of bits, for every width of bytes and      *)
(* words, every capacity and every memory it is given.                      *)
(*                                                                         *)
(* The type invariant, InsideStream and CleanAbove follow from IInv, which *)
(* adds what the callers rely on: a write never passes Limit nor a read    *)
(* what was written, and a reader's word is the one in memory at BitPtr.    *)
(* That the stream implements BitSequence needs one thing more, that no    *)
(* caller asks for the longest write Write admits (MaxWrite < LongestWrite): *)
(* with the last bit of a byte still free it would flush no byte at all.     *)
(***************************************************************************)
EXTENDS Bitstream, SequenceTheorems, TLAPS

\* A stream's record, with no one above the bits used.
Streams == [ptr : Nat, buf : SUBSET (0 .. WordBits - 1), pos : 0 .. WordBits]

Clean(s) == \A i \in s.buf : i < s.pos

SizeOf(s) == s.ptr * ByteBits + s.pos

\* Bit a of a stream with memory m.
OneIn(m, s, a) ==
    IF a < s.ptr * ByteBits THEN a \in m ELSE a - s.ptr * ByteBits \in s.buf

IInv ==
    /\ TypeOK
    /\ last \in Seq({0, 1})
    /\ mode # "read" => Clean(bs) /\ SizeOf(bs) + (IF mode = "repeat" THEN rest.count ELSE 0) <= Limit
    /\ mode = "read" => SizeOf(bs) <= end /\ bs.buf = WordAt(bs.ptr)

-----------------------------------------------------------------------------
(* Arithmetic.                                                             *)

\* A word has two bytes at least.
LEMMA Widths ==
    /\ ByteBits \in Nat /\ ByteBits >= 1 /\ WordBytes \in Nat /\ Limit \in Nat
    /\ WordBits \in Nat /\ WordBits >= 2 * ByteBits
    /\ WordBits % ByteBits = 0 /\ WordBits \div ByteBits = WordBytes
    /\ LongestWrite = WordBits - (ByteBits - 1)
    /\ MaxWrite \in Nat /\ MaxWrite <= LongestWrite /\ LongestWrite <= WordBits
<1>1. /\ ByteBits \in Nat /\ ByteBits >= 1 /\ WordBytes \in Nat /\ WordBytes >= 2
      /\ Limit \in Nat
  BY BitstreamAssumption
<1>2. WordBits \in Nat /\ WordBits >= 2 * ByteBits
  BY <1>1 DEF WordBits
<1>3. WordBits % ByteBits = 0 /\ WordBits \div ByteBits = WordBytes
  BY <1>1 DEF WordBits
<1>4. LongestWrite \in Int /\ LongestWrite <= WordBits
  BY <1>1, <1>2 DEF LongestWrite
<1> QED
  BY <1>1, <1>2, <1>3, <1>4, BitstreamAssumption DEF LongestWrite

\* The whole bytes of a word, and the bits left over from them.
LEMMA Bytes ==
    ASSUME NEW p \in Nat, NEW n \in Nat
    PROVE  /\ n \div ByteBits \in Nat
           /\ n % ByteBits \in Nat /\ n % ByteBits < ByteBits
           /\ (n \div ByteBits) * ByteBits \in Nat
           /\ (n \div ByteBits) * ByteBits + (n % ByteBits) = n
           /\ p * ByteBits \in Nat
           /\ (p + (n \div ByteBits)) * ByteBits
                 = p * ByteBits + (n \div ByteBits) * ByteBits
           /\ n \div ByteBits = 0 => n < ByteBits
<1>1. ByteBits \in Nat /\ ByteBits >= 1
  BY Widths
<1>2. /\ n \div ByteBits \in Nat
      /\ n % ByteBits \in Nat /\ n % ByteBits < ByteBits
      /\ (n \div ByteBits) * ByteBits + (n % ByteBits) = n
  BY <1>1
<1>3. (n \div ByteBits) * ByteBits \in Nat /\ p * ByteBits \in Nat
  BY <1>1, <1>2
<1>4. (p + (n \div ByteBits)) * ByteBits = p * ByteBits + (n \div ByteBits) * ByteBits
  BY <1>1, <1>2
<1>5. n \div ByteBits = 0 => n < ByteBits
  BY <1>1, <1>2
<1> QED
  BY <1>2, <1>3, <1>4, <1>5

-----------------------------------------------------------------------------
(* Flush and Put.                                                          *)

\* Storing a word leaves the bits before it, and puts in it those of the buffer.
LEMMA StoredFacts ==
    ASSUME mem \subseteq Nat, NEW s \in Streams
    PROVE  /\ Stored(s) \subseteq Nat
           /\ \A a \in Nat : a < s.ptr * ByteBits => (a \in Stored(s) <=> a \in mem)
           /\ \A i \in 0 .. WordBits - 1 :
                 s.ptr * ByteBits + i \in Stored(s) <=> i \in s.buf
<1> DEFINE b == s.ptr * ByteBits
<1>1. s.ptr \in Nat /\ s.buf \subseteq 0 .. WordBits - 1
  BY DEF Streams
<1>2. b \in Nat /\ WordBits \in Nat
  BY <1>1, Bytes, Widths
<1> HIDE DEF b
<1>3. Stored(s) = {a \in mem : a \notin b .. b + WordBits - 1} \union {b + i : i \in s.buf}
  BY DEF Stored, b
<1>4. Stored(s) \subseteq Nat
  <2>1. \A i \in s.buf : b + i \in Nat
    BY <1>1, <1>2
  <2> QED
    BY <2>1, <1>3
<1>5. \A a \in Nat : a < b => (a \in Stored(s) <=> a \in mem)
  BY <1>1, <1>2, <1>3
<1>6. \A i \in 0 .. WordBits - 1 : b + i \in Stored(s) <=> i \in s.buf
  BY <1>1, <1>2, <1>3
<1> QED
  BY <1>4, <1>5, <1>6 DEF b

\* Flush keeps the size, whatever the word holds.
LEMMA FlushedFacts ==
    ASSUME NEW s \in Streams, NEW f \in Flushed(s)
    PROVE  /\ f \in Streams
           /\ f.pos = s.pos % ByteBits /\ f.pos < ByteBits
           /\ f.ptr * ByteBits = s.ptr * ByteBits + (s.pos \div ByteBits) * ByteBits
           /\ SizeOf(f) = SizeOf(s)
           /\ Clean(s) => Clean(f)
           /\ s.pos >= ByteBits =>
                 f.buf = ShiftRight(s.buf, (s.pos \div ByteBits) * ByteBits)
<1> DEFINE q == s.pos \div ByteBits
           k == q * ByteBits
<1>1. /\ s.ptr \in Nat /\ s.buf \subseteq 0 .. WordBits - 1 /\ s.pos \in Nat
      /\ s.pos <= WordBits /\ WordBits \in Nat /\ ByteBits \in Nat /\ ByteBits <= WordBits
  BY Widths DEF Streams
<1>2. /\ q \in Nat /\ k \in Nat /\ s.pos % ByteBits \in Nat
      /\ s.pos % ByteBits < ByteBits /\ k + (s.pos % ByteBits) = s.pos
      /\ s.ptr * ByteBits \in Nat
      /\ (s.ptr + q) * ByteBits = s.ptr * ByteBits + k
      /\ q = 0 => s.pos < ByteBits
  BY <1>1, Bytes
<1>3. PICK b \in IF q = 0 THEN {{}, s.buf} ELSE {ShiftRight(s.buf, k)} :
         f = [ptr |-> s.ptr + q, pos |-> s.pos % ByteBits, buf |-> b]
  BY DEF Flushed
<1> HIDE DEF q, k
<1>4. f.ptr = s.ptr + q /\ f.pos = s.pos % ByteBits /\ f.buf = b
  BY <1>3
<1>5. q = 0 => k = 0 /\ s.pos % ByteBits = s.pos
  BY <1>2, <1>1 DEF k
<1>6. b \subseteq 0 .. WordBits - 1 /\ (Clean(s) => \A i \in b : i < s.pos % ByteBits)
  <2>1. CASE q = 0
    BY <2>1, <1>1, <1>3, <1>5 DEF Clean
  <2>2. CASE q # 0
    <3>1. b = {i - k : i \in {j \in s.buf : j >= k}}
      BY <2>2, <1>3 DEF ShiftRight
    <3> QED
      BY <3>1, <1>1, <1>2 DEF Clean
  <2> QED
    BY <2>1, <2>2
<1>7. f \in Streams
  BY <1>1, <1>2, <1>3, <1>6 DEF Streams
<1>8. SizeOf(f) = SizeOf(s)
  BY <1>1, <1>2, <1>4 DEF SizeOf
<1>9. s.pos >= ByteBits => q # 0
  BY <1>1, <1>2
<1> QED
  BY <1>1, <1>2, <1>3, <1>4, <1>6, <1>7, <1>8, <1>9 DEF q, k, Clean

\* With a byte used at least, it keeps every bit.
LEMMA FlushKeeps ==
    ASSUME mem \subseteq Nat, NEW s \in Streams, NEW f \in Flushed(s),
           Clean(s), s.pos >= ByteBits
    PROVE  \A a \in 0 .. SizeOf(s) - 1 : OneIn(Stored(s), f, a) <=> OneIn(mem, s, a)
<1> DEFINE b == s.ptr * ByteBits
           k == (s.pos \div ByteBits) * ByteBits
<1>1. /\ s.ptr \in Nat /\ s.buf \subseteq 0 .. WordBits - 1 /\ s.pos \in Nat
      /\ s.pos <= WordBits /\ WordBits \in Nat /\ ByteBits \in Nat
  BY Widths DEF Streams
<1>2. b \in Nat /\ k \in Nat /\ k <= s.pos
  <2>1. /\ b \in Nat /\ k \in Nat /\ s.pos % ByteBits \in Nat
        /\ k + (s.pos % ByteBits) = s.pos
    BY <1>1, Bytes
  <2> HIDE DEF b, k
  <2> QED
    BY <2>1, <1>1
<1>3. f.ptr * ByteBits = b + k /\ f.buf = ShiftRight(s.buf, k)
  BY FlushedFacts
<1>4. /\ \A a \in Nat : a < b => (a \in Stored(s) <=> a \in mem)
      /\ \A i \in 0 .. WordBits - 1 : b + i \in Stored(s) <=> i \in s.buf
  BY StoredFacts
<1>5. SizeOf(s) = b + s.pos
  BY DEF SizeOf
<1> HIDE DEF b, k
<1> SUFFICES ASSUME NEW a \in 0 .. SizeOf(s) - 1
             PROVE  OneIn(Stored(s), f, a) <=> OneIn(mem, s, a)
  OBVIOUS
<1>6. a \in Nat /\ a < b + s.pos
  BY <1>1, <1>2, <1>5
<1>7. CASE a < b
  <2>1. OneIn(mem, s, a) <=> a \in mem
    BY <1>7 DEF OneIn, b
  <2>2. OneIn(Stored(s), f, a) <=> a \in Stored(s)
    BY <1>2, <1>3, <1>6, <1>7 DEF OneIn
  <2> QED
    BY <2>1, <2>2, <1>4, <1>6, <1>7
<1>8. CASE b <= a /\ a < b + k
  <2>1. a - b \in 0 .. WordBits - 1 /\ b + (a - b) = a
    BY <1>1, <1>2, <1>6, <1>8
  <2>2. OneIn(mem, s, a) <=> a - b \in s.buf
    BY <1>2, <1>6, <1>8 DEF OneIn, b
  <2>3. OneIn(Stored(s), f, a) <=> a \in Stored(s)
    BY <1>3, <1>8 DEF OneIn
  <2> QED
    BY <2>1, <2>2, <2>3, <1>4
<1>9. CASE b + k <= a
  <2>1. OneIn(mem, s, a) <=> a - b \in s.buf
    BY <1>2, <1>6, <1>9 DEF OneIn, b
  <2>2. OneIn(Stored(s), f, a) <=> a - (b + k) \in ShiftRight(s.buf, k)
    BY <1>2, <1>3, <1>6, <1>9 DEF OneIn
  <2>3. a - (b + k) \in ShiftRight(s.buf, k) <=> a - b \in s.buf
    BY <1>1, <1>2, <1>6, <1>9 DEF ShiftRight
  <2> QED
    BY <2>1, <2>2, <2>3
<1> QED
  BY <1>2, <1>6, <1>7, <1>8, <1>9

\* Put adds the low n bits of v after those there are.
LEMMA PutFacts ==
    ASSUME NEW m, NEW s \in Streams, Clean(s), NEW v \in SUBSET Nat, NEW n \in Nat,
           s.pos + n <= WordBits
    PROVE  /\ Put(s, v, n) \in Streams /\ Clean(Put(s, v, n))
           /\ Put(s, v, n).pos = s.pos + n
           /\ SizeOf(Put(s, v, n)) = SizeOf(s) + n
           /\ \A a \in 0 .. SizeOf(s) - 1 : OneIn(m, Put(s, v, n), a) <=> OneIn(m, s, a)
           /\ \A i \in 0 .. n - 1 : OneIn(m, Put(s, v, n), SizeOf(s) + i) <=> i \in v
<1> DEFINE b == s.ptr * ByteBits
           p == Put(s, v, n)
<1>1. /\ s.ptr \in Nat /\ s.buf \subseteq 0 .. WordBits - 1 /\ s.pos \in Nat
      /\ WordBits \in Nat /\ ByteBits \in Nat
  BY Widths DEF Streams
<1>2. b \in Nat
  BY <1>1, Bytes
<1>3. /\ p.ptr = s.ptr /\ p.pos = s.pos + n
      /\ p.buf = s.buf \union {i + s.pos : i \in v \intersect (0 .. n - 1)}
      /\ p = [ptr |-> p.ptr, buf |-> p.buf, pos |-> p.pos]
  <2> DEFINE u == s.buf \union {i + s.pos : i \in v \intersect (0 .. n - 1)}
  <2>1. p = [s EXCEPT !.buf = u, !.pos = s.pos + n]
    BY DEF Put, ShiftLeft, Low
  <2> HIDE DEF u, p
  <2>2. s = [ptr |-> s.ptr, buf |-> s.buf, pos |-> s.pos]
    BY DEF Streams
  <2>3. p = [ptr |-> s.ptr, buf |-> u, pos |-> s.pos + n]
    BY <2>1, <2>2
  <2> QED
    BY <2>3 DEF u
<1> HIDE DEF p
<1>4. SizeOf(s) = b + s.pos /\ SizeOf(p) = b + (s.pos + n) /\ p.ptr * ByteBits = b
  BY <1>3 DEF SizeOf
<1> HIDE DEF b
<1>5. p.buf \subseteq 0 .. WordBits - 1 /\ Clean(p)
  BY <1>1, <1>3 DEF Clean
<1>6. p \in Streams
  BY <1>1, <1>3, <1>5 DEF Streams
<1>7. \A a \in 0 .. SizeOf(s) - 1 : OneIn(m, p, a) <=> OneIn(m, s, a)
  BY <1>1, <1>2, <1>3, <1>4 DEF OneIn, Clean, b
<1>8. \A i \in 0 .. n - 1 : OneIn(m, p, SizeOf(s) + i) <=> i \in v
  <2> SUFFICES ASSUME NEW i \in 0 .. n - 1
               PROVE  OneIn(m, p, SizeOf(s) + i) <=> i \in v
    OBVIOUS
  <2>1. PICK a \in Nat : a = SizeOf(s) + i /\ ~ (a < b) /\ a - b = i + s.pos
    BY <1>1, <1>2, <1>4
  <2>2. OneIn(m, p, SizeOf(s) + i) <=> i + s.pos \in p.buf
    <3>1. OneIn(m, p, a) <=> i + s.pos \in p.buf
      BY <2>1, <1>4 DEF OneIn
    <3> QED
      BY <3>1, <2>1
  <2>3. i + s.pos \notin s.buf
    BY <1>1 DEF Clean
  <2>4. i + s.pos \in p.buf <=> i \in v
    BY <2>3, <1>1, <1>3
  <2> QED
    BY <2>2, <2>4
<1>9. SizeOf(p) = SizeOf(s) + n
  BY <1>1, <1>2, <1>4
<1> QED
  BY <1>3, <1>5, <1>6, <1>7, <1>8, <1>9 DEF p

-----------------------------------------------------------------------------
(* Writing.                                                                *)

\* A step that puts n bits after those there are.
Puts(n) ==
    /\ mem' \subseteq Nat /\ bs' \in Streams /\ Clean(bs')
    /\ SizeOf(bs') = SizeOf(bs) + n

\* They are those of v, and the others stay.
Adds(v, n) ==
    /\ \A a \in 0 .. SizeOf(bs) - 1 : OneIn(mem', bs', a) <=> OneIn(mem, bs, a)
    /\ \A i \in 0 .. n - 1 : OneIn(mem', bs', SizeOf(bs) + i) <=> i \in v

\* The size of a stream is a natural number.
LEMMA SizeType ==
    ASSUME NEW s \in Streams
    PROVE  SizeOf(s) \in Nat /\ s.ptr * ByteBits \in Nat /\ s.pos \in Nat
<1>1. s.ptr \in Nat /\ s.pos \in Nat
  BY Widths DEF Streams
<1>2. s.ptr * ByteBits \in Nat
  BY <1>1, Bytes
<1> QED
  BY <1>1, <1>2 DEF SizeOf

\* Put alone.
LEMMA PutStep ==
    ASSUME mem \subseteq Nat, bs \in Streams, Clean(bs), NEW v \in SUBSET Nat,
           NEW n \in Nat, bs.pos + n <= WordBits, bs' = Put(bs, v, n), mem' = mem
    PROVE  Puts(n) /\ Adds(v, n)
<1>1. PICK s \in Streams : s = bs
  OBVIOUS
<1>2. PICK m \in SUBSET Nat : m = mem
  OBVIOUS
<1>3. Clean(s) /\ s.pos + n <= WordBits
  BY <1>1
<1>4. /\ Put(s, v, n) \in Streams /\ Clean(Put(s, v, n))
      /\ SizeOf(Put(s, v, n)) = SizeOf(s) + n
      /\ \A a \in 0 .. SizeOf(s) - 1 : OneIn(m, Put(s, v, n), a) <=> OneIn(m, s, a)
      /\ \A i \in 0 .. n - 1 : OneIn(m, Put(s, v, n), SizeOf(s) + i) <=> i \in v
  BY <1>3, PutFacts
<1> QED
  BY <1>1, <1>2, <1>4 DEF Puts, Adds

\* Put after a Flush; with a byte used at least, no bit is lost.
LEMMA FlushPutStep ==
    ASSUME mem \subseteq Nat, bs \in Streams, Clean(bs), NEW v \in SUBSET Nat,
           NEW n \in Nat, (bs.pos % ByteBits) + n <= WordBits,
           mem' = Stored(bs), \E f \in Flushed(bs) : bs' = Put(f, v, n)
    PROVE  Puts(n) /\ (bs.pos >= ByteBits => Adds(v, n))
<1>1. PICK s \in Streams : s = bs
  OBVIOUS
<1>2. PICK f \in Flushed(s) : bs' = Put(f, v, n)
  BY <1>1
<1>3. /\ f \in Streams /\ Clean(f) /\ SizeOf(f) = SizeOf(s)
      /\ f.pos + n <= WordBits
  BY <1>1, FlushedFacts
<1>4. Stored(s) \subseteq Nat
  BY StoredFacts
<1>5. PICK m \in SUBSET Nat : m = Stored(s)
  BY <1>4
<1>6. /\ Put(f, v, n) \in Streams /\ Clean(Put(f, v, n))
      /\ SizeOf(Put(f, v, n)) = SizeOf(f) + n
      /\ \A a \in 0 .. SizeOf(f) - 1 : OneIn(m, Put(f, v, n), a) <=> OneIn(m, f, a)
      /\ \A i \in 0 .. n - 1 : OneIn(m, Put(f, v, n), SizeOf(f) + i) <=> i \in v
  BY <1>3, PutFacts
<1>7. Puts(n)
  BY <1>1, <1>2, <1>3, <1>4, <1>6 DEF Puts
<1>8. ASSUME s.pos >= ByteBits
      PROVE  \A a \in 0 .. SizeOf(s) - 1 : OneIn(m, f, a) <=> OneIn(mem, s, a)
  BY <1>1, <1>5, <1>8, FlushKeeps
<1>9. mem' = m
  BY <1>1, <1>5
<1> QED
  BY <1>1, <1>2, <1>3, <1>6, <1>7, <1>8, <1>9 DEF Adds

\* The body of Write keeps to the memory and to the word, and adds exactly its
\* bits unless it is the longest write there is.
LEMMA DoWriteStep ==
    ASSUME mem \subseteq Nat, bs \in Streams, Clean(bs), NEW v \in SUBSET Nat,
           NEW n \in 0 .. MaxWrite, DoWrite(v, n)
    PROVE  Puts(n) /\ (MaxWrite < LongestWrite => Adds(v, n))
<1>1. /\ bs.pos \in Nat /\ bs.ptr \in Nat /\ n \in Nat /\ n <= LongestWrite
      /\ WordBits \in Nat /\ ByteBits \in Nat /\ ByteBits >= 1
      /\ LongestWrite = WordBits - (ByteBits - 1) /\ MaxWrite \in Nat
  BY Widths DEF Streams
<1>2. bs.pos % ByteBits \in Nat /\ bs.pos % ByteBits < ByteBits
  BY <1>1, Bytes
<1>3. CASE n + bs.pos >= WordBits
  <2>1. (bs.pos % ByteBits) + n <= WordBits
    BY <1>1, <1>2
  <2>2. mem' = Stored(bs) /\ \E f \in Flushed(bs) : bs' = Put(f, v, n)
    BY <1>3 DEF DoWrite
  <2>3. Puts(n) /\ (bs.pos >= ByteBits => Adds(v, n))
    BY <1>1, <2>1, <2>2, FlushPutStep
  <2>4. MaxWrite < LongestWrite => bs.pos >= ByteBits
    BY <1>1, <1>3
  <2> QED
    BY <2>3, <2>4
<1>4. CASE ~ (n + bs.pos >= WordBits)
  <2>1. bs.pos + n <= WordBits
    BY <1>1, <1>4
  <2>2. bs' = Put(bs, v, n) /\ mem' = mem
    BY <1>4 DEF DoWrite
  <2> QED
    BY <1>1, <2>1, <2>2, PutStep
<1> QED
  BY <1>3, <1>4

\* What Put makes of v and n bits of it, in one operator.
PutOK(m, s, p, v, n) ==
    /\ p \in Streams /\ Clean(p) /\ p.pos = s.pos + n
    /\ SizeOf(p) = SizeOf(s) + n
    /\ \A a \in 0 .. SizeOf(s) - 1 : OneIn(m, p, a) <=> OneIn(m, s, a)
    /\ \A i \in 0 .. n - 1 : OneIn(m, p, SizeOf(s) + i) <=> i \in v

LEMMA PutIsOK ==
    ASSUME NEW m, NEW s \in Streams, Clean(s), NEW v \in SUBSET Nat, NEW n \in Nat,
           s.pos + n <= WordBits
    PROVE  PutOK(m, s, Put(s, v, n), v, n)
  BY PutFacts DEF PutOK

\* The bits the word has room for, a Flush, and the others.
LEMMA SplitPut ==
    ASSUME mem \subseteq Nat, NEW s \in Streams, Clean(s), NEW v \in SUBSET Nat,
           NEW n \in Nat, n <= WordBits, NEW first \in Nat, first < n,
           s.pos + first = WordBits, NEW p \in Streams, PutOK(mem, s, p, v, first),
           NEW f \in Flushed(p)
    PROVE  LET t == Put(f, ShiftRight(v, first), n - first)
           IN  /\ t \in Streams /\ Clean(t) /\ SizeOf(t) = SizeOf(s) + n
               /\ \A a \in 0 .. SizeOf(s) - 1 : OneIn(Stored(p), t, a) <=> OneIn(mem, s, a)
               /\ \A i \in 0 .. n - 1 : OneIn(Stored(p), t, SizeOf(s) + i) <=> i \in v
<1> DEFINE w == ShiftRight(v, first)
           l == n - first
           m == Stored(p)
           t == Put(f, w, l)
<1>1. /\ WordBits \in Nat /\ ByteBits \in Nat /\ ByteBits <= WordBits
      /\ WordBits % ByteBits = 0
  BY Widths
<1>2. p.pos = WordBits /\ Clean(p) /\ SizeOf(p) = SizeOf(s) + first
  BY DEF PutOK
<1>3. f \in Streams /\ Clean(f) /\ SizeOf(f) = SizeOf(p) /\ f.pos = 0
  BY <1>1, <1>2, FlushedFacts
<1>4. \A a \in 0 .. SizeOf(p) - 1 : OneIn(m, f, a) <=> OneIn(mem, p, a)
  BY <1>1, <1>2, FlushKeeps
<1>5. w \in SUBSET Nat /\ \A i \in Nat : i \in w <=> i + first \in v
  BY DEF ShiftRight
<1>6. l \in Nat /\ f.pos + l <= WordBits
  BY <1>1, <1>3
<1>7. SizeOf(s) \in Nat
  BY SizeType
<1> HIDE DEF w, m, t
<1>8. PutOK(m, f, t, w, l)
  BY <1>3, <1>5, <1>6, PutIsOK DEF t
<1>9. t \in Streams /\ Clean(t) /\ SizeOf(t) = SizeOf(s) + n
  BY <1>2, <1>3, <1>7, <1>8 DEF PutOK
<1>10. \A a \in 0 .. SizeOf(p) - 1 : OneIn(m, t, a) <=> OneIn(mem, p, a)
  BY <1>3, <1>4, <1>8 DEF PutOK
<1>11. \A a \in 0 .. SizeOf(s) - 1 : OneIn(m, t, a) <=> OneIn(mem, s, a)
  <2> SUFFICES ASSUME NEW a \in 0 .. SizeOf(s) - 1
               PROVE  OneIn(m, t, a) <=> OneIn(mem, s, a)
    OBVIOUS
  <2>1. a \in 0 .. SizeOf(p) - 1
    BY <1>2, <1>7
  <2> QED
    BY <2>1, <1>10 DEF PutOK
<1>12. \A i \in 0 .. n - 1 : OneIn(m, t, SizeOf(s) + i) <=> i \in v
  <2> SUFFICES ASSUME NEW i \in 0 .. n - 1
               PROVE  OneIn(m, t, SizeOf(s) + i) <=> i \in v
    OBVIOUS
  <2>1. CASE i < first
    <3>1. SizeOf(s) + i \in 0 .. SizeOf(p) - 1
      BY <1>2, <1>7, <2>1
    <3>2. i \in 0 .. first - 1
      BY <2>1
    <3> QED
      BY <3>1, <3>2, <1>10 DEF PutOK
  <2>2. CASE ~ (i < first)
    <3>1. PICK j \in 0 .. l - 1 : j = i - first
      BY <2>2
    <3>2. SizeOf(f) + j = SizeOf(s) + i /\ j + first = i /\ j \in Nat
      BY <3>1, <1>2, <1>3, <1>7
    <3>3. OneIn(m, t, SizeOf(f) + j) <=> j \in w
      BY <1>8 DEF PutOK
    <3>4. j \in w <=> i \in v
      BY <3>2, <1>5
    <3> QED
      BY <3>2, <3>3, <3>4
  <2> QED
    BY <2>1, <2>2
<1> QED
  BY <1>9, <1>11, <1>12 DEF w, m, t

\* The body of WriteLong.
DoWriteLong(v, n) ==
    LET first == MinOf(n, WordBits - bs.pos)
        s     == Put(bs, v, first)
    IN IF n > first
       THEN /\ mem' = Stored(s)
            /\ \E f \in Flushed(s) : bs' = Put(f, ShiftRight(v, first), n - first)
       ELSE bs' = s /\ UNCHANGED mem

\* It adds its bits.
LEMMA WriteLongStep ==
    ASSUME mem \subseteq Nat, bs \in Streams, Clean(bs), NEW v \in SUBSET Nat,
           NEW n \in 0 .. WordBits, DoWriteLong(v, n)
    PROVE  Puts(n) /\ Adds(v, n)
<1>1. PICK s \in Streams : s = bs
  OBVIOUS
<1>0. PICK first : first = MinOf(n, WordBits - bs.pos)
  OBVIOUS
<1>2. /\ s.pos \in Nat /\ s.pos <= WordBits /\ n \in Nat /\ n <= WordBits
      /\ WordBits \in Nat
  BY Widths DEF Streams
<1>3. first \in Nat /\ first <= n /\ s.pos + first <= WordBits
      /\ (n > first => s.pos + first = WordBits)
  BY <1>0, <1>1, <1>2 DEF MinOf
<1>4. CASE ~ (n > first)
  <2>1. first = n
    BY <1>3, <1>4, <1>2
  <2> QED
    BY <2>1, <1>0, <1>1, <1>3, <1>4, PutStep DEF DoWriteLong
<1>5. CASE n > first
  <2>1. PICK m : m = mem
    OBVIOUS
  <2>2. Clean(s)
    BY <1>1
  <2>3. PICK p \in Streams : p = Put(s, v, first) /\ PutOK(m, s, p, v, first)
    <3>1. PutOK(m, s, Put(s, v, first), v, first)
      BY <2>2, <1>3, PutIsOK
    <3> QED
      BY <3>1 DEF PutOK
  <2>4. PutOK(mem, s, p, v, first) /\ mem' = Stored(p)
    BY <2>1, <2>3, <1>0, <1>1, <1>5 DEF DoWriteLong
  <2>5. PICK f \in Flushed(p) : bs' = Put(f, ShiftRight(v, first), n - first)
    BY <1>0, <1>1, <1>5, <2>3 DEF DoWriteLong
  <2>6. /\ bs' \in Streams /\ Clean(bs') /\ SizeOf(bs') = SizeOf(s) + n
        /\ \A a \in 0 .. SizeOf(s) - 1 : OneIn(mem', bs', a) <=> OneIn(mem, s, a)
        /\ \A i \in 0 .. n - 1 : OneIn(mem', bs', SizeOf(s) + i) <=> i \in v
    <3> DEFINE t == Put(f, ShiftRight(v, first), n - first)
    <3>1. /\ t \in Streams /\ Clean(t) /\ SizeOf(t) = SizeOf(s) + n
          /\ \A a \in 0 .. SizeOf(s) - 1 : OneIn(Stored(p), t, a) <=> OneIn(mem, s, a)
          /\ \A i \in 0 .. n - 1 : OneIn(Stored(p), t, SizeOf(s) + i) <=> i \in v
      <4>1. s.pos + first = WordBits /\ first < n
        BY <1>3, <1>5, <1>2
      <4> QED
        BY <4>1, <1>2, <1>3, <2>2, <2>4, SplitPut
    <3> HIDE DEF t
    <3>2. bs' = t
      BY <2>5 DEF t
    <3> QED
      BY <3>1, <3>2, <2>4
  <2>7. mem' \subseteq Nat
    BY <2>4, StoredFacts
  <2> QED
    BY <1>1, <2>6, <2>7 DEF Puts, Adds
<1> QED
  BY <1>4, <1>5

-----------------------------------------------------------------------------
(* Reading.                                                                *)

\* A refill keeps the size, and loads the word at the byte the next bit is in.
LEMMA RefillFacts ==
    ASSUME NEW s \in Streams
    PROVE  /\ Refill(s) \in Streams /\ SizeOf(Refill(s)) = SizeOf(s)
           /\ Refill(s).buf = WordAt(Refill(s).ptr)
           /\ Refill(s).pos = s.pos % ByteBits /\ Refill(s).pos < ByteBits
<1> DEFINE p == s.ptr + s.pos \div ByteBits
           q == s.pos % ByteBits
<1>1. s.ptr \in Nat /\ s.pos \in Nat /\ WordBits \in Nat /\ ByteBits \in Nat
      /\ ByteBits <= WordBits
  BY Widths DEF Streams
<1>2. /\ p \in Nat /\ q \in Nat /\ q < ByteBits
      /\ p * ByteBits + q = s.ptr * ByteBits + s.pos
  <2>1. /\ s.pos \div ByteBits \in Nat /\ q \in Nat /\ q < ByteBits
        /\ (s.pos \div ByteBits) * ByteBits \in Nat
        /\ (s.pos \div ByteBits) * ByteBits + q = s.pos
        /\ s.ptr * ByteBits \in Nat
        /\ p * ByteBits = s.ptr * ByteBits + (s.pos \div ByteBits) * ByteBits
    BY <1>1, Bytes
  <2> HIDE DEF q
  <2> QED
    BY <2>1, <1>1
<1>3. WordAt(p) \subseteq 0 .. WordBits - 1
  BY DEF WordAt
<1>4. Refill(s) = [ptr |-> p, pos |-> q, buf |-> WordAt(p)]
  BY DEF Refill
<1> HIDE DEF p, q
<1> QED
  BY <1>1, <1>2, <1>3, <1>4 DEF Streams, SizeOf, q

\* Peek returns the next bits of the memory.
LEMMA PeekFacts ==
    ASSUME NEW s \in Streams, s.buf = WordAt(s.ptr), NEW n \in Nat,
           s.pos + n <= WordBits
    PROVE  /\ Peek(s, n) \subseteq 0 .. n - 1
           /\ \A i \in 0 .. n - 1 : i \in Peek(s, n) <=> SizeOf(s) + i \in mem
<1>1. s.ptr * ByteBits \in Nat /\ s.pos \in Nat /\ WordBits \in Nat
  BY SizeType, Widths
<1>2. Peek(s, n) = {j - s.pos : j \in {i \in s.buf : i >= s.pos}} \intersect (0 .. n - 1)
  BY DEF Peek, Low, ShiftRight
<1> SUFFICES ASSUME NEW i \in 0 .. n - 1
             PROVE  i \in Peek(s, n) <=> SizeOf(s) + i \in mem
  BY <1>2
<1>3. s.buf \subseteq 0 .. WordBits - 1
  BY DEF Streams
<1>4. i \in Peek(s, n) <=> i + s.pos \in s.buf
  BY <1>1, <1>2, <1>3
<1>5. i + s.pos \in s.buf <=> s.ptr * ByteBits + (i + s.pos) \in mem
  BY <1>1 DEF WordAt
<1>6. s.ptr * ByteBits + (i + s.pos) = SizeOf(s) + i
  BY <1>1 DEF SizeOf
<1> QED
  BY <1>4, <1>5, <1>6

\* Consume only counts.
LEMMA ConsumeFacts ==
    ASSUME NEW s \in Streams, NEW n \in Nat, s.pos + n <= WordBits
    PROVE  /\ Consume(s, n) \in Streams /\ SizeOf(Consume(s, n)) = SizeOf(s) + n
           /\ Consume(s, n).ptr = s.ptr /\ Consume(s, n).buf = s.buf
           /\ Consume(s, n).pos = s.pos + n
<1>1. s.pos \in Nat /\ s.ptr \in Nat /\ WordBits \in Nat /\ s.ptr * ByteBits \in Nat
      /\ s.buf \subseteq 0 .. WordBits - 1
  BY SizeType, Widths DEF Streams
<1>2. Consume(s, n) = [ptr |-> s.ptr, buf |-> s.buf, pos |-> s.pos + n]
  BY DEF Consume, Streams
<1> QED
  BY <1>1, <1>2 DEF Streams, SizeOf

\* A step that returns the next n bits.
Takes(n) ==
    /\ bs' \in Streams /\ bs'.buf = WordAt(bs'.ptr) /\ SizeOf(bs') = SizeOf(bs) + n
    /\ \E v \in SUBSET (0 .. n - 1) :
          /\ \A i \in 0 .. n - 1 : i \in v <=> SizeOf(bs) + i \in mem
          /\ last' = Bits(v, n)

\* Read returns the next bits.
LEMMA ReadStep ==
    ASSUME bs \in Streams, bs.buf = WordAt(bs.ptr), NEW n \in 0 .. MaxWrite,
           NEW s, s = IF n + bs.pos > WordBits THEN Refill(bs) ELSE bs,
           bs' = Consume(s, n), last' = Bits(Peek(s, n), n)
    PROVE  Takes(n)
<1>1. /\ n \in Nat /\ n <= LongestWrite /\ WordBits \in Nat /\ ByteBits \in Nat
      /\ LongestWrite = WordBits - (ByteBits - 1) /\ bs.pos \in Nat
  BY Widths, SizeType
<1>2. /\ s \in Streams /\ s.buf = WordAt(s.ptr) /\ s.pos + n <= WordBits
      /\ SizeOf(s) = SizeOf(bs)
  <2>1. CASE n + bs.pos > WordBits
    <3>1. /\ s \in Streams /\ SizeOf(s) = SizeOf(bs) /\ s.buf = WordAt(s.ptr)
          /\ s.pos < ByteBits
      BY <2>1, RefillFacts
    <3>2. s.pos \in Nat
      BY <3>1, SizeType
    <3> QED
      BY <3>1, <3>2, <1>1
  <2>2. CASE ~ (n + bs.pos > WordBits)
    BY <2>2, <1>1
  <2> QED
    BY <2>1, <2>2
<1>3. /\ Peek(s, n) \subseteq 0 .. n - 1
      /\ \A i \in 0 .. n - 1 : i \in Peek(s, n) <=> SizeOf(s) + i \in mem
  BY <1>1, <1>2, PeekFacts
<1>4. /\ Consume(s, n) \in Streams /\ SizeOf(Consume(s, n)) = SizeOf(s) + n
      /\ Consume(s, n).ptr = s.ptr /\ Consume(s, n).buf = s.buf
  BY <1>1, <1>2, ConsumeFacts
<1> QED
  BY <1>2, <1>3, <1>4 DEF Takes

\* The body of ReadLong.
DoReadLong(n) ==
    LET first == MinOf(n, WordBits - bs.pos)
        low   == Peek(bs, first)
        s     == Consume(bs, first)
        f     == Refill(s)
        high  == ShiftLeft(Peek(f, n - first), first)
    IN IF n > first
       THEN bs' = Consume(f, n - first) /\ last' = Bits(low \union high, n)
       ELSE bs' = s /\ last' = Bits(low, n)

\* ReadLong returns the next bits, those of the next word after those of this one.
LEMMA ReadLongStep ==
    ASSUME bs \in Streams, bs.buf = WordAt(bs.ptr), NEW n \in 0 .. WordBits,
           DoReadLong(n)
    PROVE  Takes(n)
<1>1. /\ n \in Nat /\ n <= WordBits /\ WordBits \in Nat /\ ByteBits \in Nat
      /\ bs.pos \in Nat /\ bs.pos <= WordBits /\ SizeOf(bs) \in Nat
      /\ WordBits % ByteBits = 0
  BY Widths, SizeType DEF Streams
<1>2. PICK first \in Nat : /\ first = MinOf(n, WordBits - bs.pos)
                           /\ first <= n /\ bs.pos + first <= WordBits
                           /\ n > first => bs.pos + first = WordBits
  BY <1>1 DEF MinOf
<1>3. PICK low : /\ low = Peek(bs, first) /\ low \subseteq 0 .. first - 1
                 /\ \A i \in 0 .. first - 1 : i \in low <=> SizeOf(bs) + i \in mem
  BY <1>2, PeekFacts
<1>4. PICK s : /\ s = Consume(bs, first) /\ s \in Streams /\ SizeOf(s) = SizeOf(bs) + first
               /\ s.ptr = bs.ptr /\ s.buf = bs.buf /\ s.pos = bs.pos + first
  BY <1>2, ConsumeFacts
<1>5. CASE ~ (n > first)
  <2>1. n = first
    BY <1>1, <1>2, <1>5
  <2>2. bs' = s /\ last' = Bits(low, n)
    BY <1>2, <1>3, <1>4, <1>5 DEF DoReadLong
  <2> QED
    BY <2>1, <2>2, <1>3, <1>4 DEF Takes
<1>6. CASE n > first
  <2>1. PICK f : /\ f = Refill(s) /\ f \in Streams /\ SizeOf(f) = SizeOf(s)
                 /\ f.buf = WordAt(f.ptr) /\ f.pos = s.pos % ByteBits
    BY <1>4, RefillFacts
  <2>2. PICK l \in Nat : l = n - first
    BY <1>2, <1>6, <1>1
  <2>3. f.pos + l <= WordBits
    BY <1>1, <1>2, <1>4, <1>6, <2>1, <2>2
  <2>4. PICK h : /\ h = Peek(f, l) /\ h \subseteq 0 .. l - 1
                 /\ \A i \in 0 .. l - 1 : i \in h <=> SizeOf(f) + i \in mem
    BY <2>1, <2>3, PeekFacts
  <2>5. PICK v : v = low \union {i + first : i \in h}
    OBVIOUS
  <2>6. bs' = Consume(f, l) /\ last' = Bits(v, n)
    BY <1>2, <1>3, <1>4, <1>6, <2>1, <2>2, <2>4, <2>5 DEF DoReadLong, ShiftLeft
  <2>7. /\ bs' \in Streams /\ SizeOf(bs') = SizeOf(f) + l
        /\ bs'.ptr = f.ptr /\ bs'.buf = f.buf
    BY <2>1, <2>3, <2>6, ConsumeFacts
  <2>8. v \subseteq 0 .. n - 1
    BY <1>1, <1>3, <2>2, <2>4, <2>5
  <2>9. \A i \in 0 .. n - 1 : i \in v <=> SizeOf(bs) + i \in mem
    <3> SUFFICES ASSUME NEW i \in 0 .. n - 1
                 PROVE  i \in v <=> SizeOf(bs) + i \in mem
      OBVIOUS
    <3>1. CASE i < first
      BY <3>1, <1>3, <2>4, <2>5
    <3>2. CASE ~ (i < first)
      <4>1. PICK j \in 0 .. l - 1 : j = i - first
        BY <3>2, <1>1, <2>2
      <4>2. i = j + first /\ i \notin low /\ SizeOf(f) + j = SizeOf(bs) + i
        BY <4>1, <3>2, <1>1, <1>3, <1>4, <2>1
      <4>3. i \in v <=> j \in h
        BY <4>1, <4>2, <2>4, <2>5
      <4> QED
        BY <4>2, <4>3, <2>4
    <3> QED
      BY <3>1, <3>2
  <2>10. SizeOf(bs') = SizeOf(bs) + n
    BY <1>1, <1>2, <1>4, <2>1, <2>2, <2>7
  <2> QED
    BY <2>1, <2>6, <2>7, <2>8, <2>9, <2>10 DEF Takes
<1> QED
  BY <1>5, <1>6

-----------------------------------------------------------------------------
(* The steps keep IInv.                                                    *)

\* Bits is a sequence of bits.
LEMMA BitsType ==
    ASSUME NEW v, NEW n \in Nat
    PROVE  Bits(v, n) \in Seq({0, 1}) /\ Len(Bits(v, n)) = n
           /\ \A i \in 1 .. n : Bits(v, n)[i] = IF i - 1 \in v THEN 1 ELSE 0
  BY DEF Bits

\* The bits still to come in the loop of RepeatedWrite.
Left == IF mode = "repeat" THEN rest.count ELSE 0

\* A step that puts n bits keeps IInv if there is room for them and the others.
LEMMA PutsKeeps ==
    ASSUME IInv, mode # "read", NEW n \in Nat, Puts(n), last' \in Seq({0, 1}),
           mode' \in {"write", "repeat"}, rest' \in [b : {0, 1}, count : 0 .. Limit],
           SizeOf(bs) + n + Left' <= Limit, end' = end
    PROVE  IInv'
<1>1. SizeOf(bs) \in Nat /\ SizeOf(bs') \in Nat /\ Left' \in Nat
  BY SizeType DEF Puts, IInv, TypeOK, Left, Streams
<1>2. \A i \in 1 .. Len(last') : last'[i] \in {0, 1}
  OBVIOUS
<1>3. TypeOK'
  BY <1>2 DEF Puts, IInv, TypeOK, Streams
<1>4. Clean(bs') /\ SizeOf(bs') + Left' <= Limit
  BY <1>1 DEF Puts
<1> QED
  BY <1>3, <1>4 DEF IInv, Left

\* What a call is given, and what it makes of the stream.
LEMMA WriteSteps ==
    ASSUME IInv, Write \/ WriteLong \/ RepeatedWrite \/ RepeatedWrite_Turn
    PROVE  /\ IInv'
           /\ MaxWrite < LongestWrite =>
                 \E n \in Nat : \E v : Puts(n) /\ Adds(v, n) /\ last' = Bits(v, n)
<1>1. /\ mem \subseteq Nat /\ bs \in Streams /\ Clean(bs) /\ mode # "read"
      /\ SizeOf(bs) \in Nat /\ Left \in Nat /\ SizeOf(bs) + Left <= Limit
      /\ rest \in [b : {0, 1}, count : 0 .. Limit]
  <2>1. mode # "read" /\ bs \in Streams
    BY DEF IInv, TypeOK, Streams, Write, WriteLong, RepeatedWrite, RepeatedWrite_Turn
  <2> QED
    BY <2>1, SizeType DEF IInv, TypeOK, Left
<1>2. /\ bs.pos \in Nat /\ bs.pos <= WordBits /\ WordBits \in Nat /\ Limit \in Nat
      /\ MaxWrite \in Nat /\ ByteBits \in Nat /\ ByteBits <= WordBits
  BY <1>1, Widths DEF Streams
<1>3. BitSize = SizeOf(bs)
  BY DEF BitSize, SizeOf
<1>4. \A n \in Nat : Values(n) \subseteq SUBSET Nat
  BY <1>2 DEF Values
<1>5. CASE Write
  <2>0. PICK n \in 0 .. MaxWrite : Fits(n) /\ \E v \in Values(n) :
           DoWrite(v, n) /\ last' = Bits(v, n)
    BY <1>5 DEF Write
  <2>1. PICK v \in Values(n) : Fits(n) /\ DoWrite(v, n) /\ last' = Bits(v, n)
    BY <2>0
  <2>2. n \in Nat /\ v \in SUBSET Nat
    BY <1>2, <1>4
  <2>3. Puts(n) /\ (MaxWrite < LongestWrite => Adds(v, n))
    BY <1>1, <2>1, <2>2, DoWriteStep
  <2>4. /\ SizeOf(bs) + n <= Limit /\ mode' = "write" /\ rest' = rest /\ end' = end
        /\ Left' = 0
    BY <1>3, <1>5, <2>1 DEF Write, Fits, Left
  <2>5. last' \in Seq({0, 1})
    BY <2>1, <2>2, BitsType
  <2>6. IInv'
    BY <1>1, <2>2, <2>3, <2>4, <2>5, PutsKeeps
  <2> QED
    BY <2>1, <2>2, <2>3, <2>6
<1>6. CASE WriteLong
  <2>0. PICK n \in 0 .. WordBits : Fits(n) /\ \E v \in Values(n) :
           DoWriteLong(v, n) /\ last' = Bits(v, n)
    BY <1>6 DEF WriteLong, DoWriteLong
  <2>1. PICK v \in Values(n) : Fits(n) /\ DoWriteLong(v, n) /\ last' = Bits(v, n)
    BY <2>0
  <2>2. n \in Nat /\ v \in SUBSET Nat
    BY <1>2, <1>4
  <2>3. Puts(n) /\ Adds(v, n)
    BY <1>1, <2>1, <2>2, WriteLongStep
  <2>4. /\ SizeOf(bs) + n <= Limit /\ mode' = "write" /\ rest' = rest /\ end' = end
        /\ Left' = 0
    BY <1>3, <1>6, <2>1 DEF WriteLong, Fits, Left
  <2>5. last' \in Seq({0, 1})
    BY <2>1, <2>2, BitsType
  <2>6. IInv'
    BY <1>1, <2>2, <2>3, <2>4, <2>5, PutsKeeps
  <2> QED
    BY <2>1, <2>2, <2>3, <2>6
<1>7. CASE RepeatedWrite
  <2>1. PICK b \in {0, 1}, n \in (0 .. Limit) \ (MaxWrite + 1 .. LongestWrite) :
           /\ Fits(n)
           /\ IF n <= LongestWrite
              THEN DoWrite(Copies(b), n) /\ last' = Bits(Copies(b), n)
                   /\ UNCHANGED <<mode, rest>>
              ELSE mode' = "repeat" /\ rest' = [b |-> b, count |-> n]
                   /\ last' = <<>> /\ UNCHANGED <<mem, bs>>
    BY <1>7 DEF RepeatedWrite
  <2>2. n \in Nat /\ Copies(b) \in SUBSET Nat /\ mode = "write" /\ end' = end
        /\ SizeOf(bs) + n <= Limit
    BY <1>2, <1>3, <1>7, <2>1 DEF Copies, Fits, RepeatedWrite
  <2>3. CASE n <= LongestWrite
    <3>1. n \in 0 .. MaxWrite
      BY <1>2, <2>1, <2>2, <2>3, Widths
    <3>2. Puts(n) /\ (MaxWrite < LongestWrite => Adds(Copies(b), n))
      BY <1>1, <2>1, <2>2, <2>3, <3>1, DoWriteStep
    <3>3. mode' = "write" /\ rest' = rest /\ Left' = 0
      BY <2>1, <2>2, <2>3 DEF Left
    <3>4. last' = Bits(Copies(b), n) /\ last' \in Seq({0, 1})
      BY <2>1, <2>2, <2>3, BitsType
    <3>5. IInv'
      BY <1>1, <2>2, <3>2, <3>3, <3>4, PutsKeeps
    <3> QED
      BY <2>2, <3>2, <3>4, <3>5
  <2>4. CASE ~ (n <= LongestWrite)
    <3>1. /\ mode' = "repeat" /\ rest' = [b |-> b, count |-> n] /\ last' = <<>>
          /\ UNCHANGED <<mem, bs>>
      BY <2>1, <2>4
    <3>2. Left' = n
      BY <3>1 DEF Left
    <3>3. Puts(0) /\ Adds({}, 0)
      BY <3>1, <1>1 DEF Puts, Adds
    <3>4. last' = Bits({}, 0) /\ last' \in Seq({0, 1})
      BY <3>1 DEF Bits
    <3>5. IInv'
      BY <1>1, <1>2, <2>1, <2>2, <3>1, <3>2, <3>3, <3>4, PutsKeeps
    <3> QED
      BY <3>3, <3>4, <3>5
  <2> QED
    BY <2>3, <2>4
<1>8. CASE RepeatedWrite_Turn
  <2>1. PICK v \in SUBSET Nat : v = Copies(rest.b)
    <3>1. Copies(rest.b) \in SUBSET Nat
      BY <1>2 DEF Copies
    <3> QED
      BY <3>1
  <2>2. PICK n \in Nat : /\ n = MinOf(WordBits - bs.pos, rest.count)
                         /\ n <= rest.count /\ bs.pos + n <= WordBits
                         /\ WordBits - bs.pos <= rest.count => bs.pos + n = WordBits
                         /\ ~ (WordBits - bs.pos <= rest.count) => n = rest.count
    BY <1>1, <1>2 DEF MinOf
  <2>3. /\ mode = "repeat" /\ end' = end /\ last' = Bits(v, n)
        /\ rest' = [rest EXCEPT !.count = @ - n]
        /\ IF WordBits - bs.pos <= rest.count
           THEN mem' = Stored(Put(bs, v, n)) /\ bs' \in Flushed(Put(bs, v, n))
                /\ UNCHANGED mode
           ELSE bs' = Put(bs, v, n) /\ mode' = "write" /\ UNCHANGED mem
    BY <1>8, <2>1, <2>2 DEF RepeatedWrite_Turn
  <2>4. /\ rest' \in [b : {0, 1}, count : 0 .. Limit]
        /\ rest'.count = rest.count - n /\ Left = rest.count
        /\ Left' \in Nat /\ Left' <= rest.count - n
    <3>1. rest.b \in {0, 1} /\ rest.count \in 0 .. Limit /\ Left = rest.count
      BY <1>1, <2>3 DEF Left
    <3>2. rest.count - n \in 0 .. Limit
      BY <3>1, <2>2, <1>2
    <3>3. rest' = [b |-> rest.b, count |-> rest.count - n]
      BY <1>1, <2>3
    <3>4. Left' = rest.count - n \/ Left' = 0
      BY <3>3 DEF Left
    <3> QED
      BY <3>1, <3>2, <3>3, <3>4
  <2>5. PICK s \in Streams : s = bs
    BY <1>1
  <2>6. PICK m : m = mem
    OBVIOUS
  <2>7. PICK p \in Streams : p = Put(s, v, n) /\ PutOK(m, s, p, v, n)
    <3>1. Clean(s) /\ s.pos + n <= WordBits
      BY <1>1, <2>2, <2>5
    <3>2. PutOK(m, s, Put(s, v, n), v, n)
      BY <3>1, PutIsOK
    <3> QED
      BY <3>2 DEF PutOK
  <2>8. Puts(n) /\ Adds(v, n)
    <3>1. CASE WordBits - bs.pos <= rest.count
      <4>1. mem' = Stored(p) /\ bs' \in Flushed(p)
        BY <2>3, <2>5, <2>7, <3>1
      <4>2. PICK f \in Flushed(p) : f = bs'
        BY <4>1
      <4>3. p.pos >= ByteBits /\ Clean(p) /\ SizeOf(p) = SizeOf(s) + n
        BY <1>2, <2>2, <2>5, <2>7, <3>1 DEF PutOK
      <4>4. f \in Streams /\ Clean(f) /\ SizeOf(f) = SizeOf(p)
        BY <4>3, FlushedFacts
      <4>5. \A a \in 0 .. SizeOf(p) - 1 : OneIn(Stored(p), f, a) <=> OneIn(mem, p, a)
        BY <1>1, <4>3, FlushKeeps
      <4>6. Stored(p) \subseteq Nat
        BY <1>1, StoredFacts
      <4>7. \A a \in 0 .. SizeOf(s) - 1 : OneIn(Stored(p), f, a) <=> OneIn(mem, s, a)
        <5> SUFFICES ASSUME NEW a \in 0 .. SizeOf(s) - 1
                     PROVE  OneIn(Stored(p), f, a) <=> OneIn(mem, s, a)
          OBVIOUS
        <5>1. a \in 0 .. SizeOf(p) - 1
          BY <1>1, <2>5, <4>3
        <5> QED
          BY <5>1, <4>5, <2>6, <2>7 DEF PutOK
      <4>8. \A i \in 0 .. n - 1 : OneIn(Stored(p), f, SizeOf(s) + i) <=> i \in v
        <5> SUFFICES ASSUME NEW i \in 0 .. n - 1
                     PROVE  OneIn(Stored(p), f, SizeOf(s) + i) <=> i \in v
          OBVIOUS
        <5>1. SizeOf(s) + i \in 0 .. SizeOf(p) - 1
          BY <1>1, <2>5, <4>3
        <5> QED
          BY <5>1, <4>5, <2>6, <2>7 DEF PutOK
      <4> QED
        BY <2>5, <4>1, <4>2, <4>3, <4>4, <4>6, <4>7, <4>8 DEF Puts, Adds
    <3>2. CASE ~ (WordBits - bs.pos <= rest.count)
      <4>1. bs' = Put(bs, v, n) /\ mem' = mem
        BY <2>3, <3>2
      <4> QED
        BY <1>1, <2>2, <4>1, PutStep
    <3> QED
      BY <3>1, <3>2
  <2>9. SizeOf(bs) + n + Left' <= Limit /\ mode' \in {"write", "repeat"}
    BY <1>1, <1>2, <2>2, <2>3, <2>4
  <2>10. last' \in Seq({0, 1})
    BY <2>3, BitsType
  <2>11. IInv'
    BY <1>1, <2>3, <2>4, <2>8, <2>9, <2>10, PutsKeeps
  <2> QED
    BY <2>3, <2>8, <2>11
<1> QED
  BY <1>5, <1>6, <1>7, <1>8

\* InitRead stores the word, and starts again at the first byte.
LEMMA InitReadStep == ASSUME IInv, InitRead PROVE IInv'
<1>1. /\ mem \subseteq Nat /\ bs \in Streams /\ SizeOf(bs) \in Nat /\ WordBits \in Nat
      /\ Limit \in Nat /\ ByteBits \in Nat
  BY Widths, SizeType DEF IInv, TypeOK, Streams
<1>2. mem' \subseteq Nat
  BY <1>1, StoredFacts DEF InitRead
<1>3. end' \in 0 .. Limit
  BY <1>1 DEF InitRead, IInv, TypeOK, BitSize, SizeOf
<1>4. bs' = [ptr |-> 0, buf |-> {i \in 0 .. WordBits - 1 : i \in mem'}, pos |-> 0]
  BY DEF InitRead, Empty
<1>5. bs' \in Streams /\ SizeOf(bs') = 0 /\ bs'.ptr = 0
      /\ bs'.buf = {i \in 0 .. WordBits - 1 : i \in mem'}
  BY <1>1, <1>4 DEF Streams, SizeOf
<1>6. bs'.buf = WordAt(bs.ptr)'
  <2>1. \A i \in 0 .. WordBits - 1 : 0 * ByteBits + i = i
    BY <1>1
  <2> QED
    BY <1>5, <2>1 DEF WordAt
<1>7. mode' = "read" /\ last' = <<>> /\ rest' = rest
  BY DEF InitRead
<1>8. TypeOK'
  BY <1>2, <1>3, <1>5, <1>7 DEF IInv, TypeOK, Streams
<1>9. SizeOf(bs') <= end'
  BY <1>3, <1>5
<1> QED
  BY <1>6, <1>7, <1>8, <1>9 DEF IInv

\* What a reader's call does.
LEMMA ReadSteps ==
    ASSUME IInv, Read \/ ReadLong
    PROVE  IInv' /\ \E n \in Nat : SizeOf(bs) + n <= end /\ Takes(n)
<1>1. /\ bs \in Streams /\ bs.buf = WordAt(bs.ptr) /\ SizeOf(bs) \in Nat
      /\ UNCHANGED <<mem, mode, rest, end>> /\ mode = "read" /\ end \in Nat
      /\ MaxWrite \in Nat /\ WordBits \in Nat /\ BitSize = SizeOf(bs)
  BY SizeType, Widths DEF IInv, TypeOK, Streams, Read, ReadLong, BitSize, SizeOf
<1>2. \E n \in Nat : SizeOf(bs) + n <= end /\ Takes(n)
  <2>1. CASE Read
    <3>1. PICK n \in 0 .. MaxWrite :
             /\ BitSize + n <= end
             /\ \E s : /\ s = IF n + bs.pos > WordBits THEN Refill(bs) ELSE bs
                       /\ bs' = Consume(s, n) /\ last' = Bits(Peek(s, n), n)
      BY <2>1 DEF Read
    <3>2. Takes(n)
      BY <1>1, <3>1, ReadStep
    <3> QED
      BY <1>1, <3>1, <3>2
  <2>2. CASE ReadLong
    <3>1. PICK n \in 0 .. WordBits : BitSize + n <= end /\ DoReadLong(n)
      BY <2>2 DEF ReadLong, DoReadLong
    <3>2. Takes(n)
      BY <1>1, <3>1, ReadLongStep
    <3> QED
      BY <1>1, <3>1, <3>2
  <2> QED
    BY <2>1, <2>2
<1>3. PICK n \in Nat : SizeOf(bs) + n <= end /\ Takes(n)
  BY <1>2
<1>4. /\ bs' \in Streams /\ bs'.buf = WordAt(bs.ptr)' /\ SizeOf(bs') = SizeOf(bs) + n
  BY <1>1, <1>3 DEF Takes, WordAt
<1>5. last' \in Seq({0, 1})
  BY <1>3, BitsType DEF Takes
<1>6. \A i \in 1 .. Len(last') : last'[i] \in {0, 1}
  BY <1>5
<1>7. TypeOK'
  BY <1>1, <1>4, <1>6 DEF IInv, TypeOK, Streams
<1> QED
  BY <1>1, <1>2, <1>3, <1>4, <1>5, <1>7 DEF IInv

\* IInv is inductive.
LEMMA InitIInv == Init => IInv
<1> SUFFICES ASSUME Init PROVE IInv
  OBVIOUS
<1>1. WordBits \in Nat /\ Limit \in Nat /\ ByteBits \in Nat
  BY Widths
<1>2. mem \subseteq Nat
  BY <1>1 DEF Init
<1>3. bs \in Streams /\ SizeOf(bs) = 0 /\ Clean(bs)
  BY <1>1 DEF Init, Empty, Streams, SizeOf, Clean
<1> QED
  BY <1>1, <1>2, <1>3 DEF Init, IInv, TypeOK, Streams

LEMMA NextIInv == IInv /\ [Next]_vars => IInv'
<1>1. ASSUME IInv, UNCHANGED vars PROVE IInv'
  BY <1>1 DEF vars, IInv, TypeOK, Clean, SizeOf, WordAt
<1> QED
  BY <1>1, WriteSteps, InitReadStep, ReadSteps DEF Next

\* IInv holds in every state of every behaviour.
THEOREM Invariance == Spec => []IInv
  BY InitIInv, NextIInv, PTL DEF Spec

\* The type invariant, for every width and capacity and every call.
THEOREM TypeCorrect == Spec => []TypeOK
<1>1. IInv => TypeOK
  BY DEF IInv
<1> QED
  BY <1>1, Invariance, PTL

\* BitPtr never passes the bytes of the stream, in writing or in reading.
THEOREM StaysInsideStream == Spec => []InsideStream
<1>1. IInv => InsideStream
  <2> SUFFICES ASSUME IInv PROVE InsideStream
    OBVIOUS
  <2>1. /\ bs.ptr * ByteBits \in Nat /\ bs.pos \in Nat /\ Limit \in Nat
        /\ end \in 0 .. Limit /\ rest.count \in 0 .. Limit
        /\ SizeOf(bs) = bs.ptr * ByteBits + bs.pos
    BY SizeType, Widths DEF IInv, TypeOK, Streams, SizeOf
  <2> QED
    BY <2>1 DEF IInv, InsideStream
<1> QED
  BY <1>1, Invariance, PTL

\* No one is ever left above BitPos while writing.
THEOREM StaysClean == Spec => []CleanAbove
<1>1. IInv => CleanAbove
  BY DEF IInv, CleanAbove, Clean
<1> QED
  BY <1>1, Invariance, PTL

-----------------------------------------------------------------------------
(* The stream is a sequence of bits.                                       *)

\* What is written so far.
Written(m, s) == [a \in 1 .. SizeOf(s) |-> IF OneIn(m, s, a - 1) THEN 1 ELSE 0]

LEMMA WrittenFacts ==
    ASSUME NEW m, NEW s \in Streams
    PROVE  /\ [a \in 1 .. s.ptr * ByteBits + s.pos |->
                 IF (IF a <= s.ptr * ByteBits THEN a - 1 \in m
                     ELSE a - 1 - s.ptr * ByteBits \in s.buf) THEN 1 ELSE 0]
                 = Written(m, s)
           /\ Written(m, s) \in Seq({0, 1}) /\ Len(Written(m, s)) = SizeOf(s)
<1>1. s.ptr * ByteBits \in Nat /\ s.pos \in Nat /\ SizeOf(s) \in Nat
  BY SizeType
<1>2. \A a \in 1 .. SizeOf(s) :
         (IF a <= s.ptr * ByteBits THEN a - 1 \in m
          ELSE a - 1 - s.ptr * ByteBits \in s.buf) <=> OneIn(m, s, a - 1)
  BY <1>1 DEF OneIn
<1>3. Written(m, s) \in Seq({0, 1}) /\ Len(Written(m, s)) = SizeOf(s)
  BY <1>1 DEF Written
<1> QED
  BY <1>1, <1>2, <1>3 DEF Written, SizeOf

\* Initially there is nothing.
LEMMA InitSequence == Init => Sequence!Init
<1> SUFFICES ASSUME Init PROVE Sequence!Init
  OBVIOUS
<1>1. BitSize = 0 /\ mode = "write"
  BY Widths DEF Init, Empty, BitSize
<1>2. Contents = <<>>
  BY <1>1 DEF Contents
<1> QED
  BY <1>1, <1>2 DEF Init, Sequence!Init

\* Two streams of which one has the n bits of v more.
LEMMA WrittenMore ==
    ASSUME NEW m1, NEW s1 \in Streams, NEW m2, NEW s2 \in Streams, NEW n \in Nat, NEW v,
           SizeOf(s2) = SizeOf(s1) + n,
           \A a \in 0 .. SizeOf(s1) - 1 : OneIn(m2, s2, a) <=> OneIn(m1, s1, a),
           \A i \in 0 .. n - 1 : OneIn(m2, s2, SizeOf(s1) + i) <=> i \in v
    PROVE  Written(m2, s2) = Written(m1, s1) \o Bits(v, n)
<1> DEFINE t == Written(m1, s1)
           b == Bits(v, n)
           u == Written(m2, s2)
           k == SizeOf(s1)
<1>1. /\ t \in Seq({0, 1}) /\ Len(t) = k /\ u \in Seq({0, 1}) /\ Len(u) = k + n
      /\ b \in Seq({0, 1}) /\ Len(b) = n /\ k \in Nat
  BY WrittenFacts, BitsType, SizeType
<1>2. t \o b \in Seq({0, 1}) /\ Len(t \o b) = k + n
      /\ \A a \in 1 .. k + n : (t \o b)[a] = IF a <= k THEN t[a] ELSE b[a - k]
  <2> HIDE DEF t, b, k
  <2> QED
    BY <1>1
<1>3. \A a \in 1 .. k : u[a] = t[a]
  <2> SUFFICES ASSUME NEW a \in 1 .. k PROVE u[a] = t[a]
    OBVIOUS
  <2>1. a - 1 \in 0 .. k - 1 /\ a \in 1 .. SizeOf(s2)
    BY <1>1
  <2> QED
    BY <2>1 DEF Written
<1>4. \A a \in k + 1 .. k + n : u[a] = b[a - k]
  <2> SUFFICES ASSUME NEW a \in k + 1 .. k + n PROVE u[a] = b[a - k]
    OBVIOUS
  <2>1. PICK i \in 0 .. n - 1 : i = a - 1 - k
    BY <1>1
  <2>2. a - 1 = k + i /\ a \in 1 .. SizeOf(s2) /\ a - k \in 1 .. n /\ a - k - 1 = i
    BY <2>1, <1>1
  <2>3. u[a] = IF OneIn(m2, s2, a - 1) THEN 1 ELSE 0
    BY <2>2 DEF Written
  <2>4. b[a - k] = IF i \in v THEN 1 ELSE 0
    BY <2>2, BitsType
  <2> QED
    BY <2>2, <2>3, <2>4
<1> HIDE DEF t, b, u, k
<1>5. \A a \in 1 .. k + n : u[a] = (t \o b)[a]
  <2> SUFFICES ASSUME NEW a \in 1 .. k + n PROVE u[a] = (t \o b)[a]
    OBVIOUS
  <2>1. a \in 1 .. k \/ (a \in k + 1 .. k + n /\ ~ (a <= k))
    BY <1>1
  <2> QED
    BY <2>1, <1>1, <1>2, <1>3, <1>4
<1>6. u = t \o b
  <2>1. t \o b \in Seq({0, 1})
    BY <1>1, ConcatProperties
  <2> QED
    BY <1>1, <1>2, <1>5, <2>1, SeqEqual
<1> QED
  BY <1>6 DEF t, b, u

\* A step that adds bits is a write of them.
LEMMA WriteSequence ==
    ASSUME bs \in Streams, mode # "read", mode' # "read", NEW n \in Nat, NEW v,
           Puts(n), Adds(v, n), last' = Bits(v, n)
    PROVE  Sequence!Write
<1>1. Contents = Written(mem, bs)
  BY WrittenFacts DEF Contents, BitSize
<1>2. bs' \in Streams /\ SizeOf(bs') = SizeOf(bs) + n
  BY DEF Puts
<1>3. Contents' = Written(mem', bs')
  BY <1>2, WrittenFacts DEF Contents, BitSize
<1>4. Written(mem', bs') = Written(mem, bs) \o Bits(v, n)
  BY <1>2, WrittenMore DEF Adds
<1> QED
  BY <1>1, <1>3, <1>4 DEF Sequence!Write

\* InitRead changes no bit: what the word holds, the memory holds now.
LEMMA InitReadSequence == ASSUME IInv, InitRead PROVE Sequence!StartReading
<1>1. /\ mem \subseteq Nat /\ bs \in Streams /\ SizeOf(bs) \in Nat
      /\ bs.ptr * ByteBits \in Nat /\ bs.pos \in 0 .. WordBits /\ WordBits \in Nat
      /\ SizeOf(bs) = bs.ptr * ByteBits + bs.pos
  BY Widths, SizeType DEF IInv, TypeOK, Streams, SizeOf
<1>2. mode' = "read" /\ last' = <<>> /\ BitSize' = 0
  BY Widths DEF InitRead, Empty, BitSize
<1>3. Contents' = Contents
  <2>1. CASE mode = "read"
    BY <2>1, <1>2 DEF InitRead, Contents
  <2>2. CASE mode # "read"
    <3>1. mode = "write" /\ mem' = Stored(bs) /\ end' = SizeOf(bs)
      BY <2>2 DEF InitRead, IInv, TypeOK, BitSize, SizeOf
    <3>2. Contents = Written(mem, bs)
      BY <1>1, <3>1, WrittenFacts DEF Contents, BitSize
    <3>3. Contents' = [a \in 1 .. SizeOf(bs) |-> IF a - 1 \in mem' THEN 1 ELSE 0]
      BY <1>2, <3>1 DEF Contents
    <3>4. \A a \in 1 .. SizeOf(bs) : a - 1 \in mem' <=> OneIn(mem, bs, a - 1)
      <4> SUFFICES ASSUME NEW a \in 1 .. SizeOf(bs)
                   PROVE  a - 1 \in mem' <=> OneIn(mem, bs, a - 1)
        OBVIOUS
      <4>1. CASE a - 1 < bs.ptr * ByteBits
        BY <4>1, <1>1, <3>1, StoredFacts DEF OneIn
      <4>2. CASE ~ (a - 1 < bs.ptr * ByteBits)
        <5>1. PICK i \in 0 .. WordBits - 1 : i = a - 1 - bs.ptr * ByteBits
          BY <4>2, <1>1
        <5>2. bs.ptr * ByteBits + i = a - 1
          BY <5>1, <1>1
        <5>3. a - 1 \in Stored(bs) <=> i \in bs.buf
          BY <5>2, <1>1, StoredFacts
        <5> QED
          BY <5>1, <5>3, <3>1, <4>2 DEF OneIn
      <4> QED
        BY <4>1, <4>2
    <3> QED
      BY <3>2, <3>3, <3>4 DEF Written
  <2> QED
    BY <2>1, <2>2
<1> QED
  BY <1>2, <1>3 DEF Sequence!StartReading

\* A reader takes the next bits of the sequence.
LEMMA ReadSequence == ASSUME IInv, Read \/ ReadLong PROVE Sequence!Read
<1>1. PICK n \in Nat : SizeOf(bs) + n <= end /\ Takes(n)
  BY ReadSteps
<1>2. /\ SizeOf(bs) \in Nat /\ end \in Nat /\ mode = "read" /\ mode' = "read"
      /\ UNCHANGED <<mem, end>> /\ BitSize = SizeOf(bs) /\ BitSize' = SizeOf(bs')
  BY SizeType, Widths DEF IInv, TypeOK, Streams, Read, ReadLong, BitSize, SizeOf
<1>3. Contents = [a \in 1 .. end |-> IF a - 1 \in mem THEN 1 ELSE 0]
      /\ Contents' = Contents
  BY <1>2 DEF Contents
<1>4. Contents \in Seq({0, 1}) /\ Len(Contents) = end
  BY <1>2, <1>3
<1>5. PICK v : /\ \A i \in 0 .. n - 1 : i \in v <=> SizeOf(bs) + i \in mem
               /\ last' = Bits(v, n)
  BY <1>1 DEF Takes
<1>6. last' = SubSeq(Contents, SizeOf(bs) + 1, SizeOf(bs) + n)
  <2> DEFINE w == SubSeq(Contents, SizeOf(bs) + 1, SizeOf(bs) + n)
  <2>1. /\ w \in Seq({0, 1}) /\ Len(w) = n
        /\ \A a \in 1 .. n : w[a] = Contents[SizeOf(bs) + a]
    <3>1. \A i \in SizeOf(bs) + 1 .. SizeOf(bs) + n : Contents[i] \in {0, 1}
      BY <1>1, <1>2, <1>4
    <3>2. SizeOf(bs) + 1 \in Int /\ SizeOf(bs) + n \in Int
      BY <1>1, <1>2
    <3> QED
      BY <3>1, <3>2, <1>1, <1>2, SubSeqProperties
  <2>2. \A a \in 1 .. n : Contents[SizeOf(bs) + a] = Bits(v, n)[a]
    <3> SUFFICES ASSUME NEW a \in 1 .. n
                 PROVE  Contents[SizeOf(bs) + a] = Bits(v, n)[a]
      OBVIOUS
    <3>1. PICK i \in 0 .. n - 1 : i = a - 1
      OBVIOUS
    <3>2. SizeOf(bs) + a \in 1 .. end /\ SizeOf(bs) + a - 1 = SizeOf(bs) + i
      BY <1>1, <1>2, <3>1
    <3>3. Contents[SizeOf(bs) + a] = IF SizeOf(bs) + i \in mem THEN 1 ELSE 0
      <4>1. PICK x \in 1 .. end : x = SizeOf(bs) + a
        BY <3>2
      <4>2. Contents[x] = IF x - 1 \in mem THEN 1 ELSE 0
        BY <1>3
      <4> DEFINE y == SizeOf(bs) + i
      <4>3. x - 1 = y
        BY <4>1, <3>1, <1>2 DEF y
      <4> HIDE DEF y
      <4>4. Contents[x] = IF y \in mem THEN 1 ELSE 0
        BY <4>2, <4>3
      <4>5. Contents[SizeOf(bs) + a] = IF y \in mem THEN 1 ELSE 0
        BY <4>4, <4>1
      <4> QED
        BY <4>5 DEF y
    <3>4. Bits(v, n)[a] = IF i \in v THEN 1 ELSE 0
      BY <3>1, BitsType
    <3> QED
      BY <3>3, <3>4, <1>5
  <2>3. Bits(v, n) \in Seq({0, 1}) /\ Len(Bits(v, n)) = n
    BY BitsType
  <2> HIDE DEF w
  <2>4. w = Bits(v, n)
    BY <2>1, <2>2, <2>3
  <2> QED
    BY <2>4, <1>5 DEF w
<1>7. BitSize' = SizeOf(bs) + n /\ n \in 0 .. end - SizeOf(bs)
  BY <1>1, <1>2 DEF Takes
<1> QED
  BY <1>2, <1>3, <1>4, <1>6, <1>7 DEF Sequence!Read

\* Every step of the stream is a step of the sequence, or none.
LEMMA NextSequence ==
    ASSUME MaxWrite < LongestWrite
    PROVE  IInv /\ [Next]_vars => [Sequence!Next]_Sequence!vars
<1> SUFFICES ASSUME IInv, [Next]_vars PROVE [Sequence!Next]_Sequence!vars
  OBVIOUS
<1>1. CASE Write \/ WriteLong \/ RepeatedWrite \/ RepeatedWrite_Turn
  <2>1. PICK n \in Nat : \E v : Puts(n) /\ Adds(v, n) /\ last' = Bits(v, n)
    BY <1>1, WriteSteps
  <2>2. PICK v : Adds(v, n) /\ last' = Bits(v, n)
    BY <2>1
  <2>3. bs \in Streams /\ mode # "read" /\ mode' # "read"
    BY <1>1 DEF IInv, TypeOK, Streams, Write, WriteLong, RepeatedWrite,
                RepeatedWrite_Turn
  <2> QED
    BY <2>1, <2>2, <2>3, WriteSequence DEF Sequence!Next
<1>2. CASE InitRead
  BY <1>2, InitReadSequence DEF Sequence!Next
<1>3. CASE Read \/ ReadLong
  BY <1>3, ReadSequence DEF Sequence!Next
<1>4. CASE UNCHANGED vars
  BY <1>4 DEF vars, Contents, BitSize, Sequence!vars
<1> QED
  BY <1>1, <1>2, <1>3, <1>4 DEF Next

\* The stream is a sequence of bits, for every width of bytes and words and every
\* capacity, if no caller asks for the longest write Write admits: every write
\* adds exactly its bits and changes none before, and reads return them, however
\* they are split.
THEOREM ImplementsSequence == MaxWrite < LongestWrite => (Spec => Implements)
<1> SUFFICES ASSUME MaxWrite < LongestWrite PROVE Spec => Implements
  OBVIOUS
<1>1. Init => Sequence!Init
  BY InitSequence
<1>2. IInv /\ [Next]_vars => [Sequence!Next]_Sequence!vars
  BY NextSequence
<1> QED
  BY <1>1, <1>2, Invariance, PTL DEF Spec, Implements, Sequence!Spec
=============================================================================
