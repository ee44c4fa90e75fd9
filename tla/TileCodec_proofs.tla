--------------------------- MODULE TileCodec_proofs ---------------------------
(***************************************************************************)
(* WriteTile and DecompressTile for every number of blocks, planes and     *)
(* coefficients, every chunk size and every tile.                           *)
(*                                                                         *)
(* The types and the shape of the chain of chunks hold of every tile       *)
(* (EncInv, DecInv).  The rest needs that no EMax was torn and that the    *)
(* exponents of significant blocks fit their field (ExponentsFit; see      *)
(* TileCodecExponents.cfg for what happens otherwise).  Then DecompressTile *)
(* goes through the states WriteTile went through: there is a history of   *)
(* WriteTile, each state made from the one before, and the decoder is in   *)
(* one of its states, or one chunk behind (Behind), when the EMax of an    *)
(* unwanted block has filled a chunk, which the encoder closes at once and *)
(* the decoder when it next wants to read.                                  *)
(***************************************************************************)
EXTENDS TileCodec, Operators_proofs, SequenceTheorems, FiniteSetTheorems, FunctionTheorems

\* The exponent of a block that is worth encoding can be coded: the tolerance is
\* not less than the least normal number, or the volume is of f64, whose exponents
\* all fit.
ExponentsFit == TolExp > -ExpBias \/ MinExp >= -ExpBias

-----------------------------------------------------------------------------
(* The encoder.                                                            *)

EncStates == [pc : {"block", "encode", "turn", "done", "outside"}, bp : Planes,
              b : Blocks, ns : [Blocks -> 0 .. NC], call : CallState, ck : Nat \ {0}]

\* Where WriteTile is: ck is the chunk it fills.
EncNow == [pc |-> epc, bp |-> ebp, b |-> eb, ns |-> ens, call |-> call,
           ck |-> Len(chunks) + 1]

PlaneOf(e) == planes[e.b][e.bp]
WantedAt(e) == Wanted(e.bp, emax[e.b])
LastTurn(e) == e.bp = 0 /\ LastBlock(e.b)

\* What holds at each place of WriteTile.
Placed(e) ==
    /\ e \in EncStates
    /\ e.call.n <= NC /\ Cursor(e.call) <= e.call.n /\ e.call.pc # "done"
    /\ e.pc = "block" => e.call.fill < S
    /\ e.pc = "encode" => /\ WantedAt(e)
                          /\ GoodCall(PlaneOf(e), S, e.call)
                          /\ e.call.pc # "return"
    /\ e.pc = "turn" /\ WantedAt(e) => /\ GoodCall(PlaneOf(e), S, e.call)
                                       /\ e.call.pc = "return"
    /\ e.pc = "turn" /\ ~ WantedAt(e) => e.call = Entry(e.ns[e.b], e.call.fill)

\* What holds besides while no EMax is torn.
Whole(e) ==
    /\ e.pc # "outside"
    /\ e.call.fill <= S
    /\ e.pc = "turn" /\ ~ WantedAt(e) /\ e.call.fill = S =>
          e.bp = Prec - 1 /\ LastBlock(e.b)

\* What is known of the input.
DataOK ==
    /\ S \in ChunkBits
    /\ emax \in [Blocks -> Exponents]
    /\ planes \in [Blocks -> [Planes -> SUBSET Coefs]]
    /\ \A b \in Blocks, bp \in Planes : ~ Wanted(bp, emax[b]) => planes[b][bp] = {}

ChunksOK ==
    /\ bits \in Seq({0, 1}) /\ chunks \in Seq(Seq({0, 1}))
    /\ \A k \in 1 .. Len(chunks) :
          /\ chunks[k] # <<>> /\ Len(chunks[k]) <= S
          /\ (k < Len(chunks) \/ epc # "done") => Len(chunks[k]) = S
    /\ epc = "done" => bits = <<>> /\ chunks # <<>>
    /\ bits = <<>> /\ chunks = <<>> => epc = "block" /\ ebp = Prec - 1 /\ eb = 0

EncInv ==
    /\ DataOK
    /\ ChunksOK
    /\ torn \in BOOLEAN /\ emaxOut \in BOOLEAN
    /\ call.fill = Len(bits)
    /\ Placed(EncNow)
    /\ ~ torn => Whole(EncNow)

-----------------------------------------------------------------------------
(* The history of the encoder.                                             *)

\* Bit p of chunk c has been written, and is v.
Stream(c) == IF c \in 1 .. Len(chunks) THEN chunks[c] ELSE bits
Holds(c, p, v) ==
    /\ c \in 1 .. Len(chunks) + 1 /\ p \in Nat /\ p < Len(Stream(c))
    /\ Stream(c)[p + 1] = v

EMaxOf(e) == IF e.bp = Prec - 1 THEN WriteEMax(emax[e.b]) ELSE <<>>

AfterBlock(e) ==
    [e EXCEPT !.call = Entry(e.ns[e.b], e.call.fill + Len(EMaxOf(e))),
              !.pc   = IF WantedAt(e) THEN "encode" ELSE "turn"]

Piece(pl, c) ==
    CASE c.pc = "call"  -> EncCall(S, c)
      [] c.pc = "group" -> EncGroup(pl, S, c)
      [] c.pc = "inner" -> EncInner(pl, S, c)
      [] c.pc = "after" -> EncAfter(S, c)

AfterPiece(e) ==
    [e EXCEPT !.call = Piece(PlaneOf(e), e.call),
              !.pc   = IF Piece(PlaneOf(e), e.call).pc = "return" THEN "turn"
                       ELSE "encode"]

\* The bits it writes.
PieceBits(pl, c) ==
    CASE c.pc = "call"  -> PlaneBits(pl, c.m, Refinement(S, c))
      [] c.pc = "group" -> IF AtGroupBit(S, c) THEN <<GroupBit(pl, c)>> ELSE <<>>
      [] c.pc = "inner" -> IF AtCoefBit(S, c) THEN <<CoefBit(pl, c)>> ELSE <<>>
      [] c.pc = "after" -> <<>>

FullAt(e) == WantedAt(e) => Full(e.call)
WritesAt(e) == e.call.fill > 0 /\ (e.call.fill >= S \/ LastTurn(e))
GoesOn(e) == FullAt(e) /\ ~ LastTurn(e)

AfterTurn(e) ==
    [pc   |-> IF ~ FullAt(e) THEN "encode" ELSE IF LastTurn(e) THEN "done" ELSE "block",
     bp   |-> IF GoesOn(e) THEN NextPlane(e.bp, e.b) ELSE e.bp,
     b    |-> IF GoesOn(e) THEN NextBlock(e.b) ELSE e.b,
     ns   |-> [e.ns EXCEPT ![e.b] = e.call.n],
     call |-> [e.call EXCEPT !.pc = "call", !.m = Cursor(e.call), !.p = 0,
                             !.fill = IF WritesAt(e) THEN 0 ELSE e.call.fill],
     ck   |-> IF WritesAt(e) THEN e.ck + 1 ELSE e.ck]

After(e) ==
    CASE e.pc = "block"  -> AfterBlock(e)
      [] e.pc = "encode" -> AfterPiece(e)
      [] e.pc = "turn"   -> AfterTurn(e)

Written(e) ==
    CASE e.pc = "block"  -> EMaxOf(e)
      [] e.pc = "encode" -> PieceBits(PlaneOf(e), e.call)
      [] e.pc = "turn"   -> <<>>

\* f is what WriteTile makes of e, and the chunks hold the bits it wrote.
Follows(e, f) ==
    /\ e.pc \in {"block", "encode", "turn"} /\ f = After(e)
    /\ \A i \in 1 .. Len(Written(e)) :
          Holds(e.ck, e.call.fill + (i - 1), Written(e)[i])

FirstState == [pc |-> "block", bp |-> Prec - 1, b |-> 0, ns |-> [b \in Blocks |-> 0],
               call |-> Entry(0, 0), ck |-> 1]

\* h is a run of WriteTile, from its start to where it is.
History(h) ==
    /\ h \in Seq(EncStates) /\ h # <<>>
    /\ h[1] = FirstState /\ h[Len(h)] = EncNow
    /\ \A j \in 1 .. Len(h) : Placed(h[j]) /\ Whole(h[j])
    /\ \A j \in 1 .. Len(h) - 1 : Follows(h[j], h[j + 1])

-----------------------------------------------------------------------------
(* The decoder.                                                            *)

\* DecompressTile is in its loops.
Busy == dpc \in {"block", "decode", "turn"}

\* What holds at each place of DecompressTile, whatever bits it reads.
DecInv ==
    /\ dpc \in {"idle", "block", "decode", "turn", "done", "outside"}
    /\ dbp \in Planes /\ db \in Blocks /\ dns \in [Blocks -> 0 .. NC]
    /\ nread \in 0 .. Len(chunks) /\ ck \in 1 .. nread + 1
    /\ demax \in [Blocks -> Int]
    /\ got \in [Blocks -> [Planes -> SUBSET Coefs]]
    /\ copied \subseteq Blocks \X Int \X [Planes -> SUBSET Coefs]
    /\ dcall \in DecStates
    /\ dcall.n <= NC /\ Cursor(dcall) <= dcall.n /\ dcall.pc # "done"
    /\ dpc = "idle" => dcall.fill = 0 /\ ck = 1
    /\ dpc # "idle" => epc = "done" /\ nread >= 1
    /\ Busy => ck <= nread /\ dcall.fill <= Len(chunks[ck])
    /\ dpc = "decode" => Shape(S, dcall) /\ dcall.pc # "return"
    /\ dpc = "turn" => /\ Wanted(dbp, demax[db]) => Shape(S, dcall) /\ dcall.pc = "return"
                       /\ dcall.n \in 0 .. NC

\* The decoder is where the encoder was in state e.
With(e) ==
    /\ e.ck = ck /\ e.bp = dbp /\ e.b = db /\ e.ns = dns
    /\ dpc \in {"idle", "block"} => e.pc = "block" /\ e.call.fill = dcall.fill
    /\ dpc \in {"decode", "turn"} =>
          /\ e.pc = (IF dpc = "decode" THEN "encode" ELSE "turn")
          /\ InStep(PlaneOf(e), e.call, dcall)

\* The decoder is at the end of the chunk before the one e starts.
Behind(e) ==
    /\ e.ck = ck + 1 /\ e.bp = dbp /\ e.b = db /\ e.ns = dns
    /\ e.call.fill = 0 /\ dcall.fill = S /\ dbp < Prec - 1
    /\ dpc = "block" => e.pc = "block"
    /\ dpc \in {"decode", "turn"} =>
          /\ e.call = Entry(dns[db], 0)
          /\ dcall = [DecEntry(dns[db], S) EXCEPT !.pc = dcall.pc]
          /\ e.pc = (IF WantedAt(e) THEN "encode" ELSE "turn")
    /\ dpc = "decode" => WantedAt(e) /\ dcall.pc \in {"call", "group"}

\* What has been decoded.
DecodedOK ==
    /\ \A b \in Blocks :
          Passed(Prec - 1, b) \/ (dpc \in {"decode", "turn"} /\ dbp = Prec - 1 /\ b = db)
             => demax[b] = CodedExponent(b)
    /\ \A b \in Blocks, bp \in Planes :
          /\ got[b][bp] \subseteq planes[b][bp]
          /\ Passed(bp, b) => got[b][bp] = planes[b][bp]
          /\ dpc \in {"idle", "block", "decode", "turn"} /\ ~ Passed(bp, b) =>
                got[b][bp] = IF dpc \in {"decode", "turn"} /\ bp = dbp /\ b = db
                             THEN dcall.block ELSE {}
    /\ dpc \in {"idle", "block", "decode", "turn"} =>
          copied = {<<b, CodedExponent(b), planes[b]>> : b \in {c \in Blocks : dbp = 0 /\ c < db}}
    /\ dpc = "done" =>
          \/ copied = {<<b, CodedExponent(b), planes[b]>> : b \in Blocks}
          \/ Len(chunks[nread]) = S

\* While no EMax is torn, the decoder follows the encoder.
Tracks ==
    \E h : /\ History(h)
           /\ dpc = "idle" => With(h[1])
           /\ Busy => \E k \in 1 .. Len(h) : With(h[k]) \/ Behind(h[k])

IInv ==
    /\ EncInv
    /\ DecInv
    /\ ~ torn => Tracks /\ DecodedOK /\ dpc # "outside"

-----------------------------------------------------------------------------
(* Exponents in ExpBits bits.                                               *)

\* Dividing again by two leaves out one bit.
LEMMA Halves ==
    ASSUME NEW v \in Nat, NEW n \in Nat
    PROVE  v \div 2 ^ n = 2 * (v \div 2 ^ (n + 1)) + ((v \div 2 ^ n) % 2)
  <1>1. PICK p \in Nat \ {0} : p = 2 ^ n /\ 2 ^ (n + 1) = 2 * p
    BY PowNat, PowDouble, PowPos
  <1>2. v \div (2 * p) = (v \div p) \div 2 /\ v \div p \in Nat
    BY <1>1
  <1> QED
    BY <1>1, <1>2

Values == 0 .. 2 ^ ExpBits - 1

\* An exponent is written as ExpBits bits, whatever it is.
LEMMA BitsType ==
    ASSUME NEW v \in Int
    PROVE  BitsOf(v) \in [1 .. ExpBits -> {0, 1}]
  <1> SUFFICES ASSUME NEW i \in 1 .. ExpBits PROVE (v \div 2 ^ (i - 1)) % 2 \in {0, 1}
    BY DEF BitsOf
  <1>1. PICK p \in Nat \ {0} : p = 2 ^ (i - 1)
    BY PowPos
  <1>2. v \div p \in Int
    BY <1>1
  <1> QED
    BY <1>1, <1>2

\* No two numbers have the same bits.
LEMMA BitsInjective ==
    ASSUME NEW v \in Values, NEW w \in Values, BitsOf(v) = BitsOf(w)
    PROVE  v = w
  <1>0. ExpBits \in Nat /\ 2 ^ ExpBits \in Nat /\ v \in Nat /\ w \in Nat
        /\ v < 2 ^ ExpBits /\ w < 2 ^ ExpBits
    BY TileAssumption, PowNat DEF Values
  <1> DEFINE T == {i \in 0 .. ExpBits : v \div 2 ^ i = w \div 2 ^ i}
  <1>1. v \div 2 ^ ExpBits = 0 /\ w \div 2 ^ ExpBits = 0
    BY <1>0
  <1>2. ExpBits \in T
    BY <1>0, <1>1
  <1>3. PICK i \in T : \A j \in T : i <= j
    <2>1. T \subseteq Nat /\ T # {}
      BY <1>0, <1>2
    <2> HIDE DEF T
    <2> QED
      BY <2>1, Least
  <1>4. i = 0
    <2> SUFFICES ASSUME i # 0 PROVE FALSE
      OBVIOUS
    <2>1. PICK k \in Nat : i = k + 1 /\ k + 1 \in 1 .. ExpBits /\ k \in 0 .. ExpBits
      BY <1>0
    <2>2. BitsOf(v)[k + 1] = (v \div 2 ^ k) % 2 /\ BitsOf(w)[k + 1] = (w \div 2 ^ k) % 2
      <3>1. (k + 1) - 1 = k
        BY <2>1
      <3> QED
        BY <2>1, <3>1 DEF BitsOf
    <2>3. v \div 2 ^ (k + 1) = w \div 2 ^ (k + 1)
      BY <2>1
    <2>4. v \div 2 ^ k = w \div 2 ^ k
      <3>1. BitsOf(v)[k + 1] = BitsOf(w)[k + 1]
        OBVIOUS
      <3>2. (v \div 2 ^ k) % 2 = (w \div 2 ^ k) % 2
        BY <2>2, <3>1
      <3>3. v \div 2 ^ k = 2 * (v \div 2 ^ (k + 1)) + ((v \div 2 ^ k) % 2)
        BY <1>0, <2>1, Halves
      <3>4. w \div 2 ^ k = 2 * (w \div 2 ^ (k + 1)) + ((w \div 2 ^ k) % 2)
        BY <1>0, <2>1, Halves
      <3> QED
        BY <2>3, <3>2, <3>3, <3>4
    <2>5. k \in T
      BY <2>1, <2>4
    <2> QED
      BY <1>3, <2>1, <2>5
  <1>5. v \div 1 = w \div 1
    BY <1>4
  <1> QED
    BY <1>0, <1>5

\* Every sequence of ExpBits bits is a number.
LEMMA BitsSurjective ==
    ASSUME NEW s \in Seq({0, 1}), Len(s) = ExpBits
    PROVE  \E v \in Values : BitsOf(v) = s
  <1> DEFINE ones(v) == {i \in 1 .. ExpBits : BitsOf(v)[i] = 1}
             f == [v \in Values |-> ones(v)]
  <1>0. ExpBits \in Nat /\ 2 ^ ExpBits \in Nat /\ 2 ^ ExpBits >= 1
    BY TileAssumption, PowPos
  <1>1. \A v \in Values : BitsOf(v) \in [1 .. ExpBits -> {0, 1}]
    BY <1>0, BitsType DEF Values
  <1>2. f \in [Values -> SUBSET (1 .. ExpBits)]
    OBVIOUS
  <1>3. \A v, w \in Values : f[v] = f[w] => v = w
    <2> SUFFICES ASSUME NEW v \in Values, NEW w \in Values, f[v] = f[w] PROVE v = w
      OBVIOUS
    <2>1. \A i \in 1 .. ExpBits : BitsOf(v)[i] = 1 <=> BitsOf(w)[i] = 1
      OBVIOUS
    <2>2. \A i \in 1 .. ExpBits : BitsOf(v)[i] = BitsOf(w)[i]
      BY <1>1, <2>1
    <2>3. BitsOf(v) = BitsOf(w)
      BY <1>1, <2>2
    <2> QED
      BY <2>3, BitsInjective
  <1>4. IsFiniteSet(Values) /\ Cardinality(Values) = 2 ^ ExpBits
    BY <1>0, FS_Interval DEF Values
  <1>5. IsFiniteSet(SUBSET (1 .. ExpBits)) /\ Cardinality(SUBSET (1 .. ExpBits)) = 2 ^ ExpBits
    <2>1. IsFiniteSet(1 .. ExpBits) /\ Cardinality(1 .. ExpBits) = ExpBits
      BY <1>0, FS_Interval
    <2> QED
      BY <2>1, FS_SUBSET
  <1>6. f \in Surjection(Values, SUBSET (1 .. ExpBits))
    <2>1. f \in Injection(Values, SUBSET (1 .. ExpBits))
      BY <1>2, <1>3, Fun_IsInj
    <2> HIDE DEF f
    <2> QED
      BY <1>4, <1>5, <2>1, FS_Injection
  <1>7. PICK v \in Values : f[v] = {i \in 1 .. ExpBits : s[i] = 1}
    <2>1. {i \in 1 .. ExpBits : s[i] = 1} \in SUBSET (1 .. ExpBits)
      OBVIOUS
    <2> HIDE DEF f
    <2>2. \A t \in SUBSET (1 .. ExpBits) : \E v \in Values : f[v] = t
      BY <1>6, Fun_SurjectionProperties
    <2> QED
      BY <2>1, <2>2
  <1>8. BitsOf(v) = s
    <2>1. \A i \in 1 .. ExpBits : BitsOf(v)[i] = 1 <=> s[i] = 1
      BY <1>7
    <2>2. s \in [1 .. ExpBits -> {0, 1}]
      OBVIOUS
    <2>3. BitsOf(v) \in [1 .. ExpBits -> {0, 1}]
      BY <1>1
    <2> QED
      BY <2>1, <2>2, <2>3
  <1> QED
    BY <1>8

\* Reading ExpBits bits gives the number that has them.
LEMMA ValueRead ==
    ASSUME NEW c \in Seq({0, 1}), NEW p \in Nat, p + ExpBits <= Len(c)
    PROVE  /\ ValueAt(c, p) \in Values
           /\ \A v \in Values : (\A i \in 1 .. ExpBits : c[p + i] = BitsOf(v)[i]) =>
                 ValueAt(c, p) = v
  <1> DEFINE s == SubSeq(c, p + 1, p + ExpBits)
  <1>0. ExpBits \in Nat \ {0}
    BY TileAssumption
  <1>1. s \in Seq({0, 1}) /\ Len(s) = ExpBits /\ \A i \in 1 .. ExpBits : s[i] = c[p + i]
    <2>1. \A i \in p + 1 .. p + ExpBits : c[i] \in {0, 1}
      BY <1>0
    <2>2. p + 1 \in Int /\ p + ExpBits \in Int
      BY <1>0
    <2> QED
      BY <1>0, <2>1, <2>2, SubSeqProperties
  <1> HIDE DEF s
  <1>2. \E v \in Values : BitsOf(v) = s
    BY <1>1, BitsSurjective
  <1>3. ValueAt(c, p) = CHOOSE v \in Values : BitsOf(v) = s
    BY DEF ValueAt, Values, s
  <1>4. ValueAt(c, p) \in Values /\ BitsOf(ValueAt(c, p)) = s
    BY <1>2, <1>3
  <1>5. ASSUME NEW v \in Values, \A i \in 1 .. ExpBits : c[p + i] = BitsOf(v)[i]
        PROVE  ValueAt(c, p) = v
    <2>1. v \in Int
      BY <1>0, PowNat DEF Values
    <2>2. BitsOf(v) \in [1 .. ExpBits -> {0, 1}] /\ s \in [1 .. ExpBits -> {0, 1}]
      BY <1>1, <2>1, BitsType
    <2>3. BitsOf(v) = s
      BY <1>1, <1>5, <2>2
    <2> QED
      BY <1>4, <2>3, BitsInjective
  <1> QED
    BY <1>4, <1>5

\* What WriteEMax writes.
LEMMA EMaxFacts ==
    ASSUME NEW e \in Exponents
    PROVE  /\ WriteEMax(e) \in Seq({0, 1}) /\ e \in Int
           /\ Len(WriteEMax(e)) = IF Significant(e) THEN 1 + ExpBits ELSE 1
           /\ WriteEMax(e)[1] = IF Significant(e) THEN 1 ELSE 0
           /\ Significant(e) => \A i \in 1 .. ExpBits :
                 WriteEMax(e)[1 + i] = BitsOf(e + ExpBias)[i]
  <1>1. /\ ExpBits \in Nat /\ ExpBias \in Int /\ MinExp \in Int
        /\ e \in Int /\ e + ExpBias \in Int
    BY TileAssumption, PowNat DEF Exponents
  <1>2. BitsOf(e + ExpBias) \in Seq({0, 1}) /\ Len(BitsOf(e + ExpBias)) = ExpBits
    BY <1>1, BitsType
  <1>3. <<1>> \in Seq({0, 1}) /\ <<0>> \in Seq({0, 1}) /\ Len(<<1>>) = 1 /\ Len(<<0>>) = 1
        /\ <<1>>[1] = 1 /\ <<0>>[1] = 0
    OBVIOUS
  <1>4. CASE Significant(e)
    <2>1. WriteEMax(e) = <<1>> \o BitsOf(e + ExpBias)
      BY <1>4 DEF WriteEMax
    <2>2. /\ WriteEMax(e) \in Seq({0, 1}) /\ Len(WriteEMax(e)) = 1 + ExpBits
          /\ \A i \in 1 .. 1 + ExpBits :
                WriteEMax(e)[i] = IF i <= 1 THEN <<1>>[i] ELSE BitsOf(e + ExpBias)[i - 1]
      BY <1>2, <1>3, <2>1, ConcatProperties
    <2>3. ASSUME NEW i \in 1 .. ExpBits
          PROVE  WriteEMax(e)[1 + i] = BitsOf(e + ExpBias)[i]
      <3>1. 1 + i \in 1 .. 1 + ExpBits /\ ~ (1 + i <= 1) /\ (1 + i) - 1 = i
        BY <1>1
      <3> QED
        BY <2>2, <3>1
    <2> QED
      BY <1>1, <1>3, <1>4, <2>2, <2>3
  <1>5. CASE ~ Significant(e)
    BY <1>1, <1>3, <1>5 DEF WriteEMax
  <1> QED
    BY <1>4, <1>5

-----------------------------------------------------------------------------
(* EncInv is an invariant.                                                  *)

\* The parameters, and the state of WriteTile as one record.
LEMMA NowFacts ==
    ASSUME EncInv, NEW e, e = EncNow
    PROVE  /\ e.pc = epc /\ e.bp = ebp /\ e.b = eb /\ e.ns = ens /\ e.call = call
           /\ e.ck = Len(chunks) + 1 /\ e.call.fill = Len(bits)
           /\ Placed(e) /\ (~ torn => Whole(e))
           /\ e \in EncStates /\ e.call \in CallState
           /\ e.pc \in {"block", "encode", "turn", "done", "outside"}
           /\ e.bp \in Planes /\ e.b \in Blocks /\ e.ns \in [Blocks -> 0 .. NC]
           /\ e = [pc |-> e.pc, bp |-> e.bp, b |-> e.b, ns |-> e.ns,
                   call |-> e.call, ck |-> e.ck]
           /\ e.ck \in Nat /\ e.ck >= 1
           /\ S \in Nat /\ S >= 2 /\ NC \in Nat /\ NC >= 1
           /\ Context(PlaneOf(e), S)
           /\ e.call.fill \in Nat /\ bits \in Seq({0, 1}) /\ Len(bits) \in Nat
           /\ emax[e.b] \in Exponents
<1>1. /\ e.pc = epc /\ e.bp = ebp /\ e.b = eb /\ e.ns = ens /\ e.call = call
      /\ e.ck = Len(chunks) + 1 /\ e.call.fill = Len(bits)
  BY DEF EncNow, EncInv
<1>2. Placed(e) /\ (~ torn => Whole(e)) /\ e \in EncStates
  BY DEF EncInv, Placed
<1>3. /\ e.pc \in {"block", "encode", "turn", "done", "outside"}
      /\ e.bp \in Planes /\ e.b \in Blocks /\ e.ns \in [Blocks -> 0 .. NC]
      /\ e.call \in CallState /\ e.ck \in Nat /\ e.ck >= 1
      /\ e = [pc |-> e.pc, bp |-> e.bp, b |-> e.b, ns |-> e.ns,
              call |-> e.call, ck |-> e.ck]
  BY <1>2 DEF EncStates
<1>4. S \in Nat /\ S >= 2 /\ NC \in Nat /\ NC >= 1
  BY TileAssumption, NCAssumption DEF EncInv, DataOK
<1>5. PlaneOf(e) \subseteq Coefs /\ emax[e.b] \in Exponents
  BY <1>3 DEF EncInv, DataOK, PlaneOf
<1>6. Context(PlaneOf(e), S)
  BY <1>4, <1>5 DEF Context
<1>7. e.call.fill \in Nat
  BY <1>3 DEF CallState
<1>8. bits \in Seq({0, 1}) /\ Len(bits) \in Nat
  BY DEF EncInv, ChunksOK
<1> QED
  BY <1>1, <1>2, <1>3, <1>4, <1>5, <1>6, <1>7, <1>8

\* What is true of a state depends on the tile only.
LEMMA PlacedKept ==
    ASSUME NEW e, UNCHANGED data
    PROVE  /\ Placed(e) => Placed(e)'
           /\ Whole(e) => Whole(e)'
  BY DEF data, Placed, Whole, WantedAt, PlaneOf

\* A step of WriteTile keeps EncInv if the state it makes is as it should be.
LEMMA EncStep ==
    ASSUME EncInv, UNCHANGED data, NEW f, f = EncNow', ChunksOK',
           torn' \in BOOLEAN, emaxOut' \in BOOLEAN, f.call.fill = Len(bits'),
           Placed(f), ~ torn' => Whole(f)
    PROVE  EncInv'
<1>1. DataOK'
  BY DEF EncInv, DataOK, data
<1>2. call' = f.call
  BY DEF EncNow
<1>3. Placed(f)' /\ (~ torn' => Whole(f)')
  BY PlacedKept
<1>4. Placed(EncNow)' /\ (~ torn' => Whole(EncNow)')
  BY <1>3 DEF Placed, Whole, WantedAt, PlaneOf
<1> QED
  BY <1>1, <1>2, <1>4 DEF EncInv

LEMMA EntryFacts ==
    ASSUME NEW n \in 0 .. NC, NEW fill \in Nat
    PROVE  /\ Entry(n, fill) \in CallState /\ Entry(n, fill).n = n
           /\ Entry(n, fill).fill = fill /\ Entry(n, fill).pc = "call"
           /\ Entry(n, fill).m = 0 /\ Entry(n, fill).p = 0 /\ Cursor(Entry(n, fill)) = 0
           /\ \A pl, cap : fill <= cap => GoodCall(pl, cap, Entry(n, fill))
  BY NCAssumption, PCsFacts DEF Entry, CallState, Cursor, GoodCall

\* The head of the block loop of WriteTile.
LEMMA BlockFacts ==
    ASSUME EncInv, WriteTile_Block, NEW e, e = EncNow, NEW f, f = EncNow'
    PROVE  /\ e.pc = "block" /\ e.call.fill < S
           /\ EMaxOf(e) \in Seq({0, 1}) /\ Len(EMaxOf(e)) \in Nat
           /\ bits' = bits \o EMaxOf(e)
           /\ bits' \in Seq({0, 1}) /\ Len(bits') = e.call.fill + Len(EMaxOf(e))
           /\ (e.bp = Prec - 1 => Len(EMaxOf(e)) >= 1)
           /\ (e.bp # Prec - 1 => Len(EMaxOf(e)) = 0)
           /\ f.pc = IF ~ WantedAt(e) THEN "turn"
                     ELSE IF Len(bits') > S THEN "outside" ELSE "encode"
           /\ f.bp = e.bp /\ f.b = e.b /\ f.ns = e.ns /\ f.ck = e.ck
           /\ f.call = Entry(e.ns[e.b], Len(bits'))
           /\ f = [pc |-> f.pc, bp |-> f.bp, b |-> f.b, ns |-> f.ns,
                   call |-> f.call, ck |-> f.ck]
           /\ (~ torn' => /\ ~ torn /\ Len(bits') <= S
                          /\ (Len(bits') = S /\ f.pc = "turn" =>
                                 e.bp = Prec - 1 /\ LastBlock(e.b)))
           /\ chunks' = chunks /\ UNCHANGED data
           /\ torn' \in BOOLEAN /\ emaxOut' \in BOOLEAN
<1>1. /\ e.pc = epc /\ e.bp = ebp /\ e.b = eb /\ e.ns = ens /\ e.call = call
      /\ e.ck = Len(chunks) + 1 /\ e.call.fill = Len(bits) /\ Placed(e)
      /\ S \in Nat /\ bits \in Seq({0, 1}) /\ Len(bits) \in Nat
      /\ emax[e.b] \in Exponents
  BY NowFacts
<1>2. /\ f.pc = epc' /\ f.bp = ebp' /\ f.b = eb' /\ f.ns = ens' /\ f.call = call'
      /\ f.ck = Len(chunks') + 1
      /\ f = [pc |-> f.pc, bp |-> f.bp, b |-> f.b, ns |-> f.ns,
              call |-> f.call, ck |-> f.ck]
  BY DEF EncNow
<1>3. e.pc = "block" /\ e.call.fill < S
  BY <1>1 DEF WriteTile_Block, Placed
<1>4. PICK w : w = EMaxOf(e)
  OBVIOUS
<1>5. /\ w \in Seq({0, 1}) /\ Len(w) \in Nat
      /\ (e.bp = Prec - 1 => w = WriteEMax(emax[e.b]) /\ Len(w) >= 1)
      /\ (e.bp # Prec - 1 => w = <<>> /\ Len(w) = 0)
  <2>1. CASE e.bp = Prec - 1
    <3>1. w \in Seq({0, 1}) /\ Len(w) >= 1 /\ w = WriteEMax(emax[e.b])
      BY <1>1, <1>4, <2>1, EMaxFacts, TileAssumption DEF EMaxOf
    <3> QED
      BY <3>1, <2>1
  <2>2. CASE e.bp # Prec - 1
    BY <1>4, <2>2 DEF EMaxOf
  <2> QED
    BY <2>1, <2>2
<1>6. bits' = bits \o w
  <2>1. CASE e.bp = Prec - 1
    BY <1>1, <1>5, <2>1 DEF WriteTile_Block
  <2>2. CASE e.bp # Prec - 1
    <3>1. bits' = bits /\ w = <<>>
      BY <1>1, <1>5, <2>2 DEF WriteTile_Block
    <3> QED
      BY <1>1, <3>1, ConcatEmptySeq
  <2> QED
    BY <2>1, <2>2
<1>7. bits' \in Seq({0, 1}) /\ Len(bits') = e.call.fill + Len(w)
  BY <1>1, <1>5, <1>6, ConcatProperties
<1>8. /\ call' = Entry(e.ns[e.b], Len(bits'))
      /\ epc' = IF ~ WantedAt(e) THEN "turn"
                ELSE IF Len(bits') > S THEN "outside" ELSE "encode"
      /\ ebp' = ebp /\ eb' = eb /\ ens' = ens /\ chunks' = chunks /\ UNCHANGED data
  BY <1>1 DEF WriteTile_Block, WantedAt
<1>9. ASSUME ~ torn'
      PROVE  /\ ~ torn /\ (e.bp = Prec - 1 =>
                  /\ ~ (Len(bits') > S)
                  /\ ~ (Len(bits') = S /\ ~ WantedAt(e) /\ ~ LastBlock(e.b)))
  <2>1. PICK out : out = IF ebp = Prec - 1 THEN bits \o WriteEMax(emax[eb]) ELSE bits
    OBVIOUS
  <2>2. /\ bits' = out
        /\ torn' = (torn \/ (ebp = Prec - 1 /\
                (Len(out) > S \/ (Len(out) = S /\ ~ Wanted(ebp, emax[eb]) /\ ~ LastBlock(eb)))))
    BY <2>1, Zenon DEF WriteTile_Block
  <2>3. ~ torn /\ ~ (ebp = Prec - 1 /\
           (Len(out) > S \/ (Len(out) = S /\ ~ Wanted(ebp, emax[eb]) /\ ~ LastBlock(eb))))
    BY <1>9, <2>2, Zenon
  <2> QED
    BY <1>1, <2>2, <2>3 DEF WantedAt
<1>10. torn' \in BOOLEAN /\ emaxOut' \in BOOLEAN
  BY DEF WriteTile_Block, EncInv
<1>11. ASSUME ~ torn'
       PROVE  /\ ~ torn /\ Len(bits') <= S
              /\ (Len(bits') = S /\ f.pc = "turn" => e.bp = Prec - 1 /\ LastBlock(e.b))
  <2>1. CASE e.bp = Prec - 1
    <3>1. ~ torn /\ ~ (Len(bits') > S) /\ ~ (Len(bits') = S /\ ~ WantedAt(e) /\ ~ LastBlock(e.b))
      BY <1>9, <1>11, <2>1
    <3> QED
      BY <1>1, <1>2, <1>5, <1>7, <1>8, <2>1, <3>1
  <2>2. CASE e.bp # Prec - 1
    <3>1. Len(bits') < S /\ ~ torn
      BY <1>1, <1>3, <1>5, <1>7, <1>9, <1>11, <2>2
    <3> QED
      BY <1>1, <1>5, <1>7, <3>1
  <2> QED
    BY <2>1, <2>2
<1> QED
  BY <1>1, <1>2, <1>3, <1>4, <1>5, <1>6, <1>7, <1>8, <1>9, <1>10, <1>11

LEMMA BlockEnc == ASSUME EncInv, WriteTile_Block PROVE EncInv'
<1>1. PICK e, f : e = EncNow /\ f = EncNow'
  OBVIOUS
<1>2. /\ e.pc = epc /\ e.bp = ebp /\ e.b = eb /\ Placed(e) /\ e \in EncStates
      /\ e.bp \in Planes /\ e.b \in Blocks /\ e.ns \in [Blocks -> 0 .. NC]
      /\ e.ck \in Nat /\ e.ck >= 1 /\ S \in Nat /\ NC \in Nat /\ NC >= 1
  BY <1>1, NowFacts
<1>3. /\ e.pc = "block" /\ e.call.fill < S
      /\ EMaxOf(e) \in Seq({0, 1}) /\ Len(EMaxOf(e)) \in Nat
      /\ bits' \in Seq({0, 1}) /\ Len(bits') = e.call.fill + Len(EMaxOf(e))
      /\ (e.bp = Prec - 1 => Len(EMaxOf(e)) >= 1)
      /\ f.pc = (IF ~ WantedAt(e) THEN "turn"
                 ELSE IF Len(bits') > S THEN "outside" ELSE "encode")
      /\ f.bp = e.bp /\ f.b = e.b /\ f.ns = e.ns /\ f.ck = e.ck
      /\ f.call = Entry(e.ns[e.b], Len(bits'))
      /\ f = [pc |-> f.pc, bp |-> f.bp, b |-> f.b, ns |-> f.ns,
              call |-> f.call, ck |-> f.ck]
      /\ (~ torn' => /\ ~ torn /\ Len(bits') <= S
                     /\ (Len(bits') = S /\ f.pc = "turn" =>
                                 e.bp = Prec - 1 /\ LastBlock(e.b)))
      /\ chunks' = chunks /\ UNCHANGED data
      /\ torn' \in BOOLEAN /\ emaxOut' \in BOOLEAN
  BY <1>1, BlockFacts
<1>4. e.ns[e.b] \in 0 .. NC /\ Len(bits') \in Nat
  BY <1>2, <1>3
<1>5. /\ f.call \in CallState /\ f.call.n = e.ns[e.b]
      /\ f.call.fill = Len(bits') /\ f.call.pc = "call" /\ Cursor(f.call) = 0
      /\ (Len(bits') <= S => GoodCall(PlaneOf(f), S, f.call))
  BY <1>3, <1>4, EntryFacts
<1>6. f \in EncStates
  BY <1>2, <1>3, <1>5 DEF EncStates
<1>7. Placed(f)
  <2>1. f.call.n <= NC /\ Cursor(f.call) <= f.call.n
    BY <1>2, <1>4, <1>5
  <2>2. WantedAt(f) <=> WantedAt(e)
    BY <1>3 DEF WantedAt
  <2>3. f.pc = "encode" => Len(bits') <= S
    BY <1>2, <1>3, <1>4
  <2> QED
    BY <1>3, <1>5, <1>6, <2>1, <2>2, <2>3 DEF Placed
<1>8. ~ torn' => Whole(f)
  BY <1>2, <1>3, <1>4, <1>5 DEF Whole
<1>9. ChunksOK'
  <2>1. f.pc = epc' /\ ChunksOK /\ S' = S
    BY <1>1, <1>3 DEF EncNow, EncInv, data
  <2>2. epc' # "done" /\ epc = "block"
    BY <1>2, <1>3, <2>1
  <2>3. ~ (bits' = <<>> /\ chunks' = <<>>)
    <3> SUFFICES ASSUME bits' = <<>>, chunks = <<>> PROVE FALSE
      BY <1>3
    <3>1. e.call.fill = Len(bits) /\ Len(bits) \in Nat /\ bits \in Seq({0, 1})
      BY <1>1, NowFacts
    <3>2. Len(bits') = 0
      OBVIOUS
    <3>3. Len(bits) = 0 /\ e.bp # Prec - 1
      BY <1>3, <3>1, <3>2
    <3>4. bits = <<>>
      BY <3>1, <3>3
    <3> QED
      BY <1>2, <2>1, <3>3, <3>4 DEF ChunksOK
  <2> QED
    BY <1>3, <2>1, <2>2, <2>3 DEF ChunksOK
<1> QED
  BY <1>1, <1>3, <1>5, <1>7, <1>8, <1>9, EncStep

\* A piece of Encode, and what it writes.
LEMMA PieceGood ==
    ASSUME NEW pl, Context(pl, S), NEW c, GoodCall(pl, S, c),
           c.pc \in {"call", "group", "inner", "after"}
    PROVE  /\ GoodCall(pl, S, Piece(pl, c)) /\ Piece(pl, c).pc # "done"
           /\ PieceBits(pl, c) \in Seq({0, 1})
           /\ Piece(pl, c).fill = c.fill + Len(PieceBits(pl, c))
<1>0. /\ c \in CallState /\ c.fill \in Nat /\ GroupBit(pl, c) \in {0, 1}
      /\ CoefBit(pl, c) \in {0, 1} /\ S \in Nat /\ c.n \in Nat /\ c.m \in Nat
      /\ c.m <= c.n /\ c.fill <= S
  BY ContextFacts DEF GoodCall, CallState, GroupBit, CoefBit, Cursor
<1>1. <<>> \in Seq({0, 1}) /\ Len(<<>>) = 0
  OBVIOUS
<1>2. ASSUME NEW v \in {0, 1} PROVE <<v>> \in Seq({0, 1}) /\ Len(<<v>>) = 1
  OBVIOUS
<1>3. CASE c.pc = "call"
  <2>1. Piece(pl, c) = EncCall(S, c)
        /\ PieceBits(pl, c) = PlaneBits(pl, c.m, Refinement(S, c))
    BY <1>3 DEF Piece, PieceBits
  <2>2. Refinement(S, c) \in Nat
    BY <1>0 DEF Refinement, Lesser
  <2>3. PlaneBits(pl, c.m, Refinement(S, c)) \in Seq({0, 1})
        /\ Len(PlaneBits(pl, c.m, Refinement(S, c))) = Refinement(S, c)
    BY <2>2 DEF PlaneBits
  <2>4. /\ EncCall(S, c).fill = c.fill + Refinement(S, c)
        /\ EncCall(S, c).pc \in {"inner", "group"}
    BY <1>0 DEF EncCall, CallState
  <2> QED
    BY <1>3, <2>1, <2>3, <2>4, CallGood
<1>4. CASE c.pc = "group"
  <2>1. Piece(pl, c) = EncGroup(pl, S, c)
    BY <1>4 DEF Piece
  <2>2. PieceBits(pl, c) = IF AtGroupBit(S, c) THEN <<GroupBit(pl, c)>> ELSE <<>>
    BY <1>4 DEF PieceBits
  <2>3. /\ EncGroup(pl, S, c).fill = IF AtGroupBit(S, c) THEN c.fill + 1 ELSE c.fill
        /\ EncGroup(pl, S, c).pc \in {"inner", "return"}
    BY <1>0 DEF EncGroup, CallState
  <2>4. PICK w, k : w = PieceBits(pl, c) /\ k = Len(w)
    OBVIOUS
  <2>5. w \in Seq({0, 1}) /\ k = IF AtGroupBit(S, c) THEN 1 ELSE 0
    BY <1>0, <1>1, <1>2, <2>2, <2>4
  <2>6. Piece(pl, c).fill = c.fill + k
    BY <1>0, <2>1, <2>3, <2>5
  <2>7. GoodCall(pl, S, Piece(pl, c)) /\ Piece(pl, c).pc # "done"
    BY <1>4, <2>1, <2>3, GroupGood
  <2> QED
    BY <2>4, <2>5, <2>6, <2>7
<1>5. CASE c.pc = "inner"
  <2>1. Piece(pl, c) = EncInner(pl, S, c)
    BY <1>5 DEF Piece
  <2>2. PieceBits(pl, c) = IF AtCoefBit(S, c) THEN <<CoefBit(pl, c)>> ELSE <<>>
    BY <1>5 DEF PieceBits
  <2>3. /\ EncInner(pl, S, c).fill = IF AtCoefBit(S, c) THEN c.fill + 1 ELSE c.fill
        /\ EncInner(pl, S, c).pc \in {"inner", "after"}
    BY <1>0, <1>5 DEF EncInner, CallState
  <2>4. PICK w, k : w = PieceBits(pl, c) /\ k = Len(w)
    OBVIOUS
  <2>5. w \in Seq({0, 1}) /\ k = IF AtCoefBit(S, c) THEN 1 ELSE 0
    BY <1>0, <1>1, <1>2, <2>2, <2>4
  <2>6. Piece(pl, c).fill = c.fill + k
    BY <1>0, <2>1, <2>3, <2>5
  <2>7. GoodCall(pl, S, Piece(pl, c)) /\ Piece(pl, c).pc # "done"
    BY <1>5, <2>1, <2>3, InnerGood
  <2> QED
    BY <2>4, <2>5, <2>6, <2>7
<1>6. CASE c.pc = "after"
  <2>1. Piece(pl, c) = EncAfter(S, c) /\ PieceBits(pl, c) = <<>>
    BY <1>6 DEF Piece, PieceBits
  <2>2. EncAfter(S, c).fill = c.fill /\ EncAfter(S, c).pc \in {"group", "return"}
    BY <1>0 DEF EncAfter, CallState
  <2> QED
    BY <1>0, <1>1, <1>6, <2>1, <2>2, AfterGood
<1> QED
  BY <1>3, <1>4, <1>5, <1>6

\* A piece of Encode in WriteTile.
LEMMA PieceFacts ==
    ASSUME EncInv, EncodePiece, NEW e, e = EncNow, NEW f, f = EncNow'
    PROVE  /\ e.pc = "encode" /\ WantedAt(e) /\ f = AfterPiece(e)
           /\ f.call = Piece(PlaneOf(e), e.call) /\ f.call.pc # "done"
           /\ f.pc = IF f.call.pc = "return" THEN "turn" ELSE "encode"
           /\ f.bp = e.bp /\ f.b = e.b /\ f.ns = e.ns /\ f.ck = e.ck
           /\ GoodCall(PlaneOf(e), S, f.call)
           /\ PieceBits(PlaneOf(e), e.call) \in Seq({0, 1})
           /\ bits' = bits \o PieceBits(PlaneOf(e), e.call)
           /\ bits' \in Seq({0, 1}) /\ f.call.fill = Len(bits')
           /\ chunks' = chunks /\ torn' = torn /\ UNCHANGED data
           /\ emaxOut' = emaxOut
<1>1. /\ e.pc = epc /\ e.bp = ebp /\ e.b = eb /\ e.ns = ens /\ e.call = call
      /\ e.ck = Len(chunks) + 1 /\ e.call.fill = Len(bits) /\ Placed(e)
      /\ S \in Nat /\ bits \in Seq({0, 1}) /\ Len(bits) \in Nat
      /\ Context(PlaneOf(e), S)
      /\ e = [pc |-> e.pc, bp |-> e.bp, b |-> e.b, ns |-> e.ns,
              call |-> e.call, ck |-> e.ck]
  BY NowFacts
<1>2. /\ f.pc = epc' /\ f.bp = ebp' /\ f.b = eb' /\ f.ns = ens' /\ f.call = call'
      /\ f.ck = Len(chunks') + 1
      /\ f = [pc |-> f.pc, bp |-> f.bp, b |-> f.b, ns |-> f.ns,
              call |-> f.call, ck |-> f.ck]
  BY DEF EncNow
<1>3. /\ epc = "encode" /\ epc' = IF call'.pc = "return" THEN "turn" ELSE "encode"
      /\ ebp' = ebp /\ eb' = eb /\ ens' = ens /\ chunks' = chunks /\ torn' = torn
      /\ emaxOut' = emaxOut /\ UNCHANGED data
      /\ e.call.pc \in {"call", "group", "inner", "after"}
  BY <1>1 DEF EncodePiece
<1>4. e.pc = "encode" /\ WantedAt(e) /\ GoodCall(PlaneOf(e), S, e.call)
  BY <1>1, <1>3 DEF Placed
<1>5. planes[eb][ebp] = PlaneOf(e)
  BY <1>1 DEF PlaneOf
<1>6. PICK pl, w : pl = PlaneOf(e) /\ w = PieceBits(pl, e.call)
  OBVIOUS
<1>7. /\ GoodCall(pl, S, Piece(pl, e.call)) /\ Piece(pl, e.call).pc # "done"
      /\ w \in Seq({0, 1}) /\ Piece(pl, e.call).fill = e.call.fill + Len(w)
  BY <1>1, <1>3, <1>4, <1>6, PieceGood
<1>8. call' = Piece(pl, e.call) /\ bits' = bits \o w
  <2>1. GroupBit(pl, e.call) \in {0, 1} /\ CoefBit(pl, e.call) \in {0, 1}
    BY DEF GroupBit, CoefBit
  <2>2. \A v \in {0, 1} : Append(bits, v) = bits \o <<v>>
    BY <1>1, AppendIsConcat
  <2>3. bits \o <<>> = bits
    BY <1>1, ConcatEmptySeq
  <2>4. CASE e.call.pc = "call"
    BY <1>1, <1>5, <1>6, <2>4 DEF EncodePiece, Piece, PieceBits
  <2>5. CASE e.call.pc = "group"
    <3>1. call' = EncGroup(pl, S, call)
          /\ bits' = IF AtGroupBit(S, call) THEN Append(bits, GroupBit(pl, call)) ELSE bits
      BY <1>1, <1>5, <1>6, <2>5 DEF EncodePiece
    <3>2. w = IF AtGroupBit(S, call) THEN <<GroupBit(pl, call)>> ELSE <<>>
      BY <1>1, <1>6, <2>5 DEF PieceBits
    <3>3. Piece(pl, e.call) = EncGroup(pl, S, call)
      BY <1>1, <2>5 DEF Piece
    <3> QED
      BY <1>1, <2>1, <2>2, <2>3, <3>1, <3>2, <3>3
  <2>6. CASE e.call.pc = "inner"
    <3>1. call' = EncInner(pl, S, call)
          /\ bits' = IF AtCoefBit(S, call) THEN Append(bits, CoefBit(pl, call)) ELSE bits
      BY <1>1, <1>5, <1>6, <2>6 DEF EncodePiece
    <3>2. w = IF AtCoefBit(S, call) THEN <<CoefBit(pl, call)>> ELSE <<>>
      BY <1>1, <1>6, <2>6 DEF PieceBits
    <3>3. Piece(pl, e.call) = EncInner(pl, S, call)
      BY <1>1, <2>6 DEF Piece
    <3> QED
      BY <1>1, <2>1, <2>2, <2>3, <3>1, <3>2, <3>3
  <2>7. CASE e.call.pc = "after"
    <3>1. call' = EncAfter(S, call) /\ bits' = bits
      BY <1>1, <1>5, <1>6, <2>7 DEF EncodePiece
    <3>2. w = <<>> /\ Piece(pl, e.call) = EncAfter(S, call)
      BY <1>1, <1>6, <2>7 DEF PieceBits, Piece
    <3> QED
      BY <2>3, <3>1, <3>2
  <2> QED
    BY <1>3, <2>4, <2>5, <2>6, <2>7
<1>9. bits' \in Seq({0, 1}) /\ Len(bits') = Len(bits) + Len(w)
  BY <1>1, <1>7, <1>8, ConcatProperties
<1>10. f = AfterPiece(e)
  <2>1. AfterPiece(e) = [pc |-> IF f.call.pc = "return" THEN "turn" ELSE "encode",
                         bp |-> e.bp, b |-> e.b, ns |-> e.ns, call |-> f.call,
                         ck |-> e.ck]
    <3>1. Piece(PlaneOf(e), e.call) = f.call
      BY <1>2, <1>6, <1>8
    <3>2. AfterPiece(e) = [e EXCEPT !.call = f.call,
                              !.pc = IF f.call.pc = "return" THEN "turn" ELSE "encode"]
      BY <3>1 DEF AfterPiece
    <3> QED
      BY <1>1, <3>2
  <2>2. f.pc = (IF f.call.pc = "return" THEN "turn" ELSE "encode")
        /\ f.bp = e.bp /\ f.b = e.b /\ f.ns = e.ns /\ f.ck = e.ck
    BY <1>1, <1>2, <1>3
  <2> QED
    BY <1>2, <2>1, <2>2
<1> QED
  BY <1>1, <1>2, <1>3, <1>4, <1>6, <1>7, <1>8, <1>9, <1>10

LEMMA PieceEnc == ASSUME EncInv, EncodePiece PROVE EncInv'
<1>1. PICK e, f : e = EncNow /\ f = EncNow'
  OBVIOUS
<1>2. /\ e.pc = epc /\ e.bp = ebp /\ e.b = eb /\ e \in EncStates /\ Placed(e)
      /\ e.bp \in Planes /\ e.b \in Blocks /\ e.ns \in [Blocks -> 0 .. NC]
      /\ e.ck \in Nat /\ e.ck >= 1 /\ bits \in Seq({0, 1})
  BY <1>1, NowFacts
<1>3. /\ e.pc = "encode" /\ WantedAt(e) /\ f.call.pc # "done"
      /\ f.pc = (IF f.call.pc = "return" THEN "turn" ELSE "encode")
      /\ f.bp = e.bp /\ f.b = e.b /\ f.ns = e.ns /\ f.ck = e.ck
      /\ GoodCall(PlaneOf(e), S, f.call)
      /\ PieceBits(PlaneOf(e), e.call) \in Seq({0, 1})
      /\ bits' = bits \o PieceBits(PlaneOf(e), e.call)
      /\ bits' \in Seq({0, 1}) /\ f.call.fill = Len(bits')
      /\ chunks' = chunks /\ torn' = torn /\ UNCHANGED data
      /\ emaxOut' = emaxOut
  BY <1>1, PieceFacts
<1>4. PlaneOf(f) = PlaneOf(e) /\ WantedAt(f)
  BY <1>3 DEF PlaneOf, WantedAt
<1>5. f \in EncStates
  <2>1. f.call \in CallState
    BY <1>3 DEF GoodCall
  <2>2. f = [pc |-> f.pc, bp |-> f.bp, b |-> f.b, ns |-> f.ns,
             call |-> f.call, ck |-> f.ck]
    BY <1>1 DEF EncNow
  <2> QED
    BY <1>2, <1>3, <2>1, <2>2 DEF EncStates
<1>6. f.call.n <= NC /\ Cursor(f.call) <= f.call.n /\ f.call.fill <= S
  BY <1>3 DEF GoodCall
<1>7. Placed(f)
  BY <1>3, <1>4, <1>5, <1>6 DEF Placed
<1>8. Whole(f)
  BY <1>3, <1>4, <1>6 DEF Whole
<1>9. ChunksOK'
  <2>1. f.pc = epc' /\ ChunksOK /\ S' = S
    BY <1>1, <1>3 DEF EncNow, EncInv, data
  <2>2. epc' # "done" /\ epc = "encode"
    BY <1>2, <1>3, <2>1
  <2>3. ~ (bits' = <<>> /\ chunks' = <<>>)
    <3> SUFFICES ASSUME bits' = <<>>, chunks = <<>> PROVE FALSE
      BY <1>3
    <3>0. PICK w \in Seq({0, 1}) : bits \o w = <<>>
      BY <1>3
    <3>1. bits = <<>>
      BY <1>2, <3>0, ConcatEqualIffEmpty
    <3> QED
      BY <2>1, <2>2, <3>1 DEF ChunksOK
  <2> QED
    BY <1>3, <2>1, <2>2, <2>3 DEF ChunksOK
<1>10. torn' \in BOOLEAN /\ emaxOut' \in BOOLEAN
  BY <1>3 DEF EncInv
<1> QED
  BY <1>1, <1>3, <1>7, <1>8, <1>9, <1>10, EncStep

\* The end of a turn of WriteTile.
LEMMA TurnFacts ==
    ASSUME EncInv, WriteTile_Turn, NEW e, e = EncNow, NEW f, f = EncNow'
    PROVE  /\ e.pc = "turn" /\ f = AfterTurn(e)
           /\ f.pc = IF ~ FullAt(e) THEN "encode" ELSE IF LastTurn(e) THEN "done" ELSE "block"
           /\ f.bp = IF GoesOn(e) THEN NextPlane(e.bp, e.b) ELSE e.bp
           /\ f.b = IF GoesOn(e) THEN NextBlock(e.b) ELSE e.b
           /\ f.ns = [e.ns EXCEPT ![e.b] = e.call.n]
           /\ f.call = [e.call EXCEPT !.pc = "call", !.m = Cursor(e.call), !.p = 0,
                                      !.fill = IF WritesAt(e) THEN 0 ELSE e.call.fill]
           /\ f.ck = IF WritesAt(e) THEN e.ck + 1 ELSE e.ck
           /\ bits' = IF WritesAt(e) THEN <<>> ELSE bits
           /\ chunks' = IF WritesAt(e)
                        THEN Append(chunks, SubSeq(bits, 1, Lesser(S, Len(bits))))
                        ELSE chunks
           /\ torn' = torn /\ emaxOut' = emaxOut /\ UNCHANGED data
<1>1. /\ e.pc = epc /\ e.bp = ebp /\ e.b = eb /\ e.ns = ens /\ e.call = call
      /\ e.ck = Len(chunks) + 1 /\ e.call.fill = Len(bits)
      /\ e.call \in CallState /\ bits \in Seq({0, 1}) /\ chunks \in Seq(Seq({0, 1}))
  BY NowFacts DEF EncInv, ChunksOK
<1>2. /\ f.pc = epc' /\ f.bp = ebp' /\ f.b = eb' /\ f.ns = ens' /\ f.call = call'
      /\ f.ck = Len(chunks') + 1
      /\ f = [pc |-> f.pc, bp |-> f.bp, b |-> f.b, ns |-> f.ns,
              call |-> f.call, ck |-> f.ck]
  BY DEF EncNow
<1>3. PICK c : c = SubSeq(bits, 1, Lesser(S, Len(bits)))
  OBVIOUS
<1>4. /\ ChunkDue(ebp = 0 /\ LastBlock(eb)) <=> WritesAt(e)
      /\ (Wanted(ebp, emax[eb]) => Full(call)) <=> FullAt(e)
      /\ (ebp = 0 /\ LastBlock(eb)) <=> LastTurn(e)
  BY <1>1 DEF ChunkDue, WritesAt, FullAt, LastTurn, WantedAt
<1>5. /\ epc = "turn" /\ torn' = torn /\ emaxOut' = emaxOut /\ UNCHANGED data
      /\ chunks' = IF WritesAt(e) THEN Append(chunks, c) ELSE chunks
      /\ bits' = IF WritesAt(e) THEN <<>> ELSE bits
      /\ ens' = [ens EXCEPT ![eb] = call.n]
  BY <1>3, <1>4 DEF WriteTile_Turn
<1>6. call' = [call EXCEPT !.pc = "call", !.m = Cursor(call), !.p = 0,
                           !.fill = Len(bits')]
  BY <1>4, <1>5 DEF WriteTile_Turn
<1>7. /\ epc' = IF ~ FullAt(e) THEN "encode" ELSE IF LastTurn(e) THEN "done" ELSE "block"
      /\ ebp' = IF GoesOn(e) THEN NextPlane(ebp, eb) ELSE ebp
      /\ eb' = IF GoesOn(e) THEN NextBlock(eb) ELSE eb
  BY <1>4 DEF WriteTile_Turn, GoesOn
<1>8. Len(bits') = IF WritesAt(e) THEN 0 ELSE e.call.fill
  BY <1>1, <1>5
<1>9. Len(chunks') + 1 = IF WritesAt(e) THEN e.ck + 1 ELSE e.ck
  BY <1>1, <1>5
<1>10. f.call = [e.call EXCEPT !.pc = "call", !.m = Cursor(e.call), !.p = 0,
                               !.fill = IF WritesAt(e) THEN 0 ELSE e.call.fill]
  BY <1>1, <1>2, <1>6, <1>8
<1>11. /\ f.pc = IF ~ FullAt(e) THEN "encode" ELSE IF LastTurn(e) THEN "done" ELSE "block"
       /\ f.bp = IF GoesOn(e) THEN NextPlane(e.bp, e.b) ELSE e.bp
       /\ f.b = IF GoesOn(e) THEN NextBlock(e.b) ELSE e.b
       /\ f.ns = [e.ns EXCEPT ![e.b] = e.call.n]
       /\ f.ck = IF WritesAt(e) THEN e.ck + 1 ELSE e.ck
  BY <1>1, <1>2, <1>5, <1>7, <1>9
<1>12. f = AfterTurn(e)
  BY <1>2, <1>10, <1>11 DEF AfterTurn
<1> QED
  BY <1>1, <1>3, <1>5, <1>10, <1>11, <1>12

\* What a turn leaves behind is in order.
LEMMA TurnGood ==
    ASSUME EncInv, NEW e, e = EncNow, e.pc = "turn", NEW f, f = AfterTurn(e)
    PROVE  /\ Placed(f) /\ Whole(f) /\ f.call.pc = "call"
           /\ f.call.fill = IF WritesAt(e) THEN 0 ELSE e.call.fill
           /\ WritesAt(e) /\ f.pc # "done" => e.call.fill >= S
           /\ f.pc = "done" /\ ~ WritesAt(e) => e.call.fill = 0
<1>1. /\ Placed(e) /\ e.call \in CallState /\ e.call.fill \in Nat
      /\ e.bp \in Planes /\ e.b \in Blocks /\ e.ns \in [Blocks -> 0 .. NC]
      /\ e.ck \in Nat /\ e.ck >= 1 /\ S \in Nat /\ S >= 2 /\ NC \in Nat
      /\ Context(PlaneOf(e), S)
  BY NowFacts
<1>2. PICK c : c = [e.call EXCEPT !.pc = "call", !.m = Cursor(e.call), !.p = 0,
                                  !.fill = IF WritesAt(e) THEN 0 ELSE e.call.fill]
  OBVIOUS
<1>3. /\ f.pc = IF ~ FullAt(e) THEN "encode" ELSE IF LastTurn(e) THEN "done" ELSE "block"
      /\ f.bp = IF GoesOn(e) THEN NextPlane(e.bp, e.b) ELSE e.bp
      /\ f.b = IF GoesOn(e) THEN NextBlock(e.b) ELSE e.b
      /\ f.ns = [e.ns EXCEPT ![e.b] = e.call.n]
      /\ f.call = c
      /\ f.ck = IF WritesAt(e) THEN e.ck + 1 ELSE e.ck
      /\ f = [pc |-> f.pc, bp |-> f.bp, b |-> f.b, ns |-> f.ns,
              call |-> f.call, ck |-> f.ck]
  BY <1>2 DEF AfterTurn
<1>4. /\ e.call.n \in 0 .. NC /\ Cursor(e.call) <= e.call.n /\ Cursor(e.call) \in Nat
  BY <1>1 DEF Placed, CallState, Cursor
<1>5. /\ c.pc = "call" /\ c.n = e.call.n /\ c.m = Cursor(e.call) /\ c.p = 0
      /\ c.in = e.call.in /\ c.lb = e.call.lb
      /\ c.fill = (IF WritesAt(e) THEN 0 ELSE e.call.fill)
      /\ c \in CallState
  <2>1. e.call.fill \in Nat /\ 0 \in Nat /\ "call" \in PCs
    BY <1>1, PCsFacts
  <2>2. PICK k \in Nat : k = IF WritesAt(e) THEN 0 ELSE e.call.fill
    BY <2>1
  <2> QED
    BY <1>1, <1>2, <1>4, <2>1, <2>2 DEF CallState
<1>6. Cursor(c) = Cursor(e.call)
  BY <1>4, <1>5 DEF Cursor
<1>7. f.bp \in Planes /\ f.b \in Blocks
  <2>1. CASE GoesOn(e)
    <3>1. ~ (e.bp = 0 /\ LastBlock(e.b))
      BY <2>1 DEF GoesOn, LastTurn
    <3>2. NextPlane(e.bp, e.b) \in Planes /\ NextBlock(e.b) \in Blocks
      <4>1. PICK q \in Planes, k \in Blocks : q = e.bp /\ k = e.b
        BY <1>1
      <4>2. NB \in Nat \ {0} /\ Prec \in Nat \ {0}
        BY TileAssumption
      <4>3. ~ (q = 0 /\ LastBlock(k))
        BY <3>1, <4>1
      <4>4. NextPlane(q, k) \in Planes
        BY <4>2, <4>3 DEF NextPlane, LastBlock, Planes, Blocks
      <4>5. NextBlock(k) \in Blocks
        BY <4>2 DEF NextBlock, LastBlock, Blocks
      <4> QED
        BY <4>1, <4>4, <4>5
    <3> QED
      BY <1>3, <2>1, <3>2
  <2>2. CASE ~ GoesOn(e)
    BY <1>1, <1>3, <2>2
  <2> QED
    BY <2>1, <2>2
<1>8. f.ns \in [Blocks -> 0 .. NC]
  BY <1>1, <1>3, <1>4
<1>9. f \in EncStates
  <2>1. f.pc \in {"block", "encode", "turn", "done", "outside"}
    BY <1>3
  <2>2. f.ck \in Nat \ {0}
    BY <1>1, <1>3
  <2> QED
    BY <1>3, <1>5, <1>7, <1>8, <2>1, <2>2 DEF EncStates
<1>10. ~ FullAt(e) => /\ WantedAt(e) /\ ~ Full(e.call) /\ GoodCall(PlaneOf(e), S, e.call)
                      /\ e.call.pc = "return" /\ e.call.fill >= S
  BY <1>1 DEF FullAt, Placed, GoodCall, Room
<1>11. /\ c.fill <= S
       /\ f.pc = "block" => c.fill < S
       /\ WritesAt(e) /\ f.pc # "done" => e.call.fill >= S
       /\ f.pc = "done" /\ ~ WritesAt(e) => e.call.fill = 0
  BY <1>1, <1>3, <1>5, <1>10 DEF WritesAt
<1>12. f.pc = "encode" => WantedAt(f) /\ GoodCall(PlaneOf(f), S, c)
  <2> SUFFICES ASSUME f.pc = "encode" PROVE WantedAt(f) /\ GoodCall(PlaneOf(f), S, c)
    OBVIOUS
  <2>1. ~ FullAt(e) /\ f.bp = e.bp /\ f.b = e.b
    BY <1>3 DEF GoesOn
  <2>2. PlaneOf(f) = PlaneOf(e) /\ WantedAt(f)
    BY <1>10, <2>1 DEF PlaneOf, WantedAt
  <2>3. GoodCall(PlaneOf(e), S, c)
    BY <1>1, <1>5, <1>10, <1>11, <2>1, ReturnGood
  <2> QED
    BY <2>2, <2>3
<1>13. Placed(f)
  BY <1>3, <1>4, <1>5, <1>6, <1>9, <1>11, <1>12 DEF Placed
<1>14. Whole(f)
  BY <1>3, <1>5, <1>11 DEF Whole
<1> QED
  BY <1>3, <1>5, <1>11, <1>13, <1>14

LEMMA TurnEnc == ASSUME EncInv, WriteTile_Turn PROVE EncInv'
<1>1. PICK e, f : e = EncNow /\ f = EncNow'
  OBVIOUS
<1>2. /\ e.pc = epc /\ e.call.fill = Len(bits) /\ Len(bits) \in Nat
      /\ bits \in Seq({0, 1}) /\ S \in Nat /\ S >= 2
  BY <1>1, NowFacts
<1>3. PICK c : c = SubSeq(bits, 1, Lesser(S, Len(bits)))
  OBVIOUS
<1>4. /\ e.pc = "turn" /\ f = AfterTurn(e)
      /\ bits' = (IF WritesAt(e) THEN <<>> ELSE bits)
      /\ chunks' = (IF WritesAt(e) THEN Append(chunks, c) ELSE chunks)
      /\ torn' = torn /\ emaxOut' = emaxOut /\ UNCHANGED data
  BY <1>1, <1>3, TurnFacts
<1>5. /\ Placed(f) /\ Whole(f)
      /\ f.call.fill = (IF WritesAt(e) THEN 0 ELSE e.call.fill)
      /\ WritesAt(e) /\ f.pc # "done" => e.call.fill >= S
      /\ f.pc = "done" /\ ~ WritesAt(e) => e.call.fill = 0
  BY <1>1, <1>4, TurnGood
<1>6. f.call.fill = Len(bits')
  BY <1>2, <1>4, <1>5
<1>7. f.pc = epc' /\ S' = S /\ ChunksOK
  BY <1>1, <1>4 DEF EncNow, EncInv, data
<1>8. ~ (bits = <<>> /\ chunks = <<>>) /\ epc # "done"
  BY <1>2, <1>4, <1>7 DEF ChunksOK
<1>9. chunks \in Seq(Seq({0, 1})) /\ Len(chunks) \in Nat
      /\ \A k \in 1 .. Len(chunks) : chunks[k] # <<>> /\ Len(chunks[k]) = S
  <2>1. chunks \in Seq(Seq({0, 1}))
    BY <1>7 DEF ChunksOK
  <2> QED
    BY <1>7, <1>8, <2>1 DEF ChunksOK
<1>10. CASE WritesAt(e)
  <2>1. Lesser(S, Len(bits)) \in 1 .. Len(bits) /\ Lesser(S, Len(bits)) <= S
        /\ (f.pc # "done" => Lesser(S, Len(bits)) = S)
    BY <1>2, <1>5, <1>10 DEF WritesAt, Lesser
  <2>2. c \in Seq({0, 1}) /\ Len(c) = Lesser(S, Len(bits))
    <3> DEFINE k == Lesser(S, Len(bits))
    <3>1. \A i \in 1 .. k : bits[i] \in {0, 1}
      BY <1>2, <2>1
    <3>2. k \in Int /\ 1 <= k
      BY <2>1
    <3> HIDE DEF k
    <3>3. SubSeq(bits, 1, k) \in Seq({0, 1}) /\ Len(SubSeq(bits, 1, k)) = k
      BY <3>1, <3>2, SubSeqProperties
    <3> QED
      BY <1>3, <3>3 DEF k
  <2>3. c # <<>> /\ Len(c) <= S /\ (f.pc # "done" => Len(c) = S)
    BY <1>2, <2>1, <2>2
  <2>4. /\ chunks' \in Seq(Seq({0, 1})) /\ chunks' # <<>> /\ Len(chunks') = Len(chunks) + 1
        /\ \A i \in 1 .. Len(chunks) : chunks'[i] = chunks[i]
        /\ chunks'[Len(chunks) + 1] = c
    BY <1>4, <1>9, <1>10, <2>2, AppendProperties
  <2>5. bits' = <<>> /\ bits' \in Seq({0, 1})
    BY <1>4, <1>10
  <2>6. ASSUME NEW k \in 1 .. Len(chunks')
        PROVE  /\ chunks'[k] # <<>> /\ Len(chunks'[k]) <= S
               /\ (k < Len(chunks') \/ f.pc # "done") => Len(chunks'[k]) = S
    <3>1. CASE k \in 1 .. Len(chunks)
      <4>1. chunks'[k] = chunks[k] /\ chunks[k] # <<>> /\ Len(chunks[k]) = S
        BY <1>9, <2>4, <3>1
      <4> QED
        BY <1>2, <4>1
    <3>2. CASE k = Len(chunks) + 1
      <4>1. chunks'[k] = c /\ ~ (k < Len(chunks'))
        BY <1>9, <2>4, <3>2
      <4> QED
        BY <2>3, <4>1
    <3> QED
      BY <1>9, <2>4, <3>1, <3>2
  <2>7. ChunksOK'
    BY <1>7, <2>4, <2>5, <2>6 DEF ChunksOK
  <2> QED
    BY <1>1, <1>4, <1>5, <1>6, <2>7, EncStep DEF EncInv
<1>11. CASE ~ WritesAt(e)
  <2>1. bits' = bits /\ chunks' = chunks
    BY <1>4, <1>11
  <2>2. epc' = "done" => bits = <<>> /\ chunks # <<>>
    BY <1>2, <1>5, <1>7, <1>8, <1>11
  <2>3. ChunksOK'
    BY <1>2, <1>7, <1>8, <1>9, <2>1, <2>2 DEF ChunksOK
  <2> QED
    BY <1>1, <1>4, <1>5, <1>6, <2>3, EncStep DEF EncInv
<1> QED
  BY <1>10, <1>11

\* DecompressTile only looks at the chunks.
LEMMA ReaderEnc ==
    ASSUME EncInv, UNCHANGED <<data, encVars>>
    PROVE  EncInv' /\ EncNow' = EncNow
  BY DEF EncInv, DataOK, ChunksOK, EncNow, Placed, Whole, WantedAt, PlaneOf, data, encVars

-----------------------------------------------------------------------------
(* DecInv is an invariant.                                                  *)

\* The parts of a decoder's state.
LEMMA DecFacts ==
    ASSUME EncInv, DecInv, NEW d, d = dcall
    PROVE  /\ d = [pc |-> d.pc, n |-> d.n, m |-> d.m, p |-> d.p, in |-> d.in,
                   lb |-> d.lb, ci |-> d.ci, fill |-> d.fill, x |-> d.x,
                   block |-> d.block]
           /\ d \in DecStates /\ d.pc \in PCs /\ d.n \in 0 .. NC /\ d.m \in Nat
           /\ d.p \in Nat /\ d.in \in {0, 1} /\ d.lb \in {0, 1} /\ d.ci \in Nat
           /\ d.fill \in Nat /\ d.x \subseteq Coefs /\ d.block \subseteq Coefs
           /\ Cursor(d) \in Nat /\ Cursor(d) <= d.n
           /\ S \in Nat /\ S >= 2 /\ NC \in Nat /\ NC >= 1
           /\ dns[db] \in 0 .. NC /\ db \in Blocks /\ dbp \in Planes
           /\ got[db][dbp] \subseteq Coefs
           /\ demax[db] \in Int
           /\ nread \in Nat /\ Len(chunks) \in Nat /\ ck \in Nat /\ nread <= Len(chunks)
           /\ (Busy => /\ ck \in 1 .. Len(chunks) /\ Chunk \in Seq({0, 1})
                       /\ Len(Chunk) \in Nat /\ Len(Chunk) <= S /\ d.fill <= Len(Chunk))
<1>1. /\ d = [pc |-> d.pc, n |-> d.n, m |-> d.m, p |-> d.p, in |-> d.in,
              lb |-> d.lb, ci |-> d.ci, fill |-> d.fill, x |-> d.x,
              block |-> d.block]
      /\ d \in DecStates /\ d.pc \in PCs /\ d.n \in 0 .. NC /\ d.m \in Nat
      /\ d.p \in Nat /\ d.in \in {0, 1} /\ d.lb \in {0, 1} /\ d.ci \in Nat
      /\ d.fill \in Nat /\ d.x \subseteq Coefs /\ d.block \subseteq Coefs
      /\ Cursor(d) \in Nat /\ Cursor(d) <= d.n
  BY NCAssumption DEF DecInv, DecStates, Cursor
<1>2. /\ S \in Nat /\ S >= 2 /\ NC \in Nat /\ NC >= 1
  BY TileAssumption, NCAssumption DEF EncInv, DataOK
<1>3. /\ db \in Blocks /\ dbp \in Planes /\ demax[db] \in Int /\ dns[db] \in 0 .. NC
  BY DEF DecInv
<1>4. got[db][dbp] \subseteq Coefs
  BY <1>3 DEF DecInv
<1>5. chunks \in Seq(Seq({0, 1})) /\ \A k \in 1 .. Len(chunks) : Len(chunks[k]) <= S
  BY DEF EncInv, ChunksOK
<1>6. nread \in Nat /\ Len(chunks) \in Nat /\ ck \in Nat /\ nread <= Len(chunks)
      /\ ck >= 1
  BY <1>5 DEF DecInv
<1>7. ASSUME Busy
      PROVE  /\ ck \in 1 .. Len(chunks) /\ Chunk \in Seq({0, 1})
             /\ Len(Chunk) \in Nat /\ Len(Chunk) <= S /\ d.fill <= Len(Chunk)
  <2>1. ck \in 1 .. Len(chunks)
    BY <1>6, <1>7 DEF DecInv
  <2>2. chunks[ck] \in Seq({0, 1})
    BY <1>5, <2>1
  <2> QED
    BY <1>5, <1>7, <2>1, <2>2 DEF Chunk, DecInv
<1> QED
  BY <1>1, <1>2, <1>3, <1>4, <1>6, <1>7

\* While WriteTile runs the decoder waits.
LEMMA WriterDec ==
    ASSUME EncInv, DecInv, EncInv', epc # "done", UNCHANGED decVars,
           Len(chunks') >= Len(chunks)
    PROVE  DecInv' /\ dpc = "idle"
<1>1. dpc = "idle"
  BY DEF DecInv
<1>2. nread \in Nat /\ Len(chunks) \in Nat /\ Len(chunks') \in Nat /\ nread <= Len(chunks)
  BY DecFacts DEF EncInv, ChunksOK
<1> QED
  BY <1>1, <1>2 DEF DecInv, decVars, Busy

LEMMA BeginDec ==
    ASSUME EncInv, DecInv, DecompressTile_Begin
    PROVE  DecInv'
<1>1. /\ dpc = "idle" /\ epc = "done" /\ dpc' = "block" /\ epc' = "done"
      /\ nread' \in 1 .. Len(chunks) /\ chunks' = chunks
      /\ UNCHANGED <<dbp, db, dns, dcall, ck, demax, got, copied>>
  BY DEF DecompressTile_Begin, encVars
<1>2. dcall.fill = 0 /\ ck = 1
  BY <1>1 DEF DecInv
<1>3. chunks[1] \in Seq({0, 1}) /\ Len(chunks[1]) \in Nat /\ Len(chunks) \in Nat
  BY <1>1 DEF EncInv, ChunksOK
<1> QED
  BY <1>1, <1>2, <1>3 DEF DecInv, Busy

\* The state Decode is first called with.
HeadEntry(n, fill, blk) == [DecEntry(n, fill) EXCEPT !.block = blk]

LEMMA DecEntryFacts ==
    ASSUME NEW n \in 0 .. NC, NEW fill \in Nat, NEW blk \in SUBSET Coefs,
           NEW d, d = HeadEntry(n, fill, blk)
    PROVE  /\ d \in DecStates /\ d.n = n /\ d.m = 0 /\ d.p = 0 /\ d.in = 0 /\ d.lb = 1
           /\ d.ci = 0 /\ d.fill = fill /\ d.x = {} /\ d.block = blk /\ d.pc = "call"
           /\ Cursor(d) = 0
           /\ d = [pc |-> d.pc, n |-> d.n, m |-> d.m, p |-> d.p, in |-> d.in,
                   lb |-> d.lb, ci |-> d.ci, fill |-> d.fill, x |-> d.x,
                   block |-> d.block]
           /\ \A cap : fill <= cap => Shape(cap, d)
<1>1. /\ d.n = n /\ d.m = 0 /\ d.p = 0 /\ d.in = 0 /\ d.lb = 1
      /\ d.ci = 0 /\ d.fill = fill /\ d.x = {} /\ d.block = blk /\ d.pc = "call"
      /\ d = [pc |-> d.pc, n |-> d.n, m |-> d.m, p |-> d.p, in |-> d.in,
              lb |-> d.lb, ci |-> d.ci, fill |-> d.fill, x |-> d.x,
              block |-> d.block]
  BY DEF DecEntry, HeadEntry
<1>2. Cursor(d) = 0
  BY <1>1 DEF Cursor
<1>3. d \in DecStates
  BY <1>1, NCAssumption, PCsFacts DEF DecStates
<1>4. \A cap : fill <= cap => Shape(cap, d)
  BY <1>1, <1>2, NCAssumption DEF Shape
<1> QED
  BY <1>1, <1>2, <1>3, <1>4

\* The head of the block loop of DecompressTile, when it stays in the chunk:
\* len bits of the exponent v are read.
LEMMA HeadFacts ==
    ASSUME EncInv, DecInv, DecompressTile_Block, dpc' # "outside", NEW d, d = dcall'
    PROVE  \E len \in Nat, v \in Int :
           /\ dcall.fill + len <= Len(Chunk)
           /\ dbp # Prec - 1 => len = 0 /\ v = demax[db]
           /\ dbp = Prec - 1 =>
                 \/ /\ Bit(dcall.fill) = 1 /\ len = 1 + ExpBits
                    /\ v = ValueAt(Chunk, dcall.fill + 1) - ExpBias
                 \/ Bit(dcall.fill) # 1 /\ len = 1 /\ v = TolExp - 2
           /\ demax' = [demax EXCEPT ![db] = v]
           /\ d = HeadEntry(dns[db], dcall.fill + len, got[db][dbp])
           /\ dpc' = IF Wanted(dbp, v) THEN "decode" ELSE "turn"
<1>1. /\ dpc = "block" /\ Chunk \in Seq({0, 1}) /\ Len(Chunk) \in Nat
      /\ dcall.fill \in Nat /\ dcall.fill <= Len(Chunk) /\ demax[db] \in Int
      /\ ExpBits \in Nat \ {0} /\ ExpBias \in Nat /\ TolExp \in Int
  BY DecFacts, TileAssumption DEF DecompressTile_Block, Busy
<1>2. CASE dbp # Prec - 1
  <2>1. /\ demax' = [demax EXCEPT ![db] = demax[db]]
        /\ d = HeadEntry(dns[db], dcall.fill, got[db][dbp])
        /\ dpc' = IF Wanted(dbp, demax[db]) THEN "decode" ELSE "turn"
    BY <1>2 DEF DecompressTile_Block, HeadEntry
  <2>2. dcall.fill + 0 = dcall.fill
    BY <1>1
  <2> QED
    BY <1>1, <1>2, <2>1, <2>2
<1>3. CASE dbp = Prec - 1
  <2>1. PICK sig \in BOOLEAN : sig = (Has(dcall.fill, 1) /\ Bit(dcall.fill) = 1)
    OBVIOUS
  <2>2. PICK len : len = IF sig THEN 1 + ExpBits ELSE 1
    OBVIOUS
  <2>3. PICK v : v = IF sig THEN ValueAt(Chunk, dcall.fill + 1) - ExpBias ELSE TolExp - 2
    OBVIOUS
  <2>4. /\ Has(dcall.fill, len)
        /\ demax' = [demax EXCEPT ![db] = v]
        /\ d = HeadEntry(dns[db], dcall.fill + len, got[db][dbp])
        /\ dpc' = IF Wanted(dbp, v) THEN "decode" ELSE "turn"
    BY <1>3, <2>1, <2>2, <2>3 DEF DecompressTile_Block, HeadEntry
  <2>5. len \in Nat /\ dcall.fill + len <= Len(Chunk)
    BY <1>1, <2>2, <2>4 DEF Has
  <2>6. CASE sig
    <3>1. Bit(dcall.fill) = 1 /\ len = 1 + ExpBits
          /\ v = ValueAt(Chunk, dcall.fill + 1) - ExpBias
      BY <2>1, <2>2, <2>3, <2>6
    <3>2. dcall.fill + 1 \in Nat /\ (dcall.fill + 1) + ExpBits <= Len(Chunk)
      BY <1>1, <2>5, <3>1
    <3>3. ValueAt(Chunk, dcall.fill + 1) \in Values
      BY <1>1, <3>2, ValueRead
    <3>4. v \in Int
      BY <1>1, <3>1, <3>3, PowNat DEF Values
    <3> QED
      BY <1>3, <2>4, <2>5, <3>1, <3>4
  <2>7. CASE ~ sig
    <3>1. len = 1 /\ v = TolExp - 2
      BY <2>2, <2>3, <2>7
    <3>2. Bit(dcall.fill) # 1
      BY <2>1, <2>4, <2>7, <3>1 DEF Has
    <3>3. v \in Int
      BY <1>1, <3>1
    <3> QED
      BY <1>3, <2>4, <2>5, <3>1, <3>2, <3>3
  <2> QED
    BY <2>6, <2>7
<1> QED
  BY <1>2, <1>3

LEMMA HeadDec ==
    ASSUME EncInv, DecInv, DecompressTile_Block
    PROVE  DecInv'
<1>1. /\ dpc = "block" /\ UNCHANGED <<data, encVars, nread, dbp, db, dns, ck, got, copied>>
      /\ epc = "done" /\ nread >= 1 /\ ck <= nread
  BY DEF DecompressTile_Block, DecInv, Busy
<1>2. epc' = epc /\ chunks' = chunks /\ S' = S
  BY <1>1 DEF encVars, data
<1>3. CASE dpc' = "outside"
  <2>1. demax' = demax /\ dcall' = dcall
    BY <1>3 DEF DecompressTile_Block
  <2> QED
    BY <1>1, <1>2, <1>3, <2>1 DEF DecInv, Busy
<1>4. CASE dpc' # "outside"
  <2>1. PICK d : d = dcall'
    OBVIOUS
  <2>2. PICK len \in Nat, v \in Int :
           /\ dcall.fill + len <= Len(Chunk)
           /\ demax' = [demax EXCEPT ![db] = v]
           /\ d = HeadEntry(dns[db], dcall.fill + len, got[db][dbp])
           /\ dpc' = IF Wanted(dbp, v) THEN "decode" ELSE "turn"
    BY <1>4, <2>1, HeadFacts
  <2>3. /\ dns[db] \in 0 .. NC /\ got[db][dbp] \subseteq Coefs /\ db \in Blocks
        /\ dcall.fill + len \in Nat /\ dcall.fill + len <= S /\ Chunk = chunks[ck]
        /\ NC \in Nat
    <3>1. Busy
      BY <1>1 DEF Busy
    <3>2. /\ dns[db] \in 0 .. NC /\ got[db][dbp] \subseteq Coefs /\ db \in Blocks
          /\ NC \in Nat /\ dcall.fill \in Nat /\ Len(Chunk) \in Nat /\ Len(Chunk) <= S
          /\ S \in Nat
      BY <3>1, DecFacts
    <3>3. Chunk = chunks[ck]
      BY DEF Chunk
    <3> HIDE DEF Chunk
    <3> QED
      BY <2>2, <3>2, <3>3
  <2>4. /\ d \in DecStates /\ d.n = dns[db] /\ Cursor(d) = 0 /\ d.pc = "call"
        /\ d.fill = dcall.fill + len /\ Shape(S, d)
    <3>1. PICK n \in 0 .. NC, k \in Nat, blk \in SUBSET Coefs :
             n = dns[db] /\ k = dcall.fill + len /\ blk = got[db][dbp] /\ k <= S
      BY <2>3
    <3>2. d = HeadEntry(n, k, blk)
      BY <2>2, <3>1
    <3>3. /\ d \in DecStates /\ d.n = n /\ Cursor(d) = 0 /\ d.pc = "call" /\ d.fill = k
          /\ \A cap : k <= cap => Shape(cap, d)
      BY <3>1, <3>2, DecEntryFacts
    <3>4. Shape(S, d)
      BY <3>1, <3>3
    <3> QED
      BY <3>1, <3>3, <3>4
  <2>5. demax' \in [Blocks -> Int] /\ demax'[db] = v
    BY <2>2, <2>3 DEF DecInv
  <2>6. /\ d.n <= NC /\ Cursor(d) <= d.n /\ d.pc # "done" /\ d.pc # "return"
        /\ d.n \in 0 .. NC
    BY <2>3, <2>4
  <2>7. /\ dpc' \in {"decode", "turn"}
        /\ dpc' = "turn" => ~ Wanted(dbp, demax'[db])
    BY <2>2, <2>5
  <2>8. Shape(S, d)' = Shape(S, d)
    BY <1>2 DEF Shape, Room
  <2>9. d.fill <= Len(chunks[ck])
    BY <2>2, <2>3, <2>4
  <2> QED
    BY <1>1, <1>2, <2>1, <2>4, <2>5, <2>6, <2>7, <2>8, <2>9 DEF DecInv, Busy, Wanted, Depth
<1> QED
  BY <1>3, <1>4

\* A piece of Decode that stays in the chunk, with the bits it reads.
LEMMA ReadFacts ==
    ASSUME EncInv, DecInv, DecodePiece, dpc' # "outside", NEW d, d = dcall,
           NEW f, f = dcall'
    PROVE  /\ dpc' = IF f.pc = "return" THEN "turn" ELSE "decode"
           /\ \/ /\ d.pc = "call" /\ d.fill + Refinement(S, d) <= Len(Chunk)
                 /\ \E ones \in SUBSET (0 .. Refinement(S, d) - 1) :
                       /\ \A i \in 0 .. Refinement(S, d) - 1 :
                             i \in ones <=> Bit(d.fill + i) = 1
                       /\ f = DecCall(S, d, ones)
              \/ /\ d.pc = "group" /\ (AtGroupBit(S, d) => d.fill + 1 <= Len(Chunk))
                 /\ \E bit \in {0, 1} : /\ AtGroupBit(S, d) => bit = Bit(d.fill)
                                        /\ f = DecGroup(S, d, bit)
              \/ /\ d.pc = "inner" /\ (AtCoefBit(S, d) => d.fill + 1 <= Len(Chunk))
                 /\ \E bit \in {0, 1} : /\ AtCoefBit(S, d) => bit = Bit(d.fill)
                                        /\ f = DecInner(S, d, bit)
              \/ d.pc = "after" /\ f = DecAfter(S, d)
<1>1. /\ dpc = "decode" /\ Chunk \in Seq({0, 1}) /\ Len(Chunk) \in Nat
      /\ d.fill \in Nat /\ d.pc \in PCs /\ d.pc # "done" /\ d.pc # "return"
  BY DecFacts DEF DecodePiece, Busy, DecInv
<1>2. d.pc \in {"call", "group", "inner", "after"}
  BY <1>1 DEF PCs
<1>3. PICK bit : bit = IF Has(d.fill, 1) THEN Bit(d.fill) ELSE 0
  OBVIOUS
<1>4. bit \in {0, 1}
  <2>1. CASE Has(d.fill, 1)
    <3>1. d.fill + 1 \in 1 .. Len(Chunk)
      BY <1>1, <2>1 DEF Has
    <3>2. Chunk[d.fill + 1] \in {0, 1}
      BY <1>1, <3>1, ElementOfSeq
    <3> QED
      BY <1>3, <2>1, <3>2 DEF Bit
  <2>2. CASE ~ Has(d.fill, 1)
    BY <1>3, <2>2
  <2> QED
    BY <2>1, <2>2
<1>5. ~ Strays
  BY DEF DecodePiece
<1>6. dpc' = IF f.pc = "return" THEN "turn" ELSE "decode"
  BY <1>5 DEF DecodePiece
<1>7. CASE d.pc = "call"
  <2>1. PICK ones \in SUBSET (0 .. Refinement(S, d) - 1) :
           ones = {i \in 0 .. Refinement(S, d) - 1 : Bit(d.fill + i) = 1}
    OBVIOUS
  <2>2. f = DecCall(S, d, ones)
    BY <1>5, <1>7, <2>1 DEF DecodePiece
  <2>3. d.fill + Refinement(S, d) <= Len(Chunk)
    BY <1>5, <1>7 DEF Strays, Has
  <2> QED
    BY <1>6, <1>7, <2>1, <2>2, <2>3
<1>8. CASE d.pc = "group"
  <2>1. f = DecGroup(S, d, bit)
    BY <1>3, <1>5, <1>8 DEF DecodePiece
  <2>2. AtGroupBit(S, d) => Has(d.fill, 1)
    BY <1>5, <1>8 DEF Strays
  <2>3. AtGroupBit(S, d) => bit = Bit(d.fill) /\ d.fill + 1 <= Len(Chunk)
    BY <1>3, <2>2 DEF Has
  <2> QED
    BY <1>4, <1>6, <1>8, <2>1, <2>3
<1>9. CASE d.pc = "inner"
  <2>1. f = DecInner(S, d, bit)
    BY <1>3, <1>5, <1>9 DEF DecodePiece
  <2>2. AtCoefBit(S, d) => Has(d.fill, 1)
    BY <1>5, <1>9 DEF Strays
  <2>3. AtCoefBit(S, d) => bit = Bit(d.fill) /\ d.fill + 1 <= Len(Chunk)
    BY <1>3, <2>2 DEF Has
  <2> QED
    BY <1>4, <1>6, <1>9, <2>1, <2>3
<1>10. CASE d.pc = "after"
  <2>1. f = DecAfter(S, d)
    BY <1>5, <1>10 DEF DecodePiece
  <2> QED
    BY <1>6, <1>10, <2>1
<1> QED
  BY <1>2, <1>7, <1>8, <1>9, <1>10

LEMMA ReadDec ==
    ASSUME EncInv, DecInv, DecodePiece
    PROVE  DecInv'
<1>1. /\ dpc = "decode" /\ epc = "done" /\ nread >= 1 /\ ck <= nread
      /\ UNCHANGED <<data, encVars, nread, dbp, db, dns, ck, demax, got, copied>>
  BY DEF DecodePiece, DecInv, Busy
<1>2. epc' = epc /\ chunks' = chunks /\ S' = S
  BY <1>1 DEF encVars, data
<1>3. CASE dpc' = "outside"
  <2>1. dcall' = dcall
    <3>1. Strays
      BY <1>3 DEF DecodePiece
    <3> QED
      BY <3>1 DEF DecodePiece
  <2> QED
    BY <1>1, <1>2, <1>3, <2>1 DEF DecInv, Busy
<1>4. CASE dpc' # "outside"
  <2>1. PICK d, f : d = dcall /\ f = dcall'
    OBVIOUS
  <2>2. /\ d \in DecStates /\ Shape(S, d) /\ S \in Nat /\ Len(Chunk) \in Nat
        /\ d.fill \in Nat /\ d.fill <= Len(Chunk) /\ Chunk = chunks[ck]
    <3>1. Busy
      BY <1>1 DEF Busy
    <3>2. /\ d \in DecStates /\ S \in Nat /\ Len(Chunk) \in Nat
          /\ d.fill \in Nat /\ d.fill <= Len(Chunk)
      BY <2>1, <3>1, DecFacts
    <3>3. Shape(S, d)
      BY <1>1, <2>1 DEF DecInv
    <3> QED
      BY <3>2, <3>3 DEF Chunk
  <2>3. /\ f \in DecStates /\ Shape(S, f) /\ f.fill <= Len(Chunk)
        /\ dpc' = IF f.pc = "return" THEN "turn" ELSE "decode"
    <3>1. dpc' = IF f.pc = "return" THEN "turn" ELSE "decode"
      BY <1>4, <2>1, ReadFacts
    <3>2. \/ /\ d.pc = "call" /\ d.fill + Refinement(S, d) <= Len(Chunk)
             /\ \E ones \in SUBSET (0 .. Refinement(S, d) - 1) : f = DecCall(S, d, ones)
          \/ /\ d.pc = "group" /\ (AtGroupBit(S, d) => d.fill + 1 <= Len(Chunk))
             /\ \E bit \in {0, 1} : f = DecGroup(S, d, bit)
          \/ /\ d.pc = "inner" /\ (AtCoefBit(S, d) => d.fill + 1 <= Len(Chunk))
             /\ \E bit \in {0, 1} : f = DecInner(S, d, bit)
          \/ d.pc = "after" /\ f = DecAfter(S, d)
      BY <1>4, <2>1, ReadFacts
    <3>3. CASE d.pc = "call" /\ d.fill + Refinement(S, d) <= Len(Chunk)
             /\ \E ones \in SUBSET (0 .. Refinement(S, d) - 1) : f = DecCall(S, d, ones)
      <4>1. PICK ones \in SUBSET (0 .. Refinement(S, d) - 1) : f = DecCall(S, d, ones)
        BY <3>3
      <4>2. f \in DecStates /\ Shape(S, f) /\ f.fill = d.fill + Refinement(S, d)
        BY <2>2, <3>3, <4>1, CallShape
      <4> QED
        BY <3>1, <3>3, <4>2
    <3>4. CASE d.pc = "group" /\ (AtGroupBit(S, d) => d.fill + 1 <= Len(Chunk))
             /\ \E bit \in {0, 1} : f = DecGroup(S, d, bit)
      <4>1. f \in DecStates /\ Shape(S, f)
            /\ f.fill = IF AtGroupBit(S, d) THEN d.fill + 1 ELSE d.fill
        BY <2>2, <3>4, GroupShape
      <4> QED
        BY <2>2, <3>1, <3>4, <4>1
    <3>5. CASE d.pc = "inner" /\ (AtCoefBit(S, d) => d.fill + 1 <= Len(Chunk))
             /\ \E bit \in {0, 1} : f = DecInner(S, d, bit)
      <4>1. f \in DecStates /\ Shape(S, f)
            /\ f.fill = IF AtCoefBit(S, d) THEN d.fill + 1 ELSE d.fill
        BY <2>2, <3>5, InnerShape
      <4> QED
        BY <2>2, <3>1, <3>5, <4>1
    <3>6. CASE d.pc = "after" /\ f = DecAfter(S, d)
      <4>1. f \in DecStates /\ Shape(S, f) /\ f.fill = d.fill
        BY <2>2, <3>6, AfterShape
      <4> QED
        BY <2>2, <3>1, <4>1
    <3> QED
      BY <3>2, <3>3, <3>4, <3>5, <3>6
  <2>4. f.n <= NC /\ Cursor(f) <= f.n /\ f.pc # "done" /\ f.n \in 0 .. NC
    BY <2>3, NCAssumption DEF Shape, DecStates
  <2>5. Shape(S, f)' = Shape(S, f)
    BY <1>2 DEF Shape, Room
  <2> QED
    BY <1>1, <1>2, <2>1, <2>2, <2>3, <2>4, <2>5 DEF DecInv, Busy
<1> QED
  BY <1>3, <1>4

\* A turn of the while of DecompressTile: the plane is wanted, it is fully decoded,
\* the chunk is exhausted.
Wants  == Wanted(dbp, demax[db])
IsFull == Wants => Full(dcall)
Gone   == Wants /\ dcall.fill >= S

LEMMA TurnBack ==
    ASSUME EncInv, DecInv, DecompressTile_Turn
    PROVE  /\ ck' = IF Gone THEN ck + 1 ELSE ck
           /\ dcall'.pc = "call" /\ dcall'.n = dcall.n /\ dcall'.m = Cursor(dcall)
           /\ dcall'.p = 0 /\ dcall'.in = dcall.in /\ dcall'.lb = dcall.lb
           /\ dcall'.ci = dcall.ci /\ dcall'.fill = IF Gone THEN 0 ELSE dcall.fill
           /\ dcall'.x = {} /\ dcall'.block = dcall.block \union dcall.x
           /\ dcall' = [pc |-> dcall'.pc, n |-> dcall'.n, m |-> dcall'.m,
                        p |-> dcall'.p, in |-> dcall'.in, lb |-> dcall'.lb,
                        ci |-> dcall'.ci, fill |-> dcall'.fill, x |-> dcall'.x,
                        block |-> dcall'.block]
           /\ dcall' = [Deposit(dcall) EXCEPT !.pc = "call", !.fill = IF Gone THEN 0 ELSE @]
           /\ got' = [got EXCEPT ![db][dbp] = dcall'.block]
           /\ dns' = [dns EXCEPT ![db] = dcall.n]
           /\ copied' = IF (IsFull /\ dbp = 0) \/ ck' = nread + 1
                        THEN copied \union {<<db, demax[db], got'[db]>>} ELSE copied
           /\ dpc' = IF ck' = nread + 1 \/ (IsFull /\ dbp = 0 /\ LastBlock(db)) THEN "done"
                     ELSE IF IsFull THEN "block" ELSE "decode"
           /\ dpc' = "block" => db' = NextBlock(db) /\ dbp' = NextPlane(dbp, db)
           /\ dpc' # "block" => db' = db /\ dbp' = dbp
<1>0. PICK d, f : d = dcall /\ f = dcall'
  OBVIOUS
<1>1. d = [pc |-> d.pc, n |-> d.n, m |-> d.m, p |-> d.p, in |-> d.in,
           lb |-> d.lb, ci |-> d.ci, fill |-> d.fill, x |-> d.x, block |-> d.block]
  BY <1>0, DecFacts
<1>2. PICK g : g = Deposit(d)
  OBVIOUS
<1>3. /\ g = [pc |-> g.pc, n |-> g.n, m |-> g.m, p |-> g.p, in |-> g.in,
              lb |-> g.lb, ci |-> g.ci, fill |-> g.fill, x |-> g.x, block |-> g.block]
      /\ g.pc = d.pc /\ g.n = d.n /\ g.m = Cursor(d) /\ g.p = 0 /\ g.in = d.in
      /\ g.lb = d.lb /\ g.ci = d.ci /\ g.fill = d.fill /\ g.x = {}
      /\ g.block = d.block \union d.x
  BY <1>1, <1>2 DEF Deposit
<1>4. /\ Wanted(dbp, demax[db]) /\ Exhausted <=> Gone
      /\ (Wanted(dbp, demax[db]) => Full(dcall)) <=> IsFull
  BY DEF Exhausted, Gone, IsFull, Wants
<1>5. ck' = IF Gone THEN ck + 1 ELSE ck
  BY <1>4 DEF DecompressTile_Turn
<1>6. f = [g EXCEPT !.pc = "call", !.fill = IF Gone THEN 0 ELSE @]
      /\ got' = [got EXCEPT ![db][dbp] = g.block]
      /\ dns' = [dns EXCEPT ![db] = g.n]
  BY <1>0, <1>2, <1>4 DEF DecompressTile_Turn
<1>7. copied' = IF (IsFull /\ dbp = 0) \/ ck' = nread + 1
                THEN copied \union {<<db, demax[db], got'[db]>>} ELSE copied
  BY <1>4 DEF DecompressTile_Turn, BlockDue
<1>8. /\ dpc' = IF ck' = nread + 1 \/ (IsFull /\ dbp = 0 /\ LastBlock(db)) THEN "done"
                ELSE IF IsFull THEN "block" ELSE "decode"
      /\ dpc' = "block" => db' = NextBlock(db) /\ dbp' = NextPlane(dbp, db)
      /\ dpc' # "block" => db' = db /\ dbp' = dbp
  BY <1>4 DEF DecompressTile_Turn
<1>9. /\ f.pc = "call" /\ f.n = d.n /\ f.m = Cursor(d) /\ f.p = 0 /\ f.in = d.in
      /\ f.lb = d.lb /\ f.ci = d.ci /\ f.fill = (IF Gone THEN 0 ELSE d.fill)
      /\ f.x = {} /\ f.block = d.block \union d.x
      /\ f = [pc |-> f.pc, n |-> f.n, m |-> f.m, p |-> f.p, in |-> f.in,
              lb |-> f.lb, ci |-> f.ci, fill |-> f.fill, x |-> f.x,
              block |-> f.block]
  BY <1>3, <1>6
<1> QED
  BY <1>0, <1>2, <1>3, <1>5, <1>6, <1>7, <1>8, <1>9

LEMMA TurnDec ==
    ASSUME EncInv, DecInv, DecompressTile_Turn
    PROVE  DecInv'
<1>1. /\ dpc = "turn" /\ epc = "done" /\ nread >= 1 /\ ck <= nread
      /\ UNCHANGED <<data, encVars, nread, demax>>
  BY DEF DecompressTile_Turn, DecInv, Busy
<1>2. epc' = epc /\ chunks' = chunks /\ S' = S
  BY <1>1 DEF encVars, data
<1>3. PICK d, f : d = dcall /\ f = dcall'
  OBVIOUS
<1>5. /\ ck' = (IF Gone THEN ck + 1 ELSE ck)
      /\ f.pc = "call" /\ f.n = d.n /\ f.m = Cursor(d) /\ f.p = 0 /\ f.in = d.in
      /\ f.lb = d.lb /\ f.ci = d.ci /\ f.fill = (IF Gone THEN 0 ELSE d.fill)
      /\ f.x = {} /\ f.block = d.block \union d.x
      /\ f = [pc |-> f.pc, n |-> f.n, m |-> f.m, p |-> f.p, in |-> f.in,
              lb |-> f.lb, ci |-> f.ci, fill |-> f.fill, x |-> f.x,
              block |-> f.block]
      /\ got' = [got EXCEPT ![db][dbp] = f.block]
      /\ dns' = [dns EXCEPT ![db] = d.n]
      /\ copied' = (IF (IsFull /\ dbp = 0) \/ ck' = nread + 1
                    THEN copied \union {<<db, demax[db], got'[db]>>} ELSE copied)
      /\ dpc' = (IF ck' = nread + 1 \/ (IsFull /\ dbp = 0 /\ LastBlock(db)) THEN "done"
                 ELSE IF IsFull THEN "block" ELSE "decode")
      /\ dpc' = "block" => db' = NextBlock(db) /\ dbp' = NextPlane(dbp, db)
      /\ dpc' # "block" => db' = db /\ dbp' = dbp
  BY <1>3, TurnBack
<1>6. /\ d \in DecStates /\ d.pc \in PCs /\ d.n \in 0 .. NC
      /\ d.in \in {0, 1} /\ d.lb \in {0, 1} /\ d.ci \in Nat
      /\ d.fill \in Nat /\ d.x \subseteq Coefs /\ d.block \subseteq Coefs
      /\ Cursor(d) \in Nat /\ Cursor(d) <= d.n /\ S \in Nat /\ NC \in Nat
      /\ db \in Blocks /\ dbp \in Planes /\ nread \in Nat /\ ck \in Nat
      /\ ck \in 1 .. Len(chunks) /\ Len(Chunk) \in Nat /\ Len(Chunk) <= S
      /\ d.fill <= Len(Chunk) /\ demax[db] \in Int
  BY <1>1, <1>3, DecFacts DEF Busy
<1>7. /\ f \in DecStates /\ f.n <= NC /\ Cursor(f) <= f.n /\ f.pc # "done"
      /\ f.fill \in Nat /\ Cursor(f) = Cursor(d)
  <2>1. f.fill \in Nat
    BY <1>5, <1>6
  <2>2. Cursor(f) = Cursor(d)
    BY <1>5, <1>6 DEF Cursor
  <2> QED
    BY <1>5, <1>6, <2>1, <2>2, PCsFacts DEF DecStates
<1>8. /\ got' \in [Blocks -> [Planes -> SUBSET Coefs]]
      /\ dns' \in [Blocks -> 0 .. NC]
  BY <1>5, <1>6 DEF DecInv
<1>9. copied' \subseteq Blocks \X Int \X [Planes -> SUBSET Coefs]
  <2>1. <<db, demax[db], got'[db]>> \in Blocks \X Int \X [Planes -> SUBSET Coefs]
    BY <1>6, <1>8
  <2> QED
    BY <1>5, <2>1 DEF DecInv
<1>10. db' \in Blocks /\ dbp' \in Planes
  <2>1. CASE dpc' = "block"
    <3>1. ~ (dbp = 0 /\ LastBlock(db))
      BY <1>5, <2>1
    <3>2. NextPlane(dbp, db) \in Planes /\ NextBlock(db) \in Blocks
      BY <1>6, <3>1, TileAssumption DEF NextPlane, NextBlock, LastBlock, Planes, Blocks
    <3> QED
      BY <1>5, <2>1, <3>2
  <2>2. CASE dpc' # "block"
    BY <1>5, <1>6, <2>2
  <2> QED
    BY <2>1, <2>2
<1>11. ck' \in 1 .. nread + 1 /\ (dpc' # "done" => ck' <= nread)
  BY <1>1, <1>5, <1>6
<1>12. dpc' # "done" => f.fill <= Len(chunks[ck'])
  <2> SUFFICES ASSUME dpc' # "done" PROVE f.fill <= Len(chunks[ck'])
    OBVIOUS
  <2>1. CASE Gone
    <3>1. ck' \in 1 .. Len(chunks)
      BY <1>6, <1>11 DEF DecInv
    <3>2. Len(chunks[ck']) \in Nat
      BY <3>1 DEF EncInv, ChunksOK
    <3> QED
      BY <1>5, <2>1, <3>2
  <2>2. CASE ~ Gone
    BY <1>5, <1>6, <2>2 DEF Chunk
  <2> QED
    BY <2>1, <2>2
<1>13. dpc' = "decode" => Shape(S, f)
  <2> SUFFICES ASSUME dpc' = "decode" PROVE Shape(S, f)
    OBVIOUS
  <2>1. Wants /\ ~ Full(d)
    BY <1>3, <1>5 DEF IsFull
  <2>2. Shape(S, d) /\ d.pc = "return"
    BY <1>1, <1>3, <2>1 DEF DecInv, Wants
  <2>3. d.fill <= S /\ d.n <= NC /\ (d.in = 1 => Cursor(d) = d.n /\ d.n < NC)
    BY <2>1, <2>2 DEF Shape
  <2>4. f.fill <= S
    BY <1>5, <1>6, <2>3
  <2> QED
    BY <1>5, <1>6, <1>7, <2>3, <2>4 DEF Shape
<1>14. dpc' \in {"block", "decode", "done"}
  BY <1>5
<1>15. Shape(S, f)' = Shape(S, f)
  BY <1>2 DEF Shape, Room
<1> QED
  BY <1>1, <1>2, <1>3, <1>5, <1>7, <1>8, <1>9, <1>10, <1>11, <1>12, <1>13, <1>14, <1>15
     DEF DecInv, Busy

-----------------------------------------------------------------------------
(* What holds of every tile.                                                *)

\* Where WriteTile and DecompressTile start.
LEMMA InitGood ==
    ASSUME Init
    PROVE  EncInv /\ DecInv /\ EncNow = FirstState
<1>1. /\ NC \in Nat /\ NC >= 1 /\ NB \in Nat /\ NB >= 1 /\ Prec \in Nat /\ Prec >= 1
      /\ TolExp \in Int
  BY NCAssumption, TileAssumption
<1>2. S \in Nat /\ S >= 2
  BY TileAssumption DEF Init
<1>3. Prec - 1 \in Planes /\ 0 \in Blocks /\ 0 \in 0 .. NC
  BY <1>1 DEF Planes, Blocks
<1>4. /\ Entry(0, 0) \in CallState /\ Entry(0, 0).n = 0 /\ Entry(0, 0).fill = 0
      /\ Entry(0, 0).pc = "call" /\ Cursor(Entry(0, 0)) = 0
  BY <1>3, EntryFacts
<1>5. DataOK
  BY DEF Init, DataOK
<1>6. EncNow = FirstState
  BY DEF Init, EncNow, FirstState
<1>7. PICK e : e = FirstState
  OBVIOUS
<1>8. /\ e.pc = "block" /\ e.bp = Prec - 1 /\ e.b = 0 /\ e.ns = [b \in Blocks |-> 0]
      /\ e.call = Entry(0, 0) /\ e.ck = 1 /\ e \in EncStates
  BY <1>1, <1>3, <1>4, <1>7 DEF FirstState, EncStates
<1>9. Placed(e) /\ Whole(e)
  BY <1>1, <1>2, <1>4, <1>8 DEF Placed, Whole
<1>10. ChunksOK
  BY DEF Init, ChunksOK
<1>11. EncInv
  <2>1. call.fill = Len(bits)
    BY <1>4 DEF Init
  <2>2. torn \in BOOLEAN /\ emaxOut \in BOOLEAN
    BY DEF Init
  <2> QED
    BY <1>5, <1>6, <1>7, <1>9, <1>10, <2>1, <2>2 DEF EncInv
<1>12. DecInv
  <2>1. PICK d : d = DecEntry(0, 0)
    OBVIOUS
  <2>2. /\ d \in DecStates /\ d.n = 0 /\ d.fill = 0 /\ d.pc = "call" /\ Cursor(d) = 0
    BY <1>1, <2>1, PCsFacts DEF DecEntry, DecStates, Cursor
  <2>3. TolExp - 2 \in Int
    BY <1>1
  <2>4. /\ dns \in [Blocks -> 0 .. NC] /\ demax \in [Blocks -> Int]
        /\ got \in [Blocks -> [Planes -> SUBSET Coefs]]
    BY <1>3, <2>3 DEF Init
  <2>5. Len(chunks) = 0
    BY DEF Init
  <2> QED
    BY <1>1, <1>3, <2>1, <2>2, <2>4, <2>5 DEF Init, DecInv, Busy
<1> QED
  BY <1>6, <1>11, <1>12

\* The chunks only grow.
LEMMA Grows ==
    ASSUME EncInv, WriteTile_Block \/ EncodePiece \/ WriteTile_Turn
    PROVE  epc # "done" /\ UNCHANGED decVars /\ Len(chunks') >= Len(chunks)
<1>1. epc # "done" /\ UNCHANGED decVars
  BY DEF WriteTile_Block, EncodePiece, WriteTile_Turn
<1>2. chunks \in Seq(Seq({0, 1})) /\ Len(chunks) \in Nat
  BY DEF EncInv, ChunksOK
<1>3. chunks' = chunks \/ Len(chunks') = Len(chunks) + 1
  BY <1>2 DEF WriteTile_Block, EncodePiece, WriteTile_Turn
<1> QED
  BY <1>1, <1>2, <1>3

\* Every step keeps the two invariants.
LEMMA Preserved ==
    ASSUME EncInv, DecInv, [Next]_vars
    PROVE  EncInv' /\ DecInv'
<1>1. CASE WriteTile_Block
  BY <1>1, BlockEnc, Grows, WriterDec
<1>2. CASE EncodePiece
  BY <1>2, PieceEnc, Grows, WriterDec
<1>3. CASE WriteTile_Turn
  BY <1>3, TurnEnc, Grows, WriterDec
<1>4. CASE DecompressTile_Begin
  <2>1. UNCHANGED <<data, encVars>>
    BY <1>4 DEF DecompressTile_Begin
  <2> QED
    BY <1>4, <2>1, ReaderEnc, BeginDec
<1>5. CASE DecompressTile_Block
  <2>1. UNCHANGED <<data, encVars>>
    BY <1>5 DEF DecompressTile_Block
  <2> QED
    BY <1>5, <2>1, ReaderEnc, HeadDec
<1>6. CASE DecodePiece
  <2>1. UNCHANGED <<data, encVars>>
    BY <1>6 DEF DecodePiece
  <2> QED
    BY <1>6, <2>1, ReaderEnc, ReadDec
<1>7. CASE DecompressTile_Turn
  <2>1. UNCHANGED <<data, encVars>>
    BY <1>7 DEF DecompressTile_Turn
  <2> QED
    BY <1>7, <2>1, ReaderEnc, TurnDec
<1>8. CASE UNCHANGED vars
  <2>1. UNCHANGED <<data, encVars>> /\ UNCHANGED decVars
    BY <1>8 DEF vars
  <2>2. EncInv'
    BY <2>1, ReaderEnc
  <2>3. DecInv'
    BY <2>1 DEF DecInv, decVars, Busy, encVars, data, Shape, Room, Wanted, Depth
  <2> QED
    BY <2>2, <2>3
<1> QED
  BY <1>1, <1>2, <1>3, <1>4, <1>5, <1>6, <1>7, <1>8 DEF Next

LEMMA Always == Spec => [](EncInv /\ DecInv)
<1>1. Init => EncInv /\ DecInv
  BY InitGood
<1>2. EncInv /\ DecInv /\ [Next]_vars => (EncInv /\ DecInv)'
  BY Preserved
<1> QED
  BY <1>1, <1>2, PTL DEF Spec

\* The fields of a call of Encode or Decode.
LEMMA CallTypes ==
    ASSUME EncInv, DecInv
    PROVE  CallOK(call) /\ CallOK(dcall)
<1>1. NC \in Nat
  BY NCAssumption
<1>2. call \in CallState /\ call.n <= NC /\ Cursor(call) <= call.n /\ call.pc # "done"
  BY NowFacts DEF EncInv, Placed, EncNow
<1>3. dcall \in DecStates /\ dcall.n <= NC /\ Cursor(dcall) <= dcall.n /\ dcall.pc # "done"
  BY DEF DecInv
<1>4. CallOK(call)
  BY <1>1, <1>2 DEF CallOK, CallState, PCs, Cursor
<1>5. CallOK(dcall)
  BY <1>1, <1>3 DEF CallOK, DecStates, PCs, Cursor
<1> QED
  BY <1>4, <1>5

\* Whatever the tile and the chunk size, the variables of WriteTile and
\* DecompressTile have their types (TypeOK): N and the position in the block never
\* exceed the coefficients of a block, even when an EMax was torn and the decoder
\* reads the bits of something else.
THEOREM TypeCorrect == Spec => []TypeOK
<1>1. ASSUME EncInv, DecInv PROVE TypeOK
  <2>1. /\ epc \in {"block", "encode", "turn", "done", "outside"}
        /\ ebp \in Planes /\ eb \in Blocks /\ ens \in [Blocks -> 0 .. NC]
    BY <1>1, NowFacts
  <2>2. /\ bits \in Seq({0, 1}) /\ chunks \in Seq(Seq({0, 1}))
        /\ torn \in BOOLEAN /\ emaxOut \in BOOLEAN
    BY <1>1 DEF EncInv, ChunksOK
  <2>3. CallOK(call) /\ CallOK(dcall)
    BY <1>1, CallTypes
  <2>4. ck \in 1 .. Len(chunks) + 1
    <3>1. nread \in Nat /\ Len(chunks) \in Nat /\ ck \in Nat /\ nread <= Len(chunks)
      BY <1>1, DecFacts
    <3> QED
      BY <1>1, <3>1 DEF DecInv
  <2> QED
    BY <1>1, <2>1, <2>2, <2>3, <2>4 DEF TypeOK, DecInv
<1> QED
  BY <1>1, Always, PTL

\* Whatever the tile and the chunk size, every chunk WriteTile has closed is full,
\* but for the last of a finished tile, none is empty, and a finished tile leaves no
\* bit unwritten (ChainWellFormed).
THEOREM ChainCorrect == Spec => []ChainWellFormed
<1>1. EncInv => ChainWellFormed
  BY DEF EncInv, ChunksOK, ChainWellFormed
<1> QED
  BY <1>1, Always, PTL

-----------------------------------------------------------------------------
(* The history of WriteTile.                                                *)

\* What was written stays, and what is written is there.
LEMMA WritesKept ==
    ASSUME EncInv, NEW w \in Seq({0, 1}), bits' = bits \o w, chunks' = chunks,
           NEW k, k = Len(chunks) + 1, NEW n, n = Len(bits)
    PROVE  /\ \A c, p, v : Holds(c, p, v) => Holds(c, p, v)'
           /\ \A i \in 1 .. Len(w) : Holds(k, n + (i - 1), w[i])'
<1>1. /\ bits \in Seq({0, 1}) /\ Len(bits) \in Nat /\ Len(w) \in Nat /\ Len(chunks) \in Nat
  BY DEF EncInv, ChunksOK
<1>2. /\ Len(bits') = Len(bits) + Len(w)
      /\ \A i \in 1 .. Len(bits) + Len(w) :
            bits'[i] = IF i <= Len(bits) THEN bits[i] ELSE w[i - Len(bits)]
  BY <1>1, ConcatProperties
<1>3. ASSUME NEW c, NEW p, NEW v, Holds(c, p, v) PROVE Holds(c, p, v)'
  <2>1. CASE c \in 1 .. Len(chunks)
    BY <1>3, <2>1 DEF Holds, Stream
  <2>2. CASE c \notin 1 .. Len(chunks)
    <3>1. c = Len(chunks) + 1 /\ p \in Nat /\ p < Len(bits) /\ bits[p + 1] = v
      BY <1>1, <1>3, <2>2 DEF Holds, Stream
    <3>2. p + 1 \in 1 .. Len(bits) + Len(w) /\ p + 1 <= Len(bits) /\ p < Len(bits')
      BY <1>1, <1>2, <3>1
    <3>3. bits'[p + 1] = v
      BY <1>2, <3>1, <3>2
    <3> QED
      BY <1>1, <2>2, <3>1, <3>2, <3>3 DEF Holds, Stream
  <2> QED
    BY <2>1, <2>2
<1>4. ASSUME NEW i \in 1 .. Len(w)
      PROVE  Holds(k, n + (i - 1), w[i])'
  <2>1. PICK p : p = n + (i - 1)
    OBVIOUS
  <2>2. /\ p \in Nat /\ p < Len(bits') /\ p + 1 \in 1 .. Len(bits) + Len(w)
        /\ ~ (p + 1 <= Len(bits)) /\ (p + 1) - Len(bits) = i
    BY <1>1, <1>2, <2>1
  <2>3. bits'[p + 1] = w[i]
    BY <1>2, <2>2
  <2>4. k \in 1 .. Len(chunks') + 1 /\ k \notin 1 .. Len(chunks')
    BY <1>1
  <2>5. Stream(k)' = bits'
    BY <2>4 DEF Stream
  <2>6. Holds(k, p, w[i])'
    BY <2>2, <2>3, <2>4, <2>5 DEF Holds
  <2> QED
    BY <2>1, <2>6
<1> QED
  BY <1>3, <1>4

\* Closing a chunk moves nothing, unless it cuts an EMax.
LEMMA ClosesKept ==
    ASSUME EncInv, ~ torn, WriteTile_Turn
    PROVE  \A c, p, v : Holds(c, p, v) => Holds(c, p, v)'
<1>1. PICK e, f : e = EncNow /\ f = EncNow'
  OBVIOUS
<1>2. /\ bits \in Seq({0, 1}) /\ Len(bits) \in Nat /\ Len(chunks) \in Nat
      /\ chunks \in Seq(Seq({0, 1})) /\ Len(bits) <= S /\ S \in Nat
  <2>1. e.call.fill = Len(bits) /\ Whole(e) /\ S \in Nat
    BY <1>1, NowFacts
  <2> QED
    BY <2>1 DEF EncInv, ChunksOK, Whole
<1>3. PICK w : w = SubSeq(bits, 1, Lesser(S, Len(bits)))
  OBVIOUS
<1>4. w = bits
  <2>1. Lesser(S, Len(bits)) = Len(bits)
    BY <1>2 DEF Lesser
  <2>2. SubSeq(bits, 1, Len(bits)) = bits
    BY <1>2, SubSeqFull
  <2> QED
    BY <1>3, <2>1, <2>2
<1>5. /\ bits' = IF WritesAt(e) THEN <<>> ELSE bits
      /\ chunks' = IF WritesAt(e) THEN Append(chunks, bits) ELSE chunks
  <2>1. /\ bits' = IF WritesAt(e) THEN <<>> ELSE bits
        /\ chunks' = IF WritesAt(e) THEN Append(chunks, w) ELSE chunks
    BY <1>1, <1>3, TurnFacts
  <2> QED
    BY <1>4, <2>1
<1>6. ASSUME NEW c, NEW p, NEW v, Holds(c, p, v) PROVE Holds(c, p, v)'
  <2>1. CASE WritesAt(e)
    <3>1. /\ Len(chunks') = Len(chunks) + 1 /\ chunks'[Len(chunks) + 1] = bits
          /\ \A i \in 1 .. Len(chunks) : chunks'[i] = chunks[i]
      BY <1>2, <1>5, <2>1, AppendProperties
    <3>2. c \in 1 .. Len(chunks) + 1 /\ p \in Nat /\ p < Len(Stream(c)) /\ Stream(c)[p + 1] = v
      BY <1>6 DEF Holds
    <3>3. c \in 1 .. Len(chunks') /\ c \in 1 .. Len(chunks') + 1
      BY <1>2, <3>1, <3>2
    <3>4. Stream(c)' = Stream(c)
      <4>1. Stream(c)' = chunks'[c]
        BY <3>3 DEF Stream
      <4>2. CASE c \in 1 .. Len(chunks)
        BY <3>1, <4>1, <4>2 DEF Stream
      <4>3. CASE c \notin 1 .. Len(chunks)
        <5>1. c = Len(chunks) + 1
          BY <1>2, <3>2, <4>3
        <5> QED
          BY <3>1, <4>1, <4>3, <5>1 DEF Stream
      <4> QED
        BY <4>2, <4>3
    <3> QED
      BY <3>2, <3>3, <3>4 DEF Holds
  <2>2. CASE ~ WritesAt(e)
    BY <1>5, <1>6, <2>2 DEF Holds, Stream
  <2> QED
    BY <2>1, <2>2
<1> QED
  BY <1>6

\* What follows a state depends on the tile only, and on the bits written.
LEMMA AfterKept ==
    ASSUME NEW e, UNCHANGED data
    PROVE  After(e)' = After(e) /\ Written(e)' = Written(e)
<1>1. S' = S /\ emax' = emax /\ planes' = planes
  BY DEF data
<1>2. PlaneOf(e)' = PlaneOf(e) /\ WantedAt(e)' = WantedAt(e) /\ EMaxOf(e)' = EMaxOf(e)
  BY <1>1 DEF PlaneOf, WantedAt, EMaxOf
<1>3. Piece(PlaneOf(e), e.call)' = Piece(PlaneOf(e), e.call)
  BY <1>1, <1>2 DEF Piece
<1>4. PieceBits(PlaneOf(e), e.call)' = PieceBits(PlaneOf(e), e.call)
  BY <1>1, <1>2 DEF PieceBits
<1>5. AfterBlock(e)' = AfterBlock(e) /\ AfterPiece(e)' = AfterPiece(e)
  BY <1>2, <1>3 DEF AfterBlock, AfterPiece
<1>6. FullAt(e)' = FullAt(e) /\ WritesAt(e)' = WritesAt(e)
  BY <1>1, <1>2 DEF FullAt, WritesAt
<1>7. AfterTurn(e)' = AfterTurn(e)
  BY <1>6 DEF AfterTurn, GoesOn
<1> QED
  BY <1>2, <1>4, <1>5, <1>7 DEF After, Written

LEMMA FollowsKept ==
    ASSUME NEW e, NEW f, UNCHANGED data, \A c, p, v : Holds(c, p, v) => Holds(c, p, v)',
           Follows(e, f)
    PROVE  Follows(e, f)'
<1>1. PICK g, w : g = After(e) /\ w = Written(e) /\ g = After(e)' /\ w = Written(e)'
  BY AfterKept
<1>2. /\ e.pc \in {"block", "encode", "turn"} /\ f = g
      /\ \A i \in 1 .. Len(w) : Holds(e.ck, e.call.fill + (i - 1), w[i])
  BY <1>1 DEF Follows
<1>3. \A i \in 1 .. Len(w) : Holds(e.ck, e.call.fill + (i - 1), w[i])'
  BY <1>2
<1> QED
  BY <1>1, <1>2, <1>3 DEF Follows

\* WriteTile goes to the state After says, and writes what Written says.
LEMMA BlockFollows ==
    ASSUME EncInv, ~ torn', WriteTile_Block, NEW e, e = EncNow, NEW f, f = EncNow'
    PROVE  Follows(e, f)' /\ \A c, p, v : Holds(c, p, v) => Holds(c, p, v)'
<1>1. PICK w : w = EMaxOf(e)
  OBVIOUS
<1>2. /\ e.pc = "block" /\ w \in Seq({0, 1}) /\ Len(w) \in Nat /\ bits' = bits \o w
      /\ Len(bits') = e.call.fill + Len(w) /\ Len(bits') <= S
      /\ f.pc = (IF ~ WantedAt(e) THEN "turn"
                 ELSE IF Len(bits') > S THEN "outside" ELSE "encode")
      /\ f.bp = e.bp /\ f.b = e.b /\ f.ns = e.ns /\ f.ck = e.ck
      /\ f.call = Entry(e.ns[e.b], Len(bits'))
      /\ f = [pc |-> f.pc, bp |-> f.bp, b |-> f.b, ns |-> f.ns,
              call |-> f.call, ck |-> f.ck]
      /\ chunks' = chunks /\ UNCHANGED data
  BY <1>1, BlockFacts
<1>3. /\ e.ck = Len(chunks) + 1 /\ e.call.fill = Len(bits) /\ S \in Nat
      /\ Len(bits) \in Nat
      /\ e = [pc |-> e.pc, bp |-> e.bp, b |-> e.b, ns |-> e.ns,
              call |-> e.call, ck |-> e.ck]
  BY NowFacts
<1>4. f.pc = (IF WantedAt(e) THEN "encode" ELSE "turn")
  BY <1>2, <1>3
<1>5. AfterBlock(e) = [pc |-> IF WantedAt(e) THEN "encode" ELSE "turn", bp |-> e.bp,
                       b |-> e.b, ns |-> e.ns,
                       call |-> Entry(e.ns[e.b], e.call.fill + Len(w)), ck |-> e.ck]
  <2>1. PICK c, pc : /\ c = Entry(e.ns[e.b], e.call.fill + Len(w))
                     /\ pc = IF WantedAt(e) THEN "encode" ELSE "turn"
    OBVIOUS
  <2>2. AfterBlock(e) = [e EXCEPT !.call = c, !.pc = pc]
    BY <1>1, <2>1 DEF AfterBlock
  <2> QED
    BY <1>3, <2>1, <2>2
<1>6. f = AfterBlock(e)
  BY <1>2, <1>4, <1>5
<1>7. After(e) = f /\ Written(e) = w
  BY <1>1, <1>2, <1>6 DEF After, Written
<1>8. After(e)' = f /\ Written(e)' = w
  BY <1>2, <1>7, AfterKept
<1>9. /\ \A c, p, v : Holds(c, p, v) => Holds(c, p, v)'
      /\ \A i \in 1 .. Len(w) : Holds(e.ck, e.call.fill + (i - 1), w[i])'
  <2>1. PICK k, n : k = Len(chunks) + 1 /\ n = Len(bits) /\ k = e.ck /\ n = e.call.fill
    BY <1>3
  <2>2. /\ \A c, p, v : Holds(c, p, v) => Holds(c, p, v)'
        /\ \A i \in 1 .. Len(w) : Holds(k, n + (i - 1), w[i])'
    BY <1>2, <2>1, WritesKept
  <2> QED
    BY <2>1, <2>2
<1> QED
  BY <1>2, <1>8, <1>9 DEF Follows

LEMMA PieceFollows ==
    ASSUME EncInv, EncodePiece, NEW e, e = EncNow, NEW f, f = EncNow'
    PROVE  Follows(e, f)' /\ \A c, p, v : Holds(c, p, v) => Holds(c, p, v)'
<1>1. PICK w : w = PieceBits(PlaneOf(e), e.call)
  OBVIOUS
<1>2. /\ e.pc = "encode" /\ f = AfterPiece(e)
      /\ w \in Seq({0, 1}) /\ bits' = bits \o w /\ chunks' = chunks /\ UNCHANGED data
  BY <1>1, PieceFacts
<1>3. e.ck = Len(chunks) + 1 /\ e.call.fill = Len(bits)
  BY NowFacts
<1>4. After(e) = f /\ Written(e) = w
  BY <1>1, <1>2 DEF After, Written
<1>5. After(e)' = f /\ Written(e)' = w
  BY <1>2, <1>4, AfterKept
<1>6. /\ \A c, p, v : Holds(c, p, v) => Holds(c, p, v)'
      /\ \A i \in 1 .. Len(w) : Holds(e.ck, e.call.fill + (i - 1), w[i])'
  <2>1. PICK k, n : k = Len(chunks) + 1 /\ n = Len(bits) /\ k = e.ck /\ n = e.call.fill
    BY <1>3
  <2>2. /\ \A c, p, v : Holds(c, p, v) => Holds(c, p, v)'
        /\ \A i \in 1 .. Len(w) : Holds(k, n + (i - 1), w[i])'
    BY <1>2, <2>1, WritesKept
  <2> QED
    BY <2>1, <2>2
<1> QED
  BY <1>2, <1>5, <1>6 DEF Follows

LEMMA TurnFollows ==
    ASSUME EncInv, ~ torn, WriteTile_Turn, NEW e, e = EncNow, NEW f, f = EncNow'
    PROVE  Follows(e, f)' /\ \A c, p, v : Holds(c, p, v) => Holds(c, p, v)'
<1>1. e.pc = "turn" /\ f = AfterTurn(e) /\ UNCHANGED data
  BY TurnFacts
<1>2. After(e) = f /\ Written(e) = <<>>
  BY <1>1 DEF After, Written
<1>3. After(e)' = f /\ Written(e)' = <<>>
  BY <1>1, <1>2, AfterKept
<1>4. \A i \in 1 .. Len(<<>>) : Holds(e.ck, e.call.fill + (i - 1), <<>>[i])'
  OBVIOUS
<1>5. Follows(e, f)'
  BY <1>1, <1>3, <1>4 DEF Follows
<1> QED
  BY <1>5, ClosesKept

\* A history with the next state added is a history.
LEMMA HistoryGrows ==
    ASSUME EncInv, EncInv', ~ torn', UNCHANGED data, NEW h, History(h), NEW e, e = EncNow,
           NEW f, f = EncNow', Follows(e, f)', \A c, p, v : Holds(c, p, v) => Holds(c, p, v)',
           NEW g, g = Append(h, f)
    PROVE  History(g)' /\ g[1] = h[1]
<1>1. /\ h \in Seq(EncStates) /\ h # <<>> /\ h[1] = FirstState /\ h[Len(h)] = e
      /\ \A j \in 1 .. Len(h) : Placed(h[j]) /\ Whole(h[j])
      /\ \A j \in 1 .. Len(h) - 1 : Follows(h[j], h[j + 1])
  BY DEF History
<1>2. Len(h) \in Nat \ {0}
  BY <1>1, EmptySeq
<1>3. Placed(f)' /\ Whole(f)' /\ f \in EncStates
  <2>1. Placed(EncNow)' /\ Whole(EncNow)'
    BY DEF EncInv
  <2>2. f \in EncStates
    BY <2>1 DEF Placed
  <2> QED
    BY <2>1, <2>2 DEF Placed, Whole, PlaneOf, WantedAt
<1>4. /\ g \in Seq(EncStates) /\ g # <<>> /\ Len(g) = Len(h) + 1
      /\ \A i \in 1 .. Len(h) : g[i] = h[i]
      /\ g[Len(h) + 1] = f
  BY <1>1, <1>3, AppendProperties
<1>5. g[1] = h[1] /\ g[1] = FirstState /\ g[Len(g)] = f
  BY <1>1, <1>2, <1>4
<1>6. ASSUME NEW j \in 1 .. Len(g) PROVE Placed(g[j])' /\ Whole(g[j])'
  <2>1. CASE j \in 1 .. Len(h)
    <3>1. PICK s : s = h[j] /\ s = g[j] /\ Placed(s) /\ Whole(s)
      BY <1>1, <1>4, <2>1
    <3>2. Placed(s)' /\ Whole(s)'
      BY <3>1, PlacedKept
    <3> QED
      BY <3>1, <3>2
  <2>2. CASE j = Len(h) + 1
    BY <1>3, <1>4, <2>2
  <2> QED
    BY <1>2, <1>4, <2>1, <2>2
<1>7. ASSUME NEW j \in 1 .. Len(g) - 1 PROVE Follows(g[j], g[j + 1])'
  <2>1. CASE j \in 1 .. Len(h) - 1
    <3>0. j \in 1 .. Len(h) /\ j + 1 \in 1 .. Len(h)
      BY <1>2, <2>1
    <3>1. PICK s, t : s = h[j] /\ t = h[j + 1] /\ s = g[j] /\ t = g[j + 1] /\ Follows(s, t)
      BY <1>1, <1>4, <2>1, <3>0
    <3>2. Follows(s, t)'
      BY <3>1, FollowsKept
    <3> QED
      BY <3>1, <3>2
  <2>2. CASE j = Len(h)
    <3>1. g[j] = e /\ g[j + 1] = f
      BY <1>1, <1>2, <1>4, <2>2
    <3> QED
      BY <3>1
  <2> QED
    BY <1>2, <1>4, <2>1, <2>2
<1>8. FirstState' = FirstState
  BY DEF FirstState
<1> QED
  BY <1>4, <1>5, <1>6, <1>7, <1>8 DEF History

\* A step of DecompressTile leaves the history as it is.
LEMMA HistoryKept ==
    ASSUME UNCHANGED <<data, encVars>>, NEW h, History(h)
    PROVE  History(h)'
<1>1. UNCHANGED data /\ EncNow' = EncNow /\ chunks' = chunks /\ bits' = bits
  BY DEF encVars, EncNow
<1>2. \A c, p, v : Holds(c, p, v) => Holds(c, p, v)'
  BY <1>1 DEF Holds, Stream
<1>3. \A j \in 1 .. Len(h) : (Placed(h[j]) => Placed(h[j])') /\ (Whole(h[j]) => Whole(h[j])')
  BY <1>1, PlacedKept
<1>4. \A j \in 1 .. Len(h) - 1 : Follows(h[j], h[j + 1]) => Follows(h[j], h[j + 1])'
  BY <1>1, <1>2, FollowsKept
<1> QED
  BY <1>1, <1>3, <1>4 DEF History

-----------------------------------------------------------------------------
(* The decoder follows.                                                     *)

\* The parts of a state of the history.
LEMMA PlaceFacts ==
    ASSUME EncInv, NEW e, Placed(e)
    PROVE  /\ e \in EncStates /\ e.call \in CallState /\ e.ck \in Nat /\ e.ck >= 1
           /\ e.pc \in {"block", "encode", "turn", "done", "outside"}
           /\ e.bp \in Planes /\ e.b \in Blocks /\ e.ns \in [Blocks -> 0 .. NC]
           /\ e = [pc |-> e.pc, bp |-> e.bp, b |-> e.b, ns |-> e.ns,
                   call |-> e.call, ck |-> e.ck]
           /\ e.call.fill \in Nat /\ e.ns[e.b] \in 0 .. NC
           /\ S \in Nat /\ S >= 2 /\ NC \in Nat /\ NC >= 1
           /\ Context(PlaneOf(e), S) /\ emax[e.b] \in Exponents
           /\ PlaneOf(e) = planes[e.b][e.bp]
<1>1. e \in EncStates
  BY DEF Placed
<1>2. /\ e.pc \in {"block", "encode", "turn", "done", "outside"}
      /\ e.bp \in Planes /\ e.b \in Blocks /\ e.ns \in [Blocks -> 0 .. NC]
      /\ e.call \in CallState /\ e.ck \in Nat /\ e.ck >= 1
      /\ e = [pc |-> e.pc, bp |-> e.bp, b |-> e.b, ns |-> e.ns,
              call |-> e.call, ck |-> e.ck]
  BY <1>1 DEF EncStates
<1>3. S \in Nat /\ S >= 2 /\ NC \in Nat /\ NC >= 1
  BY TileAssumption, NCAssumption DEF EncInv, DataOK
<1>4. PlaneOf(e) \subseteq Coefs /\ emax[e.b] \in Exponents
      /\ PlaneOf(e) = planes[e.b][e.bp]
  BY <1>2 DEF EncInv, DataOK, PlaneOf
<1>5. Context(PlaneOf(e), S)
  BY <1>3, <1>4 DEF Context
<1>6. e.call.fill \in Nat
  BY <1>2 DEF CallState
<1> QED
  BY <1>1, <1>2, <1>3, <1>4, <1>5, <1>6

\* A state of the history but the last has a next one.
LEMMA NextState ==
    ASSUME EncInv, epc = "done", NEW h, History(h), NEW k \in 1 .. Len(h),
           h[k].pc # "done"
    PROVE  /\ k + 1 \in 1 .. Len(h) /\ Follows(h[k], h[k + 1])
           /\ Placed(h[k]) /\ Whole(h[k]) /\ Placed(h[k + 1])
<1>1. /\ h \in Seq(EncStates) /\ h[Len(h)] = EncNow
      /\ \A j \in 1 .. Len(h) : Placed(h[j]) /\ Whole(h[j])
      /\ \A j \in 1 .. Len(h) - 1 : Follows(h[j], h[j + 1])
  BY DEF History
<1>2. Len(h) \in Nat
  BY <1>1
<1>3. k # Len(h)
  <2>1. EncNow.pc = "done"
    BY DEF EncNow
  <2> QED
    BY <1>1, <2>1
<1>4. k + 1 \in 1 .. Len(h) /\ k \in 1 .. Len(h) - 1
  BY <1>2, <1>3
<1> QED
  BY <1>1, <1>4

\* A bit of the chunk the decoder is on is there to be read.
LEMMA Readable ==
    ASSUME EncInv, DecInv, Busy, NEW p, NEW v, Holds(ck, p, v)
    PROVE  p \in Nat /\ p + 1 <= Len(Chunk) /\ Bit(p) = v /\ Chunk[p + 1] = v
<1>1. ck \in 1 .. Len(chunks) /\ Len(Chunk) \in Nat
  BY DecFacts
<1>2. Stream(ck) = Chunk
  BY <1>1 DEF Stream, Chunk
<1>3. p \in Nat /\ p < Len(Chunk) /\ Chunk[p + 1] = v
  BY <1>2 DEF Holds
<1> QED
  BY <1>1, <1>3 DEF Bit

\* The exponent the decoder knows selects the planes the encoder coded.
LEMMA WantedCoded ==
    ASSUME EncInv, NEW b \in Blocks, NEW bp \in Planes
    PROVE  /\ Wanted(bp, CodedExponent(b)) <=> Wanted(bp, emax[b])
           /\ CodedExponent(b) \in Int
<1>1. TolExp \in Int /\ Prec \in Nat /\ bp \in Int /\ bp <= Prec - 1
  BY TileAssumption DEF Planes
<1>2. emax[b] \in Int
  BY TileAssumption, EMaxFacts DEF EncInv, DataOK
<1> QED
  BY <1>1, <1>2 DEF CodedExponent, Significant, Wanted, Depth

\* What ReadEMax finds where WriteEMax wrote.
LEMMA HeadReads ==
    ASSUME ExponentsFit, EncInv, DecInv, DecodedOK, DecompressTile_Block,
           NEW e, Placed(e), NEW f, Follows(e, f), With(e) \/ Behind(e)
    PROVE  /\ dpc' # "outside"
           /\ demax' = [demax EXCEPT ![db] = CodedExponent(db)]
           /\ dcall' = HeadEntry(dns[db], dcall.fill + Len(EMaxOf(e)), {})
           /\ dpc' = IF WantedAt(e) THEN "decode" ELSE "turn"
<1>1. /\ dpc = "block" /\ Busy /\ db \in Blocks /\ dbp \in Planes
      /\ dcall.fill \in Nat /\ Chunk \in Seq({0, 1}) /\ Len(Chunk) \in Nat
      /\ dns[db] \in 0 .. NC
  <2>1. dpc = "block" /\ Busy
    BY DEF DecompressTile_Block, Busy
  <2> QED
    BY <2>1, DecFacts
<1>2. e.pc = "block" /\ e.bp = dbp /\ e.b = db
  BY <1>1 DEF With, Behind
<1>3. emax[db] \in Exponents /\ ExpBits \in Nat /\ ExpBits >= 1 /\ ExpBias \in Int
      /\ Prec \in Nat
  BY <1>2, PlaceFacts, TileAssumption
<1>4. PICK w : w = EMaxOf(e)
  OBVIOUS
<1>5. \A i \in 1 .. Len(w) : Holds(e.ck, e.call.fill + (i - 1), w[i])
  BY <1>2, <1>4 DEF Follows, Written
<1>6. got[db][dbp] = {}
  <2>1. ~ Passed(dbp, db)
    BY <1>1 DEF Passed, Planes, Blocks
  <2> QED
    BY <1>1, <2>1 DEF DecodedOK
<1>7. CASE dbp # Prec - 1
  <2>1. dpc' # "outside"
    BY <1>7 DEF DecompressTile_Block
  <2>2. PICK len \in Nat, v \in Int :
           /\ len = 0 /\ v = demax[db]
           /\ demax' = [demax EXCEPT ![db] = v]
           /\ dcall' = HeadEntry(dns[db], dcall.fill + len, got[db][dbp])
           /\ dpc' = IF Wanted(dbp, v) THEN "decode" ELSE "turn"
    BY <1>7, <2>1, HeadFacts
  <2>3. demax[db] = CodedExponent(db)
    <3>1. Passed(Prec - 1, db)
      BY <1>1, <1>3, <1>7 DEF Passed, Planes
    <3> QED
      BY <1>1, <3>1 DEF DecodedOK
  <2>4. len = Len(EMaxOf(e))
    BY <1>2, <1>7, <2>2 DEF EMaxOf
  <2>5. Wanted(dbp, v) <=> WantedAt(e)
    BY <1>1, <1>2, <2>2, <2>3, WantedCoded DEF WantedAt
  <2> QED
    BY <1>6, <2>1, <2>2, <2>3, <2>4, <2>5
<1>8. CASE dbp = Prec - 1
  <2>1. /\ With(e) /\ e.ck = ck /\ e.call.fill = dcall.fill
    <3>1. ~ Behind(e)
      BY <1>3, <1>8 DEF Behind
    <3> QED
      BY <1>1, <3>1 DEF With
  <2>2. w = WriteEMax(emax[db])
    BY <1>2, <1>4, <1>8 DEF EMaxOf
  <2>3. /\ w \in Seq({0, 1}) /\ emax[db] \in Int
        /\ Len(w) = IF Significant(emax[db]) THEN 1 + ExpBits ELSE 1
        /\ w[1] = IF Significant(emax[db]) THEN 1 ELSE 0
        /\ Significant(emax[db]) => \A i \in 1 .. ExpBits :
              w[1 + i] = BitsOf(emax[db] + ExpBias)[i]
    BY <1>3, <2>2, EMaxFacts
  <2>4. \A i \in 1 .. Len(w) : Holds(ck, dcall.fill + (i - 1), w[i])
    BY <1>5, <2>1
  <2>5. \A i \in 1 .. Len(w) : /\ (dcall.fill + (i - 1)) + 1 <= Len(Chunk)
                              /\ Chunk[(dcall.fill + (i - 1)) + 1] = w[i]
    BY <1>1, <2>4, Readable
  <2>6. Bit(dcall.fill) = w[1] /\ Has(dcall.fill, 1)
    <3>1. 1 \in 1 .. Len(w) /\ (dcall.fill + (1 - 1)) + 1 = dcall.fill + 1
      BY <1>1, <1>3, <2>3
    <3> QED
      BY <2>5, <3>1 DEF Bit, Has
  <2>7. CASE Significant(emax[db])
    <3>1. Len(w) = 1 + ExpBits /\ Bit(dcall.fill) = 1
      BY <2>3, <2>6, <2>7
    <3>2. Has(dcall.fill, 1 + ExpBits)
      <4>1. 1 + ExpBits \in 1 .. Len(w)
            /\ (dcall.fill + ((1 + ExpBits) - 1)) + 1 = dcall.fill + (1 + ExpBits)
        BY <1>1, <1>3, <3>1
      <4> QED
        BY <2>5, <4>1 DEF Has
    <3>3. dpc' # "outside"
      BY <2>6, <3>1, <3>2 DEF DecompressTile_Block
    <3>4. PICK len \in Nat, v \in Int :
             /\ len = 1 + ExpBits /\ v = ValueAt(Chunk, dcall.fill + 1) - ExpBias
             /\ demax' = [demax EXCEPT ![db] = v]
             /\ dcall' = HeadEntry(dns[db], dcall.fill + len, got[db][dbp])
             /\ dpc' = IF Wanted(dbp, v) THEN "decode" ELSE "turn"
      BY <1>8, <3>1, <3>3, HeadFacts
    <3>5. emax[db] + ExpBias \in Values
      <4>1. emax[db] >= TolExp - 1 /\ TolExp \in Int
        BY <2>3, <2>7, TileAssumption DEF Significant, Depth
      <4>4. emax[db] >= MinExp /\ emax[db] \in Int /\ MinExp \in Int
        <5>1. MinExp \in Int /\ emax[db] \in Int
          BY <2>3, TileAssumption
        <5> QED
          BY <1>3, <5>1 DEF Exponents
      <4>2. emax[db] + ExpBias <= 2 ^ ExpBits - 1 /\ 2 ^ ExpBits \in Nat
        BY <1>3, <2>3, PowNat, TileAssumption DEF Exponents
      <4> QED
        <5>1. emax[db] + ExpBias >= 0
          BY <1>3, <4>1, <4>4 DEF ExponentsFit
        <5> QED
          BY <1>3, <4>2, <4>4, <5>1 DEF Values
    <3>6. ValueAt(Chunk, dcall.fill + 1) = emax[db] + ExpBias
      <4>1. (dcall.fill + 1) + ExpBits <= Len(Chunk) /\ dcall.fill + 1 \in Nat
        BY <1>1, <1>3, <3>2 DEF Has
      <4>2. ASSUME NEW i \in 1 .. ExpBits
            PROVE  Chunk[(dcall.fill + 1) + i] = BitsOf(emax[db] + ExpBias)[i]
        <5>1. 1 + i \in 1 .. Len(w)
              /\ (dcall.fill + ((1 + i) - 1)) + 1 = (dcall.fill + 1) + i
          BY <1>1, <1>3, <3>1
        <5>2. Chunk[(dcall.fill + 1) + i] = w[1 + i]
          BY <2>5, <5>1
        <5> QED
          BY <2>3, <2>7, <5>2
      <4> QED
        BY <1>1, <3>5, <4>1, <4>2, ValueRead
    <3>7. v = CodedExponent(db)
      BY <1>3, <2>3, <2>7, <3>4, <3>6 DEF CodedExponent
    <3>8. Wanted(dbp, v) <=> WantedAt(e)
      BY <1>1, <1>2, <3>7, WantedCoded DEF WantedAt
    <3>9. len = Len(EMaxOf(e))
      BY <1>4, <3>1, <3>4
    <3> QED
      BY <1>6, <3>3, <3>4, <3>7, <3>8, <3>9
  <2>8. CASE ~ Significant(emax[db])
    <3>1. Len(w) = 1 /\ Bit(dcall.fill) # 1
      BY <2>3, <2>6, <2>8
    <3>2. dpc' # "outside"
      BY <2>6, <3>1 DEF DecompressTile_Block
    <3>3. PICK len \in Nat, v \in Int :
             /\ len = 1 /\ v = TolExp - 2
             /\ demax' = [demax EXCEPT ![db] = v]
             /\ dcall' = HeadEntry(dns[db], dcall.fill + len, got[db][dbp])
             /\ dpc' = IF Wanted(dbp, v) THEN "decode" ELSE "turn"
      BY <1>8, <3>1, <3>2, HeadFacts
    <3>4. v = CodedExponent(db)
      BY <2>8, <3>3 DEF CodedExponent
    <3>5. Wanted(dbp, v) <=> WantedAt(e)
      BY <1>1, <1>2, <3>4, WantedCoded DEF WantedAt
    <3>6. len = Len(EMaxOf(e))
      BY <1>4, <3>1, <3>3
    <3> QED
      BY <1>6, <3>2, <3>3, <3>4, <3>5, <3>6
  <2> QED
    BY <2>7, <2>8
<1> QED
  BY <1>7, <1>8

\* Encode and Decode start a plane in step.
LEMMA EntryStep ==
    ASSUME NEW pl, pl \subseteq Coefs, NEW n \in 0 .. NC, NEW fill \in Nat
    PROVE  InStep(pl, Entry(n, fill), HeadEntry(n, fill, {}))
<1>1. PICK d : d = HeadEntry(n, fill, {})
  OBVIOUS
<1>2. /\ d.n = n /\ d.m = 0 /\ d.p = 0 /\ d.in = 0 /\ d.lb = 1
      /\ d.ci = 0 /\ d.fill = fill /\ d.x = {} /\ d.block = {} /\ d.pc = "call"
      /\ Cursor(d) = 0
      /\ d = [pc |-> d.pc, n |-> d.n, m |-> d.m, p |-> d.p, in |-> d.in,
              lb |-> d.lb, ci |-> d.ci, fill |-> d.fill, x |-> d.x, block |-> d.block]
  BY <1>1, DecEntryFacts
<1>3. \A i \in pl : i \in Nat
  BY NCAssumption DEF Coefs
<1>4. Common(d) = Entry(n, fill)
  BY <1>2 DEF Common, Entry
<1>5. d.block = {i \in pl : i < d.m} /\ d.x = {i \in pl : d.m <= i /\ i < Cursor(d)}
  BY <1>2, <1>3
<1> QED
  BY <1>1, <1>2, <1>4, <1>5 DEF InStep

\* The fields of what follows the head of a block.
LEMMA AfterBlockFacts ==
    ASSUME EncInv, NEW e, Placed(e), e.pc = "block", NEW f, Follows(e, f)
    PROVE  /\ f.pc = IF WantedAt(e) THEN "encode" ELSE "turn"
           /\ f.bp = e.bp /\ f.b = e.b /\ f.ns = e.ns /\ f.ck = e.ck
           /\ f.call = Entry(e.ns[e.b], e.call.fill + Len(EMaxOf(e)))
           /\ Len(EMaxOf(e)) \in Nat /\ (e.bp # Prec - 1 => Len(EMaxOf(e)) = 0)
           /\ PlaneOf(f) = PlaneOf(e) /\ WantedAt(f) = WantedAt(e)
<1>1. e = [pc |-> e.pc, bp |-> e.bp, b |-> e.b, ns |-> e.ns, call |-> e.call, ck |-> e.ck]
      /\ emax[e.b] \in Exponents
  BY PlaceFacts
<1>2. PICK c, pc : /\ c = Entry(e.ns[e.b], e.call.fill + Len(EMaxOf(e)))
                   /\ pc = IF WantedAt(e) THEN "encode" ELSE "turn"
  OBVIOUS
<1>3. f = [e EXCEPT !.call = c, !.pc = pc]
  BY <1>2 DEF Follows, After, AfterBlock
<1>4. /\ f.pc = pc /\ f.bp = e.bp /\ f.b = e.b /\ f.ns = e.ns /\ f.ck = e.ck
      /\ f.call = c
  BY <1>1, <1>3
<1>5. Len(EMaxOf(e)) \in Nat /\ (e.bp # Prec - 1 => Len(EMaxOf(e)) = 0)
  <2>1. WriteEMax(emax[e.b]) \in Seq({0, 1})
    BY <1>1, EMaxFacts
  <2> QED
    BY <2>1 DEF EMaxOf
<1> QED
  BY <1>2, <1>4, <1>5 DEF PlaneOf, WantedAt

\* At the head of a block the decoder goes where the encoder went.
LEMMA HeadTracks ==
    ASSUME ExponentsFit, EncInv, DecInv, DecodedOK, DecompressTile_Block,
           NEW e, Placed(e), NEW f, Follows(e, f), With(e) \/ Behind(e)
    PROVE  With(f)' \/ Behind(f)'
<1>1. /\ dpc = "block" /\ UNCHANGED <<data, encVars, dbp, db, dns, ck>>
      /\ planes' = planes /\ emax' = emax /\ S' = S
  BY DEF DecompressTile_Block, data
<1>2. e.pc = "block" /\ e.bp = dbp /\ e.b = db /\ e.ns = dns
  BY <1>1 DEF With, Behind
<1>3. /\ f.pc = (IF WantedAt(e) THEN "encode" ELSE "turn")
      /\ f.bp = e.bp /\ f.b = e.b /\ f.ns = e.ns /\ f.ck = e.ck
      /\ f.call = Entry(e.ns[e.b], e.call.fill + Len(EMaxOf(e)))
      /\ Len(EMaxOf(e)) \in Nat /\ (e.bp # Prec - 1 => Len(EMaxOf(e)) = 0)
      /\ PlaneOf(f) = PlaneOf(e) /\ WantedAt(f) = WantedAt(e)
  BY <1>2, AfterBlockFacts
<1>4. /\ dcall' = HeadEntry(dns[db], dcall.fill + Len(EMaxOf(e)), {})
      /\ dpc' = (IF WantedAt(e) THEN "decode" ELSE "turn")
  BY HeadReads
<1>5. /\ PlaneOf(e) \subseteq Coefs /\ dns[db] \in 0 .. NC /\ dcall.fill \in Nat
      /\ S \in Nat /\ Prec \in Nat /\ NC \in Nat
  BY PlaceFacts, DecFacts, TileAssumption DEF Context
<1>6. CASE With(e)
  <2>1. e.ck = ck /\ e.call.fill = dcall.fill
    BY <1>1, <1>6 DEF With
  <2>2. InStep(PlaneOf(f), f.call, dcall')
    <3>1. PICK k \in Nat : k = dcall.fill + Len(EMaxOf(e))
      BY <1>3, <1>5
    <3>2. f.call = Entry(dns[db], k) /\ dcall' = HeadEntry(dns[db], k, {})
      BY <1>2, <1>3, <1>4, <2>1, <3>1
    <3> QED
      BY <1>3, <1>5, <3>2, EntryStep
  <2>3. InStep(PlaneOf(f), f.call, dcall)'
    BY <1>1, <2>2 DEF PlaneOf
  <2>4. With(f)'
    BY <1>1, <1>2, <1>3, <1>4, <2>1, <2>3 DEF With
  <2> QED
    BY <2>4
<1>7. CASE Behind(e)
  <2>1. e.ck = ck + 1 /\ e.call.fill = 0 /\ dcall.fill = S /\ dbp < Prec - 1
        /\ Len(EMaxOf(e)) = 0
    BY <1>2, <1>3, <1>5, <1>7 DEF Behind
  <2>2. f.call = Entry(dns[db], 0) /\ dcall' = HeadEntry(dns[db], S, {})
    BY <1>2, <1>3, <1>4, <1>5, <2>1
  <2>3. PICK d : d = dcall'
    OBVIOUS
  <2>4. /\ d.n = dns[db] /\ d.m = 0 /\ d.p = 0 /\ d.in = 0 /\ d.lb = 1
        /\ d.ci = 0 /\ d.fill = S /\ d.x = {} /\ d.block = {} /\ d.pc = "call"
        /\ d = [pc |-> d.pc, n |-> d.n, m |-> d.m, p |-> d.p, in |-> d.in,
                lb |-> d.lb, ci |-> d.ci, fill |-> d.fill, x |-> d.x, block |-> d.block]
    BY <1>5, <2>2, <2>3, DecEntryFacts
  <2>5. d = [DecEntry(dns[db], S) EXCEPT !.pc = d.pc]
    BY <2>4 DEF DecEntry
  <2>6. f.call.fill = 0
    BY <1>5, <2>2, EntryFacts
  <2>7. WantedAt(f)' <=> WantedAt(e)
    BY <1>1, <1>3 DEF WantedAt
  <2>8. Behind(f)'
    BY <1>1, <1>2, <1>3, <1>4, <2>1, <2>2, <2>3, <2>4, <2>5, <2>6, <2>7 DEF Behind
  <2> QED
    BY <2>8
<1> QED
  BY <1>6, <1>7

\* The bits a piece of Encode wrote are what the same piece of Decode reads.
LEMMA PieceReads ==
    ASSUME EncInv, DecInv, DecodePiece, NEW e, Placed(e), NEW f, Follows(e, f), With(e),
           NEW d, d = dcall
    PROVE  /\ dpc' # "outside"
           /\ d.pc = "call" => \A i \in 0 .. Refinement(S, d) - 1 :
                 Bit(d.fill + i) = IF d.m + i \in PlaneOf(e) THEN 1 ELSE 0
           /\ d.pc = "group" /\ AtGroupBit(S, d) => Bit(d.fill) = GroupBit(PlaneOf(e), e.call)
           /\ d.pc = "inner" /\ AtCoefBit(S, d) => Bit(d.fill) = CoefBit(PlaneOf(e), e.call)
<1>1. /\ dpc = "decode" /\ Busy /\ e.pc = "encode" /\ e.ck = ck
      /\ InStep(PlaneOf(e), e.call, d)
  BY DEF DecodePiece, With, Busy
<1>2. Context(PlaneOf(e), S) /\ GoodCall(PlaneOf(e), S, e.call)
  BY <1>1, PlaceFacts DEF Placed
<1>3. /\ e.call.pc = d.pc /\ e.call.fill = d.fill /\ e.call.n = d.n /\ e.call.m = d.m
      /\ e.call.fill \in Nat /\ S \in Nat
      /\ Refinement(S, d) = Refinement(S, e.call) /\ Refinement(S, d) \in Nat
  BY <1>1, <1>2, StepFacts
<1>4. /\ AtGroupBit(S, d) <=> AtGroupBit(S, e.call)
      /\ AtCoefBit(S, d) <=> AtCoefBit(S, e.call)
  BY <1>3 DEF AtGroupBit, AtCoefBit, Room
<1>5. PICK w : w = PieceBits(PlaneOf(e), e.call)
  OBVIOUS
<1>6. \A i \in 1 .. Len(w) : Holds(ck, d.fill + (i - 1), w[i])
  BY <1>1, <1>3, <1>5 DEF Follows, Written
<1>7. \A i \in 1 .. Len(w) : /\ (d.fill + (i - 1)) + 1 <= Len(Chunk)
                            /\ Bit(d.fill + (i - 1)) = w[i]
  BY <1>1, <1>6, Readable
<1>8. Len(Chunk) \in Nat /\ d.fill <= Len(Chunk)
  BY <1>1, DecFacts
<1>9. dpc' = "outside" => Strays
  BY DEF DecodePiece
<1>10. CASE d.pc = "call"
  <2>1. PICK r \in Nat : r = Refinement(S, d)
    BY <1>3
  <2>2. w = [j \in 1 .. r |-> IF d.m + j - 1 \in PlaneOf(e) THEN 1 ELSE 0]
    BY <1>3, <1>5, <1>10, <2>1 DEF PieceBits, PlaneBits
  <2>3. w \in Seq({0, 1}) /\ Len(w) = r
    BY <2>2
  <2>4. \A i \in 0 .. r - 1 : Bit(d.fill + i) = IF d.m + i \in PlaneOf(e) THEN 1 ELSE 0
    <3> SUFFICES ASSUME NEW i \in 0 .. r - 1
                 PROVE  Bit(d.fill + i) = IF d.m + i \in PlaneOf(e) THEN 1 ELSE 0
      OBVIOUS
    <3>1. d.m \in Nat
      BY <1>1, <1>2, StepFacts
    <3>2. i + 1 \in 1 .. r /\ d.fill + ((i + 1) - 1) = d.fill + i /\ d.m + (i + 1) - 1 = d.m + i
      BY <1>3, <3>1
    <3>3. w[i + 1] = IF d.m + i \in PlaneOf(e) THEN 1 ELSE 0
      BY <2>2, <3>2
    <3> QED
      BY <1>7, <2>3, <3>2, <3>3
  <2>5. Has(d.fill, Refinement(S, d))
    <3>1. CASE r = 0
      BY <1>3, <1>8, <2>1, <3>1 DEF Has
    <3>2. CASE r # 0
      <4>1. r \in 1 .. Len(w) /\ (d.fill + (r - 1)) + 1 = d.fill + r
        BY <1>3, <2>3, <3>2
      <4>2. (d.fill + (r - 1)) + 1 <= Len(Chunk)
        BY <1>7, <4>1
      <4> QED
        BY <2>1, <4>1, <4>2 DEF Has
    <3> QED
      BY <3>1, <3>2
  <2>6. ~ Strays
    BY <1>10, <2>5 DEF Strays
  <2> QED
    BY <1>9, <1>10, <2>1, <2>4, <2>6
<1>11. CASE d.pc = "group"
  <2>1. AtGroupBit(S, d) => Bit(d.fill) = GroupBit(PlaneOf(e), e.call) /\ Has(d.fill, 1)
    <3> SUFFICES ASSUME AtGroupBit(S, d)
                 PROVE  Bit(d.fill) = GroupBit(PlaneOf(e), e.call) /\ Has(d.fill, 1)
      OBVIOUS
    <3>1. w = <<GroupBit(PlaneOf(e), e.call)>>
      BY <1>3, <1>4, <1>5, <1>11 DEF PieceBits
    <3>2. 1 \in 1 .. Len(w) /\ w[1] = GroupBit(PlaneOf(e), e.call)
          /\ d.fill + (1 - 1) = d.fill
      BY <1>3, <3>1
    <3> QED
      BY <1>7, <3>2 DEF Has
  <2>2. ~ Strays
    BY <1>11, <2>1 DEF Strays
  <2> QED
    BY <1>9, <1>11, <2>1, <2>2
<1>12. CASE d.pc = "inner"
  <2>1. AtCoefBit(S, d) => Bit(d.fill) = CoefBit(PlaneOf(e), e.call) /\ Has(d.fill, 1)
    <3> SUFFICES ASSUME AtCoefBit(S, d)
                 PROVE  Bit(d.fill) = CoefBit(PlaneOf(e), e.call) /\ Has(d.fill, 1)
      OBVIOUS
    <3>1. w = <<CoefBit(PlaneOf(e), e.call)>>
      BY <1>3, <1>4, <1>5, <1>12 DEF PieceBits
    <3>2. 1 \in 1 .. Len(w) /\ w[1] = CoefBit(PlaneOf(e), e.call)
          /\ d.fill + (1 - 1) = d.fill
      BY <1>3, <3>1
    <3> QED
      BY <1>7, <3>2 DEF Has
  <2>2. ~ Strays
    BY <1>12, <2>1 DEF Strays
  <2> QED
    BY <1>9, <1>12, <2>1, <2>2
<1>13. CASE d.pc \notin {"call", "group", "inner"}
  <2>1. ~ Strays
    BY <1>13 DEF Strays
  <2> QED
    BY <1>9, <1>13, <2>1
<1> QED
  BY <1>10, <1>11, <1>12, <1>13

\* The fields of what follows a piece of Encode.
LEMMA AfterPieceFacts ==
    ASSUME EncInv, NEW e, Placed(e), e.pc = "encode", NEW f, Follows(e, f)
    PROVE  /\ f.call = Piece(PlaneOf(e), e.call)
           /\ f.pc = IF f.call.pc = "return" THEN "turn" ELSE "encode"
           /\ f.bp = e.bp /\ f.b = e.b /\ f.ns = e.ns /\ f.ck = e.ck
           /\ PlaneOf(f) = PlaneOf(e)
<1>1. e = [pc |-> e.pc, bp |-> e.bp, b |-> e.b, ns |-> e.ns, call |-> e.call, ck |-> e.ck]
  BY PlaceFacts
<1>2. PICK c, pc : /\ c = Piece(PlaneOf(e), e.call)
                   /\ pc = IF c.pc = "return" THEN "turn" ELSE "encode"
  OBVIOUS
<1>3. f = [e EXCEPT !.call = c, !.pc = pc]
  BY <1>2 DEF Follows, After, AfterPiece
<1>4. /\ f.pc = pc /\ f.bp = e.bp /\ f.b = e.b /\ f.ns = e.ns /\ f.ck = e.ck
      /\ f.call = c
  BY <1>1, <1>3
<1> QED
  BY <1>2, <1>4 DEF PlaneOf

\* Piece by piece, Decode goes where Encode went.
LEMMA PieceTracks ==
    ASSUME EncInv, DecInv, DecodePiece, NEW e, Placed(e), NEW f, Follows(e, f), With(e)
    PROVE  dpc' # "outside" /\ With(f)' /\ dcall'.block = dcall.block
<1>1. /\ dpc = "decode" /\ Busy /\ e.pc = "encode" /\ e.ck = ck /\ e.bp = dbp /\ e.b = db
      /\ e.ns = dns /\ InStep(PlaneOf(e), e.call, dcall)
      /\ UNCHANGED <<data, encVars, dbp, db, dns, ck>> /\ planes' = planes
  BY DEF DecodePiece, With, Busy, data
<1>2. Context(PlaneOf(e), S) /\ GoodCall(PlaneOf(e), S, e.call) /\ S \in Nat
  BY <1>1, PlaceFacts DEF Placed
<1>3. PICK d, g, pl : d = dcall /\ g = dcall' /\ pl = PlaneOf(e)
  OBVIOUS
<1>4. /\ e.call.pc = d.pc /\ e.call.fill = d.fill /\ e.call.n = d.n /\ e.call.m = d.m
      /\ Refinement(S, d) = Refinement(S, e.call)
  BY <1>1, <1>2, <1>3, StepFacts
<1>5. /\ f.call = Piece(pl, e.call)
      /\ f.pc = (IF f.call.pc = "return" THEN "turn" ELSE "encode")
      /\ f.bp = e.bp /\ f.b = e.b /\ f.ns = e.ns /\ f.ck = e.ck
      /\ PlaneOf(f) = pl
  BY <1>1, <1>3, AfterPieceFacts
<1>6. /\ dpc' # "outside"
      /\ d.pc = "call" => \A i \in 0 .. Refinement(S, d) - 1 :
            Bit(d.fill + i) = IF d.m + i \in pl THEN 1 ELSE 0
      /\ d.pc = "group" /\ AtGroupBit(S, d) => Bit(d.fill) = GroupBit(pl, e.call)
      /\ d.pc = "inner" /\ AtCoefBit(S, d) => Bit(d.fill) = CoefBit(pl, e.call)
  BY <1>3, PieceReads
<1>7. /\ dpc' = IF g.pc = "return" THEN "turn" ELSE "decode"
      /\ \/ /\ d.pc = "call"
            /\ \E ones \in SUBSET (0 .. Refinement(S, d) - 1) :
                  /\ \A i \in 0 .. Refinement(S, d) - 1 :
                        i \in ones <=> Bit(d.fill + i) = 1
                  /\ g = DecCall(S, d, ones)
         \/ /\ d.pc = "group"
            /\ \E bit \in {0, 1} : /\ AtGroupBit(S, d) => bit = Bit(d.fill)
                                   /\ g = DecGroup(S, d, bit)
         \/ /\ d.pc = "inner"
            /\ \E bit \in {0, 1} : /\ AtCoefBit(S, d) => bit = Bit(d.fill)
                                   /\ g = DecInner(S, d, bit)
         \/ d.pc = "after" /\ g = DecAfter(S, d)
  BY <1>3, <1>6, ReadFacts
<1>8. Shape(S, d) /\ d \in DecStates
  BY <1>1, <1>3 DEF DecInv
<1>9. InStep(pl, f.call, g) /\ g.block = d.block
  <2>1. CASE d.pc = "call"
    <3>1. PICK ones \in SUBSET (0 .. Refinement(S, d) - 1) :
             /\ \A i \in 0 .. Refinement(S, d) - 1 : i \in ones <=> Bit(d.fill + i) = 1
             /\ g = DecCall(S, d, ones)
      BY <1>7, <2>1
    <3>2. \A i \in 0 .. Refinement(S, e.call) - 1 : i \in ones <=> e.call.m + i \in pl
      BY <1>4, <1>6, <2>1, <3>1
    <3>3. ones \subseteq 0 .. Refinement(S, e.call) - 1
      BY <1>4
    <3>4. InStep(pl, EncCall(S, e.call), g)
      BY <1>1, <1>2, <1>3, <1>4, <2>1, <3>1, <3>2, <3>3, CallStep
    <3>5. f.call = EncCall(S, e.call)
      BY <1>4, <1>5, <2>1 DEF Piece
    <3>6. g.block = d.block
      BY <1>2, <1>8, <2>1, <3>1, CallShape
    <3> QED
      BY <3>4, <3>5, <3>6
  <2>2. CASE d.pc = "group"
    <3>1. PICK bit \in {0, 1} : /\ AtGroupBit(S, d) => bit = Bit(d.fill)
                                /\ g = DecGroup(S, d, bit)
      BY <1>7, <2>2
    <3>2. AtGroupBit(S, e.call) => bit = GroupBit(pl, e.call)
      BY <1>4, <1>6, <2>2, <3>1 DEF AtGroupBit, Room
    <3>3. InStep(pl, EncGroup(pl, S, e.call), g)
      BY <1>1, <1>2, <1>3, <1>4, <2>2, <3>1, <3>2, GroupStep
    <3>4. f.call = EncGroup(pl, S, e.call)
      BY <1>4, <1>5, <2>2 DEF Piece
    <3>5. g.block = d.block
      BY <1>2, <1>8, <2>2, <3>1, GroupShape
    <3> QED
      BY <3>3, <3>4, <3>5
  <2>3. CASE d.pc = "inner"
    <3>1. PICK bit \in {0, 1} : /\ AtCoefBit(S, d) => bit = Bit(d.fill)
                                /\ g = DecInner(S, d, bit)
      BY <1>7, <2>3
    <3>2. AtCoefBit(S, e.call) => bit = CoefBit(pl, e.call)
      BY <1>4, <1>6, <2>3, <3>1 DEF AtCoefBit, Room
    <3>3. InStep(pl, EncInner(pl, S, e.call), g)
      BY <1>1, <1>2, <1>3, <1>4, <2>3, <3>1, <3>2, InnerStep
    <3>4. f.call = EncInner(pl, S, e.call)
      BY <1>4, <1>5, <2>3 DEF Piece
    <3>5. g.block = d.block
      BY <1>2, <1>8, <2>3, <3>1, InnerShape
    <3> QED
      BY <3>3, <3>4, <3>5
  <2>4. CASE d.pc = "after"
    <3>1. InStep(pl, EncAfter(S, e.call), g)
      BY <1>1, <1>2, <1>3, <1>4, <1>7, <2>4, AfterStep
    <3>2. f.call = EncAfter(S, e.call)
      BY <1>4, <1>5, <2>4 DEF Piece
    <3>3. g.block = d.block
      BY <1>2, <1>7, <1>8, <2>4, AfterShape
    <3> QED
      BY <3>1, <3>2, <3>3
  <2> QED
    BY <1>7, <2>1, <2>2, <2>3, <2>4
<1>10. f.call.pc = g.pc
  BY <1>9 DEF InStep, Common
<1>11. InStep(PlaneOf(f), f.call, dcall)'
  BY <1>1, <1>3, <1>5, <1>9 DEF PlaneOf
<1>12. With(f)'
  BY <1>1, <1>3, <1>5, <1>7, <1>10, <1>11 DEF With
<1> QED
  BY <1>3, <1>6, <1>9, <1>12

\* A decoder at the end of a chunk: the call reads nothing and returns.
LEMMA BehindPiece ==
    ASSUME EncInv, DecInv, DecodePiece, NEW e, Placed(e), Behind(e)
    PROVE  dpc' # "outside" /\ Behind(e)' /\ dcall'.block = dcall.block
<1>1. /\ dpc = "decode" /\ Busy /\ e.ck = ck + 1 /\ e.bp = dbp /\ e.b = db /\ e.ns = dns
      /\ e.call.fill = 0 /\ dbp < Prec - 1 /\ e.call = Entry(dns[db], 0)
      /\ e.pc = (IF WantedAt(e) THEN "encode" ELSE "turn") /\ WantedAt(e)
      /\ UNCHANGED <<data, encVars, dbp, db, dns, ck>>
      /\ planes' = planes /\ emax' = emax /\ S' = S
  BY DEF DecodePiece, Behind, Busy, data
<1>2. PICK d, g, n : d = dcall /\ g = dcall' /\ n = dns[db]
  OBVIOUS
<1>3. d = [DecEntry(n, S) EXCEPT !.pc = d.pc] /\ d.pc \in {"call", "group"}
  BY <1>1, <1>2 DEF Behind
<1>4. /\ d = [pc |-> d.pc, n |-> n, m |-> 0, p |-> 0, in |-> 0, lb |-> 1, ci |-> 0,
              fill |-> S, x |-> {}, block |-> {}]
      /\ d.n = n /\ d.m = 0 /\ d.p = 0 /\ d.in = 0 /\ d.lb = 1 /\ d.fill = S
      /\ d.x = {} /\ d.block = {} /\ d.ci = 0
  BY <1>3 DEF DecEntry
<1>5. /\ n \in 0 .. NC /\ S \in Nat /\ Len(Chunk) \in Nat /\ S <= Len(Chunk)
      /\ NC \in Nat
  <2>1. /\ S \in Nat /\ Len(Chunk) \in Nat /\ d.fill <= Len(Chunk)
        /\ dns[db] \in 0 .. NC /\ NC \in Nat
    BY <1>1, <1>2, DecFacts
  <2> QED
    BY <1>2, <1>4, <2>1
<1>6. Refinement(S, d) = 0
  BY <1>4, <1>5 DEF Refinement, Lesser
<1>7. ~ AtGroupBit(S, d)
  BY <1>4, <1>5 DEF AtGroupBit, Room
<1>8. ~ Strays
  BY <1>2, <1>3, <1>4, <1>5, <1>6, <1>7 DEF Strays, Has
<1>9. dpc' # "outside"
  BY <1>8 DEF DecodePiece
<1>10. /\ dpc' = IF g.pc = "return" THEN "turn" ELSE "decode"
       /\ \/ /\ d.pc = "call"
             /\ \E ones \in SUBSET (0 .. Refinement(S, d) - 1) : g = DecCall(S, d, ones)
          \/ /\ d.pc = "group" /\ \E bit \in {0, 1} : g = DecGroup(S, d, bit)
  <2>1. /\ dpc' = IF g.pc = "return" THEN "turn" ELSE "decode"
        /\ \/ /\ d.pc = "call"
              /\ \E ones \in SUBSET (0 .. Refinement(S, d) - 1) : g = DecCall(S, d, ones)
           \/ /\ d.pc = "group" /\ \E bit \in {0, 1} : g = DecGroup(S, d, bit)
           \/ d.pc = "inner" \/ d.pc = "after"
    BY <1>2, <1>9, ReadFacts
  <2> QED
    BY <1>3, <2>1
<1>11. /\ g = [pc |-> g.pc, n |-> n, m |-> 0, p |-> 0, in |-> 0, lb |-> 1, ci |-> 0,
               fill |-> S, x |-> {}, block |-> {}]
       /\ g.pc = (IF d.pc = "call" THEN "group" ELSE "return")
       /\ g.fill = S /\ g.block = {}
  <2>1. CASE d.pc = "call"
    <3>1. PICK ones \in SUBSET (0 .. 0 - 1) : g = DecCall(S, d, ones)
      BY <1>6, <1>10, <2>1
    <3>2. PICK r, o, q, k : /\ r = Refinement(S, d) /\ o = {d.m + i : i \in ones}
                            /\ q = (IF d.in = 1 THEN "inner" ELSE "group")
                            /\ k = d.fill + r
      OBVIOUS
    <3>3. g = [d EXCEPT !.p = r, !.fill = k, !.x = o, !.lb = 1, !.pc = q]
      BY <1>4, <3>1, <3>2 DEF DecCall
    <3>4. o = {}
      BY <3>1, <3>2
    <3>5. r = 0 /\ k = S /\ q = "group"
      BY <1>4, <1>5, <1>6, <3>2
    <3> QED
      BY <1>4, <2>1, <3>3, <3>4, <3>5
  <2>2. CASE d.pc = "group"
    <3>1. g = [d EXCEPT !.pc = "return"]
      BY <1>7, <1>10, <2>2 DEF DecGroup, AtGroupBit
    <3> QED
      BY <1>4, <2>2, <3>1
  <2> QED
    BY <1>3, <2>1, <2>2
<1>12. g = [DecEntry(n, S) EXCEPT !.pc = g.pc]
  BY <1>11 DEF DecEntry
<1>13. dpc' = IF d.pc = "call" THEN "decode" ELSE "turn"
  BY <1>3, <1>10, <1>11
<1>14. WantedAt(e)' <=> WantedAt(e)
  BY <1>1 DEF WantedAt
<1>15. Behind(e)'
  BY <1>1, <1>2, <1>3, <1>11, <1>12, <1>13, <1>14 DEF Behind
<1> QED
  BY <1>2, <1>4, <1>9, <1>11, <1>15

\* The fields of what follows a turn of the do ... while.
LEMMA AfterTurnFacts ==
    ASSUME EncInv, NEW e, Placed(e), e.pc = "turn", NEW f, Follows(e, f)
    PROVE  /\ f.pc = (IF ~ FullAt(e) THEN "encode"
                      ELSE IF LastTurn(e) THEN "done" ELSE "block")
           /\ f.bp = IF GoesOn(e) THEN NextPlane(e.bp, e.b) ELSE e.bp
           /\ f.b = IF GoesOn(e) THEN NextBlock(e.b) ELSE e.b
           /\ f.ns = [e.ns EXCEPT ![e.b] = e.call.n]
           /\ f.ck = IF WritesAt(e) THEN e.ck + 1 ELSE e.ck
           /\ f.call = [e.call EXCEPT !.pc = "call", !.m = Cursor(e.call), !.p = 0,
                           !.fill = IF WritesAt(e) THEN 0 ELSE e.call.fill]
           /\ f.call.fill = IF WritesAt(e) THEN 0 ELSE e.call.fill
           /\ ~ GoesOn(e) => PlaneOf(f) = PlaneOf(e)
<1>1. f = AfterTurn(e)
  BY DEF Follows, After
<1>2. e.call \in CallState
  BY PlaceFacts
<1>3. /\ f.pc = (IF ~ FullAt(e) THEN "encode"
                 ELSE IF LastTurn(e) THEN "done" ELSE "block")
      /\ f.bp = IF GoesOn(e) THEN NextPlane(e.bp, e.b) ELSE e.bp
      /\ f.b = IF GoesOn(e) THEN NextBlock(e.b) ELSE e.b
      /\ f.ns = [e.ns EXCEPT ![e.b] = e.call.n]
      /\ f.ck = IF WritesAt(e) THEN e.ck + 1 ELSE e.ck
      /\ f.call = [e.call EXCEPT !.pc = "call", !.m = Cursor(e.call), !.p = 0,
                      !.fill = IF WritesAt(e) THEN 0 ELSE e.call.fill]
  BY <1>1 DEF AfterTurn
<1>4. f.call.fill = IF WritesAt(e) THEN 0 ELSE e.call.fill
  BY <1>2, <1>3 DEF CallState
<1> QED
  BY <1>3, <1>4 DEF PlaneOf

\* At the end of a turn the decoder wants what the encoder wanted.
LEMMA TurnWants ==
    ASSUME EncInv, DecInv, DecodedOK, DecompressTile_Turn, NEW e, Placed(e),
           With(e) \/ Behind(e)
    PROVE  /\ e.bp = dbp /\ e.b = db /\ e.ns = dns
           /\ Wants <=> WantedAt(e)
           /\ demax[db] = CodedExponent(db)
           /\ LastTurn(e) <=> dbp = 0 /\ LastBlock(db)
<1>1. dpc = "turn" /\ e.bp = dbp /\ e.b = db /\ e.ns = dns
  BY DEF DecompressTile_Turn, With, Behind
<1>2. dbp \in Planes /\ db \in Blocks
  BY DEF DecInv
<1>3. Passed(Prec - 1, db) \/ dbp = Prec - 1
  BY <1>2, TileAssumption DEF Passed, Planes
<1>4. demax[db] = CodedExponent(db)
  BY <1>1, <1>2, <1>3 DEF DecodedOK
<1>5. Wants <=> WantedAt(e)
  BY <1>1, <1>2, <1>4, WantedCoded DEF Wants, WantedAt
<1> QED
  BY <1>1, <1>4, <1>5 DEF LastTurn

\* A turn that starts together ends together, or leaves the decoder at the end
\* of a chunk that the encoder has closed, or ends the tile.
LEMMA TurnTracks ==
    ASSUME EncInv, DecInv, DecodedOK, DecompressTile_Turn, NEW e, Placed(e), Whole(e),
           NEW f, Follows(e, f), With(e), dpc' # "done"
    PROVE  With(f)' \/ Behind(f)'
<1>1. /\ dpc = "turn" /\ Busy /\ e.pc = "turn" /\ e.ck = ck
      /\ InStep(PlaneOf(e), e.call, dcall)
      /\ UNCHANGED <<data, encVars, nread, demax>>
      /\ planes' = planes /\ emax' = emax /\ S' = S
  BY DEF DecompressTile_Turn, With, Busy, data
<1>2. /\ e.bp = dbp /\ e.b = db /\ e.ns = dns
      /\ Wants <=> WantedAt(e)
      /\ LastTurn(e) <=> dbp = 0 /\ LastBlock(db)
  BY TurnWants
<1>3. PICK d, g, c, pl : d = dcall /\ g = dcall' /\ c = e.call /\ pl = PlaneOf(e)
  OBVIOUS
<1>4. /\ f.pc = (IF ~ FullAt(e) THEN "encode"
                 ELSE IF LastTurn(e) THEN "done" ELSE "block")
      /\ f.bp = IF GoesOn(e) THEN NextPlane(e.bp, e.b) ELSE e.bp
      /\ f.b = IF GoesOn(e) THEN NextBlock(e.b) ELSE e.b
      /\ f.ns = [e.ns EXCEPT ![e.b] = c.n]
      /\ f.ck = IF WritesAt(e) THEN e.ck + 1 ELSE e.ck
      /\ f.call = [c EXCEPT !.pc = "call", !.m = Cursor(c), !.p = 0,
                      !.fill = IF WritesAt(e) THEN 0 ELSE c.fill]
      /\ f.call.fill = IF WritesAt(e) THEN 0 ELSE c.fill
      /\ ~ GoesOn(e) => PlaneOf(f) = PlaneOf(e)
  BY <1>1, <1>3, AfterTurnFacts
<1>5. /\ c.pc = d.pc /\ c.n = d.n /\ c.m = d.m /\ c.p = d.p
      /\ c.in = d.in /\ c.lb = d.lb /\ c.ci = d.ci /\ c.fill = d.fill
      /\ Cursor(c) = Cursor(d)
  BY <1>1, <1>3 DEF InStep, Common, Cursor
<1>6. /\ S \in Nat /\ S >= 2 /\ c.fill \in Nat /\ c.fill <= S /\ ck \in Nat
      /\ nread \in Nat /\ ck <= nread
  BY <1>1, <1>3, PlaceFacts, DecFacts DEF Whole, DecInv
<1>7. Full(d) <=> Full(c)
  BY <1>5 DEF Full
<1>8. (IsFull <=> FullAt(e)) /\ (Gone <=> WantedAt(e) /\ c.fill = S)
  BY <1>2, <1>3, <1>5, <1>6, <1>7 DEF IsFull, FullAt, Gone
<1>9. /\ ck' = IF Gone THEN ck + 1 ELSE ck
      /\ g = [Deposit(d) EXCEPT !.pc = "call", !.fill = IF Gone THEN 0 ELSE @]
      /\ g.fill = IF Gone THEN 0 ELSE d.fill
      /\ dns' = [dns EXCEPT ![db] = d.n]
      /\ dpc' = IF IsFull THEN "block" ELSE "decode"
      /\ ~ (IsFull /\ dbp = 0 /\ LastBlock(db))
      /\ dpc' = "block" => db' = NextBlock(db) /\ dbp' = NextPlane(dbp, db)
      /\ dpc' # "block" => db' = db /\ dbp' = dbp
  BY <1>3, TurnBack
<1>10. f.ns = dns'
  BY <1>2, <1>4, <1>5, <1>9
<1>11. GoesOn(e) <=> FullAt(e)
  BY <1>2, <1>8, <1>9 DEF GoesOn
<1>12. f.bp = dbp' /\ f.b = db'
  <2>1. CASE FullAt(e)
    BY <1>2, <1>4, <1>8, <1>9, <1>11, <2>1
  <2>2. CASE ~ FullAt(e)
    BY <1>2, <1>4, <1>8, <1>9, <1>11, <2>2
  <2> QED
    BY <2>1, <2>2
<1>13. f.pc = IF FullAt(e) THEN "block" ELSE "encode"
  BY <1>2, <1>4, <1>8, <1>9
<1>14. CASE WantedAt(e)
  <2>1. Context(pl, S) /\ GoodCall(pl, S, c) /\ c.pc = "return"
    BY <1>1, <1>3, <1>14, PlaceFacts DEF Placed
  <2>2. c.fill < S => Full(c)
    BY <2>1 DEF GoodCall, Room
  <2>3. WritesAt(e) <=> Gone
    <3>1. CASE c.fill = S
      BY <1>3, <1>6, <1>8, <1>14, <3>1 DEF WritesAt
    <3>2. CASE c.fill # S
      <4>1. Full(c)
        BY <1>6, <2>2, <3>2
      <4>2. IsFull
        BY <1>3, <1>7, <4>1 DEF IsFull
      <4>3. ~ LastTurn(e)
        BY <1>2, <1>9, <4>2
      <4> QED
        BY <1>3, <1>6, <1>8, <3>2, <4>3 DEF WritesAt
    <3> QED
      BY <3>1, <3>2
  <2>4. f.ck = ck' /\ f.call.fill = g.fill
    BY <1>1, <1>4, <1>5, <1>9, <2>3
  <2>5. CASE FullAt(e)
    <3>1. dpc' = "block" /\ f.pc = "block"
      BY <1>8, <1>9, <1>13, <2>5
    <3>2. With(f)'
      BY <1>3, <1>10, <1>12, <2>4, <3>1 DEF With
    <3> QED
      BY <3>2
  <2>6. CASE ~ FullAt(e)
    <3>1. dpc' = "decode" /\ f.pc = "encode" /\ PlaneOf(f) = pl
      BY <1>3, <1>4, <1>8, <1>9, <1>11, <1>13, <2>6
    <3>2. PICK k : k = IF Gone THEN 0 ELSE c.fill
      OBVIOUS
    <3>3. InStep(pl, [c EXCEPT !.m = Cursor(c), !.p = 0, !.pc = "call", !.ci = c.ci, !.fill = k],
                     [Deposit(d) EXCEPT !.pc = "call", !.ci = c.ci, !.fill = k])
      BY <1>1, <1>3, <2>1, DepositStep
    <3>4. c \in CallState
      BY <1>3, PlaceFacts
    <3>5. f.call = [c EXCEPT !.m = Cursor(c), !.p = 0, !.pc = "call", !.ci = c.ci, !.fill = k]
      <4>1. k = IF WritesAt(e) THEN 0 ELSE c.fill
        BY <2>3, <3>2
      <4> QED
        BY <1>4, <3>4, <4>1 DEF CallState
    <3>6. g = [Deposit(d) EXCEPT !.pc = "call", !.ci = c.ci, !.fill = k]
      <4>1. d = [pc |-> d.pc, n |-> d.n, m |-> d.m, p |-> d.p, in |-> d.in,
                 lb |-> d.lb, ci |-> d.ci, fill |-> d.fill, x |-> d.x, block |-> d.block]
        BY <1>3, DecFacts
      <4>2. PICK b : b = Deposit(d)
        OBVIOUS
      <4>3. /\ b = [pc |-> b.pc, n |-> b.n, m |-> b.m, p |-> b.p, in |-> b.in,
                    lb |-> b.lb, ci |-> b.ci, fill |-> b.fill, x |-> b.x, block |-> b.block]
            /\ b.ci = c.ci /\ b.fill = c.fill
        BY <1>5, <4>1, <4>2 DEF Deposit
      <4>4. g = [b EXCEPT !.pc = "call", !.fill = k]
        BY <1>9, <3>2, <4>2, <4>3
      <4> QED
        BY <4>2, <4>3, <4>4
    <3>7. InStep(PlaneOf(f), f.call, dcall)'
      BY <1>1, <1>3, <3>1, <3>3, <3>5, <3>6 DEF PlaneOf
    <3>8. With(f)'
      BY <1>10, <1>12, <2>4, <3>1, <3>7 DEF With
    <3> QED
      BY <3>8
  <2> QED
    BY <2>5, <2>6
<1>15. CASE ~ WantedAt(e)
  <2>1. ~ Gone /\ FullAt(e) /\ ~ LastTurn(e)
    BY <1>2, <1>8, <1>9, <1>15 DEF FullAt
  <2>2. dpc' = "block" /\ f.pc = "block" /\ ck' = ck /\ g.fill = c.fill
    BY <1>5, <1>8, <1>9, <1>13, <2>1
  <2>3. CASE c.fill < S
    <3>1. ~ WritesAt(e)
      BY <1>3, <1>6, <2>1, <2>3 DEF WritesAt
    <3>2. f.ck = ck' /\ f.call.fill = g.fill
      BY <1>1, <1>4, <2>2, <3>1
    <3>3. With(f)'
      BY <1>3, <1>10, <1>12, <2>2, <3>2 DEF With
    <3> QED
      BY <3>3
  <2>4. CASE c.fill = S
    <3>1. WritesAt(e) /\ e.bp = Prec - 1 /\ LastBlock(e.b)
      BY <1>1, <1>3, <1>6, <1>15, <2>4 DEF WritesAt, Whole
    <3>2. f.ck = ck' + 1 /\ f.call.fill = 0 /\ g.fill = S
      BY <1>1, <1>4, <2>2, <2>4, <3>1
    <3>3. dbp' < Prec - 1
      BY <1>2, <1>9, <2>2, <3>1, TileAssumption DEF NextPlane
    <3>4. Behind(f)'
      BY <1>1, <1>3, <1>10, <1>12, <2>2, <3>2, <3>3 DEF Behind
    <3> QED
      BY <3>4
  <2> QED
    BY <1>6, <2>3, <2>4
<1> QED
  BY <1>14, <1>15

\* A decoder at the end of a chunk whose next plane is wanted takes the next chunk.
LEMMA CatchesUp ==
    ASSUME EncInv, DecInv, DecodedOK, DecompressTile_Turn, NEW e, Placed(e), Behind(e),
           WantedAt(e)
    PROVE  /\ dpc' # "done" => With(e)'
           /\ ~ IsFull /\ Gone /\ dcall'.block = {} /\ dcall.block = {}
<1>1. /\ dpc = "turn" /\ e.pc = "encode" /\ e.ck = ck + 1
      /\ e.call = Entry(dns[db], 0)
      /\ dcall = [DecEntry(dns[db], S) EXCEPT !.pc = dcall.pc]
      /\ planes' = planes /\ emax' = emax /\ S' = S
  BY DEF DecompressTile_Turn, Behind, data
<1>2. e.bp = dbp /\ e.b = db /\ e.ns = dns /\ Wants
  BY TurnWants
<1>3. PICK d, g, n : d = dcall /\ g = dcall' /\ n = dns[db]
  OBVIOUS
<1>4. /\ d.n = n /\ d.m = 0 /\ d.p = 0 /\ d.in = 0 /\ d.lb = 1 /\ d.fill = S
      /\ d.x = {} /\ d.block = {} /\ d.ci = 0
  BY <1>1, <1>3 DEF DecEntry
<1>5. n \in 0 .. NC /\ S \in Nat /\ NC \in Nat /\ NC >= 1 /\ dns \in [Blocks -> 0 .. NC]
      /\ db \in Blocks
  BY <1>3, DecFacts DEF DecInv
<1>6. Cursor(d) = 0 /\ ~ Full(d) /\ ~ IsFull /\ Gone
  <2>1. Cursor(d) = 0
    BY <1>4 DEF Cursor
  <2>2. ~ Full(d)
    BY <1>4, <1>5, <2>1 DEF Full
  <2> QED
    BY <1>2, <1>3, <1>4, <1>5, <2>1, <2>2 DEF IsFull, Gone
<1>7. /\ ck' = ck + 1
      /\ g.pc = "call" /\ g.n = n /\ g.m = 0 /\ g.p = 0 /\ g.in = 0 /\ g.lb = 1
      /\ g.ci = 0 /\ g.fill = 0 /\ g.x = {} /\ g.block = {}
      /\ g = [pc |-> g.pc, n |-> g.n, m |-> g.m, p |-> g.p, in |-> g.in,
              lb |-> g.lb, ci |-> g.ci, fill |-> g.fill, x |-> g.x, block |-> g.block]
      /\ dns' = [dns EXCEPT ![db] = n]
      /\ dpc' # "done" => dpc' = "decode"
      /\ dpc' # "block" => db' = db /\ dbp' = dbp
  BY <1>3, <1>4, <1>6, TurnBack
<1>8. g = HeadEntry(n, 0, {})
  BY <1>7 DEF HeadEntry, DecEntry
<1>9. dns' = dns
  BY <1>3, <1>5, <1>7
<1>10. InStep(PlaneOf(e), e.call, g)
  BY <1>1, <1>3, <1>5, <1>8, EntryStep, PlaceFacts DEF Context
<1>11. InStep(PlaneOf(e), e.call, dcall)'
  BY <1>1, <1>3, <1>10 DEF PlaneOf
<1>12. dpc' # "done" => With(e)'
  BY <1>1, <1>2, <1>7, <1>9, <1>11 DEF With
<1> QED
  BY <1>3, <1>4, <1>6, <1>7, <1>12

\* A decoder at the end of a chunk stays there while no plane is wanted.
LEMMA StaysBehind ==
    ASSUME EncInv, DecInv, DecodedOK, DecompressTile_Turn, NEW e, Placed(e), Behind(e),
           ~ WantedAt(e), NEW f, Follows(e, f), dpc' # "done"
    PROVE  Behind(f)'
<1>1. /\ dpc = "turn" /\ e.pc = "turn" /\ e.ck = ck + 1 /\ dbp < Prec - 1
      /\ e.call = Entry(dns[db], 0)
      /\ dcall = [DecEntry(dns[db], S) EXCEPT !.pc = dcall.pc]
      /\ planes' = planes /\ emax' = emax /\ S' = S
  BY DEF DecompressTile_Turn, Behind, data
<1>2. /\ e.bp = dbp /\ e.b = db /\ e.ns = dns /\ ~ Wants
      /\ LastTurn(e) <=> dbp = 0 /\ LastBlock(db)
  BY TurnWants
<1>3. PICK c, n : c = e.call /\ n = dns[db]
  OBVIOUS
<1>4. dcall.n = n /\ dcall.fill = S /\ c.n = n /\ c.fill = 0
  BY <1>1, <1>3 DEF DecEntry, Entry
<1>5. IsFull /\ ~ Gone /\ FullAt(e) /\ ~ WritesAt(e)
  BY <1>2, <1>3, <1>4 DEF IsFull, Gone, FullAt, WritesAt
<1>6. /\ ck' = ck /\ dcall'.fill = S
      /\ dns' = [dns EXCEPT ![db] = n]
      /\ dpc' = "block" /\ ~ (dbp = 0 /\ LastBlock(db))
      /\ db' = NextBlock(db) /\ dbp' = NextPlane(dbp, db)
  BY <1>4, <1>5, TurnBack
<1>7. GoesOn(e)
  BY <1>2, <1>5, <1>6 DEF GoesOn
<1>8. /\ f.pc = "block" /\ f.bp = dbp' /\ f.b = db' /\ f.ns = dns' /\ f.ck = ck' + 1
      /\ f.call.fill = 0
  <2>1. /\ f.pc = (IF ~ FullAt(e) THEN "encode"
                   ELSE IF LastTurn(e) THEN "done" ELSE "block")
        /\ f.bp = IF GoesOn(e) THEN NextPlane(e.bp, e.b) ELSE e.bp
        /\ f.b = IF GoesOn(e) THEN NextBlock(e.b) ELSE e.b
        /\ f.ns = [e.ns EXCEPT ![e.b] = c.n]
        /\ f.ck = IF WritesAt(e) THEN e.ck + 1 ELSE e.ck
        /\ f.call.fill = IF WritesAt(e) THEN 0 ELSE c.fill
    BY <1>1, <1>3, AfterTurnFacts
  <2> QED
    BY <1>1, <1>2, <1>4, <1>5, <1>6, <1>7, <2>1
<1>9. dbp' < Prec - 1
  <2>1. dbp \in Nat /\ Prec \in Nat
    BY TileAssumption DEF DecInv, Planes
  <2> QED
    BY <1>1, <1>6, <2>1 DEF NextPlane
<1> QED
  BY <1>1, <1>6, <1>8, <1>9 DEF Behind

-----------------------------------------------------------------------------
(* What the decoder has.                                                    *)

\* Going on to the next block passes the current one.
LEMMA PassedNext ==
    ASSUME dbp \in Planes, db \in Blocks, dbp' = NextPlane(dbp, db), db' = NextBlock(db),
           NEW bp \in Planes, NEW b \in Blocks
    PROVE  Passed(bp, b)' <=> Passed(bp, b) \/ (bp = dbp /\ b = db)
<1>1. /\ dbp \in Nat /\ db \in Nat /\ bp \in Nat /\ b \in Nat /\ NB \in Nat
      /\ db <= NB - 1 /\ b <= NB - 1
  BY TileAssumption DEF Planes, Blocks
<1>2. CASE db = NB - 1
  <2>1. dbp' = dbp - 1 /\ db' = 0
    BY <1>2 DEF NextPlane, NextBlock, LastBlock
  <2> QED
    BY <1>1, <1>2, <2>1 DEF Passed
<1>3. CASE db # NB - 1
  <2>1. dbp' = dbp /\ db' = db + 1
    BY <1>3 DEF NextPlane, NextBlock, LastBlock
  <2> QED
    BY <1>1, <2>1 DEF Passed
<1> QED
  BY <1>2, <1>3

\* What a turn has deposited: bits of the plane, and all of them if it is full.
LEMMA TurnBits ==
    ASSUME EncInv, DecInv, DecodedOK, DecompressTile_Turn, NEW e, Placed(e),
           With(e) \/ Behind(e)
    PROVE  /\ dcall'.block \subseteq planes[db][dbp]
           /\ IsFull => dcall'.block = planes[db][dbp]
<1>1. PICK d, pl : d = dcall /\ pl = PlaneOf(e)
  OBVIOUS
<1>2. /\ e.bp = dbp /\ e.b = db /\ (Wants <=> WantedAt(e)) /\ dpc = "turn"
      /\ db \in Blocks /\ dbp \in Planes
  BY TurnWants DEF DecompressTile_Turn, DecInv
<1>3. pl = planes[db][dbp] /\ Context(pl, S) /\ NC \in Nat /\ NC >= 1
  BY <1>1, <1>2, PlaceFacts
<1>4. dcall'.block = d.block \union d.x
  BY <1>1, TurnBack
<1>5. ~ WantedAt(e) => pl = {}
  BY <1>2, <1>3 DEF EncInv, DataOK, WantedAt
<1>6. CASE With(e)
  <2>1. InStep(pl, e.call, d) /\ e.pc = "turn"
    BY <1>1, <1>2, <1>6 DEF With
  <2>2. /\ d.block = {i \in pl : i < d.m} /\ d.x = {i \in pl : d.m <= i /\ i < Cursor(d)}
        /\ Common(d) = e.call
    BY <2>1 DEF InStep
  <2>3. CASE WantedAt(e)
    <3>1. GoodCall(pl, S, e.call) /\ e.call.pc = "return"
      BY <1>1, <2>1, <2>3 DEF Placed
    <3>2. IsFull => Full(e.call)
      <4>1. e.call.n = d.n /\ e.call.lb = d.lb /\ Cursor(e.call) = Cursor(d)
        BY <1>3, <2>1, <3>1, StepFacts
      <4> QED
        BY <1>1, <1>2, <2>3, <4>1 DEF IsFull, Full
    <3>3. IsFull => \A i \in pl : i < Cursor(e.call)
      BY <1>3, <3>1, <3>2, FullSawAll
    <3>4. Cursor(e.call) = Cursor(d) /\ d.m \in Nat /\ \A i \in pl : i \in Nat
      BY <1>3, <2>1, <3>1, StepFacts
    <3>5. \A i \in pl : i < d.m \/ d.m <= i
      BY <3>4
    <3>6. d.block \union d.x \subseteq pl
      BY <2>2
    <3>7. IsFull => pl \subseteq d.block \union d.x
      BY <2>2, <3>3, <3>4, <3>5
    <3> QED
      BY <1>3, <1>4, <3>6, <3>7
  <2>4. CASE ~ WantedAt(e)
    <3>1. d.block = {} /\ d.x = {}
      BY <1>5, <2>2, <2>4
    <3> QED
      BY <1>3, <1>4, <1>5, <2>4, <3>1
  <2> QED
    BY <2>3, <2>4
<1>7. CASE Behind(e)
  <2>1. dcall = [DecEntry(dns[db], S) EXCEPT !.pc = dcall.pc]
    BY <1>2, <1>7 DEF Behind
  <2>2. d.block = {} /\ d.x = {}
    BY <1>1, <2>1 DEF DecEntry
  <2>3. WantedAt(e) => ~ IsFull
    BY <1>7, CatchesUp
  <2> QED
    BY <1>3, <1>4, <1>5, <2>2, <2>3
<1> QED
  BY <1>6, <1>7

\* The head of a block: the exponent found is the one that was written.
LEMMA HeadDecoded ==
    ASSUME ExponentsFit, EncInv, DecInv, DecodedOK, DecompressTile_Block,
           NEW e, Placed(e), NEW f, Follows(e, f), With(e) \/ Behind(e)
    PROVE  DecodedOK'
<1>1. /\ dpc = "block" /\ UNCHANGED <<data, encVars, nread, dbp, db, dns, ck, got, copied>>
      /\ planes' = planes /\ emax' = emax
  BY DEF DecompressTile_Block, data
<1>2. demax' = [demax EXCEPT ![db] = CodedExponent(db)] /\ demax \in [Blocks -> Int]
  BY HeadReads DEF DecInv
<1>3. dpc' \in {"decode", "turn"} /\ dcall'.block = {}
  <2>1. dcall' = HeadEntry(dns[db], dcall.fill + Len(EMaxOf(e)), {})
        /\ dpc' # "outside"
    BY HeadReads
  <2>2. dpc' \in {"decode", "turn"}
    BY <2>1 DEF DecompressTile_Block
  <2>3. dcall'.block = {}
    BY <2>1 DEF HeadEntry, DecEntry
  <2> QED
    BY <2>2, <2>3
<1>4. \A b \in Blocks, bp \in Planes : Passed(bp, b)' <=> Passed(bp, b)
  BY <1>1 DEF Passed
<1>5. \A b : CodedExponent(b)' = CodedExponent(b)
  BY <1>1 DEF CodedExponent, Significant, Depth
<1>6. Prec - 1 \in Planes
  BY TileAssumption DEF Planes
<1>7. ASSUME NEW b \in Blocks,
             Passed(Prec - 1, b)' \/ (dpc' \in {"decode", "turn"} /\ dbp' = Prec - 1 /\ b = db')
      PROVE  demax'[b] = CodedExponent(b)'
  <2>1. CASE b = db
    BY <1>2, <1>5, <2>1
  <2>2. CASE b # db
    <3>1. Passed(Prec - 1, b)
      BY <1>1, <1>4, <1>6, <1>7, <2>2
    <3>2. demax[b] = CodedExponent(b)
      BY <3>1 DEF DecodedOK
    <3> QED
      BY <1>2, <1>5, <2>2, <3>2
  <2> QED
    BY <2>1, <2>2
<1>8. ASSUME NEW b \in Blocks, NEW bp \in Planes
      PROVE  /\ got'[b][bp] \subseteq planes'[b][bp]
             /\ Passed(bp, b)' => got'[b][bp] = planes'[b][bp]
             /\ ~ Passed(bp, b)' => got'[b][bp] = {}
  BY <1>1, <1>4 DEF DecodedOK
<1>9. copied' = {<<b, CodedExponent(b)', planes'[b]>> : b \in {c \in Blocks : dbp' = 0 /\ c < db'}}
  BY <1>1, <1>5 DEF DecodedOK
<1> QED
  BY <1>3, <1>7, <1>8, <1>9 DEF DecodedOK

\* A piece of Decode deposits nothing.
LEMMA PieceDecoded ==
    ASSUME DecInv, DecodedOK, DecodePiece, dpc' # "outside", dcall'.block = dcall.block
    PROVE  DecodedOK'
<1>1. /\ dpc = "decode" /\ dpc' \in {"decode", "turn"}
      /\ UNCHANGED <<data, encVars, nread, dbp, db, dns, ck, demax, got, copied>>
      /\ planes' = planes /\ emax' = emax
  BY DEF DecodePiece, data
<1>2. \A b \in Blocks, bp \in Planes : Passed(bp, b)' <=> Passed(bp, b)
  BY <1>1 DEF Passed
<1>3. \A b : CodedExponent(b)' = CodedExponent(b)
  BY <1>1 DEF CodedExponent, Significant, Depth
<1>4. Prec - 1 \in Planes
  BY TileAssumption DEF Planes
<1>5. ASSUME NEW b \in Blocks,
             Passed(Prec - 1, b)' \/ (dpc' \in {"decode", "turn"} /\ dbp' = Prec - 1 /\ b = db')
      PROVE  demax'[b] = CodedExponent(b)'
  BY <1>1, <1>2, <1>3, <1>4, <1>5 DEF DecodedOK
<1>6. ASSUME NEW b \in Blocks, NEW bp \in Planes
      PROVE  /\ got'[b][bp] \subseteq planes'[b][bp]
             /\ Passed(bp, b)' => got'[b][bp] = planes'[b][bp]
             /\ ~ Passed(bp, b)' =>
                   got'[b][bp] = IF bp = dbp' /\ b = db' THEN dcall'.block ELSE {}
  BY <1>1, <1>2 DEF DecodedOK
<1>7. copied' = {<<b, CodedExponent(b)', planes'[b]>> : b \in {c \in Blocks : dbp' = 0 /\ c < db'}}
  BY <1>1, <1>3 DEF DecodedOK
<1> QED
  BY <1>1, <1>5, <1>6, <1>7 DEF DecodedOK

\* A turn: the plane is left with all its bits, the block copied with all its
\* planes, and the tile ended early only at the end of a full chunk.
LEMMA TurnDecoded ==
    ASSUME EncInv, DecInv, DecodedOK, DecompressTile_Turn, NEW e, Placed(e),
           With(e) \/ Behind(e)
    PROVE  DecodedOK'
<1>1. /\ dpc = "turn" /\ UNCHANGED <<data, encVars, nread, demax>> /\ Busy
      /\ planes' = planes /\ emax' = emax /\ chunks' = chunks /\ S' = S
  BY DEF DecompressTile_Turn, data, encVars, Busy
<1>2. /\ ck' = IF Gone THEN ck + 1 ELSE ck
      /\ got' = [got EXCEPT ![db][dbp] = dcall'.block]
      /\ copied' = IF (IsFull /\ dbp = 0) \/ ck' = nread + 1
                   THEN copied \union {<<db, demax[db], got'[db]>>} ELSE copied
      /\ dpc' = IF ck' = nread + 1 \/ (IsFull /\ dbp = 0 /\ LastBlock(db)) THEN "done"
                ELSE IF IsFull THEN "block" ELSE "decode"
      /\ dpc' = "block" => db' = NextBlock(db) /\ dbp' = NextPlane(dbp, db)
      /\ dpc' # "block" => db' = db /\ dbp' = dbp
  BY TurnBack
<1>3. /\ dcall'.block \subseteq planes[db][dbp]
      /\ IsFull => dcall'.block = planes[db][dbp]
  BY TurnBits
<1>4. demax[db] = CodedExponent(db)
  BY TurnWants
<1>5. /\ db \in Blocks /\ dbp \in Planes /\ got \in [Blocks -> [Planes -> SUBSET Coefs]]
      /\ planes \in [Blocks -> [Planes -> SUBSET Coefs]]
      /\ Blocks \subseteq Nat /\ Planes \subseteq Nat
  BY TileAssumption DEF EncInv, DataOK, DecInv, Blocks, Planes
<1>6. \A b \in Blocks, bp \in Planes :
         got'[b][bp] = IF b = db /\ bp = dbp THEN dcall'.block ELSE got[b][bp]
  BY <1>2, <1>5
<1>7. \A b \in Blocks, bp \in Planes :
         Passed(bp, b)' <=> Passed(bp, b) \/ (dpc' = "block" /\ bp = dbp /\ b = db)
  <2>1. CASE dpc' = "block"
    BY <1>2, <1>5, <2>1, PassedNext
  <2>2. CASE dpc' # "block"
    BY <1>2, <2>2 DEF Passed
  <2> QED
    BY <2>1, <2>2
<1>8. dpc' = "block" => IsFull /\ ~ (dbp = 0 /\ LastBlock(db)) /\ ck' # nread + 1
  BY <1>2
<1>9. \A b : CodedExponent(b)' = CodedExponent(b)
  BY <1>1 DEF CodedExponent, Significant, Depth
<1>10. Prec - 1 \in Planes
  BY TileAssumption DEF Planes
<1>11. \A b \in Blocks : ~ Passed(dbp, db) /\ (b = db => ~ Passed(dbp, b))
  BY <1>5 DEF Passed
<1>12. ASSUME NEW b \in Blocks,
              Passed(Prec - 1, b)' \/ (dpc' \in {"decode", "turn"} /\ dbp' = Prec - 1 /\ b = db')
       PROVE  demax'[b] = CodedExponent(b)'
  <2>1. CASE b = db
    BY <1>1, <1>4, <1>9, <2>1
  <2>2. CASE b # db
    <3>1. Passed(Prec - 1, b)
      BY <1>2, <1>7, <1>10, <1>12, <2>2
    <3> QED
      BY <1>1, <1>9, <3>1 DEF DecodedOK
  <2> QED
    BY <2>1, <2>2
<1>13. ASSUME NEW b \in Blocks, NEW bp \in Planes
       PROVE  /\ got'[b][bp] \subseteq planes'[b][bp]
              /\ Passed(bp, b)' => got'[b][bp] = planes'[b][bp]
              /\ dpc' \in {"idle", "block", "decode", "turn"} /\ ~ Passed(bp, b)' =>
                    got'[b][bp] = IF dpc' \in {"decode", "turn"} /\ bp = dbp' /\ b = db'
                                  THEN dcall'.block ELSE {}
  <2>1. CASE b = db /\ bp = dbp
    <3>1. got'[b][bp] = dcall'.block
      BY <1>6, <2>1
    <3>2. Passed(bp, b)' => dpc' = "block"
      BY <1>7, <1>11, <2>1
    <3>3. Passed(bp, b)' => IsFull
      BY <1>8, <3>2
    <3>4. dpc' \in {"idle", "block", "decode", "turn"} /\ ~ Passed(bp, b)' =>
             dpc' = "decode" /\ bp = dbp' /\ b = db'
      BY <1>2, <1>7, <2>1
    <3> QED
      BY <1>1, <1>3, <2>1, <3>1, <3>3, <3>4
  <2>2. CASE ~ (b = db /\ bp = dbp)
    <3>1. got'[b][bp] = got[b][bp] /\ (Passed(bp, b)' <=> Passed(bp, b))
      BY <1>6, <1>7, <2>2
    <3>2. ~ Passed(bp, b) => got[b][bp] = {}
      BY <1>1, <2>2 DEF DecodedOK
    <3>3. dpc' \in {"decode", "turn"} => ~ (bp = dbp' /\ b = db')
      BY <1>2, <2>2
    <3>4. got[b][bp] \subseteq planes[b][bp] /\ (Passed(bp, b) => got[b][bp] = planes[b][bp])
      BY DEF DecodedOK
    <3> QED
      BY <1>1, <3>1, <3>2, <3>3, <3>4
  <2> QED
    BY <2>1, <2>2
<1>14. copied = {<<b, CodedExponent(b), planes[b]>> : b \in {c \in Blocks : dbp = 0 /\ c < db}}
  BY <1>1 DEF DecodedOK
<1>15. IsFull /\ dbp = 0 => got'[db] = planes[db]
  <2> SUFFICES ASSUME IsFull, dbp = 0 PROVE got'[db] = planes[db]
    OBVIOUS
  <2>1. \A bp \in Planes : bp = dbp \/ Passed(bp, db)
    BY <1>5 DEF Passed
  <2>2. \A bp \in Planes : got'[db][bp] = planes[db][bp]
    BY <1>3, <1>5, <1>6, <2>1 DEF DecodedOK
  <2>3. got'[db] \in [Planes -> SUBSET Coefs] /\ planes[db] \in [Planes -> SUBSET Coefs]
    BY TurnDec, <1>5 DEF DecInv
  <2> QED
    BY <2>2, <2>3
<1>16. IsFull /\ dbp = 0 =>
          copied' = {<<b, CodedExponent(b), planes[b]>> : b \in {c \in Blocks : c <= db}}
  <2> SUFFICES ASSUME IsFull, dbp = 0
               PROVE  copied' = {<<b, CodedExponent(b), planes[b]>> :
                                    b \in {c \in Blocks : c <= db}}
    OBVIOUS
  <2>1. copied' = copied \union {<<db, CodedExponent(db), planes[db]>>}
    BY <1>2, <1>4, <1>15
  <2>2. {c \in Blocks : c <= db} = {c \in Blocks : dbp = 0 /\ c < db} \union {db}
    <3>1. \A c \in Blocks : c <= db <=> c < db \/ c = db
      BY <1>5
    <3> QED
      BY <1>5, <3>1
  <2> QED
    BY <1>14, <2>1, <2>2
<1>17. dpc' \in {"idle", "block", "decode", "turn"} =>
          copied' = {<<b, CodedExponent(b)', planes'[b]>> :
                        b \in {c \in Blocks : dbp' = 0 /\ c < db'}}
  <2>1. CASE dpc' = "block"
    <3>1. NB \in Nat /\ NB >= 1 /\ db \in Nat /\ dbp \in Nat /\ db <= NB - 1
      BY <1>5, TileAssumption DEF Blocks
    <3>2. CASE dbp = 0
      <4>1. dbp' = 0 /\ db' = db + 1
        BY <1>2, <1>8, <2>1, <3>2 DEF NextBlock, NextPlane
      <4>2. {c \in Blocks : dbp' = 0 /\ c < db'} = {c \in Blocks : c <= db}
        <5>1. \A c \in Blocks : c <= db <=> c < db + 1
          BY <1>5, <3>1
        <5> QED
          BY <4>1, <5>1
      <4> QED
        BY <1>1, <1>8, <1>9, <1>16, <2>1, <3>2, <4>2
    <3>3. CASE dbp # 0
      <4>1. copied' = {}
        BY <1>2, <1>8, <1>14, <2>1, <3>3
      <4>2. dbp' = 0 => db' = 0
        BY <1>2, <2>1, <3>1, <3>3 DEF NextBlock, NextPlane
      <4>3. {c \in Blocks : dbp' = 0 /\ c < db'} = {}
        <5>1. \A c \in Blocks : ~ (c < 0)
          BY <1>5
        <5> QED
          BY <4>2, <5>1
      <4> QED
        BY <4>1, <4>3
    <3> QED
      BY <3>2, <3>3
  <2>2. CASE dpc' = "decode"
    BY <1>1, <1>2, <1>9, <1>14, <2>2
  <2>3. dpc' \notin {"idle", "turn"}
    BY <1>2
  <2> QED
    BY <2>1, <2>2, <2>3
<1>18. dpc' = "done" =>
          \/ copied' = {<<b, CodedExponent(b)', planes'[b]>> : b \in Blocks}
          \/ Len(chunks'[nread']) = S'
  <2> SUFFICES ASSUME dpc' = "done"
               PROVE  \/ copied' = {<<b, CodedExponent(b)', planes'[b]>> : b \in Blocks}
                      \/ Len(chunks'[nread']) = S'
    OBVIOUS
  <2>1. CASE ck' = nread + 1
    <3>1. ck \in Nat /\ nread \in Nat /\ ck <= nread
      BY <1>1, DecFacts DEF DecInv
    <3>2. Gone /\ ck = nread
      BY <1>2, <2>1, <3>1
    <3>3. dcall.fill \in Nat /\ dcall.fill <= Len(Chunk) /\ Len(Chunk) <= S
          /\ Len(Chunk) \in Nat /\ S \in Nat
      BY <1>1, DecFacts
    <3>4. Len(Chunk) = S
      BY <3>2, <3>3 DEF Gone
    <3> QED
      BY <1>1, <3>2, <3>4 DEF Chunk
  <2>2. CASE ck' # nread + 1
    <3>1. IsFull /\ dbp = 0 /\ db = NB - 1
      BY <1>2, <2>2 DEF LastBlock
    <3>2. {c \in Blocks : c <= db} = Blocks
      BY <3>1, TileAssumption DEF Blocks
    <3> QED
      BY <1>1, <1>9, <1>16, <3>1, <3>2
  <2> QED
    BY <2>1, <2>2
<1>19. DecodedOK'
  BY <1>12, <1>13, <1>17, <1>18 DEF DecodedOK
<1> QED
  BY <1>19

\* Where the decoder starts it has nothing and has passed nothing.
LEMMA InitDecoded == ASSUME Init PROVE DecodedOK
<1>1. /\ dpc = "idle" /\ dbp = Prec - 1 /\ db = 0 /\ copied = {}
      /\ got = [b \in Blocks |-> [bp \in Planes |-> {}]]
  BY DEF Init
<1>2. /\ Blocks \subseteq Nat /\ \A bp \in Planes : bp \in Nat /\ bp <= Prec - 1
      /\ Prec \in Nat
  BY TileAssumption DEF Blocks, Planes
<1>3. \A b \in Blocks, bp \in Planes : ~ Passed(bp, b) /\ got[b][bp] = {}
  BY <1>1, <1>2 DEF Passed
<1>4. Prec - 1 \in Planes
  BY TileAssumption DEF Planes
<1>5. {c \in Blocks : dbp = 0 /\ c < db} = {}
  <2>1. \A c \in Blocks : ~ (c < 0)
    BY <1>2
  <2> QED
    BY <1>1, <2>1
<1> QED
  BY <1>1, <1>3, <1>4, <1>5 DEF DecodedOK

\* Before the decoder's loops nothing it has changes.
LEMMA IdleDecoded ==
    ASSUME DecInv, DecodedOK, dpc = "idle", dpc' \in {"idle", "block"}, UNCHANGED data,
           UNCHANGED <<dbp, db, demax, got, copied>>
    PROVE  DecodedOK'
<1>1. planes' = planes /\ emax' = emax
  BY DEF data
<1>2. \A b, bp : Passed(bp, b)' <=> Passed(bp, b)
  BY DEF Passed
<1>3. \A b : CodedExponent(b)' = CodedExponent(b)
  BY <1>1 DEF CodedExponent, Significant, Depth
<1>4. ASSUME NEW b \in Blocks, Passed(Prec - 1, b)'
      PROVE  demax'[b] = CodedExponent(b)'
  BY <1>2, <1>3, <1>4 DEF DecodedOK
<1>5. ASSUME NEW b \in Blocks, NEW bp \in Planes
      PROVE  /\ got'[b][bp] \subseteq planes'[b][bp]
             /\ Passed(bp, b)' => got'[b][bp] = planes'[b][bp]
             /\ ~ Passed(bp, b)' => got'[b][bp] = {}
  BY <1>1, <1>2 DEF DecodedOK
<1>6. copied' = {<<b, CodedExponent(b)', planes'[b]>> : b \in {c \in Blocks : dbp' = 0 /\ c < db'}}
  BY <1>1, <1>3 DEF DecodedOK
<1> QED
  BY <1>4, <1>5, <1>6 DEF DecodedOK

-----------------------------------------------------------------------------
(* The invariant.                                                           *)

\* A step of WriteTile makes the history longer.
LEMMA WriterTracks ==
    ASSUME EncInv, EncInv', DecInv, ~ torn', Tracks,
           WriteTile_Block \/ EncodePiece \/ WriteTile_Turn
    PROVE  Tracks' /\ dpc = "idle" /\ UNCHANGED data /\ UNCHANGED decVars
<1>1. UNCHANGED data /\ UNCHANGED decVars /\ epc # "done" /\ ~ torn
  BY Grows DEF WriteTile_Block, EncodePiece, WriteTile_Turn, EncInv
<1>2. dpc = "idle" /\ dpc' = "idle"
  BY <1>1 DEF DecInv, decVars
<1>3. PICK h : History(h) /\ With(h[1])
  BY <1>2 DEF Tracks
<1>4. PICK e, f : e = EncNow /\ f = EncNow'
  OBVIOUS
<1>5. Follows(e, f)' /\ \A c, p, v : Holds(c, p, v) => Holds(c, p, v)'
  <2>1. CASE WriteTile_Block
    BY <1>4, <2>1, BlockFollows
  <2>2. CASE EncodePiece
    BY <1>4, <2>2, PieceFollows
  <2>3. CASE WriteTile_Turn
    BY <1>1, <1>4, <2>3, TurnFollows
  <2> QED
    BY <2>1, <2>2, <2>3
<1>6. PICK g : g = Append(h, f)
  OBVIOUS
<1>7. History(g)' /\ g[1] = h[1]
  BY <1>1, <1>3, <1>4, <1>5, <1>6, HistoryGrows
<1>8. With(g[1])'
  BY <1>1, <1>2, <1>3, <1>7 DEF With, decVars
<1>9. ~ Busy'
  BY <1>2 DEF Busy
<1>10. Tracks'
  BY <1>7, <1>8, <1>9 DEF Tracks
<1> QED
  BY <1>1, <1>2, <1>10

\* The decoder starts where WriteTile started.
LEMMA BeginTracks ==
    ASSUME DecompressTile_Begin, Tracks
    PROVE  Tracks'
<1>1. /\ dpc = "idle" /\ dpc' = "block" /\ UNCHANGED <<data, encVars>>
      /\ UNCHANGED <<dbp, db, dns, dcall, ck>>
  BY DEF DecompressTile_Begin
<1>2. PICK h : History(h) /\ With(h[1])
  BY <1>1 DEF Tracks
<1>3. History(h)'
  BY <1>1, <1>2, HistoryKept
<1>4. With(h[1])'
  BY <1>1, <1>2 DEF With
<1>5. 1 \in 1 .. Len(h)
  <2>1. h \in Seq(EncStates) /\ h # <<>>
    BY <1>2 DEF History
  <2> QED
    BY <2>1, EmptySeq
<1> QED
  BY <1>1, <1>3, <1>4, <1>5 DEF Tracks

\* A state of the history the decoder is in, or one chunk behind.
LEMMA TrackedState ==
    ASSUME EncInv, DecInv, Tracks, Busy
    PROVE  \E h : /\ History(h)
                  /\ \E k \in 1 .. Len(h) :
                        /\ With(h[k]) \/ Behind(h[k])
                        /\ Placed(h[k]) /\ Whole(h[k])
                        /\ h[k].pc # "done" => /\ k + 1 \in 1 .. Len(h)
                                               /\ Follows(h[k], h[k + 1])
<1>1. PICK h : History(h) /\ \E k \in 1 .. Len(h) : With(h[k]) \/ Behind(h[k])
  BY DEF Tracks
<1>2. PICK k \in 1 .. Len(h) : With(h[k]) \/ Behind(h[k])
  BY <1>1
<1>3. Placed(h[k]) /\ Whole(h[k])
  BY <1>1 DEF History
<1>4. epc = "done"
  BY DEF DecInv, Busy
<1>5. h[k].pc # "done" => k + 1 \in 1 .. Len(h) /\ Follows(h[k], h[k + 1])
  BY <1>1, <1>4, NextState
<1> QED
  BY <1>1, <1>2, <1>3, <1>5

\* The head of a block keeps the decoder on the history.
LEMMA HeadKept ==
    ASSUME ExponentsFit, EncInv, DecInv, Tracks, DecodedOK, DecompressTile_Block
    PROVE  Tracks' /\ DecodedOK' /\ dpc' # "outside"
<1>1. dpc = "block" /\ Busy /\ UNCHANGED <<data, encVars>>
  BY DEF DecompressTile_Block, Busy
<1>2. PICK h : /\ History(h)
               /\ \E k \in 1 .. Len(h) :
                     /\ With(h[k]) \/ Behind(h[k])
                     /\ Placed(h[k]) /\ Whole(h[k])
                     /\ h[k].pc # "done" => /\ k + 1 \in 1 .. Len(h)
                                            /\ Follows(h[k], h[k + 1])
  BY <1>1, TrackedState
<1>3. PICK k \in 1 .. Len(h) : /\ With(h[k]) \/ Behind(h[k])
                               /\ Placed(h[k]) /\ Whole(h[k])
                               /\ h[k].pc # "done" => /\ k + 1 \in 1 .. Len(h)
                                                      /\ Follows(h[k], h[k + 1])
  BY <1>2
<1>4. h[k].pc = "block"
  BY <1>1, <1>3 DEF With, Behind
<1>5. PICK e, f : e = h[k] /\ f = h[k + 1] /\ k + 1 \in 1 .. Len(h) /\ Follows(e, f)
  BY <1>3, <1>4
<1>6. Placed(e) /\ (With(e) \/ Behind(e))
  BY <1>3, <1>5
<1>7. dpc' # "outside"
  BY <1>5, <1>6, HeadReads
<1>8. With(f)' \/ Behind(f)'
  BY <1>5, <1>6, HeadTracks
<1>9. DecodedOK'
  BY <1>5, <1>6, HeadDecoded
<1>10. dpc' # "idle"
  BY DEF DecompressTile_Block
<1>11. History(h)'
  BY <1>1, <1>2, HistoryKept
<1>12. Tracks'
  BY <1>5, <1>8, <1>10, <1>11 DEF Tracks
<1> QED
  BY <1>7, <1>9, <1>12

\* So does a piece of Decode.
LEMMA PieceKept ==
    ASSUME EncInv, DecInv, Tracks, DecodedOK, DecodePiece
    PROVE  Tracks' /\ DecodedOK' /\ dpc' # "outside"
<1>1. dpc = "decode" /\ Busy /\ UNCHANGED <<data, encVars>>
  BY DEF DecodePiece, Busy
<1>2. PICK h : /\ History(h)
               /\ \E k \in 1 .. Len(h) :
                     /\ With(h[k]) \/ Behind(h[k])
                     /\ Placed(h[k]) /\ Whole(h[k])
                     /\ h[k].pc # "done" => /\ k + 1 \in 1 .. Len(h)
                                            /\ Follows(h[k], h[k + 1])
  BY <1>1, TrackedState
<1>3. PICK k \in 1 .. Len(h) : /\ With(h[k]) \/ Behind(h[k])
                               /\ Placed(h[k]) /\ Whole(h[k])
                               /\ h[k].pc # "done" => /\ k + 1 \in 1 .. Len(h)
                                                      /\ Follows(h[k], h[k + 1])
  BY <1>2
<1>4. PICK e : e = h[k] /\ Placed(e)
  BY <1>3
<1>5. /\ dpc' # "outside" /\ dcall'.block = dcall.block
      /\ \E j \in 1 .. Len(h) : With(h[j])' \/ Behind(h[j])'
  <2>1. CASE With(e)
    <3>1. e.pc = "encode"
      BY <1>1, <2>1 DEF With
    <3>2. PICK f : f = h[k + 1] /\ k + 1 \in 1 .. Len(h) /\ Follows(e, f)
      BY <1>3, <1>4, <3>1
    <3>3. dpc' # "outside" /\ With(f)' /\ dcall'.block = dcall.block
      BY <1>4, <2>1, <3>2, PieceTracks
    <3> QED
      BY <3>2, <3>3
  <2>2. CASE Behind(e)
    <3>1. dpc' # "outside" /\ Behind(e)' /\ dcall'.block = dcall.block
      BY <1>4, <2>2, BehindPiece
    <3> QED
      BY <1>4, <3>1
  <2> QED
    BY <1>3, <1>4, <2>1, <2>2
<1>6. DecodedOK'
  BY <1>5, PieceDecoded
<1>7. dpc' # "idle"
  BY DEF DecodePiece
<1>8. History(h)'
  BY <1>1, <1>2, HistoryKept
<1>9. Tracks'
  BY <1>5, <1>7, <1>8 DEF Tracks
<1> QED
  BY <1>5, <1>6, <1>9

\* So does a turn.
LEMMA TurnKept ==
    ASSUME EncInv, DecInv, Tracks, DecodedOK, DecompressTile_Turn
    PROVE  Tracks' /\ DecodedOK' /\ dpc' # "outside"
<1>1. dpc = "turn" /\ Busy /\ UNCHANGED <<data, encVars>>
  BY DEF DecompressTile_Turn, Busy
<1>2. PICK h : /\ History(h)
               /\ \E k \in 1 .. Len(h) :
                     /\ With(h[k]) \/ Behind(h[k])
                     /\ Placed(h[k]) /\ Whole(h[k])
                     /\ h[k].pc # "done" => /\ k + 1 \in 1 .. Len(h)
                                            /\ Follows(h[k], h[k + 1])
  BY <1>1, TrackedState
<1>3. PICK k \in 1 .. Len(h) : /\ With(h[k]) \/ Behind(h[k])
                               /\ Placed(h[k]) /\ Whole(h[k])
                               /\ h[k].pc # "done" => /\ k + 1 \in 1 .. Len(h)
                                                      /\ Follows(h[k], h[k + 1])
  BY <1>2
<1>4. PICK e : e = h[k] /\ Placed(e) /\ Whole(e) /\ (With(e) \/ Behind(e))
  BY <1>3
<1>5. dpc' \in {"done", "block", "decode"}
  BY TurnBack
<1>6. dpc' # "done" => \E j \in 1 .. Len(h) : With(h[j])' \/ Behind(h[j])'
  <2> SUFFICES ASSUME dpc' # "done"
               PROVE  \E j \in 1 .. Len(h) : With(h[j])' \/ Behind(h[j])'
    OBVIOUS
  <2>1. CASE With(e)
    <3>1. e.pc = "turn"
      BY <1>1, <2>1 DEF With
    <3>2. PICK f : f = h[k + 1] /\ k + 1 \in 1 .. Len(h) /\ Follows(e, f)
      BY <1>3, <1>4, <3>1
    <3>3. With(f)' \/ Behind(f)'
      BY <1>4, <2>1, <3>2, TurnTracks
    <3> QED
      BY <3>2, <3>3
  <2>2. CASE Behind(e) /\ WantedAt(e)
    <3>1. With(e)'
      BY <1>4, <2>2, CatchesUp
    <3> QED
      BY <1>4, <3>1
  <2>3. CASE Behind(e) /\ ~ WantedAt(e)
    <3>1. e.pc = "turn"
      BY <1>1, <2>3 DEF Behind
    <3>2. PICK f : f = h[k + 1] /\ k + 1 \in 1 .. Len(h) /\ Follows(e, f)
      BY <1>3, <1>4, <3>1
    <3>3. Behind(f)'
      BY <1>4, <2>3, <3>2, StaysBehind
    <3> QED
      BY <3>2, <3>3
  <2> QED
    BY <1>4, <2>1, <2>2, <2>3
<1>7. DecodedOK'
  BY <1>4, TurnDecoded
<1>8. History(h)'
  BY <1>1, <1>2, HistoryKept
<1>9. Busy' => dpc' # "done"
  BY DEF Busy
<1>10. Tracks'
  BY <1>5, <1>6, <1>8, <1>9 DEF Tracks
<1> QED
  BY <1>5, <1>7, <1>10

\* The history starts with WriteTile.
LEMMA InitTracks == ASSUME Init, EncInv PROVE Tracks
<1>1. EncNow = FirstState /\ dpc = "idle" /\ ~ torn
  BY InitGood DEF Init
<1>2. PICK e : e = EncNow /\ Placed(e) /\ Whole(e) /\ e \in EncStates
  BY <1>1 DEF EncInv, Placed
<1>3. PICK h : h = <<e>>
  OBVIOUS
<1>4. h \in Seq(EncStates) /\ h # <<>> /\ Len(h) = 1 /\ h[1] = e
  BY <1>2, <1>3
<1>5. History(h)
  BY <1>1, <1>2, <1>4 DEF History
<1>6. With(e)
  <2>1. /\ e.ck = 1 /\ e.bp = Prec - 1 /\ e.b = 0 /\ e.pc = "block"
        /\ e.ns = [b \in Blocks |-> 0] /\ e.call.fill = 0
    BY <1>1, <1>2 DEF FirstState, Entry
  <2>2. /\ ck = 1 /\ dbp = Prec - 1 /\ db = 0 /\ dns = [b \in Blocks |-> 0]
        /\ dcall.fill = 0
    BY DEF Init, DecEntry
  <2> QED
    BY <1>1, <2>1, <2>2 DEF With
<1>7. ~ Busy
  BY <1>1 DEF Busy
<1> QED
  BY <1>4, <1>5, <1>6, <1>7 DEF Tracks

\* Every step keeps the whole invariant.
LEMMA InvariantKept ==
    ASSUME ExponentsFit, IInv, [Next]_vars
    PROVE  IInv'
<1>1. EncInv /\ DecInv /\ EncInv' /\ DecInv'
  BY Preserved DEF IInv
<1>2. torn' \in BOOLEAN /\ torn \in BOOLEAN
  BY <1>1 DEF EncInv
<1>3. ASSUME ~ torn' PROVE Tracks' /\ DecodedOK' /\ dpc' # "outside"
  <2>1. CASE WriteTile_Block \/ EncodePiece \/ WriteTile_Turn
    <3>1. ~ torn
      BY <1>3, <2>1 DEF WriteTile_Block, EncodePiece, WriteTile_Turn
    <3>2. Tracks /\ DecodedOK
      BY <3>1 DEF IInv
    <3>3. Tracks' /\ dpc = "idle" /\ UNCHANGED data /\ UNCHANGED decVars
      BY <1>1, <1>3, <2>1, <3>2, WriterTracks
    <3>4. /\ dpc' = "idle" /\ UNCHANGED <<dbp, db, demax, got, copied>>
      BY <3>3 DEF decVars
    <3>5. DecodedOK'
      BY <1>1, <3>2, <3>3, <3>4, IdleDecoded
    <3> QED
      BY <3>3, <3>4, <3>5
  <2>2. CASE ~ (WriteTile_Block \/ EncodePiece \/ WriteTile_Turn)
    <3>1. UNCHANGED <<data, encVars>>
      BY <2>2 DEF Next, vars, DecompressTile_Begin, DecompressTile_Block, DecodePiece,
                  DecompressTile_Turn
    <3>2. Tracks /\ DecodedOK /\ dpc # "outside"
      BY <1>3, <3>1 DEF IInv, encVars
    <3>3. CASE DecompressTile_Begin
      <4>1. /\ dpc = "idle" /\ dpc' = "block" /\ UNCHANGED data
            /\ UNCHANGED <<dbp, db, demax, got, copied>>
        BY <3>3 DEF DecompressTile_Begin
      <4>2. DecodedOK'
        BY <1>1, <3>2, <4>1, IdleDecoded
      <4> QED
        BY <3>2, <3>3, <4>1, <4>2, BeginTracks
    <3>4. CASE DecompressTile_Block
      BY <1>1, <3>2, <3>4, HeadKept
    <3>5. CASE DecodePiece
      BY <1>1, <3>2, <3>5, PieceKept
    <3>6. CASE DecompressTile_Turn
      BY <1>1, <3>2, <3>6, TurnKept
    <3>7. CASE UNCHANGED vars
      <4>1. UNCHANGED <<data, encVars, decVars>>
        BY <3>7 DEF vars
      <4>2. DecodedOK'
        BY <3>2, <4>1 DEF DecodedOK, Passed, CodedExponent, Significant, Depth,
                          data, encVars, decVars
      <4>3. PICK h : /\ History(h)
                     /\ dpc = "idle" => With(h[1])
                     /\ Busy => \E k \in 1 .. Len(h) : With(h[k]) \/ Behind(h[k])
        BY <3>2 DEF Tracks
      <4>4. History(h)'
        BY <4>1, <4>3, HistoryKept
      <4>5. \A e : (With(e) => With(e)') /\ (Behind(e) => Behind(e)')
        BY <4>1 DEF With, Behind, PlaneOf, WantedAt, data, decVars
      <4>6. Busy' = Busy /\ dpc' = dpc
        BY <4>1 DEF Busy, decVars
      <4>7. Tracks'
        BY <4>3, <4>4, <4>5, <4>6 DEF Tracks
      <4> QED
        BY <3>2, <4>2, <4>6, <4>7
    <3> QED
      BY <2>2, <3>3, <3>4, <3>5, <3>6, <3>7 DEF Next
  <2> QED
    BY <2>1, <2>2
<1> QED
  BY <1>1, <1>2, <1>3 DEF IInv

THEOREM Invariance == ExponentsFit => (Spec => []IInv)
<1> SUFFICES ASSUME ExponentsFit PROVE Spec => []IInv
  OBVIOUS
<1>1. Init => IInv
  BY InitGood, InitTracks, InitDecoded DEF IInv, Init
<1>2. IInv /\ [Next]_vars => IInv'
  BY InvariantKept
<1> QED
  BY <1>1, <1>2, PTL DEF Spec

\* If the exponents of the blocks worth encoding fit their field, neither WriteTile
\* nor DecompressTile leaves its buffers, unless an EMax was torn (StaysInside): P is
\* never negative in Encode, and every bit Read is asked for is in the chunk.
THEOREM StaysInBuffers == ExponentsFit => (Spec => []StaysInside)
<1> SUFFICES ASSUME ExponentsFit PROVE Spec => []StaysInside
  OBVIOUS
<1>1. IInv => StaysInside
  BY DEF IInv, EncInv, Whole, EncNow, StaysInside
<1> QED
  BY <1>1, Invariance, PTL

\* Under the same conditions, however much of the chain is there, the decoder has
\* all bits and the exponent of everything it has gone past, and no bit that
\* WriteTile did not code (DecodesThePrefix).
THEOREM PrefixCorrect == ExponentsFit => (Spec => []DecodesThePrefix)
<1> SUFFICES ASSUME ExponentsFit PROVE Spec => []DecodesThePrefix
  OBVIOUS
<1>1. ASSUME IInv PROVE DecodesThePrefix
  <2>1. \A b \in Blocks, bp \in Planes : Passed(bp, b) => Passed(Prec - 1, b)
    <3>1. dbp \in Nat /\ \A bp \in Planes : bp \in Nat /\ bp <= Prec - 1
      BY <1>1, TileAssumption DEF IInv, DecInv, Planes
    <3>2. db \in Nat /\ Prec \in Nat /\ \A b \in Blocks : b \in Nat
      BY <1>1, TileAssumption DEF IInv, DecInv, Blocks
    <3>3. dbp <= Prec - 1
      BY <1>1, <3>1 DEF IInv, DecInv
    <3> QED
      BY <3>1, <3>2, <3>3 DEF Passed
  <2> QED
    BY <1>1, <2>1 DEF IInv, DecodedOK, DecodesThePrefix
<1> QED
  BY <1>1, Invariance, PTL

\* Under the same conditions, the whole chain gives the whole tile back, with room
\* left in its last chunk (AllBlocksCopied).
THEOREM CopyCorrect == ExponentsFit => (Spec => []AllBlocksCopied)
<1> SUFFICES ASSUME ExponentsFit PROVE Spec => []AllBlocksCopied
  OBVIOUS
<1>1. ASSUME IInv PROVE AllBlocksCopied
  <2>1. ChunksOK /\ nread \in Nat /\ S \in Nat
    BY <1>1, DecFacts DEF IInv, EncInv
  <2> SUFFICES ASSUME dpc = "done", ~ torn, Len(chunks[nread]) < S
               PROVE  copied = {<<b, CodedExponent(b), planes[b]>> : b \in Blocks}
    BY DEF AllBlocksCopied
  <2>2. Len(chunks[nread]) # S
    BY <2>1
  <2> QED
    BY <1>1, <2>2 DEF IInv, DecodedOK
<1> QED
  BY <1>1, Invariance, PTL

\* Under the same condition the reader finds the exponent WriteEMax was given
\* (ExponentsReturn): what TileCodecExponents.cfg refutes without it.
THEOREM ExponentsCorrect == ExponentsFit => (Spec => []ExponentsReturn)
<1> SUFFICES ASSUME ExponentsFit PROVE Spec => []ExponentsReturn
  OBVIOUS
<1>1. IInv => ExponentsReturn
  BY DEF IInv, DecodedOK, ExponentsReturn
<1> QED
  BY <1>1, Invariance, PTL
=============================================================================
