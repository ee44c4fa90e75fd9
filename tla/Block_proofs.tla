---------------------------- MODULE Block_proofs -----------------------------
(***************************************************************************)
(* What is done to one block.                                               *)
(*                                                                         *)
(* Its bit planes (BitPlane): Encode and Decode stay in step for every      *)
(* block size, chunk size, bit plane and starting point, by the inductive   *)
(* invariant IInv.                                                          *)
(*                                                                         *)
(* Its transform (ZfpBlock, here Zfp): the coefficients never outgrow the   *)
(* samples (NoExpansionCorrect), and the block that is rebuilt is as near    *)
(* to the samples as the planes it is made of allow (WithinLossCorrect), for *)
(* every block, precision and lowest plane.  A number in negabinary that    *)
(* loses its planes below c is off by what those planes can hold (Decoded);  *)
(* lifting a row back widens what its samples are off by, and the rounding   *)
(* adds a little (RowNear, AxisNear); three axes widen it to 36 times 2^c   *)
(* at most (ChainExists).  The inductive invariant is LossInv.              *)
(***************************************************************************)
EXTENDS BitPlane, BlockRange, Operators_proofs

\* Of the transform of a block.
CONSTANTS Width, Samples, Cuts
VARIABLES pass

Zfp == INSTANCE ZfpBlock

Good(e) == GoodCall(plane, S, e)

\* f is what Encode makes of e, and the chunks hold the bits it wrote.
Follows(e, f) ==
    /\ e.pc # "done"
    /\ e.pc = "call" =>
          /\ f = EncCall(S, e)
          /\ \A i \in 0 .. Refinement(S, e) - 1 :
                /\ <<e.ci, e.fill + i>> \in written
                /\ <<e.ci, e.fill + i>> \in ones <=> e.m + i \in plane
    /\ e.pc = "group" =>
          /\ f = EncGroup(plane, S, e)
          /\ AtGroupBit(S, e) => /\ Here(e) \in written
                                 /\ Here(e) \in ones <=> Pending(plane, e)
    /\ e.pc = "inner" =>
          /\ f = EncInner(plane, S, e)
          /\ AtCoefBit(S, e) => /\ Here(e) \in written
                                /\ Here(e) \in ones <=> Cursor(e) \in plane
    /\ e.pc = "after" => f = EncAfter(S, e)
    /\ e.pc = "return" => f = EncReturn(e)

\* Every bit written lies before the position of the encoder.
Fresh == \A a \in written : a[1] < enc.ci \/ (a[1] = enc.ci /\ a[2] < enc.fill)

HistOK ==
    /\ hist \in Seq(CallState) /\ hist # <<>>
    /\ hist[Len(hist)] = enc
    /\ \A j \in 1 .. Len(hist) : Good(hist[j])
    /\ \A j \in 1 .. Len(hist) - 1 : Follows(hist[j], hist[j + 1])

\* The decoder has exactly the bits of the coefficients before its cursor.
DecOK ==
    /\ dec \in [pc : PCs, n : Nat, m : Nat, p : Nat, in : {0, 1}, lb : {0, 1},
                ci : Nat, fill : Nat, x : SUBSET Coefs, block : SUBSET Coefs]
    /\ dk \in 1 .. Len(hist)
    /\ InStep(plane, hist[dk], dec)

IInv ==
    /\ S \in ChunkBits
    /\ plane \subseteq Coefs
    /\ written \subseteq Nat \X Nat
    /\ ones \subseteq written
    /\ Fresh
    /\ HistOK
    /\ DecOK

-----------------------------------------------------------------------------
\* The plane and the chunk are what the pieces of Encode take for granted.
LEMMA PlaneFacts ==
    ASSUME S \in ChunkBits, plane \subseteq Coefs
    PROVE  Context(plane, S)
  BY ChunkBitsAssumption DEF Context

\* Going on to the next chunk keeps Good.
LEMMA EncReturnGood ==
    ASSUME Context(plane, S), NEW e, Good(e), e.pc = "return"
    PROVE  Good(EncReturn(e))
  <1>1. /\ e \in CallState /\ e.fill <= S /\ S \in Nat /\ Cursor(e) \in Nat
    BY ContextFacts DEF Good, GoodCall, CallState, Cursor
  <1>2. PICK f : f = EncReturn(e)
    OBVIOUS
  <1>3. /\ f.pc = IF Full(e) THEN "done" ELSE "call"
        /\ f.n = e.n /\ f.m = Cursor(e) /\ f.p = 0 /\ f.in = e.in /\ f.lb = e.lb
        /\ f.fill <= S
    BY <1>1, <1>2 DEF EncReturn, NextChunk, Room, CallState
  <1>4. f \in CallState
    BY <1>1, <1>2, PCsFacts, StateFacts DEF EncReturn, NextChunk, Room, CallState
  <1> QED
    BY <1>2, <1>3, <1>4, ReturnGood DEF Good, GoodCall

-----------------------------------------------------------------------------
\* What is known of earlier states stays true when the encoder goes on.
Kept ==
    /\ S' = S /\ plane' = plane
    /\ written \subseteq written'
    /\ \A a \in written : a \in ones' <=> a \in ones

\* What one state of the encoder has to do with the next is not undone by bits
\* written later.
LEMMA FollowsKept ==
    ASSUME NEW e, NEW f, Follows(e, f), Kept
    PROVE  Follows(e, f)'
  BY DEF Follows, Kept, Pending, EncReturn, NextChunk

\* Good is about the state, the plane and the chunk size only.
LEMMA GoodKept ==
    ASSUME NEW e, Good(e), S' = S, plane' = plane
    PROVE  Good(e)'
  BY DEF Good, GoodCall, Pending

\* A decoder that is not done has a state of the encoder's history after the one
\* it is in.
LEMMA DoneNotYet ==
    ASSUME IInv, dec.pc # "done", enc.pc = "done"
    PROVE  /\ dk \in Nat /\ dk + 1 \in 1 .. Len(hist)
           /\ Follows(hist[dk], hist[dk + 1])
           /\ Good(hist[dk]) /\ Good(hist[dk + 1])
  <1>1. Len(hist) \in Nat /\ dk \in 1 .. Len(hist)
    BY DEF IInv, HistOK, DecOK
  <1>2. hist[dk].pc = dec.pc
    BY DEF IInv, DecOK, InStep, Common
  <1>3. dk # Len(hist)
    BY <1>2 DEF IInv, HistOK
  <1> QED
    BY <1>1, <1>3 DEF IInv, HistOK

\* A step of Encode that adds its bits at its own position keeps IInv.
LEMMA EncodeStep ==
    ASSUME IInv, NEW e, NEW f, e = enc, EncGoes(f), Good(f), Kept,
           Follows(e, f)', written' \subseteq Nat \X Nat, ones' \subseteq written',
           Fresh'
    PROVE  IInv'
  <1>1. /\ enc' = f /\ hist' = Append(hist, f)
        /\ dec' = dec /\ dk' = dk /\ S' = S /\ plane' = plane
    BY DEF EncGoes
  <1>2. /\ hist \in Seq(CallState) /\ hist # <<>> /\ Len(hist) \in Nat
        /\ Len(hist) >= 1 /\ f \in CallState
    BY DEF IInv, HistOK, Good, GoodCall
  <1>3. /\ hist' \in Seq(CallState) /\ Len(hist') = Len(hist) + 1
        /\ hist'[Len(hist')] = f
        /\ \A j \in 1 .. Len(hist) : hist'[j] = hist[j]
    BY <1>1, <1>2
  <1>4. (\A j \in 1 .. Len(hist) : Good(hist[j]))'
    <2> SUFFICES ASSUME NEW j \in (1 .. Len(hist))' PROVE Good(hist[j])'
      OBVIOUS
    <2>1. PICK g : g = hist'[j]
      OBVIOUS
    <2>2. Good(g)
      BY <2>1, <1>2, <1>3 DEF IInv, HistOK
    <2>3. Good(g)'
      BY <2>2, <1>1, GoodKept
    <2> QED
      BY <2>1, <2>3 DEF Good, GoodCall, Pending
  <1>5. (\A j \in 1 .. Len(hist) - 1 : Follows(hist[j], hist[j + 1]))'
    <2> SUFFICES ASSUME NEW j \in (1 .. Len(hist) - 1)'
                 PROVE  Follows(hist[j], hist[j + 1])'
      OBVIOUS
    <2>1. PICK g, h : g = hist'[j] /\ h = hist'[j + 1]
      OBVIOUS
    <2>2. Follows(g, h)'
      <3>1. CASE j = Len(hist)
        <4>1. g = e /\ h = f
          BY <3>1, <2>1, <1>2, <1>3 DEF IInv, HistOK
        <4> QED
          BY <4>1
      <3>2. CASE j # Len(hist)
        <4>1. j \in 1 .. Len(hist) - 1
          BY <3>2, <1>2, <1>3
        <4>2. g = hist[j] /\ h = hist[j + 1]
          BY <4>1, <2>1, <1>2, <1>3
        <4>3. Follows(g, h)
          BY <4>1, <4>2 DEF IInv, HistOK
        <4> QED
          BY <4>3, FollowsKept
      <3> QED
        BY <3>1, <3>2
    <2> QED
      BY <2>1, <2>2 DEF Follows, Pending, EncReturn, NextChunk
  <1>6. HistOK'
    BY <1>1, <1>2, <1>3, <1>4, <1>5 DEF HistOK
  <1>7. DecOK'
    BY <1>1, <1>2, <1>3 DEF IInv, DecOK, InStep, Common, Cursor
  <1> QED
    BY <1>1, <1>6, <1>7 DEF IInv

\* Both start in the same state, with nothing written and nothing decoded.
LEMMA InitInv == Init => IInv
  <1> SUFFICES ASSUME Init PROVE IInv
    OBVIOUS
  <1>1. PICK n \in 0 .. NC, fill \in 0 .. S :
           enc = Entry(n, fill) /\ dec = DecEntry(n, fill)
    BY DEF Init
  <1>2. Context(plane, S)
    BY PlaneFacts DEF Init
  <1>3. /\ S \in Nat /\ NC \in Nat /\ n \in Nat /\ fill \in Nat
        /\ \A i \in plane : i \in Nat
    BY <1>2, ContextFacts
  <1>4. enc \in CallState
    BY <1>1, <1>3, PCsFacts DEF Entry, CallState
  <1>5. Good(enc)
    BY <1>1, <1>3, <1>4 DEF Entry, Good, GoodCall, Cursor
  <1>6. HistOK
    BY <1>4, <1>5 DEF Init, HistOK
  <1>7. DecOK
    <2>1. dec \in [pc : PCs, n : Nat, m : Nat, p : Nat, in : {0, 1}, lb : {0, 1},
                ci : Nat, fill : Nat, x : SUBSET Coefs, block : SUBSET Coefs]
      BY <1>1, <1>3, PCsFacts DEF DecEntry
    <2>2. Common(dec) = enc
      BY <1>1 DEF Common, Entry, DecEntry
    <2> QED
      BY <1>1, <1>3, <1>6, <2>1, <2>2 DEF Init, DecOK, InStep, DecEntry, Cursor
  <1> QED
    BY <1>6, <1>7 DEF Init, IInv, Fresh

\* Each of the five pieces of Encode keeps the invariant.
LEMMA EncodeInv == IInv /\ Encode => IInv'
  <1> SUFFICES ASSUME IInv, Encode PROVE IInv'
    OBVIOUS
  <1>0. /\ Context(plane, S) /\ Good(enc) /\ enc \in CallState /\ Fresh
        /\ written \subseteq Nat \X Nat /\ ones \subseteq written
    <2>1. Good(enc)
      BY DEF IInv, HistOK
    <2> QED
      BY <2>1, PlaneFacts DEF IInv, Good, GoodCall
  <1>1. PICK e : e = enc
    OBVIOUS
  <1>2. e.ci \in Nat /\ e.fill \in Nat /\ S \in Nat
    BY <1>0, <1>1, ContextFacts DEF CallState
  <1>3. CASE Encode_Call
    <2>1. PICK f : f = EncCall(S, e)
      OBVIOUS
    <2>2. Good(f) /\ EncGoes(f)
      BY <1>0, <1>1, <1>3, <2>1, CallGood DEF Encode_Call, Good
    <2>3. Refinement(S, e) \in Nat
      BY <1>0, <1>1, <1>2, ContextFacts DEF Good, GoodCall, Refinement, Lesser, CallState, Cursor
    <2>4. f.ci = e.ci /\ f.fill = e.fill + Refinement(S, e)
      BY <1>0, <1>1, <2>1 DEF EncCall, CallState
    <2>5. /\ written' = written \union RefinementAt(e)
          /\ ones' = ones \union {<<e.ci, e.fill + i>> :
                  i \in {k \in 0 .. Refinement(S, e) - 1 : e.m + k \in plane}}
          /\ S' = S /\ plane' = plane /\ enc' = f
      BY <1>1, <1>3, <2>1 DEF Encode_Call, EncGoes
    <2>6. RefinementAt(e) \subseteq Nat \X Nat
      BY <1>2, <2>3 DEF RefinementAt
    <2>7. ones' \subseteq written' /\ written' \subseteq Nat \X Nat
      BY <1>0, <2>5, <2>6 DEF RefinementAt
    <2>8. \A a \in RefinementAt(e) : a \notin written
      BY <1>0, <1>1, <1>2, <2>3 DEF RefinementAt, Fresh
    <2>9. Kept
      BY <2>5, <2>8 DEF Kept, RefinementAt
    <2>10. Follows(e, f)'
      <3>1. \A i \in 0 .. Refinement(S, e) - 1 :
               /\ <<e.ci, e.fill + i>> \in written'
               /\ <<e.ci, e.fill + i>> \in ones' <=> e.m + i \in plane
        <4> SUFFICES ASSUME NEW i \in 0 .. Refinement(S, e) - 1
                     PROVE /\ <<e.ci, e.fill + i>> \in written'
                           /\ <<e.ci, e.fill + i>> \in ones' <=> e.m + i \in plane
          OBVIOUS
        <4>1. <<e.ci, e.fill + i>> \in RefinementAt(e)
          BY DEF RefinementAt
        <4>2. <<e.ci, e.fill + i>> \notin ones
          BY <4>1, <2>8, <1>0
        <4>3. \A k \in 0 .. Refinement(S, e) - 1 :
                 <<e.ci, e.fill + k>> = <<e.ci, e.fill + i>> => k = i
          BY <1>2, <2>3
        <4> QED
          BY <4>1, <4>2, <4>3, <2>5
      <3> QED
        BY <1>1, <1>3, <2>1, <2>5, <3>1 DEF Follows, Encode_Call
    <2>11. Fresh'
      <3> SUFFICES ASSUME NEW a \in written'
                   PROVE  a[1] < f.ci \/ (a[1] = f.ci /\ a[2] < f.fill)
        BY <2>5 DEF Fresh
      <3>1. CASE a \in written
        BY <3>1, <1>0, <1>1, <1>2, <2>3, <2>4 DEF Fresh
      <3>2. CASE a \in RefinementAt(e)
        BY <3>2, <1>2, <2>3, <2>4 DEF RefinementAt
      <3> QED
        BY <3>1, <3>2, <2>5
    <2> QED
      BY <1>1, <2>2, <2>7, <2>9, <2>10, <2>11, EncodeStep
  <1>4. CASE Encode_Group
    <2>1. PICK f : f = EncGroup(plane, S, e)
      OBVIOUS
    <2>2. Good(f) /\ EncGoes(f)
      BY <1>0, <1>1, <1>4, <2>1, GroupGood DEF Encode_Group, Good
    <2>3. S' = S /\ plane' = plane /\ enc' = f /\ e.pc = "group"
      BY <1>1, <1>4, <2>2 DEF Encode_Group, EncGoes
    <2>4. CASE AtGroupBit(S, e)
      <3>1. f.ci = e.ci /\ f.fill = e.fill + 1
        BY <1>0, <1>1, <2>1, <2>4 DEF EncGroup, CallState
      <3>2. Write(GroupBit(plane, e))
        BY <1>1, <1>4, <2>4 DEF Encode_Group
      <3>3. GroupBit(plane, e) = 1 <=> Pending(plane, e)
        BY DEF GroupBit, Pending
      <3>4. PICK b : b = GroupBit(plane, e)
        OBVIOUS
      <3>5. /\ Kept /\ Fresh'
            /\ written' \subseteq Nat \X Nat /\ ones' \subseteq written'
            /\ Here(e) \in written' /\ (Here(e) \in ones' <=> b = 1)
        BY <1>0, <1>1, <1>2, <2>3, <3>1, <3>2, <3>4 DEF Write, Here, Kept, Fresh
      <3>6. Follows(e, f)'
        BY <2>1, <2>3, <3>3, <3>4, <3>5 DEF Follows, Pending
      <3> QED
        BY <1>1, <2>2, <3>5, <3>6, EncodeStep
    <2>5. CASE ~ AtGroupBit(S, e)
      <3>1. f.ci = e.ci /\ f.fill = e.fill
        BY <1>0, <1>1, <2>1, <2>5 DEF EncGroup, CallState
      <3>2. written' = written /\ ones' = ones
        BY <1>1, <1>4, <2>5 DEF Encode_Group
      <3>3. Kept /\ Fresh'
        BY <1>0, <1>1, <2>3, <3>1, <3>2 DEF Kept, Fresh
      <3>4. Follows(e, f)'
        BY <2>1, <2>3, <2>5 DEF Follows, AtGroupBit, Room
      <3> QED
        BY <1>0, <1>1, <2>2, <3>2, <3>3, <3>4, EncodeStep
    <2> QED
      BY <2>4, <2>5
  <1>5. CASE Encode_Inner
    <2>1. PICK f : f = EncInner(plane, S, e)
      OBVIOUS
    <2>2. Good(f) /\ EncGoes(f)
      BY <1>0, <1>1, <1>5, <2>1, InnerGood DEF Encode_Inner, Good
    <2>3. S' = S /\ plane' = plane /\ enc' = f /\ e.pc = "inner"
      BY <1>1, <1>5, <2>2 DEF Encode_Inner, EncGoes
    <2>4. CASE AtCoefBit(S, e)
      <3>1. f.ci = e.ci /\ f.fill = e.fill + 1
        BY <1>0, <1>1, <2>1, <2>4 DEF EncInner, CallState
      <3>2. Write(CoefBit(plane, e))
        BY <1>1, <1>5, <2>4 DEF Encode_Inner
      <3>3. CoefBit(plane, e) = 1 <=> Cursor(e) \in plane
        BY DEF CoefBit
      <3>4. PICK b : b = CoefBit(plane, e)
        OBVIOUS
      <3>5. /\ Kept /\ Fresh'
            /\ written' \subseteq Nat \X Nat /\ ones' \subseteq written'
            /\ Here(e) \in written' /\ (Here(e) \in ones' <=> b = 1)
        BY <1>0, <1>1, <1>2, <2>3, <3>1, <3>2, <3>4 DEF Write, Here, Kept, Fresh
      <3>6. Follows(e, f)'
        BY <2>1, <2>3, <3>3, <3>4, <3>5 DEF Follows
      <3> QED
        BY <1>1, <2>2, <3>5, <3>6, EncodeStep
    <2>5. CASE ~ AtCoefBit(S, e)
      <3>1. f.ci = e.ci /\ f.fill = e.fill
        BY <1>0, <1>1, <2>1, <2>5 DEF EncInner, CallState
      <3>2. written' = written /\ ones' = ones
        BY <1>1, <1>5, <2>5 DEF Encode_Inner
      <3>3. Kept /\ Fresh'
        BY <1>0, <1>1, <2>3, <3>1, <3>2 DEF Kept, Fresh
      <3>4. Follows(e, f)'
        BY <2>1, <2>3, <2>5 DEF Follows, AtCoefBit, Room
      <3> QED
        BY <1>0, <1>1, <2>2, <3>2, <3>3, <3>4, EncodeStep
    <2> QED
      BY <2>4, <2>5
  <1>6. CASE Encode_After
    <2>1. PICK f : f = EncAfter(S, e)
      OBVIOUS
    <2>2. Good(f) /\ EncGoes(f)
      BY <1>0, <1>1, <1>6, <2>1, AfterGood DEF Encode_After, Good
    <2>3. /\ S' = S /\ plane' = plane /\ enc' = f /\ e.pc = "after"
          /\ written' = written /\ ones' = ones
      BY <1>1, <1>6, <2>2 DEF Encode_After, EncGoes
    <2>4. f.ci = e.ci /\ f.fill = e.fill
      BY <1>0, <1>1, <2>1 DEF EncAfter, CallState
    <2>5. Kept /\ Fresh'
      BY <1>0, <1>1, <2>3, <2>4 DEF Kept, Fresh
    <2>6. Follows(e, f)'
      BY <2>1, <2>3 DEF Follows
    <2> QED
      BY <1>0, <1>1, <2>2, <2>3, <2>5, <2>6, EncodeStep
  <1>7. CASE Encode_Return
    <2>1. PICK f : f = EncReturn(e)
      OBVIOUS
    <2>2. Good(f) /\ EncGoes(f)
      BY <1>0, <1>1, <1>7, <2>1, EncReturnGood DEF Encode_Return
    <2>3. /\ S' = S /\ plane' = plane /\ enc' = f /\ e.pc = "return"
          /\ written' = written /\ ones' = ones
      BY <1>1, <1>7, <2>2 DEF Encode_Return, EncGoes
    <2>4. \/ f.ci = e.ci /\ f.fill = e.fill
          \/ f.ci = e.ci + 1
      BY <1>0, <1>1, <2>1 DEF EncReturn, NextChunk, CallState
    <2>5. Kept /\ Fresh'
      BY <1>0, <1>1, <1>2, <2>3, <2>4 DEF Kept, Fresh
    <2>6. Follows(e, f)'
      BY <2>1, <2>3 DEF Follows, EncReturn, NextChunk
    <2> QED
      BY <1>0, <1>1, <2>2, <2>3, <2>5, <2>6, EncodeStep
  <1> QED
    BY <1>3, <1>4, <1>5, <1>6, <1>7 DEF Encode

\* The history stays good when the encoder does not move.
LEMMA HistKept ==
    ASSUME HistOK, hist' = hist, enc' = enc, Kept
    PROVE  HistOK'
  <1>1. (\A j \in 1 .. Len(hist) : Good(hist[j]))'
    <2> SUFFICES ASSUME NEW j \in (1 .. Len(hist))' PROVE Good(hist[j])'
      OBVIOUS
    <2>1. PICK g : g = hist[j]
      OBVIOUS
    <2>2. Good(g)'
      BY <2>1, GoodKept DEF HistOK, Kept
    <2> QED
      BY <2>1, <2>2 DEF Good, GoodCall, Pending
  <1>2. (\A j \in 1 .. Len(hist) - 1 : Follows(hist[j], hist[j + 1]))'
    <2> SUFFICES ASSUME NEW j \in (1 .. Len(hist) - 1)'
                 PROVE  Follows(hist[j], hist[j + 1])'
      OBVIOUS
    <2>1. PICK g, h : g = hist[j] /\ h = hist[j + 1]
      OBVIOUS
    <2>2. Follows(g, h)'
      BY <2>1, FollowsKept DEF HistOK
    <2> QED
      BY <2>1, <2>2 DEF Follows, Pending, EncReturn, NextChunk
  <1> QED
    BY <1>1, <1>2 DEF HistOK

\* A step of Decode to a state d in step with the encoder keeps IInv.
LEMMA DecodeStep ==
    ASSUME IInv, dec.pc # "done", enc.pc = "done", NEW d, DecGoes(d),
           InStep(plane, hist[dk + 1], d)
    PROVE  IInv'
  <1>1. /\ dk \in Nat /\ dk + 1 \in 1 .. Len(hist) /\ Good(hist[dk + 1])
    BY DoneNotYet
  <1>2. Common(d) \in CallState
    BY <1>1 DEF Good, GoodCall, InStep
  <1>3. /\ d.pc \in PCs /\ d.n \in Nat /\ d.m \in Nat /\ d.p \in Nat
        /\ d.in \in {0, 1} /\ d.lb \in {0, 1} /\ d.ci \in Nat /\ d.fill \in Nat
    BY <1>2 DEF Common, CallState
  <1>4. d.x \in SUBSET Coefs /\ d.block \in SUBSET Coefs
    BY DEF IInv, InStep
  <1>5. /\ dec' = d /\ dk' = dk + 1 /\ S' = S /\ plane' = plane /\ enc' = enc
        /\ written' = written /\ ones' = ones /\ hist' = hist
    BY DEF DecGoes
  <1>6. DecOK'
    <2>1. d \in [pc : PCs, n : Nat, m : Nat, p : Nat, in : {0, 1}, lb : {0, 1},
                ci : Nat, fill : Nat, x : SUBSET Coefs, block : SUBSET Coefs]
      BY <1>3, <1>4 DEF InStep
    <2> QED
      BY <1>1, <1>5, <2>1 DEF DecOK, InStep, Common, Cursor
  <1>7. HistOK' /\ Fresh'
    BY <1>5, HistKept DEF IInv, Fresh, Kept
  <1> QED
    BY <1>5, <1>6, <1>7 DEF IInv

\* Each of the five pieces of Decode keeps the invariant: it reads the bits its
\* counterpart wrote.
LEMMA DecodeInv == IInv /\ Decode => IInv'
  <1> SUFFICES ASSUME IInv, Decode PROVE IInv'
    OBVIOUS
  <1>1. enc.pc = "done" /\ dec.pc # "done"
    BY DEF Decode, Decode_Call, Decode_Group, Decode_Inner, Decode_After,
           Decode_Return
  <1>2. PICK e, g : e = hist[dk] /\ g = hist[dk + 1]
    OBVIOUS
  <1>3. PICK d : d = dec
    OBVIOUS
  <1>4. /\ Follows(e, g) /\ GoodCall(plane, S, e) /\ Context(plane, S)
        /\ InStep(plane, e, d)
    BY <1>1, <1>2, <1>3, DoneNotYet, PlaneFacts DEF IInv, DecOK, Good
  <1>5. /\ e.pc = d.pc /\ e.ci = d.ci /\ e.fill = d.fill
        /\ Refinement(S, d) = Refinement(S, e)
    BY <1>4, StepFacts
  <1>6. ReadBit = IF Here(e) \in ones THEN 1 ELSE 0
    BY <1>3, <1>5 DEF ReadBit, Here
  <1>7. ASSUME NEW f, DecGoes(f), InStep(plane, g, f) PROVE IInv'
    BY <1>1, <1>2, <1>7, DecodeStep
  <1>8. CASE Decode_Call
    <2>1. PICK bits : bits = {i \in 0 .. Refinement(S, d) - 1 :
                                 <<d.ci, d.fill + i>> \in ones}
      OBVIOUS
    <2>2. DecGoes(DecCall(S, d, bits)) /\ e.pc = "call"
      BY <1>3, <1>5, <1>8, <2>1 DEF Decode_Call
    <2>3. /\ g = EncCall(S, e)
          /\ \A i \in 0 .. Refinement(S, e) - 1 : i \in bits <=> e.m + i \in plane
          /\ bits \subseteq 0 .. Refinement(S, e) - 1
      BY <1>4, <1>5, <2>1, <2>2 DEF Follows
    <2> QED
      BY <1>4, <1>7, <2>2, <2>3, CallStep
  <1>9. CASE Decode_Group
    <2>1. PICK b : b = ReadBit
      OBVIOUS
    <2>2. DecGoes(DecGroup(S, d, b)) /\ e.pc = "group"
      BY <1>3, <1>5, <1>9, <2>1 DEF Decode_Group
    <2>3. g = EncGroup(plane, S, e)
      BY <1>4, <2>2 DEF Follows
    <2>4. AtGroupBit(S, e) => b = GroupBit(plane, e)
      BY <1>4, <1>6, <2>1, <2>2 DEF Follows, GroupBit, Pending
    <2> QED
      BY <1>4, <1>7, <2>2, <2>3, <2>4, GroupStep
  <1>10. CASE Decode_Inner
    <2>1. PICK b : b = ReadBit
      OBVIOUS
    <2>2. DecGoes(DecInner(S, d, b)) /\ e.pc = "inner"
      BY <1>3, <1>5, <1>10, <2>1 DEF Decode_Inner
    <2>3. g = EncInner(plane, S, e)
      BY <1>4, <2>2 DEF Follows
    <2>4. AtCoefBit(S, e) => b = CoefBit(plane, e)
      BY <1>4, <1>6, <2>1, <2>2 DEF Follows, CoefBit
    <2> QED
      BY <1>4, <1>7, <2>2, <2>3, <2>4, InnerStep
  <1>11. CASE Decode_After
    <2>1. DecGoes(DecAfter(S, d)) /\ e.pc = "after"
      BY <1>3, <1>5, <1>11 DEF Decode_After
    <2>2. g = EncAfter(S, e)
      BY <1>4, <2>1 DEF Follows
    <2> QED
      BY <1>4, <1>7, <2>1, <2>2, AfterStep
  <1>12. CASE Decode_Return
    <2>1. DecGoes(DecReturn(d)) /\ e.pc = "return"
      BY <1>3, <1>5, <1>12 DEF Decode_Return
    <2>2. g = EncReturn(e) /\ (Full(d) <=> Full(e))
      BY <1>4, <2>1, StepFacts DEF Follows, Full
    <2>3. PICK to, ci, fill : /\ to = IF Full(e) THEN "done" ELSE "call"
                              /\ ci = IF Room(S, e) THEN e.ci ELSE e.ci + 1
                              /\ fill = IF Room(S, e) THEN e.fill ELSE 0
      OBVIOUS
    <2>4. g = [e EXCEPT !.m = Cursor(e), !.p = 0, !.pc = to, !.ci = ci, !.fill = fill]
      BY <1>4, <2>2, <2>3 DEF EncReturn, NextChunk, Room, GoodCall, CallState
    <2>5. DecReturn(d) = [Deposit(d) EXCEPT !.pc = to, !.ci = ci, !.fill = fill]
      BY <1>4, <1>5, <2>2, <2>3 DEF DecReturn, NextChunk, Room, Deposit, InStep
    <2> QED
      BY <1>4, <1>7, <2>1, <2>4, <2>5, DepositStep
  <1> QED
    BY <1>8, <1>9, <1>10, <1>11, <1>12 DEF Decode

\* The inductive invariant holds in every state: the history of Encode is one of
\* good states each of which follows from the one before, and Decode is in one of
\* them, with the bits of the coefficients before its cursor.
THEOREM Invariance == Spec => []IInv
  <1>1. IInv /\ UNCHANGED vars => IInv'
    <2> SUFFICES ASSUME IInv, UNCHANGED vars PROVE IInv'
      OBVIOUS
    <2>1. HistOK'
      BY HistKept DEF IInv, vars, Kept
    <2>2. DecOK' /\ Fresh'
      BY DEF IInv, vars, DecOK, InStep, Fresh, Common, Cursor
    <2> QED
      BY <2>1, <2>2 DEF IInv, vars
  <1>2. IInv /\ [Next]_vars => IInv'
    BY <1>1, EncodeInv, DecodeInv DEF Next
  <1> QED
    BY <1>2, InitInv, PTL DEF Spec

\* Every variable keeps its type (the call states of mg_zfp.cpp:11-86, bits and
\* addresses, the history), for every block size and set of chunk sizes.
THEOREM TypeCorrect == Spec => []TypeOK
  <1>1. IInv => TypeOK
    BY DEF IInv, HistOK, DecOK, Good, GoodCall, TypeOK
  <1> QED
    BY <1>1, Invariance, PTL

\* Decode repeats Encode piece by piece across chunk boundaries
\* (mg_zfp.cpp:11-86), for every block size, chunk size, bit plane, N and
\* position in the chunk the plane starts at.
THEOREM LockstepCorrect == Spec => []Lockstep
  <1>1. IInv => Lockstep
    BY DEF IInv, HistOK, DecOK, InStep, Lockstep
  <1> QED
    BY <1>1, Invariance, PTL

\* A plane that Decode reports as fully decoded is the plane that was encoded
\* (mg_zfp.cpp:81-85).
THEOREM RecoveryCorrect == Spec => []PlaneRecovered
  <1>1. ASSUME IInv PROVE PlaneRecovered
    <2> SUFFICES ASSUME dec.pc = "done" PROVE dec.block = plane
      BY DEF PlaneRecovered
    <2>1. PICK e : e = hist[dk]
      OBVIOUS
    <2>2. Good(e) /\ e = Common(dec) /\ e \in CallState
      BY <1>1, <2>1 DEF IInv, HistOK, DecOK, InStep, Good, GoodCall
    <2>3. e.pc = "done" /\ e.m = dec.m /\ e.p = dec.p
      BY <2>2 DEF Common
    <2>4. e.p = 0 /\ ~ Pending(plane, e) /\ e.m \in Nat
      BY <2>2, <2>3 DEF Good, GoodCall, CallState
    <2>5. \A i \in plane : i \in Nat
      BY <1>1, PlaneFacts, ContextFacts DEF IInv
    <2>6. \A i \in plane : i < dec.m
      BY <2>3, <2>4, <2>5 DEF Pending, Cursor
    <2> QED
      BY <1>1, <2>6 DEF IInv, DecOK, InStep
  <1> QED
    BY <1>1, Invariance, PTL

\* The assertion of DecompressTile (mg_file_format.cpp:521) holds: a call of
\* Decode that leaves bits in its chunk has decoded the whole plane.
THEOREM AssertionHolds == Spec => []DecodedOrExhausted
  <1>1. ASSUME IInv PROVE DecodedOrExhausted
    <2> SUFFICES ASSUME dec.pc = "return", Room(S, dec) PROVE Full(dec)
      BY DEF DecodedOrExhausted
    <2>1. PICK e : e = hist[dk]
      OBVIOUS
    <2>2. Good(e) /\ e = Common(dec)
      BY <1>1, <2>1 DEF IInv, HistOK, DecOK, InStep
    <2>3. e.pc = "return" /\ Room(S, e) /\ (Full(e) => Full(dec))
      BY <2>2 DEF Common, Room, Full, Cursor
    <2> QED
      BY <2>2, <2>3 DEF Good, GoodCall
  <1> QED
    BY <1>1, Invariance, PTL

\* Encode stays within the chunk and within the block, `mg_Assert(N <= 64)`
\* (mg_zfp.cpp:48).
THEOREM BoundsCorrect == Spec => []WithinBounds
  <1>1. IInv => WithinBounds
    BY DEF IInv, HistOK, Good, GoodCall, WithinBounds
  <1> QED
    BY <1>1, Invariance, PTL

\* No bit of a plane is added to Block twice (mg_zfp.cpp:81-84).
THEOREM DepositsCorrect == Spec => []DepositedOnce
  <1>1. IInv => DepositedOnce
    <2> SUFFICES ASSUME IInv PROVE DepositedOnce
      OBVIOUS
    <2>1. dec.m \in Nat /\ \A i \in plane : i \in Nat
      BY PlaneFacts, ContextFacts DEF IInv, DecOK
    <2> QED
      BY <2>1 DEF IInv, DecOK, InStep, DepositedOnce
  <1> QED
    BY <1>1, Invariance, PTL

-----------------------------------------------------------------------------
(* Sets of planes as numbers.                                              *)

\* What holds of 0, and of n + 1 if it holds of n, holds of every natural.
LEMMA Induct ==
    ASSUME NEW T, 0 \in T, \A n \in Nat : n \in T => n + 1 \in T
    PROVE  Nat \subseteq T
<1> SUFFICES ASSUME Nat \ T # {} PROVE FALSE
  OBVIOUS
<1>1. PICK x \in Nat \ T : \A y \in Nat \ T : x <= y
  BY Least
<1>2. x # 0 /\ x - 1 \in Nat
  BY <1>1
<1>3. x - 1 \in T
  BY <1>1, <1>2
<1>4. (x - 1) + 1 = x
  BY <1>1
<1> QED BY <1>1, <1>2, <1>3, <1>4

Pick(s) == CHOOSE i \in s : TRUE

\* What Zfp!Number adds up, for the subsets of U: f[s] has the powers of s.
Adds(f, D) ==
    f = [s \in D |-> IF s = {} THEN 0 ELSE 2 ^ Pick(s) + f[s \ {Pick(s)}]]
Sums(U) == CHOOSE f : Adds(f, SUBSET U)

LEMMA NumberIs == ASSUME NEW s PROVE Zfp!Number(s) = Sums(s)[s]
BY DEF Zfp!Number, Zfp!MapThenSumSet, Zfp!MapThenFoldSet, Sums, Adds, Pick

\* A set that is not empty is one larger than without the element picked.
LEMMA PickOne ==
    ASSUME NEW s, IsFiniteSet(s), s # {}, NEW i \in s
    PROVE  /\ Pick(s) \in s
           /\ IsFiniteSet(s \ {i}) /\ Cardinality(s) \in Nat
           /\ Cardinality(s \ {i}) = Cardinality(s) - 1
BY FS_RemoveElement, FS_CardinalityType DEF Pick

\* There is such an f: for the subsets of up to n elements, and so for all.
LEMMA SumsExist ==
    ASSUME NEW U, IsFiniteSet(U)
    PROVE  Adds(Sums(U), SUBSET U)
<1> DEFINE D(n) == {s \in SUBSET U : Cardinality(s) <= n}
           T == {n \in Nat : \E f : Adds(f, D(n))}
<1>1. \A s \in SUBSET U : IsFiniteSet(s) /\ Cardinality(s) \in Nat
  BY FS_Subset, FS_CardinalityType
<1>2. 0 \in T
  <2>1. \A s \in D(0) : s = {}
    BY <1>1, FS_EmptySet
  <2> DEFINE f == [s \in D(0) |-> 0]
  <2>2. Adds(f, D(0))
    <3>1. f = [s \in D(0) |-> IF s = {} THEN 0 ELSE 2 ^ Pick(s) + f[s \ {Pick(s)}]]
      BY <2>1
    <3> QED BY <3>1 DEF Adds
  <2> HIDE DEF f
  <2> QED BY <2>2
<1>3. ASSUME NEW n \in Nat, n \in T
      PROVE  n + 1 \in T
  <2>1. PICK f : Adds(f, D(n))
    BY <1>3
  <2> DEFINE E(s, g) == IF s = {} THEN 0 ELSE 2 ^ Pick(s) + g[s \ {Pick(s)}]
             h == [s \in D(n + 1) |-> E(s, f)]
  <2>2. \A s \in D(n) : f[s] = E(s, f)
    BY <2>1 DEF Adds
  <2>3. D(n) \subseteq D(n + 1)
    BY <1>1
  <2>4. ASSUME NEW s \in D(n + 1), s # {}
        PROVE  s \ {Pick(s)} \in D(n)
    <3>1. IsFiniteSet(s) /\ Pick(s) \in s /\ Cardinality(s) \in Nat
      BY <1>1, <2>4, PickOne
    <3>2. Cardinality(s \ {Pick(s)}) = Cardinality(s) - 1
      BY <2>4, <3>1, PickOne
    <3> QED BY <3>1, <3>2
  <2>5. \A s \in D(n) : h[s] = f[s]
    BY <2>2, <2>3
  <2>6. h = [s \in D(n + 1) |-> E(s, h)]
    <3>1. \A s \in D(n + 1) : E(s, h) = E(s, f)
      <4> HIDE DEF h, D
      <4> QED BY <2>4, <2>5
    <3> QED BY <3>1
  <2>7. Adds(h, D(n + 1))
    <3> HIDE DEF h
    <3> QED BY <2>6 DEF Adds
  <2>8. \E f1 : Adds(f1, D(n + 1))
    <3> HIDE DEF h, D
    <3> QED BY <2>7
  <2> QED BY <2>8
<1>4. Cardinality(U) \in T
  <2> HIDE DEF T
  <2>1. Nat \subseteq T
    BY <1>2, <1>3, Induct
  <2> QED BY <2>1, FS_CardinalityType
<1>5. D(Cardinality(U)) = SUBSET U
  BY <1>1, FS_Subset
<1>6. \E f : Adds(f, SUBSET U)
  BY <1>4, <1>5
<1> QED BY <1>6 DEF Sums

\* It does not matter of which set they are the subsets.
LEMMA SumsAgree ==
    ASSUME NEW U, IsFiniteSet(U), NEW V \in SUBSET U
    PROVE  \A s \in SUBSET V : Sums(V)[s] = Sums(U)[s]
<1> DEFINE T == {n \in Nat : \A s \in SUBSET V : Cardinality(s) = n => Sums(V)[s] = Sums(U)[s]}
<1>1. IsFiniteSet(V) /\ \A s \in SUBSET V : IsFiniteSet(s) /\ Cardinality(s) \in Nat
  BY FS_Subset, FS_CardinalityType
<1>2. /\ \A s \in SUBSET V : Sums(V)[s] = IF s = {} THEN 0 ELSE 2 ^ Pick(s) + Sums(V)[s \ {Pick(s)}]
      /\ \A s \in SUBSET U : Sums(U)[s] = IF s = {} THEN 0 ELSE 2 ^ Pick(s) + Sums(U)[s \ {Pick(s)}]
  BY <1>1, SumsExist DEF Adds
<1>3. 0 \in T
  BY <1>1, <1>2, FS_EmptySet
<1>4. ASSUME NEW n \in Nat, n \in T
      PROVE  n + 1 \in T
  <2>1. ASSUME NEW s \in SUBSET V, Cardinality(s) = n + 1
        PROVE  Sums(V)[s] = Sums(U)[s]
    <3>1. s # {}
      BY <2>1, FS_EmptySet
    <3>2. s \ {Pick(s)} \in SUBSET V /\ Cardinality(s \ {Pick(s)}) = n
      <4>1. IsFiniteSet(s) /\ Pick(s) \in s
        BY <1>1, <3>1 DEF Pick
      <4> QED BY <2>1, <3>1, <4>1, PickOne
    <3>3. Sums(V)[s \ {Pick(s)}] = Sums(U)[s \ {Pick(s)}]
      BY <1>4, <3>2
    <3> QED BY <1>2, <3>1, <3>3
  <2> QED BY <2>1
<1> HIDE DEF T
<1>5. Nat \subseteq T
  BY <1>3, <1>4, Induct
<1> USE DEF T
<1> QED BY <1>1, <1>5

\* The empty set is 0, and a set the power of one of its elements and the rest.
LEMMA NumberPick ==
    /\ Zfp!Number({}) = 0
    /\ \A s : IsFiniteSet(s) /\ s # {} =>
           Zfp!Number(s) = 2 ^ Pick(s) + Zfp!Number(s \ {Pick(s)})
<1>1. Zfp!Number({}) = 0
  <2>1. Adds(Sums({}), SUBSET {})
    BY SumsExist, FS_EmptySet
  <2> QED BY <2>1, NumberIs DEF Adds
<1>2. ASSUME NEW s, IsFiniteSet(s), s # {}
      PROVE  Zfp!Number(s) = 2 ^ Pick(s) + Zfp!Number(s \ {Pick(s)})
  <2> DEFINE r == s \ {Pick(s)}
  <2>1. Sums(s)[s] = 2 ^ Pick(s) + Sums(s)[r]
    BY <1>2, SumsExist DEF Adds
  <2>2. r \in SUBSET s /\ r \in SUBSET r
    OBVIOUS
  <2>3. Sums(r)[r] = Sums(s)[r]
    BY <1>2, <2>2, SumsAgree
  <2> QED BY <2>1, <2>3, NumberIs
<1> QED BY <1>1, <1>2

\* The power of any of its elements and the rest.
LEMMA NumberTake ==
    ASSUME NEW s \in SUBSET Nat, IsFiniteSet(s)
    PROVE  /\ Zfp!Number(s) \in Nat
           /\ \A i \in s : Zfp!Number(s) = 2 ^ i + Zfp!Number(s \ {i})
<1> DEFINE N(r) == Zfp!Number(r)
           Ok(r) == N(r) \in Nat /\ \A i \in r : N(r) = 2 ^ i + N(r \ {i})
           T == {n \in Nat : \A r \in SUBSET s : Cardinality(r) <= n => Ok(r)}
<1>1. \A r \in SUBSET s : IsFiniteSet(r) /\ Cardinality(r) \in Nat
  BY FS_Subset, FS_CardinalityType
<1>2. 0 \in T
  <2>1. Ok({})
    BY NumberPick
  <2> HIDE DEF Ok
  <2> QED BY <1>1, <2>1, FS_EmptySet
<1>3. ASSUME NEW n \in Nat, n \in T
      PROVE  n + 1 \in T
  <2>1. ASSUME NEW r \in SUBSET s, Cardinality(r) <= n + 1, r # {}
        PROVE  Ok(r)
    <3> DEFINE p == Pick(r)
    <3>1. IsFiniteSet(r) /\ r # {} /\ r \in SUBSET Nat
      BY <1>1, <2>1
    <3>2. p \in r /\ p \in Nat /\ 2 ^ p \in Nat
      BY <3>1, PickOne, PowNat DEF Pick
    <3> HIDE DEF p
    <3>3. N(r) = 2 ^ p + N(r \ {p})
      BY <3>1, NumberPick DEF p
    <3>4. ASSUME NEW i \in r, NEW t \in SUBSET (r \ {i})
          PROVE  Ok(t)
      <4>1. /\ Cardinality(r \ {i}) = Cardinality(r) - 1 /\ Cardinality(r) \in Nat
            /\ IsFiniteSet(r \ {i})
        BY <3>1, PickOne
      <4>2. t \in SUBSET s /\ Cardinality(t) <= Cardinality(r \ {i}) /\ Cardinality(t) \in Nat
        BY <4>1, FS_Subset, FS_CardinalityType
      <4>3. Cardinality(t) <= n
        BY <4>1, <4>2, <2>1
      <4> HIDE DEF Ok
      <4> QED BY <4>2, <4>3, <1>3
    <3>5. N(r) \in Nat
      BY <3>2, <3>3, <3>4
    <3>6. ASSUME NEW i \in r
          PROVE  N(r) = 2 ^ i + N(r \ {i})
      <4>1. CASE i = p
        BY <4>1, <3>3
      <4>2. CASE i # p
        <5> DEFINE q == (r \ {p}) \ {i}
        <5>1. i \in r \ {p} /\ p \in r \ {i} /\ q = (r \ {i}) \ {p}
          BY <3>2, <4>2
        <5>2. N(r \ {p}) = 2 ^ i + N(q)
          BY <5>1, <3>2, <3>4
        <5>3. N(r \ {i}) = 2 ^ p + N(q)
          BY <5>1, <3>4
        <5>4. N(q) \in Nat
          BY <3>2, <3>4
        <5>5. i \in Nat /\ 2 ^ i \in Nat
          BY <3>1, PowNat
        <5> HIDE DEF N, q
        <5> QED BY <5>2, <5>3, <5>4, <5>5, <3>2, <3>3
      <4> QED BY <4>1, <4>2
    <3> QED BY <3>5, <3>6
  <2>2. Ok({})
    BY NumberPick
  <2> HIDE DEF Ok
  <2> QED BY <2>1, <2>2
<1> HIDE DEF T
<1>4. Nat \subseteq T
  BY <1>2, <1>3, Induct
<1> USE DEF T
<1>5. Ok(s)
  <2> HIDE DEF Ok
  <2> QED BY <1>1, <1>4
<1> QED BY <1>5

\* Disjoint sets of planes add up.
LEMMA NumberUnion ==
    ASSUME NEW s \in SUBSET Nat, IsFiniteSet(s), NEW t \in SUBSET Nat, IsFiniteSet(t),
           s \cap t = {}
    PROVE  /\ Zfp!Number(s) \in Nat /\ Zfp!Number(t) \in Nat
           /\ Zfp!Number(s \cup t) = Zfp!Number(s) + Zfp!Number(t)
<1> DEFINE N(r) == Zfp!Number(r)
           Ok(r) == N(s \cup r) = N(s) + N(r)
           T == {n \in Nat : \A r \in SUBSET t : Cardinality(r) = n => Ok(r)}
<1>1. \A r \in SUBSET t : IsFiniteSet(r) /\ Cardinality(r) \in Nat /\ N(r) \in Nat
  BY FS_Subset, FS_CardinalityType, NumberTake
<1>2. N(s) \in Nat
  BY NumberTake
<1>3. 0 \in T
  <2>1. N({}) = 0 /\ s \cup {} = s
    BY NumberPick
  <2>2. Ok({})
    <3> HIDE DEF N
    <3> QED BY <2>1, <1>2
  <2> HIDE DEF Ok
  <2> QED BY <1>1, <2>2, FS_EmptySet
<1>4. ASSUME NEW n \in Nat, n \in T
      PROVE  n + 1 \in T
  <2>1. ASSUME NEW r \in SUBSET t, Cardinality(r) = n + 1
        PROVE  Ok(r)
    <3>1. r # {} /\ IsFiniteSet(r)
      BY <1>1, <2>1, FS_EmptySet
    <3>2. PICK i \in r : TRUE
      BY <3>1
    <3> DEFINE q == r \ {i}
    <3>3. q \in SUBSET t /\ Cardinality(q) = n
      BY <2>1, <3>1, <3>2, PickOne
    <3>4. N(s \cup q) = N(s) + N(q)
      BY <1>4, <3>3
    <3>5. N(r) = 2 ^ i + N(q)
      BY <3>1, <3>2, NumberTake
    <3>6. N(s \cup r) = 2 ^ i + N(s \cup q)
      <4>1. IsFiniteSet(s \cup r) /\ s \cup r \in SUBSET Nat /\ i \in s \cup r
        BY <3>1, <3>2, FS_Union
      <4>2. (s \cup r) \ {i} = s \cup q
        BY <3>2
      <4> QED BY <4>1, <4>2, NumberTake
    <3>7. i \in Nat /\ 2 ^ i \in Nat /\ N(q) \in Nat
      BY <1>1, <3>2, <3>3, PowNat
    <3> HIDE DEF N, q
    <3> QED BY <1>2, <3>4, <3>5, <3>6, <3>7
  <2> HIDE DEF Ok
  <2> QED BY <2>1
<1> HIDE DEF T
<1>5. Nat \subseteq T
  BY <1>3, <1>4, Induct
<1> USE DEF T
<1>6. Ok(t)
  <2> HIDE DEF Ok
  <2> QED BY <1>1, <1>5
<1> QED BY <1>1, <1>2, <1>6

\* One plane is its power.
LEMMA NumberOne ==
    ASSUME NEW i \in Nat
    PROVE  Zfp!Number({i}) = 2 ^ i
<1>1. IsFiniteSet({i}) /\ {i} \in SUBSET Nat /\ i \in {i} /\ {i} \ {i} = {}
  BY FS_Singleton
<1>2. Zfp!Number({i}) = 2 ^ i + Zfp!Number({i} \ {i})
  BY <1>1, NumberTake
<1> QED BY <1>1, <1>2, NumberPick, PowNat

\* The planes of a number below plane k.
Low(u, k) == {i \in 0 .. k - 1 : (u \div 2 ^ i) % 2 = 1}

LEMMA LowFinite ==
    ASSUME NEW k \in Nat, NEW s \in SUBSET (0 .. k - 1)
    PROVE  IsFiniteSet(s) /\ s \in SUBSET Nat
<1>1. IsFiniteSet(0 .. k - 1) /\ 0 .. k - 1 \subseteq Nat
  BY FS_Interval
<1> QED BY <1>1, FS_Subset

\* The rest of a division by 2 b, from that by b.
LEMMA NextRest ==
    ASSUME NEW u \in Nat, NEW b \in Nat \ {0}
    PROVE  u % (2 * b) = (u % b) + (IF (u \div b) % 2 = 1 THEN b ELSE 0)
<1>1. PICK q \in Nat, r \in 0 .. b - 1 : q = u \div b /\ r = u % b /\ u = q * b + r
  BY Divided
<1>2. PICK a \in Nat, d \in 0 .. 1 : a = q \div 2 /\ d = q % 2 /\ q = a * 2 + d
  BY Divided
<1>3. q * b = a * (2 * b) + d * b
  BY <1>2
<1>6. (u \div b) % 2 = d /\ (u % b) = r
  BY <1>1, <1>2
<1>7. 2 * b \in Nat \ {0}
  OBVIOUS
<1>4. CASE d = 0
  <2>1. u = a * (2 * b) + r
    BY <1>1, <1>3, <1>4
  <2>2. r \in 0 .. 2 * b - 1
    OBVIOUS
  <2>3. u % (2 * b) = r
    BY <1>7, <2>1, <2>2, DivMod
  <2> QED BY <2>3, <1>4, <1>6
<1>5. CASE d = 1
  <2>1. u = a * (2 * b) + (b + r)
    BY <1>1, <1>3, <1>5
  <2>2. PICK t \in 0 .. 2 * b - 1 : t = b + r
    OBVIOUS
  <2>4. PICK e \in Nat \ {0} : e = 2 * b
    BY <1>7
  <2>5. u = a * e + t /\ t \in 0 .. e - 1
    BY <2>1, <2>2, <2>4
  <2>6. u % e = t
    BY <2>5, DivMod
  <2>3. u % (2 * b) = b + r
    BY <2>2, <2>4, <2>6
  <2> QED BY <2>3, <1>5, <1>6
<1> QED BY <1>4, <1>5

\* They make the rest of its division by 2^k.
LEMMA NumberLow ==
    ASSUME NEW u \in Nat, NEW k \in Nat
    PROVE  Zfp!Number(Low(u, k)) = u % 2 ^ k
<1> DEFINE T == {n \in Nat : Zfp!Number(Low(u, n)) = u % 2 ^ n}
<1>1. 0 \in T
  <2>1. Low(u, 0) = {}
    BY DEF Low
  <2>2. u % 1 = 0
    OBVIOUS
  <2> QED BY <2>1, <2>2, NumberPick, SmallPowers
<1>2. ASSUME NEW n \in Nat, n \in T
      PROVE  n + 1 \in T
  <2>1. u % 2 ^ (n + 1) = (u % 2 ^ n) + (IF (u \div 2 ^ n) % 2 = 1 THEN 2 ^ n ELSE 0)
    <3>1. 2 ^ n \in Nat \ {0} /\ 2 ^ (n + 1) = 2 * 2 ^ n
      BY PowPos, PowDouble
    <3> QED BY <3>1, NextRest
  <2>2. 2 ^ n \in Nat /\ (u % 2 ^ n) \in Nat
    BY PowPos
  <2>5. \A i : i \in 0 .. (n + 1) - 1 <=> i \in 0 .. n - 1 \/ i = n
    OBVIOUS
  <2>3. CASE (u \div 2 ^ n) % 2 = 1
    <3>1. Low(u, n + 1) = Low(u, n) \cup {n}
      BY <2>3, <2>5 DEF Low
    <3>2. Zfp!Number(Low(u, n) \cup {n}) = Zfp!Number(Low(u, n)) + Zfp!Number({n})
      <4>1. Low(u, n) \in SUBSET (0 .. n - 1) /\ {n} \in SUBSET (0 .. (n + 1) - 1)
        BY DEF Low
      <4>2. Low(u, n) \cap {n} = {}
        BY DEF Low
      <4>3. /\ IsFiniteSet(Low(u, n)) /\ Low(u, n) \in SUBSET Nat
            /\ IsFiniteSet({n}) /\ {n} \in SUBSET Nat
        <5>1. IsFiniteSet(Low(u, n)) /\ Low(u, n) \in SUBSET Nat
          BY <4>1, LowFinite
        <5>2. IsFiniteSet({n}) /\ {n} \in SUBSET Nat
          BY FS_Singleton
        <5> QED BY <5>1, <5>2
      <4> QED BY <4>2, <4>3, NumberUnion
    <3> QED BY <1>2, <2>1, <2>3, <3>1, <3>2, NumberOne
  <2>4. CASE (u \div 2 ^ n) % 2 # 1
    <3>1. Low(u, n + 1) = Low(u, n)
      BY <2>4, <2>5 DEF Low
    <3> QED BY <1>2, <2>1, <2>2, <2>4, <3>1
  <2> QED BY <2>3, <2>4
<1> HIDE DEF T
<1>3. Nat \subseteq T
  BY <1>1, <1>2, Induct
<1> USE DEF T
<1> QED BY <1>3

\* The planes of the mask below plane k.
Odds(k) == {i \in 0 .. k - 1 : i % 2 = 1}

LEMMA OddsGrow ==
    ASSUME NEW k \in Nat
    PROVE  /\ Zfp!Number(Odds(k)) \in Nat
           /\ Zfp!Number(Odds(k + 1)) =
                  Zfp!Number(Odds(k)) + (IF k % 2 = 1 THEN 2 ^ k ELSE 0)
<1>1. /\ Odds(k) \in SUBSET (0 .. k - 1) /\ {k} \in SUBSET (0 .. (k + 1) - 1)
      /\ Odds(k) \cap {k} = {}
  BY DEF Odds
<1>2. /\ Zfp!Number(Odds(k)) \in Nat
      /\ Zfp!Number(Odds(k) \cup {k}) = Zfp!Number(Odds(k)) + 2 ^ k
  <2>1. /\ IsFiniteSet(Odds(k)) /\ Odds(k) \in SUBSET Nat
        /\ IsFiniteSet({k}) /\ {k} \in SUBSET Nat
    <3>1. IsFiniteSet(Odds(k)) /\ Odds(k) \in SUBSET Nat
      BY <1>1, LowFinite
    <3>2. IsFiniteSet({k}) /\ {k} \in SUBSET Nat
      BY FS_Singleton
    <3> QED BY <3>1, <3>2
  <2> QED BY <1>1, <2>1, NumberUnion, NumberOne
<1>3. CASE k % 2 = 1
  <2>1. Odds(k + 1) = Odds(k) \cup {k}
    BY <1>3 DEF Odds
  <2> QED BY <1>2, <1>3, <2>1
<1>4. CASE k % 2 # 1
  <2>1. Odds(k + 1) = Odds(k)
    BY <1>4 DEF Odds
  <2> QED BY <1>2, <1>4, <2>1
<1> QED BY <1>3, <1>4

\* The mask is two thirds or one third of the numbers of k planes.
LEMMA OddsSize ==
    ASSUME NEW k \in Nat
    PROVE  /\ Zfp!Number(Odds(k)) \in Nat
           /\ 3 * Zfp!Number(Odds(k)) = IF k % 2 = 0 THEN 2 * 2 ^ k - 2 ELSE 2 ^ k - 2
<1> DEFINE m(n) == Zfp!Number(Odds(n))
           T == {n \in Nat : 3 * m(n) = IF n % 2 = 0 THEN 2 * 2 ^ n - 2 ELSE 2 ^ n - 2}
<1>1. 0 \in T
  <2>1. Odds(0) = {}
    BY DEF Odds
  <2> QED BY <2>1, NumberPick, SmallPowers
<1>2. ASSUME NEW n \in Nat, n \in T
      PROVE  n + 1 \in T
  <2>1. m(n) \in Nat /\ m(n + 1) = m(n) + (IF n % 2 = 1 THEN 2 ^ n ELSE 0)
    BY OddsGrow
  <2>2. 2 ^ n \in Nat /\ 2 ^ (n + 1) = 2 * 2 ^ n
    BY PowNat, PowDouble
  <2>3. 3 * m(n) = IF n % 2 = 0 THEN 2 * 2 ^ n - 2 ELSE 2 ^ n - 2
    BY <1>2
  <2>4. 3 * m(n + 1) = IF (n + 1) % 2 = 0 THEN 2 * 2 ^ (n + 1) - 2 ELSE 2 ^ (n + 1) - 2
    <3> HIDE DEF m
    <3>1. CASE n % 2 = 0
      <4>1. (n + 1) % 2 = 1
        BY <3>1
      <4> QED BY <3>1, <4>1, <2>1, <2>2, <2>3
    <3>2. CASE n % 2 = 1
      <4>1. (n + 1) % 2 = 0
        BY <3>2
      <4> QED BY <3>2, <4>1, <2>1, <2>2, <2>3
    <3> QED BY <3>1, <3>2
  <2> QED BY <2>4
<1> HIDE DEF T
<1>3. Nat \subseteq T
  BY <1>1, <1>2, Induct
<1> USE DEF T
<1> QED BY <1>3, OddsGrow

\* From plane p on, powers and masks change by multiples of 2^p.
LEMMA Multiples ==
    ASSUME NEW p \in Nat, NEW n \in Nat
    PROVE  \E a \in Nat \ {0}, j \in Nat :
               /\ 2 ^ (p + n) = a * 2 ^ p
               /\ Zfp!Number(Odds(p + n)) = Zfp!Number(Odds(p)) + j * 2 ^ p
<1> DEFINE Ok(i, a, j) == /\ 2 ^ (p + i) = a * 2 ^ p
                          /\ Zfp!Number(Odds(p + i)) = Zfp!Number(Odds(p)) + j * 2 ^ p
           T == {i \in Nat : \E a \in Nat \ {0}, j \in Nat : Ok(i, a, j)}
<1>0. 2 ^ p \in Nat /\ Zfp!Number(Odds(p)) \in Nat
  BY PowNat, OddsGrow
<1>1. 0 \in T
  <2>1. Ok(0, 1, 0)
    BY <1>0
  <2> HIDE DEF Ok
  <2> QED BY <2>1
<1>2. ASSUME NEW i \in Nat, i \in T
      PROVE  i + 1 \in T
  <2>1. PICK a \in Nat \ {0}, j \in Nat : Ok(i, a, j)
    BY <1>2
  <2> DEFINE d == IF (p + i) % 2 = 1 THEN a ELSE 0
  <2>2. 2 ^ (p + (i + 1)) = (2 * a) * 2 ^ p
    <3>1. p + (i + 1) = (p + i) + 1 /\ p + i \in Nat
      OBVIOUS
    <3>2. 2 ^ (p + (i + 1)) = 2 * (a * 2 ^ p)
      BY <2>1, <3>1, PowDouble
    <3> QED BY <1>0, <3>2
  <2>3. Zfp!Number(Odds(p + (i + 1))) = Zfp!Number(Odds(p)) + (j + d) * 2 ^ p
    <3>1. p + (i + 1) = (p + i) + 1 /\ p + i \in Nat
      OBVIOUS
    <3>2. Zfp!Number(Odds((p + i) + 1)) =
              Zfp!Number(Odds(p + i)) + (IF (p + i) % 2 = 1 THEN 2 ^ (p + i) ELSE 0)
      BY <3>1, OddsGrow
    <3>3. (IF (p + i) % 2 = 1 THEN 2 ^ (p + i) ELSE 0) = d * 2 ^ p
      BY <2>1, <1>0
    <3>4. (j + d) * 2 ^ p = j * 2 ^ p + d * 2 ^ p
      BY <1>0
    <3>5. Zfp!Number(Odds(p + i)) = Zfp!Number(Odds(p)) + j * 2 ^ p
      BY <2>1
    <3>6. j * 2 ^ p \in Int /\ d * 2 ^ p \in Int
      BY <1>0
    <3> HIDE DEF d
    <3> QED BY <1>0, <3>1, <3>2, <3>3, <3>4, <3>5, <3>6
  <2>4. 2 * a \in Nat \ {0} /\ j + d \in Nat
    OBVIOUS
  <2>5. Ok(i + 1, 2 * a, j + d)
    BY <2>2, <2>3
  <2> HIDE DEF Ok, d
  <2> QED BY <2>4, <2>5
<1> HIDE DEF T
<1>3. Nat \subseteq T
  BY <1>1, <1>2, Induct
<1> USE DEF T
<1> QED BY <1>3

-----------------------------------------------------------------------------
(* Negabinary numbers without their lower planes.                          *)

\* A power is at least as large as those before it.
LEMMA PowUpTo ==
    ASSUME NEW k \in Nat, NEW n \in Nat, k <= n
    PROVE  2 ^ k \in Nat /\ 2 ^ n \in Nat /\ 2 ^ k >= 1 /\ 2 ^ k <= 2 ^ n
<1>1. PICK d \in Nat : k + d = n
  <2>1. n - k \in Nat /\ k + (n - k) = n
    OBVIOUS
  <2> QED BY <2>1
<1>2. PICK a \in Nat \ {0} : 2 ^ (k + d) = a * 2 ^ k
  BY Multiples
<1>3. 2 ^ k \in Nat /\ 2 ^ n \in Nat /\ 2 ^ k >= 1
  BY PowPos
<1>4. a * 2 ^ k = 2 ^ k + (a - 1) * 2 ^ k /\ (a - 1) * 2 ^ k >= 0
  <2>1. a - 1 \in Nat
    OBVIOUS
  <2>2. (a - 1) * 2 ^ k \in Nat
    BY <2>1, <1>3
  <2> QED BY <1>3, <2>1, <2>2
<1> QED BY <1>1, <1>2, <1>3, <1>4

\* The precision, and what the numbers of a block are.
LEMMA Precision ==
    ASSUME Zfp!BlockParameters
    PROVE  /\ Prec \in Nat /\ Prec >= 5 /\ Width \in Nat /\ Prec <= Width
           /\ \E Q \in Nat : /\ Q >= 4 /\ 2 ^ Prec = 8 * Q /\ 2 ^ (Prec - 1) = 4 * Q
                             /\ Zfp!MaxInt = Q - 1
<1>1. Prec \in Nat /\ Prec >= 5 /\ Width \in Nat /\ Prec <= Width
  BY DEF Zfp!BlockParameters
<1>2. Prec - 3 \in Nat /\ Prec - 2 \in Nat /\ Prec - 1 \in Nat
  BY <1>1
<1>3. /\ (Prec - 3) + 1 = Prec - 2 /\ (Prec - 2) + 1 = Prec - 1 /\ (Prec - 1) + 1 = Prec
      /\ (Prec - 2) - 1 = Prec - 3
  BY <1>1
<1>4. /\ 2 ^ (Prec - 2) = 2 * 2 ^ (Prec - 3) /\ 2 ^ (Prec - 1) = 2 * 2 ^ (Prec - 2)
      /\ 2 ^ Prec = 2 * 2 ^ (Prec - 1)
  BY <1>2, <1>3, PowDouble
<1>5. 2 ^ (Prec - 3) \in Nat /\ 2 ^ (Prec - 3) >= 2 ^ 2
  <2>1. PICK k \in Nat, n \in Nat : k = 2 /\ n = Prec - 3 /\ k <= n
    BY <1>1, <1>2
  <2>2. 2 ^ n \in Nat /\ 2 ^ k <= 2 ^ n
    BY <2>1, PowUpTo
  <2> QED BY <2>1, <2>2
<1>6. Zfp!MaxInt = 2 ^ (Prec - 3) - 1
  BY <1>3 DEF Zfp!MaxInt, Zfp!QuantBits
<1> QED BY <1>1, <1>4, <1>5, <1>6, SmallPowers

\* The mask: its first Prec planes are A, the others a multiple of 2^Prec.
LEMMA MaskIs ==
    ASSUME Zfp!BlockParameters
    PROVE  /\ Zfp!MaskPlanes = Odds(Width)
           /\ \E a \in Nat \ {0}, j \in Nat :
                  /\ 2 ^ Width = a * 2 ^ Prec
                  /\ Zfp!Mask = Zfp!Number(Odds(Prec)) + j * 2 ^ Prec
                  /\ j < a
<1>1. Zfp!MaskPlanes = Odds(Width)
  BY DEF Zfp!MaskPlanes, Odds
<1>2. Zfp!Mask = Zfp!Number(Odds(Width))
  BY <1>1 DEF Zfp!Mask
<1>3. Prec \in Nat /\ Width \in Nat /\ Prec <= Width
  BY Precision
<1>6. PICK d \in Nat : Prec + d = Width
  <2>1. Width - Prec \in Nat /\ Prec + (Width - Prec) = Width
    BY <1>3
  <2> QED BY <2>1
<1>4. PICK a \in Nat \ {0}, j \in Nat :
          /\ 2 ^ Width = a * 2 ^ Prec
          /\ Zfp!Number(Odds(Width)) = Zfp!Number(Odds(Prec)) + j * 2 ^ Prec
  <2>1. \E a \in Nat \ {0}, j \in Nat :
            /\ 2 ^ (Prec + d) = a * 2 ^ Prec
            /\ Zfp!Number(Odds(Prec + d)) = Zfp!Number(Odds(Prec)) + j * 2 ^ Prec
    BY <1>3, Multiples
  <2> QED BY <1>6, <2>1
<1>5. j < a
  <2>1. 2 ^ Prec \in Nat /\ 2 ^ Prec >= 1 /\ 2 ^ Width \in Nat
    BY <1>3, PowPos
  <2>2. 3 * Zfp!Number(Odds(Width)) <= 2 * 2 ^ Width - 2 /\ Zfp!Number(Odds(Width)) \in Nat
    BY <1>3, <2>1, OddsSize
  <2>3. Zfp!Number(Odds(Prec)) \in Nat
    BY <1>3, OddsSize
  <2>4. a <= j => a * 2 ^ Prec <= j * 2 ^ Prec
    BY <2>1
  <2>5. j * 2 ^ Prec \in Nat
    BY <2>1
  <2> QED BY <1>4, <2>1, <2>2, <2>3, <2>4, <2>5
<1> QED BY <1>1, <1>2, <1>4, <1>5

\* A number of the block, biased by the mask, has A more in its first Prec planes.
LEMMA Biased ==
    ASSUME Zfp!BlockParameters, NEW x \in -Zfp!MaxInt .. Zfp!MaxInt
    PROVE  /\ (x + Zfp!Mask) % 2 ^ Width \in Nat
           /\ x + Zfp!Number(Odds(Prec)) \in Nat
           /\ ((x + Zfp!Mask) % 2 ^ Width) % 2 ^ Prec = x + Zfp!Number(Odds(Prec))
<1> DEFINE A == Zfp!Number(Odds(Prec))
<1>1. PICK Q \in Nat : Q >= 4 /\ 2 ^ Prec = 8 * Q /\ Zfp!MaxInt = Q - 1
  BY Precision
<1>2. PICK a \in Nat \ {0}, j \in Nat :
          2 ^ Width = a * 2 ^ Prec /\ Zfp!Mask = A + j * 2 ^ Prec /\ j < a
  BY MaskIs
<1>3. A \in Nat /\ 3 * A >= 8 * Q - 2 /\ 3 * A <= 16 * Q - 2
  BY <1>1, Precision, OddsSize
<1> HIDE DEF A
<1>4. PICK r \in 0 .. 2 ^ Prec - 1 : r = x + A
  BY <1>1, <1>3
<1>5. 2 ^ Prec \in Nat \ {0}
  BY <1>1
<1>6. j * 2 ^ Prec \in Nat /\ j * 2 ^ Prec + 2 ^ Prec <= a * 2 ^ Prec
  <2>1. j + 1 <= a
    BY <1>2
  <2>2. (j + 1) * 2 ^ Prec <= a * 2 ^ Prec
    BY <1>5, <2>1
  <2> QED BY <1>5, <2>2
<1>7. x + Zfp!Mask = j * 2 ^ Prec + r
  BY <1>2, <1>3, <1>4, <1>6
<1>8. PICK u \in 0 .. 2 ^ Width - 1 : u = x + Zfp!Mask /\ u = j * 2 ^ Prec + r
  BY <1>2, <1>4, <1>5, <1>6, <1>7
<1>9. 2 ^ Width \in Nat \ {0}
  BY Precision, PowPos
<1>10. u % 2 ^ Width = u
  <2>1. \A n \in Nat \ {0} : \A v \in 0 .. n - 1 : v % n = v
    OBVIOUS
  <2> QED BY <1>8, <1>9, <2>1
<1>11. u % 2 ^ Prec = r
  <2>1. PICK p \in Nat \ {0} : p = 2 ^ Prec
    BY <1>5
  <2>2. r \in 0 .. p - 1 /\ u = j * p + r
    BY <1>4, <1>8, <2>1
  <2>3. u % p = r
    BY <2>2, DivMod
  <2> QED BY <2>1, <2>3
<1> QED BY <1>4, <1>8, <1>10, <1>11 DEF A

\* The planes the decoder has: those from c up, and the mask's.
Held(x, c) == Zfp!Xor(Zfp!Negabinary(x) \cap (c .. Prec - 1), Zfp!MaskPlanes)

\* Instead of the planes below c, r, it has those of the mask.
LEMMA Truncated ==
    ASSUME Zfp!BlockParameters, NEW x \in -Zfp!MaxInt .. Zfp!MaxInt, NEW c \in 0 .. Prec
    PROVE  \E r \in 0 .. 2 ^ c - 1 :
               /\ Zfp!Number(Held(x, c)) - Zfp!Mask = x + Zfp!Number(Odds(c)) - r
               /\ c = Prec => r = x + Zfp!Number(Odds(c))
<1> DEFINE u == (x + Zfp!Mask) % 2 ^ Width
           mid == {i \in c .. Prec - 1 : (u \div 2 ^ i) % 2 = 1}
           high == {i \in Prec .. Width - 1 : i % 2 = 1}
<1>0. Prec \in Nat /\ Width \in Nat /\ Prec <= Width /\ c \in Nat /\ c <= Prec
  BY Precision
<1>1. u \in Nat /\ u % 2 ^ Prec = x + Zfp!Number(Odds(Prec))
  BY Biased
<1> HIDE DEF u
<1>2. Zfp!MaskPlanes = Odds(Width)
  BY MaskIs
<1>3. Held(x, c) = (Odds(c) \cup high) \cup mid
  <2> DEFINE bit(i) == (u \div 2 ^ i) % 2 = 1
             odd(i) == i % 2 = 1
  <2>1. Zfp!Negabinary(x) = Zfp!Xor({i \in 0 .. Width - 1 : bit(i)}, {i \in 0 .. Width - 1 : odd(i)})
    BY <1>2 DEF Zfp!Negabinary, Zfp!Planes, u, Odds
  <2>2. mid = {i \in c .. Prec - 1 : bit(i)} /\ high = {i \in Prec .. Width - 1 : odd(i)}
    OBVIOUS
  <2>3. Odds(c) = {i \in 0 .. c - 1 : odd(i)} /\ Zfp!MaskPlanes = {i \in 0 .. Width - 1 : odd(i)}
    BY <1>2 DEF Odds
  <2> HIDE DEF bit, odd, mid, high
  <2>4. /\ \A i : i \in 0 .. Width - 1 <=> \/ i \in 0 .. c - 1 \/ i \in c .. Prec - 1
                                           \/ i \in Prec .. Width - 1
        /\ \A i \in c .. Prec - 1 : i \notin 0 .. c - 1 /\ i \notin Prec .. Width - 1
    BY <1>0
  <2> QED BY <2>1, <2>2, <2>3, <2>4 DEF Held, Zfp!Xor
<1>4. /\ IsFiniteSet(Odds(c)) /\ Odds(c) \in SUBSET Nat
      /\ IsFiniteSet(high) /\ high \in SUBSET Nat
      /\ IsFiniteSet(mid) /\ mid \in SUBSET Nat
      /\ IsFiniteSet(Odds(Prec)) /\ Odds(Prec) \in SUBSET Nat
      /\ IsFiniteSet(Low(u, c)) /\ Low(u, c) \in SUBSET Nat
  <2>1. /\ Odds(c) \in SUBSET (0 .. c - 1) /\ Odds(Prec) \in SUBSET (0 .. Prec - 1)
        /\ Low(u, c) \in SUBSET (0 .. c - 1)
    BY DEF Odds, Low
  <2>2. high \in SUBSET (0 .. Width - 1) /\ mid \in SUBSET (0 .. Width - 1)
    <3>1. /\ Prec .. Width - 1 \subseteq 0 .. Width - 1
          /\ c .. Prec - 1 \subseteq 0 .. Width - 1
      BY <1>0
    <3> QED BY <3>1
  <2> HIDE DEF high, mid
  <2> QED BY <1>0, <2>1, <2>2, LowFinite
<1>5. Zfp!Mask = Zfp!Number(Odds(Prec)) + Zfp!Number(high)
  <2>1. Odds(Width) = Odds(Prec) \cup high /\ Odds(Prec) \cap high = {}
    <3>1. /\ \A i : i \in 0 .. Width - 1 <=> i \in 0 .. Prec - 1 \/ i \in Prec .. Width - 1
          /\ \A i \in Prec .. Width - 1 : i \notin 0 .. Prec - 1
      BY <1>0
    <3> QED BY <3>1 DEF Odds
  <2> QED BY <1>2, <1>4, <2>1, NumberUnion DEF Zfp!Mask
<1>6. u % 2 ^ Prec = (u % 2 ^ c) + Zfp!Number(mid) /\ Zfp!Number(mid) \in Nat
  <2>1. Low(u, Prec) = Low(u, c) \cup mid /\ Low(u, c) \cap mid = {}
    <3>1. /\ \A i : i \in 0 .. Prec - 1 <=> i \in 0 .. c - 1 \/ i \in c .. Prec - 1
          /\ \A i \in c .. Prec - 1 : i \notin 0 .. c - 1
      BY <1>0
    <3> QED BY <3>1 DEF Low
  <2>2. Zfp!Number(Low(u, Prec)) = Zfp!Number(Low(u, c)) + Zfp!Number(mid)
    BY <1>4, <2>1, NumberUnion
  <2> QED BY <1>0, <1>1, <1>4, <2>2, NumberLow, NumberUnion, NumberTake
<1>7. /\ Zfp!Number(Held(x, c)) =
             (Zfp!Number(Odds(c)) + Zfp!Number(high)) + Zfp!Number(mid)
      /\ Zfp!Number(high) \in Nat /\ Zfp!Number(Odds(c)) \in Nat
      /\ Zfp!Number(Odds(Prec)) \in Nat
  <2>1. Odds(c) \cap high = {} /\ (Odds(c) \cup high) \cap mid = {}
    <3>1. /\ \A i \in Prec .. Width - 1 : i \notin 0 .. c - 1 /\ i \notin c .. Prec - 1
          /\ \A i \in c .. Prec - 1 : i \notin 0 .. c - 1
      BY <1>0
    <3> QED BY <3>1 DEF Odds
  <2>2. IsFiniteSet(Odds(c) \cup high) /\ Odds(c) \cup high \in SUBSET Nat
    BY <1>4, FS_Union
  <2> HIDE DEF high, mid
  <2>3. Zfp!Number((Odds(c) \cup high) \cup mid) = Zfp!Number(Odds(c) \cup high) + Zfp!Number(mid)
    BY <1>4, <2>1, <2>2, NumberUnion
  <2>4. Zfp!Number(Odds(c) \cup high) = Zfp!Number(Odds(c)) + Zfp!Number(high)
    BY <1>4, <2>1, NumberUnion
  <2>5. /\ Zfp!Number(high) \in Nat /\ Zfp!Number(Odds(c)) \in Nat
        /\ Zfp!Number(Odds(Prec)) \in Nat
    BY <1>4, NumberTake
  <2> QED BY <1>3, <2>3, <2>4, <2>5
<1>8. PICK r \in 0 .. 2 ^ c - 1 : r = u % 2 ^ c
  <2>1. 2 ^ c \in Nat \ {0}
    BY <1>0, PowPos
  <2> QED BY <1>1, <2>1
<1> HIDE DEF high, mid
<1>9. Zfp!Number(Held(x, c)) - Zfp!Mask = x + Zfp!Number(Odds(c)) - r
  BY <1>1, <1>5, <1>6, <1>7, <1>8
<1>10. c = Prec => r = x + Zfp!Number(Odds(c))
  BY <1>1, <1>8
<1> QED BY <1>9, <1>10

\* So much less, or so much more, than x.
Short(c) == (2 ^ c - 1) - Zfp!Number(Odds(c))
Over(c) == Zfp!Number(Odds(c))

\* InverseNegabinary does not leave the numbers of Width bits.
LEMMA Decoded ==
    ASSUME Zfp!BlockParameters, NEW x \in -Zfp!MaxInt .. Zfp!MaxInt, NEW c \in 0 .. Prec
    PROVE  Zfp!InverseNegabinary(Zfp!Negabinary(x) \cap (c .. Prec - 1))
               \in x - Short(c) .. x + Over(c)
<1> DEFINE m == Zfp!Number(Odds(c))
<1>1. PICK r \in 0 .. 2 ^ c - 1 :
          /\ Zfp!Number(Held(x, c)) - Zfp!Mask = x + m - r
          /\ c = Prec => r = x + m
  BY Truncated
<1>2. PICK Q \in Nat : Q >= 4 /\ 2 ^ Prec = 8 * Q /\ 2 ^ (Prec - 1) = 4 * Q /\ Zfp!MaxInt = Q - 1
  BY Precision
<1>3. Prec \in Nat /\ Prec >= 5 /\ Width \in Nat /\ Prec <= Width /\ c \in Nat
  BY Precision
<1>4. m \in Nat /\ 3 * m >= 2 ^ c - 2 /\ 3 * m <= 2 * 2 ^ c - 2 /\ 2 ^ c \in Nat /\ 2 ^ c >= 1
  BY <1>3, OddsSize, PowPos
<1> HIDE DEF m
<1>5. PICK y \in Int : y = x + m - r
  BY <1>2, <1>4
<1>6. -4 * Q <= y /\ y < 4 * Q
  <2>1. CASE c = Prec
    BY <1>1, <1>2, <1>4, <1>5, <2>1
  <2>2. CASE c # Prec
    <3>1. 2 ^ c <= 4 * Q
      <4>1. c <= Prec - 1 /\ Prec - 1 \in Nat
        BY <1>3, <2>2
      <4> QED BY <1>2, <1>3, <4>1, PowUpTo
    <3> QED BY <1>2, <1>4, <1>5, <3>1
  <2> QED BY <2>1, <2>2
<1>7. PICK R \in Nat : R >= 4 * Q /\ 2 ^ (Width - 1) = R /\ 2 ^ Width = 2 * R
  <2>1. Width - 1 \in Nat /\ Prec - 1 \in Nat /\ Prec - 1 <= Width - 1 /\ (Width - 1) + 1 = Width
    BY <1>3
  <2> QED BY <1>2, <2>1, PowUpTo, PowDouble
<1>8. Zfp!Signed(y) = y
  <2>1. CASE y >= 0
    <3>1. y \in 0 .. 2 * R - 1 /\ 2 * R \in Nat \ {0}
      BY <1>2, <1>6, <1>7, <2>1
    <3>2. y % (2 * R) = y
      BY <3>1
    <3> QED BY <1>6, <1>7, <2>1, <3>2 DEF Zfp!Signed
  <2>2. CASE y < 0
    <3>1. 2 * R \in Nat \ {0} /\ y + 2 * R \in 0 .. 2 * R - 1 /\ y + 2 * R >= R
      BY <1>2, <1>6, <1>7, <2>2
    <3>2. y % (2 * R) = y + 2 * R
      BY <3>1
    <3> QED BY <1>7, <3>1, <3>2 DEF Zfp!Signed
  <2> QED BY <2>1, <2>2
<1>9. Zfp!InverseNegabinary(Zfp!Negabinary(x) \cap (c .. Prec - 1)) = y
  BY <1>1, <1>5, <1>8 DEF Zfp!InverseNegabinary, Held
<1> QED BY <1>4, <1>5, <1>9 DEF Short, Over, m

-----------------------------------------------------------------------------
(* The transform of a block.                                               *)

\* x >> 1 rounds down.
LEMMA HalfRoundsDown ==
    ASSUME NEW x \in Int
    PROVE  Zfp!Half(x) \in Int /\ 2 * Zfp!Half(x) <= x /\ x <= 2 * Zfp!Half(x) + 1
BY DEF Zfp!Half

\* Zfp!Half of a sum, and what is left of the difference, are no larger than the
\* two were.
LEMMA HalfSum ==
    ASSUME NEW r \in Nat, NEW x \in -r .. r, NEW y \in -r .. r
    PROVE  /\ Zfp!Half(x + y) \in -r .. r
           /\ y - Zfp!Half(x + y) \in -r .. r
<1>1. x + y \in Int
  OBVIOUS
<1> QED BY <1>1, HalfRoundsDown

\* The last two steps of Zfp!FLift: neither coefficient outgrows the two it is
\* made of, although a half is added to a whole.
LEMMA Rotation ==
    ASSUME NEW r \in Nat, r > 1, NEW w \in -r .. r, NEW y \in -r .. r,
           NEW w2, w2 = Zfp!Half(w + y), NEW y2, y2 = y - w2,
           NEW w3, w3 = w2 + Zfp!Half(y2)
    PROVE  w3 \in -r .. r /\ y2 - Zfp!Half(w3) \in -r .. r
<1>1. w2 \in Int /\ 2 * w2 <= w + y /\ w + y <= 2 * w2 + 1
  <2>1. w + y \in Int
    OBVIOUS
  <2> QED BY <2>1, HalfRoundsDown
<1>2. y2 \in Int
  BY <1>1
<1>3. PICK q \in Int : q = Zfp!Half(y2) /\ 2 * q <= y2 /\ y2 <= 2 * q + 1
  BY <1>2, HalfRoundsDown
<1>4. w3 \in Int /\ w3 = w2 + q
  BY <1>1, <1>3
<1>5. PICK k \in Int : k = Zfp!Half(w3) /\ 2 * k <= w3 /\ w3 <= 2 * k + 1
  BY <1>4, HalfRoundsDown
<1>6. -r <= w3 /\ w3 <= r
  BY <1>1, <1>2, <1>3, <1>4
\* The rounding errors add up to less than two: less than a quarter of r,
\* unless r is small.
<1>7. -r <= y2 - k /\ y2 - k <= r
  <2>1. CASE r >= 6
    BY <2>1, <1>1, <1>2, <1>3, <1>4, <1>5
  <2>2. CASE r = 2
    <3>1. y = -2 \/ y = -1 \/ y = 0 \/ y = 1 \/ y = 2
      BY <2>2
    <3>2. w = -2 \/ w = -1 \/ w = 0 \/ w = 1 \/ w = 2
      BY <2>2
    <3> QED BY <2>2, <3>1, <3>2, <1>1, <1>2, <1>3, <1>4, <1>5, SMTT(60)
  <2>3. CASE r \in 3 .. 5
    BY <2>3, <1>1, <1>2, <1>3, <1>4, <1>5, SMTT(60)
  <2>4. r = 2 \/ r \in 3 .. 5 \/ r >= 6
    OBVIOUS
  <2> QED BY <2>1, <2>2, <2>3, <2>4
<1> QED BY <1>2, <1>4, <1>5, <1>6, <1>7

\* Zfp!FLift of four samples in a range gives four in that range.
LEMMA FLiftRange ==
    ASSUME NEW r \in Nat, r > 1, NEW X \in -r .. r, NEW Y \in -r .. r,
           NEW Z \in -r .. r, NEW W \in -r .. r
    PROVE  \A i \in 1 .. 4 : Zfp!FLift(X, Y, Z, W)[i] \in -r .. r
<1> DEFINE x1 == Zfp!Half(X + W)
           w1 == W - x1
           z1 == Zfp!Half(Z + Y)
           y1 == Y - z1
           x2 == Zfp!Half(x1 + z1)
           z2 == z1 - x2
           w2 == Zfp!Half(w1 + y1)
           y2 == y1 - w2
           w3 == w2 + Zfp!Half(y2)
           y3 == y2 - Zfp!Half(w3)
<1>1. x1 \in -r .. r /\ w1 \in -r .. r
  BY HalfSum
<1>2. z1 \in -r .. r /\ y1 \in -r .. r
  BY HalfSum
<1>3. Zfp!FLift(X, Y, Z, W) = <<x2, y3, z2, w3>>
  BY DEF Zfp!FLift
<1> HIDE DEF x1, w1, z1, y1
<1>4. x2 \in -r .. r /\ z2 \in -r .. r
  BY <1>1, <1>2, HalfSum
<1>5. w3 \in -r .. r /\ y3 \in -r .. r
  BY <1>1, <1>2, Rotation
<1> HIDE DEF x2, z2, w2, y2, w3, y3
<1> QED BY <1>3, <1>4, <1>5

\* The bit a half loses.
Lost(x) == x - 2 * Zfp!Half(x)

LEMMA LostBit ==
    ASSUME NEW x \in Int
    PROVE  Zfp!Half(x) \in Int /\ Lost(x) \in 0 .. 1 /\ x = 2 * Zfp!Half(x) + Lost(x)
<1>1. Zfp!Half(x) \in Int /\ 2 * Zfp!Half(x) <= x /\ x <= 2 * Zfp!Half(x) + 1
  BY HalfRoundsDown
<1> QED BY <1>1 DEF Lost

\* The last two steps of Zfp!FLift undone.
LEMMA Unrotated ==
    ASSUME NEW w1 \in Int, NEW y1 \in Int,
           NEW w2, w2 = Zfp!Half(w1 + y1), NEW y2, y2 = y1 - w2,
           NEW w3, w3 = w2 + Zfp!Half(y2), NEW y3, y3 = y2 - Zfp!Half(w3)
    PROVE  /\ w3 \in Int /\ y3 \in Int /\ y2 = y3 + Zfp!Half(w3)
           /\ Lost(w1 + y1) \in 0 .. 1 /\ Lost(y2) \in 0 .. 1 /\ Lost(w3) \in 0 .. 1
           /\ 4 * y1 = 2 * y3 + 5 * w3 - Lost(w3) + 2 * Lost(y2)
           /\ 4 * w1 = w3 - 6 * y3 + 3 * Lost(w3) + 2 * Lost(y2) + 4 * Lost(w1 + y1)
<1>1. w2 \in Int /\ Lost(w1 + y1) \in 0 .. 1 /\ w1 + y1 = 2 * w2 + Lost(w1 + y1)
  <2>1. w1 + y1 \in Int
    OBVIOUS
  <2> QED BY <2>1, LostBit
<1>2. y2 \in Int
  BY <1>1
<1>3. PICK h \in Int : h = Zfp!Half(y2) /\ Lost(y2) \in 0 .. 1 /\ y2 = 2 * h + Lost(y2)
  BY <1>2, LostBit
<1>4. w3 \in Int /\ w3 = w2 + h
  BY <1>1, <1>3
<1>5. PICK k \in Int : k = Zfp!Half(w3) /\ Lost(w3) \in 0 .. 1 /\ w3 = 2 * k + Lost(w3)
  BY <1>4, LostBit
<1>6. y3 \in Int /\ y3 = y2 - k
  BY <1>2, <1>5
<1> QED BY <1>1, <1>2, <1>3, <1>4, <1>5, <1>6

\* A half by name.
LEMMA HalfOf ==
    ASSUME NEW x \in Int
    PROVE  \E h \in Int, r \in 0 .. 1 : h = Zfp!Half(x) /\ r = Lost(x) /\ x = 2 * h + r
BY LostBit

\* Four samples, from their coefficients.
SamplesAre(X, Y, Z, W, v1, v2, v3, v4, r1, r2, r3, r4, r5, r6) ==
    /\ 4 * X = 4 * v1 + 6 * v2 - 4 * v3 - v4 + 4 * r1 + 4 * r3 - 4 * r4 - 2 * r5 - 3 * r6
    /\ 4 * Y = 4 * v1 + 2 * v2 + 4 * v3 + 5 * v4 + 2 * r5 - r6
    /\ 4 * Z = 4 * v1 - 2 * v2 + 4 * v3 - 5 * v4 + 4 * r2 - 2 * r5 + r6
    /\ 4 * W = 4 * v1 - 6 * v2 - 4 * v3 + v4 + 4 * r3 + 4 * r4 + 2 * r5 + 3 * r6

LEMMA Samples4 ==
    ASSUME NEW X \in Int, NEW Y \in Int, NEW Z \in Int, NEW W \in Int
    PROVE  \E v1, v2, v3, v4 \in Int : \E r1, r2, r3, r4, r5, r6 \in 0 .. 1 :
               /\ Zfp!FLift(X, Y, Z, W) = <<v1, v2, v3, v4>>
               /\ r5 = Lost(v2 + Zfp!Half(v4)) /\ r6 = Lost(v4)
               /\ SamplesAre(X, Y, Z, W, v1, v2, v3, v4, r1, r2, r3, r4, r5, r6)
<1>1. PICK x1 \in Int, r1 \in 0 .. 1 : x1 = Zfp!Half(X + W) /\ X + W = 2 * x1 + r1
  <2>1. X + W \in Int
    OBVIOUS
  <2> QED BY <2>1, HalfOf
<1>2. PICK z1 \in Int, r2 \in 0 .. 1 : z1 = Zfp!Half(Z + Y) /\ Z + Y = 2 * z1 + r2
  <2>1. Z + Y \in Int
    OBVIOUS
  <2> QED BY <2>1, HalfOf
<1>3. PICK x2 \in Int, r3 \in 0 .. 1 : x2 = Zfp!Half(x1 + z1) /\ x1 + z1 = 2 * x2 + r3
  <2>1. x1 + z1 \in Int
    OBVIOUS
  <2> QED BY <2>1, HalfOf
<1>4. PICK w1 \in Int, y1 \in Int, z2 \in Int : w1 = W - x1 /\ y1 = Y - z1 /\ z2 = z1 - x2
  OBVIOUS
<1>5. PICK w3 \in Int, y3 \in Int, r4 \in 0 .. 1, r5 \in 0 .. 1, r6 \in 0 .. 1 :
          /\ Zfp!FLift(X, Y, Z, W) = <<x2, y3, z2, w3>>
          /\ r5 = Lost(y3 + Zfp!Half(w3)) /\ r6 = Lost(w3)
          /\ 4 * y1 = 2 * y3 + 5 * w3 - r6 + 2 * r5
          /\ 4 * w1 = w3 - 6 * y3 + 3 * r6 + 2 * r5 + 4 * r4
  <2> DEFINE w2 == Zfp!Half(w1 + y1)
             y2 == y1 - w2
             w3 == w2 + Zfp!Half(y2)
             y3 == y2 - Zfp!Half(w3)
  <2>1. Zfp!FLift(X, Y, Z, W) = <<x2, y3, z2, w3>>
    BY <1>1, <1>2, <1>3, <1>4 DEF Zfp!FLift
  <2>2. w2 = Zfp!Half(w1 + y1) /\ y2 = y1 - w2 /\ w3 = w2 + Zfp!Half(y2) /\ y3 = y2 - Zfp!Half(w3)
    OBVIOUS
  <2> HIDE DEF w2, y2, w3, y3
  <2>3. /\ w3 \in Int /\ y3 \in Int /\ y2 = y3 + Zfp!Half(w3)
        /\ Lost(w1 + y1) \in 0 .. 1 /\ Lost(y2) \in 0 .. 1 /\ Lost(w3) \in 0 .. 1
        /\ 4 * y1 = 2 * y3 + 5 * w3 - Lost(w3) + 2 * Lost(y2)
        /\ 4 * w1 = w3 - 6 * y3 + 3 * Lost(w3) + 2 * Lost(y2) + 4 * Lost(w1 + y1)
    BY <2>2, Unrotated
  <2> QED BY <2>1, <2>3
\* Without the halves, there are only sums left.
<1>6. X + W = 2 * x1 + r1 /\ Z + Y = 2 * z1 + r2 /\ x1 + z1 = 2 * x2 + r3
  BY <1>1, <1>2, <1>3
<1>7. 4 * y1 = 2 * y3 + 5 * w3 - r6 + 2 * r5 /\ 4 * w1 = w3 - 6 * y3 + 3 * r6 + 2 * r5 + 4 * r4
  BY <1>5
<1>8. x1 = x2 + r3 - z2 /\ z1 = x2 + z2
  BY <1>4, <1>6
<1>9. X = x1 + r1 - w1 /\ W = x1 + w1 /\ Y = z1 + y1 /\ Z = z1 + r2 - y1
  BY <1>4, <1>6
<1>10. SamplesAre(X, Y, Z, W, x2, y3, z2, w3, r1, r2, r3, r4, r5, r6)
  <2>1. 4 * X = 4 * x2 + 6 * y3 - 4 * z2 - w3 + 4 * r1 + 4 * r3 - 4 * r4 - 2 * r5 - 3 * r6
    BY <1>7, <1>8, <1>9
  <2>2. 4 * Y = 4 * x2 + 2 * y3 + 4 * z2 + 5 * w3 + 2 * r5 - r6
    BY <1>7, <1>8, <1>9
  <2>3. 4 * Z = 4 * x2 - 2 * y3 + 4 * z2 - 5 * w3 + 4 * r2 - 2 * r5 + r6
    BY <1>7, <1>8, <1>9
  <2>4. 4 * W = 4 * x2 - 6 * y3 - 4 * z2 + w3 + 4 * r3 + 4 * r4 + 2 * r5 + 3 * r6
    BY <1>7, <1>8, <1>9
  <2> QED BY <2>1, <2>2, <2>3, <2>4 DEF SamplesAre
<1> QED BY <1>5, <1>10

\* Four coefficients, lifted back.
BackAre(A, B, C, D, o1, o2, o3, o4, s1, s2) ==
    /\ 4 * o1 = 4 * A + 6 * B - 4 * C - D - 3 * s1 - 2 * s2
    /\ 4 * o2 = 4 * A + 2 * B + 4 * C + 5 * D - s1 + 2 * s2
    /\ 4 * o3 = 4 * A - 2 * B + 4 * C - 5 * D + s1 - 2 * s2
    /\ 4 * o4 = 4 * A - 6 * B - 4 * C + D + 3 * s1 + 2 * s2

LEMMA LiftedBack ==
    ASSUME NEW A \in Int, NEW B \in Int, NEW C \in Int, NEW D \in Int
    PROVE  \E o1, o2, o3, o4 \in Int : \E s1, s2 \in 0 .. 1 :
               /\ Zfp!ILift(A, B, C, D) = <<o1, o2, o3, o4>>
               /\ s1 = Lost(D) /\ s2 = Lost(B + Zfp!Half(D))
               /\ BackAre(A, B, C, D, o1, o2, o3, o4, s1, s2)
<1>1. PICK f \in Int, s1 \in 0 .. 1 : f = Zfp!Half(D) /\ s1 = Lost(D) /\ D = 2 * f + s1
  BY HalfOf
<1>2. PICK y1 \in Int : y1 = B + f
  OBVIOUS
<1>3. PICK g \in Int, s2 \in 0 .. 1 : g = Zfp!Half(y1) /\ s2 = Lost(y1) /\ y1 = 2 * g + s2
  BY HalfOf
<1>4. PICK w1 \in Int, y2 \in Int, w2 \in Int : w1 = D - g /\ y2 = y1 + w1 /\ w2 = 2 * w1 - y2
  <2>1. PICK w1 \in Int : w1 = D - g
    OBVIOUS
  <2>2. PICK y2 \in Int : y2 = y1 + w1
    OBVIOUS
  <2> QED BY <2>1, <2>2
<1>5. PICK z1 \in Int, x1 \in Int : z1 = C + A /\ x1 = 2 * A - z1
  OBVIOUS
<1>6. PICK y3 \in Int, z2 \in Int : y3 = y2 + z1 /\ z2 = 2 * z1 - y3
  OBVIOUS
<1>7. PICK w3 \in Int, x2 \in Int : w3 = w2 + x1 /\ x2 = 2 * x1 - w3
  OBVIOUS
<1>8. Zfp!ILift(A, B, C, D) = <<x2, y3, z2, w3>>
  BY <1>1, <1>2, <1>3, <1>4, <1>5, <1>6, <1>7 DEF Zfp!ILift
<1>9. s1 = Lost(D) /\ s2 = Lost(B + Zfp!Half(D))
  BY <1>1, <1>2, <1>3
\* Without the halves, there are only sums left.
<1>10. D = 2 * f + s1 /\ y1 = 2 * g + s2
  BY <1>1, <1>3
<1>11. 4 * y1 = 4 * B + 2 * D - 2 * s1
  BY <1>2, <1>10
<1>12. 4 * w1 = 3 * D - 2 * B + s1 + 2 * s2
  BY <1>4, <1>10, <1>11
<1>13. /\ x2 = A - C - w1 + y1 /\ y3 = A + C + w1 + y1
       /\ z2 = A + C - w1 - y1 /\ w3 = A - C + w1 - y1
  BY <1>4, <1>5, <1>6, <1>7
<1>14. BackAre(A, B, C, D, x2, y3, z2, w3, s1, s2)
  <2>1. 4 * x2 = 4 * A + 6 * B - 4 * C - D - 3 * s1 - 2 * s2
    BY <1>11, <1>12, <1>13
  <2>2. 4 * y3 = 4 * A + 2 * B + 4 * C + 5 * D - s1 + 2 * s2
    BY <1>11, <1>12, <1>13
  <2>3. 4 * z2 = 4 * A - 2 * B + 4 * C - 5 * D + s1 - 2 * s2
    BY <1>11, <1>12, <1>13
  <2>4. 4 * w3 = 4 * A - 6 * B - 4 * C + D + 3 * s1 + 2 * s2
    BY <1>11, <1>12, <1>13
  <2> QED BY <2>1, <2>2, <2>3, <2>4 DEF BackAre
<1> QED BY <1>8, <1>9, <1>14

\* Four samples, lifted and, with their coefficients e off, lifted back.
Back(X, Y, Z, W, e1, e2, e3, e4) ==
    LET v == Zfp!FLift(X, Y, Z, W)
    IN Zfp!ILift(v[1] + e1, v[2] + e2, v[3] + e3, v[4] + e4)

\* How far off it is, four times: e is what the coefficients are off, and r and s
\* are the bits the halves of the two lifts lost.
OffBy(p, e1, e2, e3, e4, r1, r2, r3, r4, r5, r6, s1, s2) ==
    /\ 4 * p[1] = 4 * e1 + 6 * e2 - 4 * e3 - e4 - 4 * r1 - 4 * r3 + 4 * r4 + 2 * r5 + 3 * r6
                    - 3 * s1 - 2 * s2
    /\ 4 * p[2] = 4 * e1 + 2 * e2 + 4 * e3 + 5 * e4 - 2 * r5 + r6 - s1 + 2 * s2
    /\ 4 * p[3] = 4 * e1 - 2 * e2 + 4 * e3 - 5 * e4 - 4 * r2 + 2 * r5 - r6 + s1 - 2 * s2
    /\ 4 * p[4] = 4 * e1 - 6 * e2 - 4 * e3 + e4 - 4 * r3 - 4 * r4 - 2 * r5 - 3 * r6
                    + 3 * s1 + 2 * s2
    /\ e1 = 0 /\ e2 = 0 /\ e3 = 0 /\ e4 = 0 => s1 = r6 /\ s2 = r5

IsOff(X, Y, Z, W, e1, e2, e3, e4) ==
    \E p1, p2, p3, p4 \in Int : \E r1, r2, r3, r4, r5, r6, s1, s2 \in 0 .. 1 :
        /\ Back(X, Y, Z, W, e1, e2, e3, e4) = <<X + p1, Y + p2, Z + p3, W + p4>>
        /\ OffBy(<<p1, p2, p3, p4>>, e1, e2, e3, e4, r1, r2, r3, r4, r5, r6, s1, s2)

LEMMA RowOff ==
    ASSUME NEW X \in Int, NEW Y \in Int, NEW Z \in Int, NEW W \in Int,
           NEW e1 \in Int, NEW e2 \in Int, NEW e3 \in Int, NEW e4 \in Int
    PROVE  IsOff(X, Y, Z, W, e1, e2, e3, e4)
<1>1. PICK v1, v2, v3, v4 \in Int, r1, r2, r3, r4, r5, r6 \in 0 .. 1 :
          /\ Zfp!FLift(X, Y, Z, W) = <<v1, v2, v3, v4>>
          /\ r5 = Lost(v2 + Zfp!Half(v4)) /\ r6 = Lost(v4)
          /\ SamplesAre(X, Y, Z, W, v1, v2, v3, v4, r1, r2, r3, r4, r5, r6)
  <2>1. \E v1, v2, v3, v4 \in Int : \E r1, r2, r3, r4, r5, r6 \in 0 .. 1 :
            /\ Zfp!FLift(X, Y, Z, W) = <<v1, v2, v3, v4>>
            /\ r5 = Lost(v2 + Zfp!Half(v4)) /\ r6 = Lost(v4)
            /\ SamplesAre(X, Y, Z, W, v1, v2, v3, v4, r1, r2, r3, r4, r5, r6)
    BY Samples4
  <2> QED BY <2>1
<1>2. PICK A \in Int, B \in Int, C \in Int, D \in Int :
           A = v1 + e1 /\ B = v2 + e2 /\ C = v3 + e3 /\ D = v4 + e4
  OBVIOUS
<1>3. PICK o1, o2, o3, o4 \in Int, s1, s2 \in 0 .. 1 :
          /\ Zfp!ILift(A, B, C, D) = <<o1, o2, o3, o4>>
          /\ s1 = Lost(D) /\ s2 = Lost(B + Zfp!Half(D))
          /\ BackAre(A, B, C, D, o1, o2, o3, o4, s1, s2)
  <2>1. \E o1, o2, o3, o4 \in Int : \E s1, s2 \in 0 .. 1 :
            /\ Zfp!ILift(A, B, C, D) = <<o1, o2, o3, o4>>
            /\ s1 = Lost(D) /\ s2 = Lost(B + Zfp!Half(D))
            /\ BackAre(A, B, C, D, o1, o2, o3, o4, s1, s2)
    BY LiftedBack
  <2> QED BY <2>1
<1>4. Back(X, Y, Z, W, e1, e2, e3, e4) = <<o1, o2, o3, o4>>
  BY <1>1, <1>2, <1>3 DEF Back
<1>5. e1 = 0 /\ e2 = 0 /\ e3 = 0 /\ e4 = 0 => s1 = r6 /\ s2 = r5
  <2> HAVE e1 = 0 /\ e2 = 0 /\ e3 = 0 /\ e4 = 0
  <2>1. D = v4 /\ B = v2
    BY <1>2
  <2> QED BY <1>1, <1>3, <2>1
<1>6. PICK p1 \in Int, p2 \in Int, p3 \in Int, p4 \in Int :
          p1 = o1 - X /\ p2 = o2 - Y /\ p3 = o3 - Z /\ p4 = o4 - W
  OBVIOUS
<1>14. /\ 4 * X = 4 * v1 + 6 * v2 - 4 * v3 - v4 + 4 * r1 + 4 * r3 - 4 * r4 - 2 * r5 - 3 * r6
       /\ 4 * Y = 4 * v1 + 2 * v2 + 4 * v3 + 5 * v4 + 2 * r5 - r6
       /\ 4 * Z = 4 * v1 - 2 * v2 + 4 * v3 - 5 * v4 + 4 * r2 - 2 * r5 + r6
       /\ 4 * W = 4 * v1 - 6 * v2 - 4 * v3 + v4 + 4 * r3 + 4 * r4 + 2 * r5 + 3 * r6
  BY <1>1 DEF SamplesAre
<1>15. /\ 4 * o1 = 4 * A + 6 * B - 4 * C - D - 3 * s1 - 2 * s2
       /\ 4 * o2 = 4 * A + 2 * B + 4 * C + 5 * D - s1 + 2 * s2
       /\ 4 * o3 = 4 * A - 2 * B + 4 * C - 5 * D + s1 - 2 * s2
       /\ 4 * o4 = 4 * A - 6 * B - 4 * C + D + 3 * s1 + 2 * s2
  BY <1>3 DEF BackAre
<1>7. 4 * p1 = 4 * e1 + 6 * e2 - 4 * e3 - e4 - 4 * r1 - 4 * r3 + 4 * r4 + 2 * r5 + 3 * r6
                    - 3 * s1 - 2 * s2
  BY <1>2, <1>6, <1>14, <1>15
<1>8. 4 * p2 = 4 * e1 + 2 * e2 + 4 * e3 + 5 * e4 - 2 * r5 + r6 - s1 + 2 * s2
  BY <1>2, <1>6, <1>14, <1>15
<1>9. 4 * p3 = 4 * e1 - 2 * e2 + 4 * e3 - 5 * e4 - 4 * r2 + 2 * r5 - r6 + s1 - 2 * s2
  BY <1>2, <1>6, <1>14, <1>15
<1>10. 4 * p4 = 4 * e1 - 6 * e2 - 4 * e3 + e4 - 4 * r3 - 4 * r4 - 2 * r5 - 3 * r6
                    + 3 * s1 + 2 * s2
  BY <1>2, <1>6, <1>14, <1>15
<1>11. X + p1 = o1 /\ Y + p2 = o2 /\ Z + p3 = o3 /\ W + p4 = o4
  BY <1>6
<1>12. OffBy(<<p1, p2, p3, p4>>, e1, e2, e3, e4, r1, r2, r3, r4, r5, r6, s1, s2)
  BY <1>5, <1>7, <1>8, <1>9, <1>10 DEF OffBy
<1>13. Back(X, Y, Z, W, e1, e2, e3, e4) = <<X + p1, Y + p2, Z + p3, W + p4>>
  BY <1>4, <1>11
<1> QED BY <1>12, <1>13 DEF IsOff

\* Samples off by no less than -a and no more than b come back off by no less
\* than -c and no more than d.
Widens(a, b, c, d) ==
    /\ 15 * a + 3 <= 4 * c + 3 /\ 15 * b + 3 <= 4 * d + 3
    /\ 10 * a + 5 * b + 13 <= 4 * c + 3 /\ 10 * b + 5 * a + 9 <= 4 * d + 3
    /\ 8 * a + 7 * b + 7 <= 4 * c + 3 /\ 8 * b + 7 * a + 3 <= 4 * d + 3
    /\ 5 * a + 10 * b + 13 <= 4 * c + 3 /\ 5 * b + 10 * a + 5 <= 4 * d + 3

Grows(a, b, c, d) == Widens(a, b, c, d) \/ (a = 0 /\ b = 0 /\ c = 2 /\ d = 1)

IsNear(X, Y, Z, W, e1, e2, e3, e4, c, d) ==
    \E p1, p2, p3, p4 \in -c .. d :
        Back(X, Y, Z, W, e1, e2, e3, e4) = <<X + p1, Y + p2, Z + p3, W + p4>>

LEMMA RowNear ==
    ASSUME NEW X \in Int, NEW Y \in Int, NEW Z \in Int, NEW W \in Int,
           NEW a \in Nat, NEW b \in Nat, NEW c \in Nat, NEW d \in Nat, Grows(a, b, c, d),
           NEW e1 \in -a .. b, NEW e2 \in -a .. b, NEW e3 \in -a .. b, NEW e4 \in -a .. b
    PROVE  IsNear(X, Y, Z, W, e1, e2, e3, e4, c, d)
<1>1. e1 \in Int /\ e2 \in Int /\ e3 \in Int /\ e4 \in Int
  OBVIOUS
<1>2. PICK p1, p2, p3, p4 \in Int, r1, r2, r3, r4, r5, r6, s1, s2 \in 0 .. 1 :
          /\ Back(X, Y, Z, W, e1, e2, e3, e4) = <<X + p1, Y + p2, Z + p3, W + p4>>
          /\ OffBy(<<p1, p2, p3, p4>>, e1, e2, e3, e4, r1, r2, r3, r4, r5, r6, s1, s2)
  <2>1. IsOff(X, Y, Z, W, e1, e2, e3, e4)
    BY <1>1, RowOff
  <2> QED BY <2>1 DEF IsOff
<1>3. /\ 4 * p1 = 4 * e1 + 6 * e2 - 4 * e3 - e4 - 4 * r1 - 4 * r3 + 4 * r4 + 2 * r5 + 3 * r6
                  - 3 * s1 - 2 * s2
      /\ 4 * p2 = 4 * e1 + 2 * e2 + 4 * e3 + 5 * e4 - 2 * r5 + r6 - s1 + 2 * s2
      /\ 4 * p3 = 4 * e1 - 2 * e2 + 4 * e3 - 5 * e4 - 4 * r2 + 2 * r5 - r6 + s1 - 2 * s2
      /\ 4 * p4 = 4 * e1 - 6 * e2 - 4 * e3 + e4 - 4 * r3 - 4 * r4 - 2 * r5 - 3 * r6
                  + 3 * s1 + 2 * s2
      /\ e1 = 0 /\ e2 = 0 /\ e3 = 0 /\ e4 = 0 => s1 = r6 /\ s2 = r5
  BY <1>2 DEF OffBy
<1>6. p1 \in -c .. d /\ p2 \in -c .. d /\ p3 \in -c .. d /\ p4 \in -c .. d
  <2>1. CASE Widens(a, b, c, d)
    <3>1. p1 \in -c .. d
      BY <1>3, <2>1 DEF Widens
    <3>2. p2 \in -c .. d
      BY <1>3, <2>1 DEF Widens
    <3>3. p3 \in -c .. d
      BY <1>3, <2>1 DEF Widens
    <3>4. p4 \in -c .. d
      BY <1>3, <2>1 DEF Widens
    <3> QED BY <3>1, <3>2, <3>3, <3>4
  <2>2. CASE a = 0 /\ b = 0 /\ c = 2 /\ d = 1
    <3>1. e1 = 0 /\ e2 = 0 /\ e3 = 0 /\ e4 = 0
      BY <2>2
    <3> QED BY <1>3, <2>2, <3>1
  <2> QED BY <2>1, <2>2 DEF Grows
<1> QED BY <1>2, <1>6 DEF IsNear

\* Every number of u is off from that of w by -a at the least and b at the most.
Near(u, w, a, b) == \A p \in Zfp!Points : u[p] \in w[p] - a .. w[p] + b

\* Another place of the row through p along an axis.
At(p, a, i) == [p EXCEPT ![a] = i]

LEMMA RowPlace ==
    ASSUME NEW p \in Zfp!Points, NEW a \in 1 .. 3
    PROVE  /\ p[a] \in 0 .. 3 /\ At(p, a, p[a]) = p
           /\ \A i \in 0 .. 3 : /\ At(p, a, i) \in Zfp!Points
                                /\ At(p, a, i)[a] = i
                                /\ \A j \in 0 .. 3 : At(At(p, a, i), a, j) = At(p, a, j)
BY DEF Zfp!Points, At

\* Lifted forth along an axis.
Forth(w, a) == Zfp!Along(w, a, Zfp!FLift)

LEMMA ForthAt ==
    ASSUME NEW w \in [Zfp!Points -> Int], NEW a \in 1 .. 3, NEW p \in Zfp!Points
    PROVE  Forth(w, a)[p] = Zfp!FLift(w[At(p, a, 0)], w[At(p, a, 1)],
                                      w[At(p, a, 2)], w[At(p, a, 3)])[p[a] + 1]
BY DEF Forth, Zfp!Along, At

\* The whole row at once.
LEMMA ForthRow ==
    ASSUME NEW w \in [Zfp!Points -> Int], NEW a \in 1 .. 3, NEW p \in Zfp!Points
    PROVE  \A i \in 0 .. 3 :
               Forth(w, a)[At(p, a, i)] = Zfp!FLift(w[At(p, a, 0)], w[At(p, a, 1)],
                                                    w[At(p, a, 2)], w[At(p, a, 3)])[i + 1]
<1> SUFFICES ASSUME NEW i \in 0 .. 3
             PROVE  Forth(w, a)[At(p, a, i)] = Zfp!FLift(w[At(p, a, 0)], w[At(p, a, 1)],
                                                         w[At(p, a, 2)], w[At(p, a, 3)])[i + 1]
  OBVIOUS
<1>1. PICK q \in Zfp!Points : /\ q = At(p, a, i) /\ q[a] = i
                              /\ \A j \in 0 .. 3 : At(q, a, j) = At(p, a, j)
  <2>1. /\ At(p, a, i) \in Zfp!Points /\ At(p, a, i)[a] = i
        /\ \A j \in 0 .. 3 : At(At(p, a, i), a, j) = At(p, a, j)
    BY RowPlace
  <2> QED BY <2>1
<1>2. Forth(w, a)[q] = Zfp!FLift(w[At(q, a, 0)], w[At(q, a, 1)],
                                 w[At(q, a, 2)], w[At(q, a, 3)])[q[a] + 1]
  BY ForthAt
<1>3. /\ At(q, a, 0) = At(p, a, 0) /\ At(q, a, 1) = At(p, a, 1)
      /\ At(q, a, 2) = At(p, a, 2) /\ At(q, a, 3) = At(p, a, 3)
  BY <1>1
<1> QED BY <1>1, <1>2, <1>3

\* The block that is lifted back along the axis is near the one that was lifted.
LEMMA AxisNear ==
    ASSUME NEW w \in [Zfp!Points -> Int], NEW a \in 1 .. 3, Forth(w, a) \in [Zfp!Points -> Int],
           NEW u \in [Zfp!Points -> Int],
           NEW lo \in Nat, NEW hi \in Nat, NEW c \in Nat, NEW d \in Nat,
           Near(u, Forth(w, a), lo, hi), Grows(lo, hi, c, d)
    PROVE  /\ Zfp!Along(u, a, Zfp!ILift) \in [Zfp!Points -> Int]
           /\ Near(Zfp!Along(u, a, Zfp!ILift), w, c, d)
<1>1. ASSUME NEW p \in Zfp!Points
      PROVE  Zfp!Along(u, a, Zfp!ILift)[p] \in w[p] - c .. w[p] + d
  <2> DEFINE at(i) == At(p, a, i)
             v == Zfp!FLift(w[at(0)], w[at(1)], w[at(2)], w[at(3)])
  <2>1. \A i \in 0 .. 3 : at(i) \in Zfp!Points
    BY RowPlace
  <2>2. at(p[a]) = p /\ p[a] \in 0 .. 3
    BY RowPlace
  <2>3. \A i \in 0 .. 3 : Forth(w, a)[at(i)] = v[i + 1]
    BY ForthRow
  <2>4. Zfp!Along(u, a, Zfp!ILift)[p] = Zfp!ILift(u[at(0)], u[at(1)], u[at(2)], u[at(3)])[p[a] + 1]
    BY DEF Zfp!Along, At
  <2> HIDE DEF at
  <2>5. PICK X \in Int, Y \in Int, Z \in Int, W \in Int :
            X = w[at(0)] /\ Y = w[at(1)] /\ Z = w[at(2)] /\ W = w[at(3)]
    BY <2>1
  <2>6. v = Zfp!FLift(X, Y, Z, W)
    BY <2>5
  <2> HIDE DEF v
  <2>7. \A i \in 0 .. 3 : v[i + 1] \in Int /\ u[at(i)] \in v[i + 1] - lo .. v[i + 1] + hi
                          /\ u[at(i)] \in Int
    BY <2>1, <2>3 DEF Near
  <2>8. \A i \in 0 .. 3 : \E e \in -lo .. hi : u[at(i)] = v[i + 1] + e
    <3> SUFFICES ASSUME NEW i \in 0 .. 3
                 PROVE  \E e \in -lo .. hi : u[at(i)] = v[i + 1] + e
      OBVIOUS
    <3>1. PICK m \in Int, n \in Int : m = u[at(i)] /\ n = v[i + 1] /\ m \in n - lo .. n + hi
      BY <2>7
    <3>2. m - n \in -lo .. hi /\ m = n + (m - n)
      BY <3>1
    <3> QED BY <3>1, <3>2
  <2>9. PICK e1 \in -lo .. hi, e2 \in -lo .. hi, e3 \in -lo .. hi, e4 \in -lo .. hi :
            /\ u[at(0)] = v[1] + e1 /\ u[at(1)] = v[2] + e2
            /\ u[at(2)] = v[3] + e3 /\ u[at(3)] = v[4] + e4
    <3>1. PICK e1 \in -lo .. hi : u[at(0)] = v[0 + 1] + e1
      BY <2>8
    <3>2. PICK e2 \in -lo .. hi : u[at(1)] = v[1 + 1] + e2
      BY <2>8
    <3>3. PICK e3 \in -lo .. hi : u[at(2)] = v[2 + 1] + e3
      BY <2>8
    <3>4. PICK e4 \in -lo .. hi : u[at(3)] = v[3 + 1] + e4
      BY <2>8
    <3> QED BY <3>1, <3>2, <3>3, <3>4
  <2>10. Zfp!ILift(u[at(0)], u[at(1)], u[at(2)], u[at(3)]) = Back(X, Y, Z, W, e1, e2, e3, e4)
    BY <2>6, <2>9 DEF Back
  <2>11. PICK p1, p2, p3, p4 \in -c .. d :
             Back(X, Y, Z, W, e1, e2, e3, e4) = <<X + p1, Y + p2, Z + p3, W + p4>>
    <3>1. IsNear(X, Y, Z, W, e1, e2, e3, e4, c, d)
      BY RowNear
    <3> QED BY <3>1 DEF IsNear
  <2>12. Zfp!Along(u, a, Zfp!ILift)[p] = <<X + p1, Y + p2, Z + p3, W + p4>>[p[a] + 1]
    BY <2>4, <2>10, <2>11
  <2>13. /\ X + p1 \in X - c .. X + d /\ Y + p2 \in Y - c .. Y + d
         /\ Z + p3 \in Z - c .. Z + d /\ W + p4 \in W - c .. W + d
    OBVIOUS
  <2>14. CASE p[a] = 0
    BY <2>2, <2>5, <2>12, <2>13, <2>14
  <2>15. CASE p[a] = 1
    BY <2>2, <2>5, <2>12, <2>13, <2>15
  <2>16. CASE p[a] = 2
    BY <2>2, <2>5, <2>12, <2>13, <2>16
  <2>17. CASE p[a] = 3
    BY <2>2, <2>5, <2>12, <2>13, <2>17
  <2> QED BY <2>2, <2>14, <2>15, <2>16, <2>17
<1>2. \A p \in Zfp!Points : Zfp!Along(u, a, Zfp!ILift)[p] \in Int
  <2> SUFFICES ASSUME NEW p \in Zfp!Points
               PROVE  Zfp!Along(u, a, Zfp!ILift)[p] \in Int
    OBVIOUS
  <2>1. w[p] \in Int
    OBVIOUS
  <2> QED BY <1>1, <2>1
<1>3. \E f : Zfp!Along(u, a, Zfp!ILift) = [p \in Zfp!Points |-> f[p]]
  <2>1. Zfp!Along(u, a, Zfp!ILift) = [p \in Zfp!Points |-> Zfp!Along(u, a, Zfp!ILift)[p]]
    BY DEF Zfp!Along
  <2> QED BY <2>1
<1> QED BY <1>1, <1>2, <1>3 DEF Near

-----------------------------------------------------------------------------
(* How far the block that is rebuilt may be off.                           *)

\* What may be lost and what may be added while the axes are lifted back: lo[3]
\* and hi[3] by the planes that are missing, lo[k - 1] and hi[k - 1] after axis k.
IsChain(c, lo, hi) ==
    /\ lo \in [0 .. 3 -> Nat] /\ hi \in [0 .. 3 -> Nat]
    /\ lo[3] = Short(c) /\ hi[3] = Over(c)
    /\ \A k \in 1 .. 3 : Grows(lo[k], hi[k], lo[k - 1], hi[k - 1])
    /\ lo[0] <= Loss * 2 ^ c /\ hi[0] <= Loss * 2 ^ c

LEMMA MakesChain ==
    ASSUME NEW c \in Nat,
           NEW l0 \in Nat, NEW l1 \in Nat, NEW l2 \in Nat, NEW l3 \in Nat,
           NEW h0 \in Nat, NEW h1 \in Nat, NEW h2 \in Nat, NEW h3 \in Nat,
           l3 = Short(c), h3 = Over(c),
           Grows(l3, h3, l2, h2), Grows(l2, h2, l1, h1), Grows(l1, h1, l0, h0),
           l0 <= Loss * 2 ^ c, h0 <= Loss * 2 ^ c
    PROVE  \E lo, hi : IsChain(c, lo, hi)
<1> DEFINE lo == [k \in 0 .. 3 |-> IF k = 0 THEN l0 ELSE IF k = 1 THEN l1
                                   ELSE IF k = 2 THEN l2 ELSE l3]
           hi == [k \in 0 .. 3 |-> IF k = 0 THEN h0 ELSE IF k = 1 THEN h1
                                   ELSE IF k = 2 THEN h2 ELSE h3]
<1>1. lo \in [0 .. 3 -> Nat] /\ hi \in [0 .. 3 -> Nat]
  OBVIOUS
<1>2. /\ lo[0] = l0 /\ lo[1] = l1 /\ lo[2] = l2 /\ lo[3] = l3
      /\ hi[0] = h0 /\ hi[1] = h1 /\ hi[2] = h2 /\ hi[3] = h3
  OBVIOUS
<1> HIDE DEF lo, hi
<1>3. \A k \in 1 .. 3 : Grows(lo[k], hi[k], lo[k - 1], hi[k - 1])
  <2> SUFFICES ASSUME NEW k \in 1 .. 3
               PROVE  Grows(lo[k], hi[k], lo[k - 1], hi[k - 1])
    OBVIOUS
  <2>1. CASE k = 1 /\ k - 1 = 0
    BY <2>1, <1>2
  <2>2. CASE k = 2 /\ k - 1 = 1
    BY <2>2, <1>2
  <2>3. CASE k = 3 /\ k - 1 = 2
    BY <2>3, <1>2
  <2> QED BY <2>1, <2>2, <2>3
<1> QED BY <1>1, <1>2, <1>3 DEF IsChain

\* With all planes the axes lose 2, 9 and 34 units.
LEMMA ChainWhole == \E lo, hi : IsChain(0, lo, hi)
<1>1. Short(0) = 0 /\ Over(0) = 0
  <2>1. Zfp!Number(Odds(0)) \in Nat /\ 3 * Zfp!Number(Odds(0)) = 2 * 2 ^ 0 - 2
    <3>1. PICK z \in Nat : z = 0 /\ z % 2 = 0
      OBVIOUS
    <3>2. Zfp!Number(Odds(z)) \in Nat /\ 3 * Zfp!Number(Odds(z)) = 2 * 2 ^ z - 2
      BY <3>1, OddsSize
    <3> QED BY <3>1, <3>2
  <2> QED BY <2>1, SmallPowers DEF Short, Over
<1>2. Grows(0, 0, 2, 1) /\ Grows(2, 1, 9, 7) /\ Grows(9, 7, 34, 32)
  BY DEF Grows, Widens
<1>3. 34 <= Loss * 2 ^ 0 /\ 32 <= Loss * 2 ^ 0
  BY SmallPowers DEF Loss
<1> QED BY <1>1, <1>2, <1>3, MakesChain

\* Without an odd number of planes a coefficient loses twice what it may gain;
\* without an even number, half of it.
LEMMA ChainOdd ==
    ASSUME NEW c \in Nat, c % 2 = 1
    PROVE  \E lo, hi : IsChain(c, lo, hi)
<1>1. PICK s \in Nat : 2 ^ c = 6 * s + 2 /\ Over(c) = 2 * s /\ Short(c) = 4 * s + 1
  <2>1. PICK b \in Nat : b = c - 1 /\ c = b + 1
    OBVIOUS
  <2>2. 2 ^ c = 2 * 2 ^ b /\ 2 ^ b \in Nat
    BY <2>1, PowDouble, PowPos
  <2>3. PICK m \in Nat : m = Zfp!Number(Odds(c)) /\ 3 * m = 2 ^ c - 2
    <3>1. c % 2 # 0
      OBVIOUS
    <3>2. Zfp!Number(Odds(c)) \in Nat /\ 3 * Zfp!Number(Odds(c)) = 2 ^ c - 2
      BY <3>1, OddsSize
    <3> QED BY <3>2
  <2>4. PICK s \in Nat : m = 2 * s
    <3>1. PICK h \in Nat : h = 2 ^ b /\ 3 * m = 2 * h - 2
      BY <2>2, <2>3
    <3>2. m = 2 * (m \div 2) /\ m \div 2 \in Nat
      BY <3>1
    <3> QED BY <3>2
  <2> QED BY <2>2, <2>3, <2>4 DEF Over, Short
<1>2. /\ Grows(4 * s + 1, 2 * s, 15 * s + 5, 13 * s + 3)
      /\ Grows(15 * s + 5, 13 * s + 3, 57 * s + 19, 54 * s + 17)
      /\ Grows(57 * s + 19, 54 * s + 17, 214 * s + 72, 210 * s + 70)
  BY DEF Grows, Widens
<1>3. 214 * s + 72 <= Loss * 2 ^ c /\ 210 * s + 70 <= Loss * 2 ^ c
  BY <1>1 DEF Loss
<1>4. PICK l0 \in Nat, l1 \in Nat, l2 \in Nat, l3 \in Nat, h0 \in Nat, h1 \in Nat, h2 \in Nat, h3 \in Nat :
          /\ l3 = 4 * s + 1 /\ l2 = 15 * s + 5 /\ l1 = 57 * s + 19 /\ l0 = 214 * s + 72
          /\ h3 = 2 * s /\ h2 = 13 * s + 3 /\ h1 = 54 * s + 17 /\ h0 = 210 * s + 70
  OBVIOUS
<1>5. /\ l3 = Short(c) /\ h3 = Over(c)
      /\ Grows(l3, h3, l2, h2) /\ Grows(l2, h2, l1, h1) /\ Grows(l1, h1, l0, h0)
      /\ l0 <= Loss * 2 ^ c /\ h0 <= Loss * 2 ^ c
  BY <1>1, <1>2, <1>3, <1>4
<1> QED BY <1>5, MakesChain

LEMMA ChainEven ==
    ASSUME NEW c \in Nat, c % 2 = 0, c # 0
    PROVE  \E lo, hi : IsChain(c, lo, hi)
<1>1. PICK s \in Nat : 2 ^ c = 6 * s + 4 /\ Over(c) = 4 * s + 2 /\ Short(c) = 2 * s + 1
  <2>1. PICK b \in Nat : b = c - 1 /\ c = b + 1
    OBVIOUS
  <2>2. PICK h \in Nat : h = 2 ^ b /\ 2 ^ c = 2 * h
    BY <2>1, PowDouble, PowPos
  <2>3. PICK m \in Nat : m = Zfp!Number(Odds(c)) /\ 3 * m = 2 * 2 ^ c - 2
    <3>1. Zfp!Number(Odds(c)) \in Nat /\ 3 * Zfp!Number(Odds(c)) = 2 * 2 ^ c - 2
      BY OddsSize
    <3> QED BY <3>1
  <2>4. 3 * m = 4 * h - 2
    BY <2>2, <2>3
  <2>5. PICK s \in Nat : m = 4 * s + 2
    <3>1. m = 4 * (m \div 4) + 2 /\ m \div 4 \in Nat
      BY <2>4
    <3> QED BY <3>1
  <2> QED BY <2>2, <2>3, <2>5 DEF Over, Short
<1>2. /\ Grows(2 * s + 1, 4 * s + 2, 13 * s + 9, 15 * s + 8)
      /\ Grows(13 * s + 9, 15 * s + 8, 54 * s + 35, 57 * s + 33)
      /\ Grows(54 * s + 35, 57 * s + 33, 210 * s + 132, 214 * s + 130)
  BY DEF Grows, Widens
<1>3. 210 * s + 132 <= Loss * 2 ^ c /\ 214 * s + 130 <= Loss * 2 ^ c
  BY <1>1 DEF Loss
<1>4. PICK l0 \in Nat, l1 \in Nat, l2 \in Nat, l3 \in Nat, h0 \in Nat, h1 \in Nat, h2 \in Nat, h3 \in Nat :
          /\ l3 = 2 * s + 1 /\ l2 = 13 * s + 9 /\ l1 = 54 * s + 35 /\ l0 = 210 * s + 132
          /\ h3 = 4 * s + 2 /\ h2 = 15 * s + 8 /\ h1 = 57 * s + 33 /\ h0 = 214 * s + 130
  OBVIOUS
<1>5. /\ l3 = Short(c) /\ h3 = Over(c)
      /\ Grows(l3, h3, l2, h2) /\ Grows(l2, h2, l1, h1) /\ Grows(l1, h1, l0, h0)
      /\ l0 <= Loss * 2 ^ c /\ h0 <= Loss * 2 ^ c
  BY <1>1, <1>2, <1>3, <1>4
<1> QED BY <1>5, MakesChain

LEMMA ChainExists ==
    ASSUME NEW c \in Nat
    PROVE  \E lo, hi : IsChain(c, lo, hi)
<1>1. c % 2 = 0 \/ c % 2 = 1
  OBVIOUS
<1> QED BY <1>1, ChainWhole, ChainOdd, ChainEven

\* The block with its first k axes lifted.
Lifted(b, k) ==
    IF k = 0 THEN b
    ELSE IF k = 1 THEN Forth(b, 1)
    ELSE IF k = 2 THEN Forth(Forth(b, 1), 2)
    ELSE Forth(Forth(Forth(b, 1), 2), 3)

LEMMA LiftedNext ==
    ASSUME NEW b, NEW k \in 1 .. 3
    PROVE  Lifted(b, k) = Forth(Lifted(b, k - 1), k)
<1>1. CASE k = 1
  BY <1>1 DEF Lifted
<1>2. CASE k = 2
  BY <1>2 DEF Lifted
<1>3. CASE k = 3
  BY <1>3 DEF Lifted
<1> QED BY <1>1, <1>2, <1>3

\* Lifting an axis leaves every number in the range.
LEMMA ForthRange ==
    ASSUME NEW r \in Nat, r > 1, NEW w \in [Zfp!Points -> -r .. r], NEW a \in 1 .. 3
    PROVE  Forth(w, a) \in [Zfp!Points -> -r .. r]
<1>1. ASSUME NEW p \in Zfp!Points
      PROVE  Forth(w, a)[p] \in -r .. r
  <2>1. /\ At(p, a, 0) \in Zfp!Points /\ At(p, a, 1) \in Zfp!Points
        /\ At(p, a, 2) \in Zfp!Points /\ At(p, a, 3) \in Zfp!Points /\ p[a] \in 0 .. 3
    <3>1. p[a] \in 0 .. 3 /\ \A i \in 0 .. 3 : At(p, a, i) \in Zfp!Points
      BY RowPlace
    <3> QED BY <3>1
  <2>2. PICK X \in -r .. r, Y \in -r .. r, Z \in -r .. r, W \in -r .. r :
            /\ X = w[At(p, a, 0)] /\ Y = w[At(p, a, 1)]
            /\ Z = w[At(p, a, 2)] /\ W = w[At(p, a, 3)]
    BY <2>1
  <2>3. Forth(w, a)[p] = Zfp!FLift(X, Y, Z, W)[p[a] + 1]
    <3>1. w \in [Zfp!Points -> Int]
      OBVIOUS
    <3> QED BY <3>1, <2>2, ForthAt
  <2>4. \A i \in 1 .. 4 : Zfp!FLift(X, Y, Z, W)[i] \in -r .. r
    BY FLiftRange
  <2>5. p[a] + 1 \in 1 .. 4
    BY <2>1
  <2> QED BY <2>3, <2>4, <2>5
<1>2. Forth(w, a) = [p \in Zfp!Points |-> Forth(w, a)[p]]
  BY DEF Forth, Zfp!Along
<1> QED BY <1>1, <1>2

\* The numbers of a block.
Fits == -Zfp!MaxInt .. Zfp!MaxInt

LEMMA LiftedRange ==
    ASSUME Zfp!BlockParameters, NEW b \in [Zfp!Points -> Fits], NEW k \in 0 .. 3
    PROVE  Lifted(b, k) \in [Zfp!Points -> Fits]
<1>1. PICK r \in Nat : r = Zfp!MaxInt /\ r > 1 /\ Fits = -r .. r
  BY Precision DEF Fits
<1>2. \A a \in 1 .. 3 : \A w \in [Zfp!Points -> Fits] : Forth(w, a) \in [Zfp!Points -> Fits]
  BY <1>1, ForthRange
<1> QED BY <1>2 DEF Lifted

\* While the axes are being lifted, the block is the one of Init with the axes
\* done lifted; coded, it is that of all three in negabinary; while they are
\* lifted back, it is near the one with the axes left.
LossInv ==
    /\ pc \in {"forward", "shuffle", "coded", "inverse", "done"}
    /\ orig \in [Zfp!Points -> Fits]
    /\ pc = "forward" => pass \in 0 .. 2 /\ blk = Lifted(orig, pass)
    /\ pc \in {"shuffle", "coded"} => pass = 3
    /\ pc = "shuffle" => blk = Lifted(orig, 3)
    /\ pc = "coded" =>
           blk = [p \in Zfp!Points |-> Zfp!Negabinary(Lifted(orig, 3)[p])]
    /\ pc = "inverse" => pass \in 1 .. 3
    /\ pc = "done" => pass = 0
    /\ pc \in {"inverse", "done"} =>
           /\ cut \in 0 .. Prec /\ blk \in [Zfp!Points -> Int]
           /\ \E lo, hi : /\ IsChain(cut, lo, hi)
                          /\ Near(blk, Lifted(orig, pass), lo[pass], hi[pass])

LEMMA ForwardStep ==
    ASSUME Zfp!BlockParameters, LossInv, Zfp!ForwardZfp
    PROVE  LossInv'
<1>1. pc = "forward" /\ pass \in 0 .. 2 /\ blk = Lifted(orig, pass) /\ orig \in [Zfp!Points -> Fits]
  BY DEF LossInv, Zfp!ForwardZfp
<1>2. blk' = Forth(blk, pass + 1) /\ pass' = pass + 1 /\ orig' = orig /\ cut' = cut
      /\ pc' = IF pass = 2 THEN "shuffle" ELSE "forward"
  BY DEF Zfp!ForwardZfp, Forth
<1>3. blk' = Lifted(orig', pass')
  <2>1. PICK k \in 1 .. 3 : k = pass + 1 /\ k - 1 = pass
    BY <1>1
  <2>2. Lifted(orig, k) = Forth(Lifted(orig, k - 1), k)
    BY LiftedNext
  <2> QED BY <1>1, <1>2, <2>1, <2>2
<1>4. CASE pass = 2
  <2>1. pc' = "shuffle" /\ pass' = 3
    BY <1>2, <1>4
  <2> QED BY <1>1, <1>2, <1>3, <2>1 DEF LossInv
<1>5. CASE pass # 2
  <2>1. pc' = "forward" /\ pass' \in 0 .. 2
    BY <1>1, <1>2, <1>5
  <2> QED BY <1>1, <1>2, <1>3, <2>1 DEF LossInv
<1> QED BY <1>4, <1>5

LEMMA ShuffleStep ==
    ASSUME Zfp!BlockParameters, LossInv, Zfp!ForwardShuffle
    PROVE  LossInv'
<1>1. /\ pc = "shuffle" /\ pass = 3 /\ blk = Lifted(orig, 3) /\ orig \in [Zfp!Points -> Fits]
      /\ pc' = "coded" /\ orig' = orig /\ pass' = pass
      /\ blk' = [p \in Zfp!Points |-> Zfp!Negabinary(blk[p])]
  BY DEF LossInv, Zfp!ForwardShuffle
<1> QED BY <1>1 DEF LossInv

LEMMA InverseShuffleStep ==
    ASSUME Zfp!BlockParameters, LossInv, Zfp!InverseShuffle
    PROVE  LossInv'
<1> DEFINE all == Lifted(orig, 3)
<1>1. /\ pc = "coded" /\ pass = 3 /\ orig \in [Zfp!Points -> Fits]
      /\ blk = [p \in Zfp!Points |-> Zfp!Negabinary(all[p])]
      /\ pc' = "inverse" /\ orig' = orig /\ pass' = pass /\ cut' \in 0 .. Prec
      /\ blk' = [p \in Zfp!Points |-> Zfp!InverseNegabinary(blk[p] \cap (cut' .. Prec - 1))]
  BY DEF LossInv, Zfp!InverseShuffle, Zfp!BlockParameters
<1>2. PICK c \in 0 .. Prec : c = cut'
  BY <1>1
<1>3. c \in Nat
  BY Precision
<1>4. PICK lo, hi : IsChain(c, lo, hi)
  BY <1>3, ChainExists
<1>5. all \in [Zfp!Points -> Fits]
  BY <1>1, LiftedRange
<1>6. Short(c) \in Nat /\ Over(c) \in Nat
  BY <1>4 DEF IsChain
<1> HIDE DEF all
<1>7. ASSUME NEW p \in Zfp!Points
      PROVE  blk'[p] \in all[p] - Short(c) .. all[p] + Over(c) /\ blk'[p] \in Int
  <2>1. PICK x \in -Zfp!MaxInt .. Zfp!MaxInt : x = all[p]
    BY <1>5 DEF Fits
  <2>2. blk'[p] = Zfp!InverseNegabinary(Zfp!Negabinary(x) \cap (c .. Prec - 1))
    BY <1>1, <1>2, <2>1
  <2>3. blk'[p] \in x - Short(c) .. x + Over(c)
    BY <2>2, Decoded
  <2>4. x \in Int
    BY Precision
  <2> QED BY <1>6, <2>1, <2>3, <2>4
<1>8. blk' \in [Zfp!Points -> Int]
  BY <1>1, <1>7
<1>9. Near(blk', all, lo[3], hi[3])
  BY <1>4, <1>7 DEF Near, IsChain
<1>10. IsChain(cut', lo, hi) /\ Near(blk', Lifted(orig', pass'), lo[pass'], hi[pass'])
  BY <1>1, <1>2, <1>4, <1>9 DEF all
<1>11. /\ pc' = "inverse" /\ pass' \in 1 .. 3 /\ cut' \in 0 .. Prec
       /\ orig' \in [Zfp!Points -> Fits]
  BY <1>1
<1> QED BY <1>8, <1>10, <1>11 DEF LossInv

LEMMA InverseStep ==
    ASSUME Zfp!BlockParameters, LossInv, Zfp!InverseZfp
    PROVE  LossInv'
<1>1. /\ pc = "inverse" /\ pass \in 1 .. 3 /\ orig \in [Zfp!Points -> Fits]
      /\ cut \in 0 .. Prec /\ blk \in [Zfp!Points -> Int]
      /\ blk' = Zfp!Along(blk, pass, Zfp!ILift) /\ pass' = pass - 1
      /\ orig' = orig /\ cut' = cut /\ pc' = IF pass = 1 THEN "done" ELSE "inverse"
  BY DEF LossInv, Zfp!InverseZfp
<1>2. PICK lo, hi : IsChain(cut, lo, hi) /\ Near(blk, Lifted(orig, pass), lo[pass], hi[pass])
  BY <1>1 DEF LossInv
<1>3. PICK k \in 1 .. 3 : k = pass
  BY <1>1
<1>4. k - 1 \in 0 .. 3 /\ k \in 0 .. 3
  OBVIOUS
<1>5. PICK a \in Nat, b \in Nat, c \in Nat, d \in Nat :
          /\ a = lo[k] /\ b = hi[k] /\ c = lo[k - 1] /\ d = hi[k - 1] /\ Grows(a, b, c, d)
  BY <1>2, <1>4 DEF IsChain
<1>6. PICK w \in [Zfp!Points -> Int] : w = Lifted(orig, k - 1)
  <2>1. Lifted(orig, k - 1) \in [Zfp!Points -> Fits]
    BY <1>1, <1>4, LiftedRange
  <2>2. \A n \in Fits : n \in Int
    BY Precision DEF Fits
  <2>3. Lifted(orig, k - 1) \in [Zfp!Points -> Int]
    BY <2>1, <2>2
  <2> QED BY <2>3
<1>7. Lifted(orig, k) = Forth(w, k)
  BY <1>6, LiftedNext
<1>8. Forth(w, k) \in [Zfp!Points -> Int]
  <2>1. Lifted(orig, k) \in [Zfp!Points -> Fits]
    BY <1>1, <1>4, LiftedRange
  <2>2. \A n \in Fits : n \in Int
    BY Precision DEF Fits
  <2> QED BY <1>7, <2>1, <2>2
<1>9. Near(blk, Forth(w, k), a, b)
  BY <1>2, <1>3, <1>5, <1>7
<1>10. /\ Zfp!Along(blk, k, Zfp!ILift) \in [Zfp!Points -> Int]
       /\ Near(Zfp!Along(blk, k, Zfp!ILift), w, c, d)
  BY <1>1, <1>5, <1>8, <1>9, AxisNear
<1>11. blk' \in [Zfp!Points -> Int]
       /\ Near(blk', Lifted(orig', pass'), lo[pass'], hi[pass'])
  BY <1>1, <1>3, <1>5, <1>6, <1>10
<1>12. IsChain(cut', lo, hi) /\ cut' \in 0 .. Prec /\ orig' \in [Zfp!Points -> Fits]
  BY <1>1, <1>2
<1>13. CASE pass = 1
  <2>1. pc' = "done" /\ pass' = 0
    BY <1>1, <1>13
  <2> QED BY <1>11, <1>12, <2>1 DEF LossInv
<1>14. CASE pass # 1
  <2>1. pc' = "inverse" /\ pass' \in 1 .. 3
    BY <1>1, <1>14
  <2> QED BY <1>11, <1>12, <2>1 DEF LossInv
<1> QED BY <1>13, <1>14

LEMMA LossInduction ==
    ASSUME Zfp!BlockParameters
    PROVE  Zfp!Spec => []LossInv
<1>1. Zfp!Init => LossInv
  BY DEF Zfp!BlockParameters, Zfp!Init, LossInv, Lifted, Fits
<1>2. LossInv /\ [Zfp!Next]_(Zfp!vars) => LossInv'
  <2> SUFFICES ASSUME LossInv, [Zfp!Next]_(Zfp!vars)
               PROVE  LossInv'
    OBVIOUS
  <2>1. CASE Zfp!ForwardZfp
    BY <2>1, ForwardStep
  <2>2. CASE Zfp!ForwardShuffle
    BY <2>2, ShuffleStep
  <2>3. CASE Zfp!InverseShuffle
    BY <2>3, InverseShuffleStep
  <2>4. CASE Zfp!InverseZfp
    BY <2>4, InverseStep
  <2>5. CASE UNCHANGED Zfp!vars
    BY <2>5 DEF Zfp!vars, LossInv
  <2> QED BY <2>1, <2>2, <2>3, <2>4, <2>5 DEF Zfp!Next
<1> QED BY <1>1, <1>2, PTL DEF Zfp!Spec

\* The coefficients stay within the range of the samples through all three axes.
THEOREM NoExpansionCorrect ==
    ASSUME Zfp!BlockParameters
    PROVE  Zfp!Spec => []NoExpansion
<1>1. LossInv => NoExpansion
  <2> SUFFICES ASSUME LossInv, pc \in {"forward", "shuffle"}
               PROVE  blk \in [Zfp!Points -> Fits]
    BY DEF NoExpansion, Fits, Zfp!Points, MaxInt, QuantBits, Zfp!MaxInt, Zfp!QuantBits
  <2>1. PICK k \in 0 .. 3 : blk = Lifted(orig, k)
    BY DEF LossInv
  <2> QED BY <2>1, LiftedRange DEF LossInv
<1> QED BY <1>1, LossInduction, PTL

\* What the block rebuilt has lost: at most 36 units, and twice as many for every
\* plane that was not decoded.
THEOREM WithinLossCorrect ==
    ASSUME Zfp!BlockParameters
    PROVE  Zfp!Spec => []WithinLoss
<1>1. LossInv => WithinLoss
  <2> SUFFICES ASSUME LossInv, pc = "done", NEW p \in Zfp!Points
               PROVE  Abs(blk[p] - orig[p]) <= Loss * 2 ^ cut
    BY DEF WithinLoss, Zfp!Points
  <2>1. /\ pass = 0 /\ cut \in 0 .. Prec /\ blk \in [Zfp!Points -> Int]
        /\ orig \in [Zfp!Points -> Fits]
    BY DEF LossInv
  <2>2. PICK lo, hi : IsChain(cut, lo, hi) /\ Near(blk, Lifted(orig, pass), lo[pass], hi[pass])
    BY DEF LossInv
  <2>3. PICK m \in Int : m = Loss * 2 ^ cut
    <3>1. 2 ^ cut \in Nat
      BY <2>1, Precision, PowPos
    <3> QED BY <3>1 DEF Loss
  <2>4. PICK a \in Nat, b \in Nat : a <= m /\ b <= m /\ a = lo[0] /\ b = hi[0]
    BY <2>2, <2>3 DEF IsChain
  <2>5. PICK x \in Int, y \in Int : x = blk[p] /\ y = orig[p]
    BY <2>1, Precision DEF Fits
  <2>6. x \in y - a .. y + b
    BY <2>1, <2>2, <2>4, <2>5 DEF Near, Lifted
  <2>7. Abs(x - y) <= m
    BY <2>4, <2>6 DEF Abs
  <2> QED BY <2>3, <2>5, <2>7
<1> QED BY <1>1, LossInduction, PTL
=============================================================================
