--------------------------- MODULE Operators_proofs --------------------------
(***************************************************************************)
(* What the operators the state machines are built from give and preserve:  *)
(* the lemmas that the proofs about those machines rest on.                 *)
(*                                                                         *)
(* The pieces of Encode and Decode (ZfpCoder), for every block size, bit    *)
(* plane and capacity of a chunk: what is true of a call at each place of   *)
(* Encode, and that Decode, given the bits Encode wrote, repeats each of    *)
(* its pieces.  Block_proofs and TileCodec_proofs use them.                 *)
(*                                                                         *)
(* Powers of two, of exponents in TileCodec and of strides in Wavelet.      *)
(*                                                                         *)
(* Positions in a volume, and the lifting steps (Volumes, Lifting): what    *)
(* Predict and Update add to a sample is made of samples they leave alone,  *)
(* so that each of them is taken back, and Merge moves back what Split has  *)
(* moved; hence a pass back undoes a pass forth (PassUndone).  Both lifts   *)
(* of a row of an odd number of samples give the same values (LiftedAt,     *)
(* InPlaceRow, OldRow), and a pass in place over a grid that fits in its     *)
(* volume, which goes through each row once (VisitedOnce), gives them to    *)
(* the positions of its grid (PassInPlace).  Transforms_proofs uses these.  *)
(***************************************************************************)
EXTENDS ZfpCoder, Lifting, FiniteSetTheorems, FunctionTheorems, TLAPS

-----------------------------------------------------------------------------
(* The pieces of Encode and Decode.                                        *)

\* Some coefficient from the cursor on has its bit set.
Pending(pl, e) == \E i \in pl : i >= Cursor(e)

\* What is true of a call at each place of Encode.
GoodCall(pl, cap, e) ==
    /\ e \in CallState
    /\ e.fill <= cap
    /\ e.n <= NC
    /\ Cursor(e) <= e.n
    /\ e.pc = "call" => /\ e.p = 0
                        /\ e.in = 1 => e.m = e.n /\ e.n < NC /\ Pending(pl, e)
    /\ e.pc = "group" => /\ e.lb = 1
                         /\ Room(cap, e) => Cursor(e) = e.n
                         /\ e.in = 1 => Room(cap, e)
    /\ e.pc \in {"inner", "after"} =>
          e.lb = 1 /\ Cursor(e) = e.n /\ e.n < NC /\ Pending(pl, e)
    /\ e.pc = "after" => (Room(cap, e) => Cursor(e) \in pl)
    /\ e.pc = "return" =>
          /\ Room(cap, e) => Full(e)
          /\ e.lb = 0 => ~ Pending(pl, e)
          /\ (e.in = 1 /\ ~ Full(e)) => Cursor(e) = e.n /\ e.n < NC /\ Pending(pl, e)
    /\ e.pc = "done" => e.p = 0 /\ ~ Pending(pl, e)

\* What the pieces of Encode take for granted.
Context(pl, cap) == pl \subseteq Coefs /\ cap \in Nat /\ cap >= 2

\* The chunk and the block are not empty, and a chunk has two bits at least.
LEMMA ContextFacts ==
    ASSUME NEW pl, NEW cap, Context(pl, cap)
    PROVE  /\ cap \in Nat /\ cap >= 2 /\ NC \in Nat /\ NC >= 1
           /\ \A i \in pl : i \in Nat /\ i < NC
  BY NCAssumption DEF Context, Coefs

\* The places of a call, for the provers.
LEMMA PCsFacts == {"call", "group", "inner", "after", "return", "done"} \subseteq PCs
  BY DEF PCs

\* The counters of a call are naturals, and so is what a step makes of them.
LEMMA StateFacts ==
    ASSUME NEW e \in CallState
    PROVE  /\ e.fill + 1 \in Nat /\ e.n + 1 \in Nat /\ e.p + 1 \in Nat
           /\ e.ci + 1 \in Nat /\ Cursor(e) \in Nat
  BY DEF CallState, Cursor

\* The entry of Encode (mg_zfp.cpp:12-22) keeps GoodCall.
LEMMA CallGood ==
    ASSUME NEW pl, NEW cap, Context(pl, cap), NEW e, GoodCall(pl, cap, e), e.pc = "call"
    PROVE  GoodCall(pl, cap, EncCall(cap, e))
  <1> DEFINE f == EncCall(cap, e)
  <1>0. /\ cap \in Nat /\ cap >= 2 /\ NC \in Nat /\ NC >= 1
        /\ \A i \in pl : i \in Nat /\ i < NC
    BY ContextFacts
  <1>1. e \in CallState
    BY DEF GoodCall
  <1>2. Refinement(cap, e) \in Nat /\ Refinement(cap, e) <= e.n - e.m
                                 /\ Refinement(cap, e) <= cap - e.fill
    BY <1>0, <1>1 DEF GoodCall, Refinement, Lesser, CallState, Cursor
  <1>3. /\ f.pc = IF e.in = 1 THEN "inner" ELSE "group"
        /\ f.n = e.n /\ f.m = e.m /\ f.p = Refinement(cap, e)
        /\ f.in = e.in /\ f.lb = 1 /\ f.ci = e.ci
        /\ f.fill = e.fill + Refinement(cap, e)
    BY <1>0, <1>1, <1>2 DEF EncCall, CallState
  <1>4. e.fill + Refinement(cap, e) \in Nat
    BY <1>1, <1>2 DEF CallState
  <1>5. f \in CallState
    BY <1>1, <1>2, <1>4, PCsFacts DEF EncCall, CallState
  <1>6. e.in = 1 => Refinement(cap, e) = 0
    BY <1>0, <1>1 DEF GoodCall, Refinement, Lesser, CallState
  <1>7. Room(cap, f) => Cursor(f) = f.n
    BY <1>0, <1>1, <1>2, <1>3 DEF GoodCall, Room, Cursor, Refinement, Lesser, CallState
  <1>8. e.in = 1 => Pending(pl, f) /\ Cursor(f) = f.n /\ f.n < NC
    BY <1>0, <1>1, <1>3, <1>6 DEF GoodCall, Pending, Cursor, CallState
  <1> QED
    BY <1>0, <1>1, <1>2, <1>3, <1>5, <1>7, <1>8 DEF GoodCall, Cursor, CallState

\* A group test of Encode (mg_zfp.cpp:25-26) keeps GoodCall.
LEMMA GroupGood ==
    ASSUME NEW pl, NEW cap, Context(pl, cap), NEW e, GoodCall(pl, cap, e), e.pc = "group"
    PROVE  GoodCall(pl, cap, EncGroup(pl, cap, e))
  <1> DEFINE f == EncGroup(pl, cap, e)
  <1>0. /\ cap \in Nat /\ cap >= 2 /\ NC \in Nat /\ NC >= 1
        /\ \A i \in pl : i \in Nat /\ i < NC
    BY ContextFacts
  <1>1. e \in CallState
    BY DEF GoodCall
  <1>2. GroupBit(pl, e) \in {0, 1} /\ (GroupBit(pl, e) = 1 <=> Pending(pl, e))
    BY DEF GroupBit, Pending
  <1>3. CASE AtGroupBit(cap, e)
    <2>1. /\ f.pc = IF GroupBit(pl, e) = 1 THEN "inner" ELSE "return"
          /\ f.n = e.n /\ f.m = e.m /\ f.p = e.p /\ f.in = e.in
          /\ f.lb = GroupBit(pl, e) /\ f.ci = e.ci /\ f.fill = e.fill + 1
      BY <1>0, <1>1, <1>2, <1>3 DEF EncGroup, CallState
    <2>2. f \in CallState
      BY <1>0, <1>1, <1>2, <1>3, PCsFacts, StateFacts DEF EncGroup, CallState
    <2>3. Cursor(f) = Cursor(e) /\ (Pending(pl, f) <=> Pending(pl, e))
      BY <1>0, <2>1 DEF Cursor, Pending
    <2>4. Cursor(e) = e.n /\ e.n < NC /\ e.fill < cap
      BY <1>0, <1>3 DEF GoodCall, AtGroupBit, Room
    <2> QED
      BY <1>0, <1>1, <1>2, <2>1, <2>2, <2>3, <2>4 DEF GoodCall, Full, Room, CallState
  <1>4. CASE ~ AtGroupBit(cap, e)
    <2>1. /\ f.pc = "return"
          /\ f.n = e.n /\ f.m = e.m /\ f.p = e.p /\ f.in = e.in
          /\ f.lb = e.lb /\ f.ci = e.ci /\ f.fill = e.fill
      BY <1>0, <1>1, <1>4 DEF EncGroup, CallState
    <2>2. f \in CallState
      BY <1>0, <1>1, <1>4, PCsFacts, StateFacts DEF EncGroup, CallState
    <2>3. Cursor(f) = Cursor(e)
      BY <1>0, <2>1 DEF Cursor
    <2> QED
      BY <1>0, <1>1, <1>4, <2>1, <2>2, <2>3 DEF GoodCall, Full, Room, AtGroupBit, CallState
  <1> QED
    BY <1>0, <1>3, <1>4

\* A turn of INNER_LOOP (mg_zfp.cpp:28-36) keeps GoodCall.
LEMMA InnerGood ==
    ASSUME NEW pl, NEW cap, Context(pl, cap), NEW e, GoodCall(pl, cap, e), e.pc = "inner"
    PROVE  GoodCall(pl, cap, EncInner(pl, cap, e))
  <1> DEFINE f == EncInner(pl, cap, e)
  <1>0. /\ cap \in Nat /\ cap >= 2 /\ NC \in Nat /\ NC >= 1
        /\ \A i \in pl : i \in Nat /\ i < NC
    BY ContextFacts
  <1>1. /\ e \in CallState /\ e.lb = 1 /\ Cursor(e) = e.n /\ e.n < NC
        /\ Pending(pl, e) /\ e.fill <= cap
    BY DEF GoodCall
  <1>2. CASE AtCoefBit(cap, e) /\ CoefBit(pl, e) = 1
    <2>1. /\ f.pc = "after" /\ f.n = e.n /\ f.m = e.m /\ f.p = e.p
          /\ f.in = e.in /\ f.lb = e.lb /\ f.ci = e.ci /\ f.fill = e.fill + 1
      BY <1>0, <1>1, <1>2 DEF EncInner, CallState
    <2>2. f \in CallState
      BY <1>0, <1>1, <1>2, PCsFacts, StateFacts DEF EncInner, CallState
    <2>3. Cursor(f) = Cursor(e) /\ (Pending(pl, f) <=> Pending(pl, e))
      BY <1>0, <2>1 DEF Cursor, Pending
    <2>4. Cursor(e) \in pl /\ e.fill < cap
      BY <1>0, <1>2 DEF CoefBit, AtCoefBit, Room
    <2> QED
      BY <1>0, <1>1, <2>1, <2>2, <2>3, <2>4 DEF GoodCall, CallState
  <1>3. CASE AtCoefBit(cap, e) /\ CoefBit(pl, e) # 1
    <2>1. /\ f.pc = "inner" /\ f.n = e.n + 1 /\ f.m = e.m /\ f.p = e.p + 1
          /\ f.in = e.in /\ f.lb = e.lb /\ f.ci = e.ci /\ f.fill = e.fill + 1
      BY <1>0, <1>1, <1>3 DEF EncInner, CallState
    <2>2. f \in CallState
      BY <1>0, <1>1, <1>3, PCsFacts, StateFacts DEF EncInner, CallState
    <2>3. Cursor(f) = Cursor(e) + 1 /\ Cursor(e) \in Nat
      BY <1>0, <1>1, <2>1 DEF Cursor, CallState
    <2>4. Cursor(e) \notin pl /\ e.fill < cap /\ e.n < NC - 1
      BY <1>0, <1>3 DEF CoefBit, AtCoefBit, Room
    <2>5. Pending(pl, f)
      BY <1>0, <1>1, <2>3, <2>4 DEF Pending
    <2> QED
      BY <1>0, <1>1, <2>1, <2>2, <2>3, <2>4, <2>5 DEF GoodCall, CallState
  <1>4. CASE ~ AtCoefBit(cap, e)
    <2>1. /\ f.pc = "after" /\ f.n = e.n /\ f.m = e.m /\ f.p = e.p
          /\ f.in = e.in /\ f.lb = e.lb /\ f.ci = e.ci /\ f.fill = e.fill
      BY <1>0, <1>1, <1>4 DEF EncInner, CallState
    <2>2. f \in CallState
      BY <1>0, <1>1, <1>4, PCsFacts, StateFacts DEF EncInner, CallState
    <2>3. Cursor(f) = Cursor(e) /\ (Pending(pl, f) <=> Pending(pl, e))
      BY <1>0, <2>1 DEF Cursor, Pending
    <2>4. Room(cap, e) => e.n = NC - 1
      BY <1>0, <1>1, <1>4 DEF AtCoefBit, CallState
    <2>5. Room(cap, e) => Cursor(e) \in pl
      <3> SUFFICES ASSUME Room(cap, e) PROVE Cursor(e) \in pl
        OBVIOUS
      <3>1. PICK i \in pl : i >= Cursor(e)
        BY <1>0, <1>1 DEF Pending
      <3>2. i = Cursor(e)
        BY <1>0, <1>1, <2>4, <3>1
      <3> QED
        BY <1>0, <3>1, <3>2
    <2> QED
      BY <1>0, <1>1, <2>1, <2>2, <2>3, <2>5 DEF GoodCall, Room, CallState
  <1> QED
    BY <1>0, <1>2, <1>3, <1>4

\* Leaving INNER_LOOP, on this chunk or for the next, keeps GoodCall.
LEMMA AfterGood ==
    ASSUME NEW pl, NEW cap, Context(pl, cap), NEW e, GoodCall(pl, cap, e), e.pc = "after"
    PROVE  GoodCall(pl, cap, EncAfter(cap, e))
  <1> DEFINE f == EncAfter(cap, e)
  <1>0. /\ cap \in Nat /\ cap >= 2 /\ NC \in Nat /\ NC >= 1
        /\ \A i \in pl : i \in Nat /\ i < NC
    BY ContextFacts
  <1>1. /\ e \in CallState /\ e.lb = 1 /\ Cursor(e) = e.n /\ e.n < NC
        /\ Pending(pl, e) /\ e.fill <= cap
    BY DEF GoodCall
  <1>2. CASE Room(cap, e)
    <2>1. /\ f.pc = "group" /\ f.n = e.n + 1 /\ f.m = e.m /\ f.p = e.p + 1
          /\ f.in = e.in /\ f.lb = e.lb /\ f.ci = e.ci /\ f.fill = e.fill
      BY <1>0, <1>1, <1>2 DEF EncAfter, CallState
    <2>2. f \in CallState
      BY <1>0, <1>1, <1>2, PCsFacts, StateFacts DEF EncAfter, CallState
    <2>3. Cursor(f) = Cursor(e) + 1
      BY <1>0, <1>1, <2>1 DEF Cursor, CallState
    <2> QED
      BY <1>0, <1>1, <1>2, <2>1, <2>2, <2>3 DEF GoodCall, Room, CallState
  <1>3. CASE ~ Room(cap, e)
    <2>1. /\ f.pc = "return" /\ f.n = e.n /\ f.m = e.m /\ f.p = e.p
          /\ f.in = 1 /\ f.lb = e.lb /\ f.ci = e.ci /\ f.fill = e.fill
      BY <1>0, <1>1, <1>3 DEF EncAfter, CallState
    <2>2. f \in CallState
      BY <1>0, <1>1, <1>3, PCsFacts, StateFacts DEF EncAfter, CallState
    <2>3. Cursor(f) = Cursor(e) /\ (Pending(pl, f) <=> Pending(pl, e))
      BY <1>0, <2>1 DEF Cursor, Pending
    <2> QED
      BY <1>0, <1>1, <1>3, <2>1, <2>2, <2>3 DEF GoodCall, Room, CallState
  <1> QED
    BY <1>0, <1>2, <1>3

\* What a call leaves for the next one, on this chunk or another, keeps GoodCall.
LEMMA ReturnGood ==
    ASSUME NEW pl, NEW cap, Context(pl, cap), NEW e, GoodCall(pl, cap, e),
           e.pc = "return", NEW f \in CallState,
           f.pc = IF Full(e) THEN "done" ELSE "call",
           f.n = e.n, f.m = Cursor(e), f.p = 0, f.in = e.in, f.lb = e.lb,
           f.fill <= cap
    PROVE  GoodCall(pl, cap, f)
  <1>0. /\ cap \in Nat /\ cap >= 2 /\ NC \in Nat /\ NC >= 1
        /\ \A i \in pl : i \in Nat /\ i < NC
    BY ContextFacts
  <1>1. /\ e \in CallState /\ Cursor(e) <= e.n /\ e.n <= NC /\ e.fill <= cap
        /\ Cursor(e) \in Nat
    BY DEF GoodCall, CallState, Cursor
  <1>4. Cursor(f) = Cursor(e) /\ (Pending(pl, f) <=> Pending(pl, e))
    BY <1>0, <1>1 DEF Cursor, Pending, CallState
  <1>5. Full(e) => ~ Pending(pl, e)
    BY <1>0, <1>1 DEF GoodCall, Full, Pending
  <1> QED
    BY <1>0, <1>1, <1>4, <1>5 DEF GoodCall, Room

\* A call that says it is done with the plane has looked at all of it.
LEMMA FullSawAll ==
    ASSUME NEW pl, NEW cap, Context(pl, cap), NEW e, GoodCall(pl, cap, e),
           e.pc = "return", Full(e)
    PROVE  \A i \in pl : i < Cursor(e)
  BY ContextFacts DEF GoodCall, Full, Pending, CallState, Cursor

-----------------------------------------------------------------------------
\* A decoder in the state e of an encoder of plane pl: it has exactly the bits of
\* the coefficients before its cursor.
InStep(pl, e, d) ==
    /\ d = [pc |-> d.pc, n |-> d.n, m |-> d.m, p |-> d.p, in |-> d.in,
            lb |-> d.lb, ci |-> d.ci, fill |-> d.fill, x |-> d.x,
            block |-> d.block]
    /\ Common(d) = e
    /\ d.block = {i \in pl : i < d.m}
    /\ d.x = {i \in pl : d.m <= i /\ i < Cursor(d)}

\* The fields of the two.
LEMMA StepFacts ==
    ASSUME NEW pl, NEW cap, Context(pl, cap), NEW e, NEW d, GoodCall(pl, cap, e),
           InStep(pl, e, d)
    PROVE  /\ e.pc = d.pc /\ e.n = d.n /\ e.m = d.m /\ e.p = d.p
           /\ e.in = d.in /\ e.lb = d.lb /\ e.ci = d.ci /\ e.fill = d.fill
           /\ Cursor(e) = Cursor(d) /\ e \in CallState
           /\ cap \in Nat /\ NC \in Nat /\ \A i \in pl : i \in Nat
           /\ e.n \in Nat /\ e.m \in Nat /\ e.p \in Nat /\ Cursor(e) \in Nat
           /\ e.fill \in Nat /\ e.ci \in Nat
           /\ Refinement(cap, d) = Refinement(cap, e)
           /\ Refinement(cap, e) \in Nat /\ e.m + Refinement(cap, e) <= e.n
           /\ e.fill + Refinement(cap, e) <= cap
  <1>1. /\ e.pc = d.pc /\ e.n = d.n /\ e.m = d.m /\ e.p = d.p
        /\ e.in = d.in /\ e.lb = d.lb /\ e.ci = d.ci /\ e.fill = d.fill
    BY DEF InStep, Common
  <1>2. cap \in Nat /\ NC \in Nat /\ \A i \in pl : i \in Nat
    BY ContextFacts
  <1>3. e \in CallState /\ Cursor(e) <= e.n /\ e.fill <= cap
    BY DEF GoodCall
  <1> QED
    BY <1>1, <1>2, <1>3 DEF Refinement, Lesser, Cursor, CallState

\* ReadLong returns what WriteLong was given.
LEMMA CallStep ==
    ASSUME NEW pl, NEW cap, Context(pl, cap), NEW e, NEW d, GoodCall(pl, cap, e),
           InStep(pl, e, d), e.pc = "call",
           NEW bits, bits \subseteq 0 .. Refinement(cap, e) - 1,
           \A i \in 0 .. Refinement(cap, e) - 1 : i \in bits <=> e.m + i \in pl
    PROVE  InStep(pl, EncCall(cap, e), DecCall(cap, d, bits))
  <1> DEFINE r == Refinement(cap, e)
  <1>0. PICK f : f = DecCall(cap, d, bits)
    OBVIOUS
  <1>1. /\ e.pc = d.pc /\ e.n = d.n /\ e.m = d.m /\ e.p = d.p
        /\ e.in = d.in /\ e.lb = d.lb /\ e.ci = d.ci /\ e.fill = d.fill
        /\ e \in CallState /\ e.m \in Nat /\ \A i \in pl : i \in Nat
        /\ Refinement(cap, d) = r /\ r \in Nat
    BY StepFacts
  <1>2. d = [pc |-> d.pc, n |-> d.n, m |-> d.m, p |-> d.p, in |-> d.in,
             lb |-> d.lb, ci |-> d.ci, fill |-> d.fill, x |-> d.x,
             block |-> d.block]
        /\ d.block = {i \in pl : i < d.m}
    BY DEF InStep
  <1>3. /\ f.pc = (IF e.in = 1 THEN "inner" ELSE "group")
        /\ f.n = e.n /\ f.m = e.m /\ f.p = r /\ f.in = e.in
        /\ f.lb = 1 /\ f.ci = e.ci /\ f.fill = e.fill + r
        /\ f.x = {e.m + i : i \in bits} /\ f.block = d.block
    BY <1>0, <1>1, <1>2 DEF DecCall
  <1>4. f.x = {i \in pl : f.m <= i /\ i < Cursor(f)}
    <2>1. Cursor(f) = e.m + r
      BY <1>3 DEF Cursor
    <2>2. ASSUME NEW i \in f.x PROVE i \in pl /\ e.m <= i /\ i < Cursor(f)
      <3>1. PICK k \in bits : i = e.m + k
        BY <1>3
      <3>2. k \in 0 .. r - 1
        OBVIOUS
      <3> QED
        BY <2>1, <3>1, <3>2, <1>1
    <2>3. ASSUME NEW i \in pl, e.m <= i, i < Cursor(f) PROVE i \in f.x
      <3>1. i - e.m \in 0 .. r - 1 /\ e.m + (i - e.m) = i
        BY <2>1, <2>3, <1>1
      <3>2. i - e.m \in bits
        BY <2>3, <3>1
      <3> QED
        BY <1>3, <3>1, <3>2
    <2> QED
      BY <1>3, <2>2, <2>3
  <1>5. Common(f) = EncCall(cap, e)
    <2>1. PICK g : g = EncCall(cap, e)
      OBVIOUS
    <2>2. /\ g = [pc |-> g.pc, n |-> g.n, m |-> g.m, p |-> g.p, in |-> g.in,
                  lb |-> g.lb, ci |-> g.ci, fill |-> g.fill]
          /\ g.pc = (IF e.in = 1 THEN "inner" ELSE "group")
          /\ g.n = e.n /\ g.m = e.m /\ g.p = r /\ g.in = e.in
          /\ g.lb = 1 /\ g.ci = e.ci /\ g.fill = e.fill + r
      BY <1>1, <2>1 DEF EncCall, CallState
    <2> QED
      BY <1>3, <2>1, <2>2 DEF Common
  <1>6. f = [pc |-> f.pc, n |-> f.n, m |-> f.m, p |-> f.p, in |-> f.in,
             lb |-> f.lb, ci |-> f.ci, fill |-> f.fill, x |-> f.x,
             block |-> f.block]
    BY <1>0, <1>2 DEF DecCall
  <1> QED
    BY <1>0, <1>1, <1>2, <1>3, <1>4, <1>5, <1>6 DEF InStep

\* A group bit read is the one that was written.
LEMMA GroupStep ==
    ASSUME NEW pl, NEW cap, Context(pl, cap), NEW e, NEW d, GoodCall(pl, cap, e),
           InStep(pl, e, d), e.pc = "group",
           NEW bit, AtGroupBit(cap, e) => bit = GroupBit(pl, e)
    PROVE  InStep(pl, EncGroup(pl, cap, e), DecGroup(cap, d, bit))
  <1> DEFINE f == DecGroup(cap, d, bit)
  <1>1. /\ e.pc = d.pc /\ e.n = d.n /\ e.m = d.m /\ e.p = d.p
        /\ e.in = d.in /\ e.lb = d.lb /\ e.ci = d.ci /\ e.fill = d.fill
        /\ e \in CallState
    BY StepFacts
  <1>2. d = [pc |-> d.pc, n |-> d.n, m |-> d.m, p |-> d.p, in |-> d.in,
             lb |-> d.lb, ci |-> d.ci, fill |-> d.fill, x |-> d.x,
             block |-> d.block]
        /\ d.block = {i \in pl : i < d.m}
        /\ d.x = {i \in pl : d.m <= i /\ i < Cursor(d)}
    BY DEF InStep
  <1>3. /\ f = [pc |-> f.pc, n |-> f.n, m |-> f.m, p |-> f.p, in |-> f.in,
                lb |-> f.lb, ci |-> f.ci, fill |-> f.fill, x |-> f.x,
                block |-> f.block]
        /\ f.m = d.m /\ f.p = d.p /\ f.x = d.x /\ f.block = d.block
    BY <1>2 DEF DecGroup
  <1>4. Common(f) = EncGroup(pl, cap, e)
    BY <1>1, <1>2 DEF Common, EncGroup, DecGroup, AtGroupBit, Room, CallState
  <1> QED
    BY <1>2, <1>3, <1>4 DEF InStep, Cursor

\* A coefficient's bit read is the one that was written.
LEMMA InnerStep ==
    ASSUME NEW pl, NEW cap, Context(pl, cap), NEW e, NEW d, GoodCall(pl, cap, e),
           InStep(pl, e, d), e.pc = "inner",
           NEW bit, AtCoefBit(cap, e) => bit = CoefBit(pl, e)
    PROVE  InStep(pl, EncInner(pl, cap, e), DecInner(cap, d, bit))
  <1> DEFINE f == DecInner(cap, d, bit)
  <1>1. /\ e.pc = d.pc /\ e.n = d.n /\ e.m = d.m /\ e.p = d.p
        /\ e.in = d.in /\ e.lb = d.lb /\ e.ci = d.ci /\ e.fill = d.fill
        /\ e \in CallState /\ Cursor(e) = Cursor(d) /\ Cursor(e) \in Nat
        /\ e.m \in Nat /\ e.p \in Nat /\ \A i \in pl : i \in Nat
    BY StepFacts
  <1>2. d = [pc |-> d.pc, n |-> d.n, m |-> d.m, p |-> d.p, in |-> d.in,
             lb |-> d.lb, ci |-> d.ci, fill |-> d.fill, x |-> d.x,
             block |-> d.block]
        /\ d.block = {i \in pl : i < d.m}
        /\ d.x = {i \in pl : d.m <= i /\ i < Cursor(d)}
    BY DEF InStep
  <1>3. /\ f = [pc |-> f.pc, n |-> f.n, m |-> f.m, p |-> f.p, in |-> f.in,
                lb |-> f.lb, ci |-> f.ci, fill |-> f.fill, x |-> f.x,
                block |-> f.block]
        /\ f.m = d.m /\ f.x = d.x /\ f.block = d.block
    BY <1>2 DEF DecInner
  <1>4. Common(f) = EncInner(pl, cap, e)
    BY <1>1, <1>2 DEF Common, EncInner, DecInner, AtCoefBit, CoefBit, Room, CallState
  <1>5. f.p = d.p \/ (f.p = d.p + 1 /\ Cursor(d) \notin pl)
    BY <1>1, <1>2 DEF DecInner, AtCoefBit, Room, CoefBit
  <1>6. f.x = {i \in pl : f.m <= i /\ i < Cursor(f)}
    BY <1>1, <1>2, <1>3, <1>5 DEF Cursor
  <1> QED
    BY <1>2, <1>3, <1>4, <1>6 DEF InStep

\* The bit of the coefficient that ended INNER_LOOP is deposited if the call goes
\* on, and read again by the next call if it does not.
LEMMA AfterStep ==
    ASSUME NEW pl, NEW cap, Context(pl, cap), NEW e, NEW d, GoodCall(pl, cap, e),
           InStep(pl, e, d), e.pc = "after"
    PROVE  InStep(pl, EncAfter(cap, e), DecAfter(cap, d))
  <1> DEFINE f == DecAfter(cap, d)
  <1>1. /\ e.pc = d.pc /\ e.n = d.n /\ e.m = d.m /\ e.p = d.p
        /\ e.in = d.in /\ e.lb = d.lb /\ e.ci = d.ci /\ e.fill = d.fill
        /\ e \in CallState /\ Cursor(e) = Cursor(d) /\ Cursor(e) \in Nat
        /\ e.m \in Nat /\ e.p \in Nat /\ \A i \in pl : i \in Nat
    BY StepFacts
  <1>2. d = [pc |-> d.pc, n |-> d.n, m |-> d.m, p |-> d.p, in |-> d.in,
             lb |-> d.lb, ci |-> d.ci, fill |-> d.fill, x |-> d.x,
             block |-> d.block]
        /\ d.block = {i \in pl : i < d.m}
        /\ d.x = {i \in pl : d.m <= i /\ i < Cursor(d)}
    BY DEF InStep
  <1>3. /\ f = [pc |-> f.pc, n |-> f.n, m |-> f.m, p |-> f.p, in |-> f.in,
                lb |-> f.lb, ci |-> f.ci, fill |-> f.fill, x |-> f.x,
                block |-> f.block]
        /\ f.m = d.m /\ f.block = d.block
    BY <1>2 DEF DecAfter
  <1>4. Common(f) = EncAfter(cap, e)
    BY <1>1, <1>2 DEF Common, EncAfter, DecAfter, Room, CallState
  <1>5. \/ f.p = d.p /\ f.x = d.x
        \/ f.p = d.p + 1 /\ f.x = d.x \union {Cursor(d)} /\ Cursor(d) \in pl
    BY <1>1, <1>2 DEF GoodCall, DecAfter, Room
  <1>6. f.x = {i \in pl : f.m <= i /\ i < Cursor(f)}
    BY <1>1, <1>2, <1>3, <1>5 DEF Cursor
  <1> QED
    BY <1>2, <1>3, <1>4, <1>6 DEF InStep

\* After the deposit Block has all the bits before the cursor.
LEMMA DepositStep ==
    ASSUME NEW pl, NEW cap, Context(pl, cap), NEW e, NEW d, GoodCall(pl, cap, e),
           InStep(pl, e, d), NEW pc, NEW ci, NEW fill
    PROVE  InStep(pl, [e EXCEPT !.m = Cursor(e), !.p = 0, !.pc = pc, !.ci = ci, !.fill = fill],
                      [Deposit(d) EXCEPT !.pc = pc, !.ci = ci, !.fill = fill])
  <1>0. PICK f : f = [Deposit(d) EXCEPT !.pc = pc, !.ci = ci, !.fill = fill]
    OBVIOUS
  <1>1. /\ e.pc = d.pc /\ e.n = d.n /\ e.m = d.m /\ e.p = d.p
        /\ e.in = d.in /\ e.lb = d.lb /\ e.ci = d.ci /\ e.fill = d.fill
        /\ e \in CallState /\ Cursor(e) = Cursor(d) /\ Cursor(e) \in Nat
        /\ e.m \in Nat /\ e.p \in Nat /\ \A i \in pl : i \in Nat
    BY StepFacts
  <1>2. d = [pc |-> d.pc, n |-> d.n, m |-> d.m, p |-> d.p, in |-> d.in,
             lb |-> d.lb, ci |-> d.ci, fill |-> d.fill, x |-> d.x,
             block |-> d.block]
        /\ d.block = {i \in pl : i < d.m}
        /\ d.x = {i \in pl : d.m <= i /\ i < Cursor(d)}
    BY DEF InStep
  <1>3. /\ f = [pc |-> f.pc, n |-> f.n, m |-> f.m, p |-> f.p, in |-> f.in,
                lb |-> f.lb, ci |-> f.ci, fill |-> f.fill, x |-> f.x,
                block |-> f.block]
        /\ f.m = Cursor(d) /\ f.p = 0 /\ f.x = {} /\ f.block = d.block \union d.x
    BY <1>0, <1>2 DEF Deposit
  <1>4. Common(f) = [e EXCEPT !.m = Cursor(e), !.p = 0, !.pc = pc, !.ci = ci, !.fill = fill]
    <2>1. PICK g : g = [e EXCEPT !.m = Cursor(e), !.p = 0, !.pc = pc, !.ci = ci, !.fill = fill]
      OBVIOUS
    <2>2. /\ g = [pc |-> g.pc, n |-> g.n, m |-> g.m, p |-> g.p, in |-> g.in,
                  lb |-> g.lb, ci |-> g.ci, fill |-> g.fill]
          /\ g.pc = pc /\ g.n = e.n /\ g.m = Cursor(e) /\ g.p = 0 /\ g.in = e.in
          /\ g.lb = e.lb /\ g.ci = ci /\ g.fill = fill
      BY <1>1, <2>1 DEF CallState
    <2>3. /\ f.pc = pc /\ f.n = d.n /\ f.m = Cursor(d) /\ f.p = 0 /\ f.in = d.in
          /\ f.lb = d.lb /\ f.ci = ci /\ f.fill = fill
      BY <1>0, <1>2 DEF Deposit
    <2> QED
      BY <1>1, <2>1, <2>2, <2>3 DEF Common
  <1>5. f.x = {i \in pl : f.m <= i /\ i < Cursor(f)}
    BY <1>1, <1>3 DEF Cursor
  <1>6. f.block = {i \in pl : i < f.m}
    BY <1>1, <1>2, <1>3 DEF Cursor
  <1> QED
    BY <1>0, <1>3, <1>4, <1>5, <1>6 DEF InStep
-----------------------------------------------------------------------------
(* Decode on any bits, those of another file or none.                       *)

\* What is true of a call at each place of Decode, whatever bits it reads.
Shape(cap, d) ==
    /\ d.fill <= cap
    /\ d.n <= NC
    /\ Cursor(d) <= d.n
    /\ d.pc = "call" => d.p = 0 /\ (d.in = 1 => d.m = d.n /\ d.n < NC)
    /\ d.pc = "group" => /\ Room(cap, d) => Cursor(d) = d.n
                         /\ d.in = 1 => Room(cap, d)
    /\ d.pc \in {"inner", "after"} => Cursor(d) = d.n /\ d.n < NC
    /\ d.pc = "return" => (d.in = 1 /\ ~ Full(d) => Cursor(d) = d.n /\ d.n < NC)
    /\ d.pc # "done"

DecStates == [pc : PCs, n : Nat, m : Nat, p : Nat, in : {0, 1}, lb : {0, 1},
              ci : Nat, fill : Nat, x : SUBSET Coefs, block : SUBSET Coefs]

\* The fields of a state, and what a step makes of them.
LEMMA ShapeFacts ==
    ASSUME NEW cap \in Nat, NEW d \in DecStates, Shape(cap, d)
    PROVE  /\ d = [pc |-> d.pc, n |-> d.n, m |-> d.m, p |-> d.p, in |-> d.in,
                   lb |-> d.lb, ci |-> d.ci, fill |-> d.fill, x |-> d.x,
                   block |-> d.block]
           /\ d.pc \in PCs /\ d.n \in Nat /\ d.m \in Nat /\ d.p \in Nat
           /\ d.in \in {0, 1} /\ d.lb \in {0, 1} /\ d.ci \in Nat /\ d.fill \in Nat
           /\ d.x \subseteq Coefs /\ d.block \subseteq Coefs
           /\ Cursor(d) \in Nat /\ NC \in Nat /\ NC >= 1
           /\ Refinement(cap, d) \in Nat /\ d.m + Refinement(cap, d) <= d.n
           /\ d.fill + Refinement(cap, d) <= cap
           /\ d.fill + Refinement(cap, d) < cap => d.m + Refinement(cap, d) = d.n
  BY NCAssumption DEF DecStates, Shape, Cursor, Refinement, Lesser

\* The entry of Decode keeps Shape.
LEMMA CallShape ==
    ASSUME NEW cap \in Nat, NEW d \in DecStates, Shape(cap, d), d.pc = "call",
           NEW bits, bits \subseteq 0 .. Refinement(cap, d) - 1
    PROVE  /\ DecCall(cap, d, bits) \in DecStates /\ Shape(cap, DecCall(cap, d, bits))
           /\ DecCall(cap, d, bits).fill = d.fill + Refinement(cap, d)
           /\ DecCall(cap, d, bits).block = d.block
           /\ DecCall(cap, d, bits).pc # "return"
  <1>0. PICK f : f = DecCall(cap, d, bits)
    OBVIOUS
  <1> DEFINE r == Refinement(cap, d)
  <1>1. /\ d = [pc |-> d.pc, n |-> d.n, m |-> d.m, p |-> d.p, in |-> d.in,
                lb |-> d.lb, ci |-> d.ci, fill |-> d.fill, x |-> d.x,
                block |-> d.block]
        /\ d.n \in Nat /\ d.m \in Nat /\ d.fill \in Nat /\ d.in \in {0, 1} /\ d.ci \in Nat
        /\ d.block \subseteq Coefs /\ NC \in Nat /\ r \in Nat /\ d.m + r <= d.n
        /\ d.fill + r <= cap /\ (d.fill + r < cap => d.m + r = d.n)
    BY ShapeFacts
  <1>2. /\ f = [pc |-> f.pc, n |-> f.n, m |-> f.m, p |-> f.p, in |-> f.in,
                lb |-> f.lb, ci |-> f.ci, fill |-> f.fill, x |-> f.x,
                block |-> f.block]
        /\ f.pc = (IF d.in = 1 THEN "inner" ELSE "group")
        /\ f.n = d.n /\ f.m = d.m /\ f.p = r /\ f.in = d.in
        /\ f.lb = 1 /\ f.ci = d.ci /\ f.fill = d.fill + r
        /\ f.x = {d.m + i : i \in bits} /\ f.block = d.block
    BY <1>0, <1>1 DEF DecCall
  <1>3. d.n <= NC /\ (d.in = 1 => d.m = d.n /\ d.n < NC)
    BY DEF Shape
  <1>4. f.x \subseteq Coefs
    <2> SUFFICES ASSUME NEW i \in bits PROVE d.m + i \in Coefs
      BY <1>2
    <2>1. i \in 0 .. r - 1
      OBVIOUS
    <2> QED
      BY <1>1, <1>3, <2>1 DEF Coefs
  <1>5. f \in DecStates
    BY <1>1, <1>2, <1>4, PCsFacts DEF DecStates
  <1> HIDE DEF r
  <1>6. Cursor(f) = d.m + r
    BY <1>2 DEF Cursor
  <1>7. Shape(cap, f)
    BY <1>1, <1>2, <1>3, <1>6 DEF Shape, Room
  <1> QED
    BY <1>0, <1>2, <1>5, <1>7 DEF r

\* A group bit keeps Shape.
LEMMA GroupShape ==
    ASSUME NEW cap \in Nat, NEW d \in DecStates, Shape(cap, d), d.pc = "group",
           NEW bit \in {0, 1}
    PROVE  /\ DecGroup(cap, d, bit) \in DecStates /\ Shape(cap, DecGroup(cap, d, bit))
           /\ DecGroup(cap, d, bit).fill = IF AtGroupBit(cap, d) THEN d.fill + 1 ELSE d.fill
           /\ DecGroup(cap, d, bit).block = d.block
  <1>0. PICK f : f = DecGroup(cap, d, bit)
    OBVIOUS
  <1>1. /\ d = [pc |-> d.pc, n |-> d.n, m |-> d.m, p |-> d.p, in |-> d.in,
                lb |-> d.lb, ci |-> d.ci, fill |-> d.fill, x |-> d.x,
                block |-> d.block]
        /\ d.n \in Nat /\ d.m \in Nat /\ d.fill \in Nat /\ d.in \in {0, 1} /\ d.ci \in Nat
        /\ d.block \subseteq Coefs /\ d.x \subseteq Coefs /\ NC \in Nat /\ d.p \in Nat
        /\ d.lb \in {0, 1} /\ Cursor(d) \in Nat
    BY ShapeFacts
  <1>2. /\ f = [pc |-> f.pc, n |-> f.n, m |-> f.m, p |-> f.p, in |-> f.in,
                lb |-> f.lb, ci |-> f.ci, fill |-> f.fill, x |-> f.x,
                block |-> f.block]
        /\ f.n = d.n /\ f.m = d.m /\ f.p = d.p /\ f.in = d.in /\ f.ci = d.ci
        /\ f.x = d.x /\ f.block = d.block
        /\ f.pc = (IF AtGroupBit(cap, d) /\ bit = 1 THEN "inner" ELSE "return")
        /\ f.fill = (IF AtGroupBit(cap, d) THEN d.fill + 1 ELSE d.fill)
        /\ f.lb = (IF AtGroupBit(cap, d) THEN bit ELSE d.lb)
    BY <1>0, <1>1 DEF DecGroup, AtGroupBit
  <1>3. /\ d.fill <= cap /\ d.n <= NC /\ Cursor(d) <= d.n
        /\ Room(cap, d) => Cursor(d) = d.n
        /\ d.in = 1 => Room(cap, d)
    BY DEF Shape
  <1>4. f \in DecStates
    BY <1>1, <1>2, PCsFacts DEF DecStates
  <1>5. Cursor(f) = Cursor(d)
    BY <1>2 DEF Cursor
  <1>6. Shape(cap, f)
    BY <1>1, <1>2, <1>3, <1>5 DEF Shape, Room, AtGroupBit, Full
  <1> QED
    BY <1>0, <1>2, <1>4, <1>6

\* A coefficient's bit keeps Shape.
LEMMA InnerShape ==
    ASSUME NEW cap \in Nat, NEW d \in DecStates, Shape(cap, d), d.pc = "inner",
           NEW bit \in {0, 1}
    PROVE  /\ DecInner(cap, d, bit) \in DecStates /\ Shape(cap, DecInner(cap, d, bit))
           /\ DecInner(cap, d, bit).fill = IF AtCoefBit(cap, d) THEN d.fill + 1 ELSE d.fill
           /\ DecInner(cap, d, bit).block = d.block
           /\ DecInner(cap, d, bit).pc # "return"
  <1>0. PICK f : f = DecInner(cap, d, bit)
    OBVIOUS
  <1> DEFINE steps == AtCoefBit(cap, d) /\ bit = 0
  <1>1. /\ d = [pc |-> d.pc, n |-> d.n, m |-> d.m, p |-> d.p, in |-> d.in,
                lb |-> d.lb, ci |-> d.ci, fill |-> d.fill, x |-> d.x,
                block |-> d.block]
        /\ d.n \in Nat /\ d.m \in Nat /\ d.fill \in Nat /\ d.in \in {0, 1} /\ d.ci \in Nat
        /\ d.block \subseteq Coefs /\ d.x \subseteq Coefs /\ NC \in Nat /\ d.p \in Nat
        /\ d.lb \in {0, 1} /\ Cursor(d) \in Nat
    BY ShapeFacts
  <1>2. /\ f = [pc |-> f.pc, n |-> f.n, m |-> f.m, p |-> f.p, in |-> f.in,
                lb |-> f.lb, ci |-> f.ci, fill |-> f.fill, x |-> f.x,
                block |-> f.block]
        /\ f.m = d.m /\ f.in = d.in /\ f.ci = d.ci /\ f.lb = d.lb
        /\ f.x = d.x /\ f.block = d.block
        /\ f.pc = (IF steps THEN "inner" ELSE "after")
        /\ f.n = (IF steps THEN d.n + 1 ELSE d.n)
        /\ f.p = (IF steps THEN d.p + 1 ELSE d.p)
        /\ f.fill = (IF AtCoefBit(cap, d) THEN d.fill + 1 ELSE d.fill)
    <2>1. CASE steps
      <3>1. f = [d EXCEPT !.fill = @ + 1, !.n = @ + 1, !.p = @ + 1]
        BY <1>0, <2>1 DEF DecInner, AtCoefBit
      <3> QED
        BY <1>1, <2>1, <3>1
    <2>2. CASE AtCoefBit(cap, d) /\ bit = 1
      <3>1. f = [d EXCEPT !.fill = @ + 1, !.pc = "after"]
        BY <1>0, <2>2 DEF DecInner, AtCoefBit
      <3>2. ~ steps /\ AtCoefBit(cap, d)
        BY <2>2
      <3> HIDE DEF steps
      <3> QED
        BY <1>1, <3>1, <3>2
    <2>3. CASE ~ AtCoefBit(cap, d)
      <3>1. f = [d EXCEPT !.pc = "after"]
        BY <1>0, <2>3 DEF DecInner, AtCoefBit
      <3> QED
        BY <1>1, <2>3, <3>1
    <2> QED
      BY <2>1, <2>2, <2>3
  <1>3. /\ d.fill <= cap /\ d.n < NC /\ Cursor(d) = d.n
    BY DEF Shape
  <1>4. f \in DecStates
    BY <1>1, <1>2, PCsFacts DEF DecStates
  <1>5. Cursor(f) = IF steps THEN Cursor(d) + 1 ELSE Cursor(d)
    BY <1>1, <1>2 DEF Cursor
  <1>6. Shape(cap, f)
    BY <1>1, <1>2, <1>3, <1>5 DEF Shape, Room, AtCoefBit
  <1> QED
    BY <1>0, <1>2, <1>4, <1>6

\* The end of INNER_LOOP keeps Shape.
LEMMA AfterShape ==
    ASSUME NEW cap \in Nat, NEW d \in DecStates, Shape(cap, d), d.pc = "after"
    PROVE  /\ DecAfter(cap, d) \in DecStates /\ Shape(cap, DecAfter(cap, d))
           /\ DecAfter(cap, d).fill = d.fill
           /\ DecAfter(cap, d).block = d.block
  <1>0. PICK f : f = DecAfter(cap, d)
    OBVIOUS
  <1>1. /\ d = [pc |-> d.pc, n |-> d.n, m |-> d.m, p |-> d.p, in |-> d.in,
                lb |-> d.lb, ci |-> d.ci, fill |-> d.fill, x |-> d.x,
                block |-> d.block]
        /\ d.n \in Nat /\ d.m \in Nat /\ d.fill \in Nat /\ d.in \in {0, 1} /\ d.ci \in Nat
        /\ d.block \subseteq Coefs /\ d.x \subseteq Coefs /\ NC \in Nat /\ d.p \in Nat
        /\ d.lb \in {0, 1} /\ Cursor(d) \in Nat
    BY ShapeFacts
  <1>2. /\ f = [pc |-> f.pc, n |-> f.n, m |-> f.m, p |-> f.p, in |-> f.in,
                lb |-> f.lb, ci |-> f.ci, fill |-> f.fill, x |-> f.x,
                block |-> f.block]
        /\ f.m = d.m /\ f.ci = d.ci /\ f.lb = d.lb /\ f.block = d.block
        /\ f.fill = d.fill
        /\ f.pc = (IF Room(cap, d) THEN "group" ELSE "return")
        /\ f.n = (IF Room(cap, d) THEN d.n + 1 ELSE d.n)
        /\ f.p = (IF Room(cap, d) THEN d.p + 1 ELSE d.p)
        /\ f.x = (IF Room(cap, d) THEN d.x \union {Cursor(d)} ELSE d.x)
        /\ f.in = (IF Room(cap, d) THEN d.in ELSE 1)
    BY <1>0, <1>1 DEF DecAfter
  <1>3. /\ d.fill <= cap /\ d.n < NC /\ Cursor(d) = d.n
    BY DEF Shape
  <1>4. f.x \subseteq Coefs
    BY <1>1, <1>2, <1>3 DEF Coefs
  <1>5. f \in DecStates
    BY <1>1, <1>2, <1>4, PCsFacts DEF DecStates
  <1>6. Cursor(f) = IF Room(cap, d) THEN Cursor(d) + 1 ELSE Cursor(d)
    BY <1>1, <1>2 DEF Cursor
  <1>7. Shape(cap, f)
    BY <1>1, <1>2, <1>3, <1>6 DEF Shape, Room
  <1> QED
    BY <1>0, <1>2, <1>5, <1>7

-----------------------------------------------------------------------------
(* Powers of two.                                                          *)

\* 2 ^ n counts the subsets of a set of n.
LEMMA PowNat == ASSUME NEW n \in Nat PROVE 2 ^ n \in Nat
  <1>1. IsFiniteSet(1 .. n) /\ Cardinality(1 .. n) = n
    BY FS_Interval
  <1>2. IsFiniteSet(SUBSET (1 .. n)) /\ Cardinality(SUBSET (1 .. n)) = 2 ^ n
    BY <1>1, FS_SUBSET
  <1> QED
    BY <1>2, FS_CardinalityType

\* There are as many subsets of 1 .. n + 1 with n + 1 as without.
LEMMA PowDouble == ASSUME NEW n \in Nat PROVE 2 ^ (n + 1) = 2 * 2 ^ n
  <1> DEFINE A == SUBSET (1 .. n)
             B == {s \union {n + 1} : s \in A}
             f == [s \in A |-> s \union {n + 1}]
  <1>1. IsFiniteSet(1 .. n) /\ Cardinality(1 .. n) = n
        /\ IsFiniteSet(1 .. n + 1) /\ Cardinality(1 .. n + 1) = n + 1
    BY FS_Interval
  <1>2. /\ IsFiniteSet(A) /\ Cardinality(A) = 2 ^ n
        /\ IsFiniteSet(SUBSET (1 .. n + 1)) /\ Cardinality(SUBSET (1 .. n + 1)) = 2 ^ (n + 1)
    BY <1>1, FS_SUBSET
  <1>3. \A s \in A : n + 1 \notin s
    OBVIOUS
  <1>4. f \in Bijection(A, B)
    <2>1. f \in [A -> B]
      OBVIOUS
    <2>2. \A s, t \in A : f[s] = f[t] => s = t
      BY <1>3
    <2>3. \A t \in B : \E s \in A : f[s] = t
      OBVIOUS
    <2> HIDE DEF A, B, f
    <2> QED
      BY <2>1, <2>2, <2>3, Fun_IsBij, Fun_IsSurj
  <1>5. IsFiniteSet(B) /\ Cardinality(B) = 2 ^ n
    <2>1. ExistsBijection(A, B)
      BY <1>4, Fun_ExistsBij
    <2> HIDE DEF A, B, f
    <2> QED
      BY <1>2, <2>1, FS_Bijection
  <1>6. A \intersect B = {}
    BY <1>3
  <1>7. A \union B = SUBSET (1 .. n + 1)
    <2>1. 1 .. n + 1 = 1 .. n \union {n + 1}
      OBVIOUS
    <2>2. ASSUME NEW s \in SUBSET (1 .. n + 1), n + 1 \in s PROVE s \in B
      <3>1. s \ {n + 1} \in A /\ s = (s \ {n + 1}) \union {n + 1}
        BY <2>1, <2>2
      <3> QED
        BY <3>1
    <2>3. ASSUME NEW s \in SUBSET (1 .. n + 1), n + 1 \notin s PROVE s \in A
      BY <2>1, <2>3
    <2>4. B \subseteq SUBSET (1 .. n + 1) /\ A \subseteq SUBSET (1 .. n + 1)
      BY <2>1
    <2> HIDE DEF A, B
    <2> QED
      BY <2>2, <2>3, <2>4
  <1> HIDE DEF A, B, f
  <1>8. Cardinality(A \union B) = 2 ^ n + 2 ^ n - 0
    <2>1. Cardinality(A \union B) = Cardinality(A) + Cardinality(B) - Cardinality(A \intersect B)
      BY <1>2, <1>5, FS_Union
    <2>2. Cardinality(A \intersect B) = 0
      BY <1>6, FS_EmptySet
    <2> QED
      BY <1>2, <1>5, <2>1, <2>2
  <1>9. 2 ^ n \in Nat
    BY PowNat
  <1>10. 2 ^ (n + 1) = 2 ^ n + 2 ^ n - 0
    BY <1>2, <1>7, <1>8
  <1> QED
    BY <1>9, <1>10

\* There is one subset at least.
LEMMA PowPos == ASSUME NEW n \in Nat PROVE 2 ^ n \in Nat /\ 2 ^ n >= 1
  <1>1. 2 ^ n \in Nat
    BY PowNat
  <1>2. IsFiniteSet(1 .. n) /\ Cardinality(1 .. n) = n
    BY FS_Interval
  <1>3. IsFiniteSet(SUBSET (1 .. n)) /\ Cardinality(SUBSET (1 .. n)) = 2 ^ n
    BY <1>2, FS_SUBSET
  <1>4. SUBSET (1 .. n) # {}
    OBVIOUS
  <1>5. 2 ^ n # 0
    BY <1>3, <1>4, FS_EmptySet
  <1> QED
    BY <1>1, <1>5

\* A set of naturals that is not empty has a least one.
LEMMA Least ==
    ASSUME NEW T, T \subseteq Nat, T # {}
    PROVE  \E x \in T : \A y \in T : x <= y
<1>1. PICK x \in T : \A y \in T : ~ (<<y, x>> \in OpToRel(<, Nat))
  BY NatLessThanWellFounded, WFMin, Zenon
<1>2. \A y \in T : ~ (y < x)
  BY <1>1 DEF OpToRel
<1> QED
  BY <1>2

\* The powers there are for up to three axes.
LEMMA SmallPowers == 2 ^ 0 = 1 /\ 2 ^ 1 = 2 /\ 2 ^ 2 = 4 /\ 2 ^ 3 = 8
<1>1. 2 ^ 0 = 1
  <2>1. IsFiniteSet({}) /\ Cardinality({}) = 0
    BY FS_EmptySet
  <2>2. Cardinality(SUBSET {}) = 2 ^ 0
    BY <2>1, FS_SUBSET
  <2>3. SUBSET {} = {{}}
    OBVIOUS
  <2>4. Cardinality({{}}) = 1
    BY FS_Singleton
  <2> QED
    BY <2>2, <2>3, <2>4
<1>2. 2 ^ (0 + 1) = 2 * 2 ^ 0 /\ 2 ^ (1 + 1) = 2 * 2 ^ 1 /\ 2 ^ (2 + 1) = 2 * 2 ^ 2
  BY PowDouble
<1>3. 0 + 1 = 1 /\ 1 + 1 = 2 /\ 2 + 1 = 3
  OBVIOUS
<1> QED
  BY <1>1, <1>2, <1>3

-----------------------------------------------------------------------------
(* Vectors of 21 bits, and positions and their numbers.                    *)

\* A component of a vector has room for more than one value.
LEMMA LimitNat == PackLimit \in Nat /\ PackLimit > 1
<1>1. 2 ^ (19 + 1) = 2 * 2 ^ 19 /\ 2 ^ 19 \in Nat /\ 2 ^ 19 >= 1
  BY PowDouble, PowPos
<1>2. 19 + 1 = 20
  OBVIOUS
<1> QED
  BY <1>1, <1>2 DEF PackLimit

\* A component of up to 20 bits is read back from a vector as it was.
LEMMA PackedAxis ==
    ASSUME NEW a \in Nat, a < PackLimit
    PROVE  ((a + PackLimit) % (2 * PackLimit)) - PackLimit = a
<1>1. PackLimit \in Nat /\ PackLimit > 0
  BY LimitNat
<1>2. a + PackLimit \in 0 .. 2 * PackLimit - 1
  BY <1>1
<1>3. \A m \in Nat \ {0} : \A x \in 0 .. m - 1 : (x % m) = x
  OBVIOUS
<1>4. 2 * PackLimit \in Nat \ {0}
  BY <1>1
<1> QED
  BY <1>1, <1>2, <1>3, <1>4

\* A vector of such components is read back as it was packed.
LEMMA PackedVector ==
    ASSUME NEW v \in Nat \X Nat \X Nat, \A i \in Axes : v[i] < PackLimit
    PROVE  Packed(v) = v
<1>1. v = <<v[1], v[2], v[3]>> /\ v[1] \in Nat /\ v[2] \in Nat /\ v[3] \in Nat
  OBVIOUS
<1>2. /\ ((v[1] + PackLimit) % (2 * PackLimit)) - PackLimit = v[1]
      /\ ((v[2] + PackLimit) % (2 * PackLimit)) - PackLimit = v[2]
      /\ ((v[3] + PackLimit) % (2 * PackLimit)) - PackLimit = v[3]
  BY <1>1, PackedAxis DEF Axes
<1> QED
  BY <1>1, <1>2 DEF Packed, Each

\* A number that is q times b and r more, r less than b, has quotient q and rest r.
LEMMA DivMod ==
    ASSUME NEW b \in Nat \ {0}, NEW q \in Nat, NEW r \in 0 .. b - 1, NEW a, a = q * b + r
    PROVE  (a \div b) = q /\ (a % b) = r
<1>1. a \in Nat
  OBVIOUS
<1>2. PICK x \in Nat, y \in 0 .. b - 1 : x = a \div b /\ y = a % b /\ a = x * b + y
  BY <1>1
<1>3. x = q
  <2>1. x + 1 <= q => (x + 1) * b <= q * b
    OBVIOUS
  <2>2. q + 1 <= x => (q + 1) * b <= x * b
    OBVIOUS
  <2>3. (x + 1) * b = x * b + b /\ (q + 1) * b = q * b + b
    OBVIOUS
  <2>4. x * b \in Int /\ q * b \in Int
    OBVIOUS
  <2> QED
    BY <1>2, <2>1, <2>2, <2>3, <2>4
<1> QED
  BY <1>2, <1>3

\* Every number is its quotient times b and its rest more.
LEMMA Divided ==
    ASSUME NEW a \in Nat, NEW b \in Nat \ {0}
    PROVE  \E q \in Nat, r \in 0 .. b - 1 : q = a \div b /\ r = a % b /\ a = q * b + r
<1>1. /\ (a \div b) \in Nat /\ (a % b) \in 0 .. b - 1
      /\ a = (a \div b) * b + (a % b)
  OBVIOUS
<1> QED
  BY <1>1

\* A product is positive, and grows with its factors.
LEMMA Product ==
    ASSUME NEW a \in Nat, NEW b \in Nat, NEW c \in Nat, a <= c
    PROVE  a * b \in Nat /\ a * b <= c * b
OBVIOUS

Sizes == (Nat \ {0}) \X (Nat \ {0}) \X (Nat \ {0})
Box(n) == (0 .. n[1] - 1) \X (0 .. n[2] - 1) \X (0 .. n[3] - 1)

\* Row numbers the positions of a volume, and Position finds them again ...
LEMMA RowAt ==
    ASSUME NEW n \in Sizes, NEW p \in Box(n)
    PROVE  Row(n, p) \in Indices(n) /\ Position(n, Row(n, p)) = p
<1>1. PICK l \in Nat \ {0}, m \in Nat \ {0}, h \in Nat \ {0} :
         l = n[1] /\ m = n[2] /\ h = n[3]
  BY DEF Sizes
<1>2. PICK x \in 0 .. l - 1, y \in 0 .. m - 1, z \in 0 .. h - 1 : p = <<x, y, z>>
  BY <1>1 DEF Box
<1>3. PICK i : i = Row(n, p)
  OBVIOUS
<1>4. PICK s \in Nat \ {0} : s = l * m
  OBVIOUS
<1>5. PICK k \in Nat : k = z * m + y
  OBVIOUS
<1>6. i = k * l + x
  <2>1. i = z * l * m + y * l + x
    BY <1>1, <1>2, <1>3 DEF Row
  <2>2. (z * m + y) * l = z * l * m + y * l
    OBVIOUS
  <2> QED
    BY <1>5, <2>1, <2>2
<1>7. (i \div l) = k /\ (i % l) = x
  BY <1>6, DivMod
<1>8. (k \div m) = z /\ (k % m) = y
  BY <1>5, DivMod
<1>9. PICK r \in Nat : r = y * l + x
  OBVIOUS
<1>10. r < s
  <2>1. y + 1 <= m /\ y + 1 \in Nat
    OBVIOUS
  <2>2. (y + 1) * l <= m * l
    BY <2>1, Product
  <2>3. (y + 1) * l = y * l + l /\ m * l = l * m
    OBVIOUS
  <2> QED
    BY <1>4, <1>9, <2>2, <2>3
<1>11. i = z * s + r
  <2>1. i = z * l * m + y * l + x
    BY <1>1, <1>2, <1>3 DEF Row
  <2>2. z * l * m = z * (l * m)
    OBVIOUS
  <2> QED
    BY <1>4, <1>9, <2>1, <2>2
<1>12. (i \div s) = z
  <2>1. r \in 0 .. s - 1
    BY <1>10
  <2> QED
    BY <1>11, <2>1, DivMod
<1>13. Position(n, i) = p
  <2>1. Position(n, i) = <<i % l, (i \div l) % m, i \div (l * m)>>
    BY <1>1 DEF Position
  <2> QED
    BY <1>2, <1>4, <1>7, <1>8, <1>12, <2>1
<1>14. i \in 0 .. Prod(n) - 1
  <2>1. z + 1 <= h /\ z + 1 \in Nat
    OBVIOUS
  <2>2. (z + 1) * s <= h * s
    BY <2>1, Product
  <2>3. (z + 1) * s = z * s + s
    OBVIOUS
  <2>4. Prod(n) = l * m * h
    BY <1>1 DEF Prod
  <2>5. l * m * h = h * (l * m)
    OBVIOUS
  <2>6. z * s \in Nat /\ h * s \in Nat
    OBVIOUS
  <2> QED
    BY <1>4, <1>10, <1>11, <2>2, <2>3, <2>4, <2>5, <2>6
<1> QED
  BY <1>3, <1>13, <1>14 DEF Indices

\* ... and the other way round.
LEMMA PositionAt ==
    ASSUME NEW n \in Sizes, NEW i \in Indices(n)
    PROVE  Position(n, i) \in Box(n) /\ Row(n, Position(n, i)) = i
<1>1. PICK l \in Nat \ {0}, m \in Nat \ {0}, h \in Nat \ {0} :
         l = n[1] /\ m = n[2] /\ h = n[3]
  BY DEF Sizes
<1>2. Prod(n) = l * m * h
  BY <1>1 DEF Prod
<1>3. PICK s \in Nat \ {0} : s = l * m
  OBVIOUS
<1>4. i \in Nat /\ i < s * h
  <2>1. s * h \in Nat /\ l * m * h = s * h
    BY <1>3
  <2> QED
    BY <1>2, <2>1 DEF Indices
<1>5. PICK k \in Nat, x \in 0 .. l - 1 : k = i \div l /\ x = i % l /\ i = k * l + x
  BY <1>4, Divided
<1>6. PICK z \in Nat, y \in 0 .. m - 1 : z = k \div m /\ y = k % m /\ k = z * m + y
  BY Divided
<1>7. PICK r \in Nat : r = y * l + x
  OBVIOUS
<1>8. r \in 0 .. s - 1
  <2>1. y + 1 <= m /\ y + 1 \in Nat
    OBVIOUS
  <2>2. (y + 1) * l <= m * l
    BY <2>1, Product
  <2>3. (y + 1) * l = y * l + l /\ m * l = l * m
    OBVIOUS
  <2> QED
    BY <1>3, <1>7, <2>2, <2>3
<1>9. i = z * s + r
  <2>1. (z * m + y) * l = z * (l * m) + y * l
    OBVIOUS
  <2>2. i = (z * m + y) * l + x
    BY <1>5, <1>6
  <2>3. i = z * (l * m) + y * l + x
    BY <2>1, <2>2
  <2>4. z * (l * m) = z * s
    BY <1>3
  <2> QED
    BY <1>7, <2>3, <2>4
<1>10. (i \div s) = z
  BY <1>8, <1>9, DivMod
<1>11. z < h
  <2>1. SUFFICES ASSUME h <= z PROVE FALSE
    OBVIOUS
  <2>2. h * s <= z * s
    BY <2>1, Product
  <2>3. h * s = s * h /\ z * s \in Nat
    OBVIOUS
  <2> QED
    BY <1>4, <1>8, <1>9, <2>2, <2>3
<1>12. Position(n, i) = <<x, y, z>>
  <2>1. Position(n, i) = <<i % l, (i \div l) % m, i \div (l * m)>>
    BY <1>1 DEF Position
  <2> QED
    BY <1>3, <1>5, <1>6, <1>10, <2>1
<1>13. <<x, y, z>> \in Box(n)
  BY <1>1, <1>11 DEF Box
<1>14. Row(n, <<x, y, z>>) = i
  <2>1. Row(n, <<x, y, z>>) = z * l * m + y * l + x
    BY <1>1 DEF Row
  <2>2. z * l * m = z * (l * m)
    OBVIOUS
  <2> QED
    BY <1>3, <1>7, <1>9, <2>1, <2>2
<1> QED
  BY <1>12, <1>13, <1>14

-----------------------------------------------------------------------------
(* A row is lifted, and lifted back.                                       *)

\* Division towards zero gives an integer.
LEMMA QuotInt ==
    ASSUME NEW a \in Int, NEW b \in Nat \ {0}
    PROVE  Quot(a, b) \in Int
BY DEF Quot

\* The neighbours of the odd samples are even ones.
IsStencil(st, D) ==
    /\ st.odd \subseteq D
    /\ \A x \in st.odd : /\ x - st.s \in D \ st.odd
                         /\ st.right[x] \in D \ st.odd

Halved(f, st, x) == Quot(f[x - st.s], 2) + Quot(f[st.right[x]], 2)

\* What Predict makes of a row, sample by sample.
LEMMA PredictIs ==
    ASSUME NEW f, NEW st, NEW sign
    PROVE  Predict(f, st, sign) =
             [x \in DOMAIN f |-> IF x \in st.odd THEN f[x] + sign * Halved(f, st, x)
                                 ELSE f[x]]
BY DEF Predict, Halved

\* The prediction is made of even samples, which it leaves alone.
LEMMA PredictUndone ==
    ASSUME NEW D, NEW f \in [D -> Int], NEW st, IsStencil(st, D)
    PROVE  /\ Predict(f, st, -1) \in [D -> Int]
           /\ Predict(Predict(f, st, -1), st, 1) = f
<1>1. PICK g : g = Predict(f, st, -1)
  OBVIOUS
<1>2. ASSUME NEW x \in st.odd
      PROVE  Halved(f, st, x) \in Int /\ f[x] \in Int
  <2>1. x - st.s \in D /\ st.right[x] \in D /\ x \in D
    BY DEF IsStencil
  <2>2. f[x - st.s] \in Int /\ f[st.right[x]] \in Int /\ f[x] \in Int
    BY <2>1
  <2>3. Quot(f[x - st.s], 2) \in Int /\ Quot(f[st.right[x]], 2) \in Int
    BY <2>2, QuotInt
  <2> QED
    BY <2>2, <2>3 DEF Halved
<1>3. g = [x \in D |-> IF x \in st.odd THEN f[x] + (-1) * Halved(f, st, x) ELSE f[x]]
  BY <1>1, PredictIs
<1>4. ASSUME NEW x \in D
      PROVE  g[x] \in Int
  <2>1. CASE x \in st.odd
    <3>1. g[x] = f[x] + (-1) * Halved(f, st, x)
      BY <1>3, <2>1
    <3> QED
      BY <1>2, <2>1, <3>1
  <2>2. CASE x \notin st.odd
    BY <1>3, <2>2
  <2> QED
    BY <2>1, <2>2
<1>5. g \in [D -> Int]
  BY <1>3, <1>4
<1>6. ASSUME NEW x \in st.odd
      PROVE  Halved(g, st, x) = Halved(f, st, x)
  <2>1. x - st.s \in D \ st.odd /\ st.right[x] \in D \ st.odd
    BY DEF IsStencil
  <2>2. g[x - st.s] = f[x - st.s] /\ g[st.right[x]] = f[st.right[x]]
    BY <1>3, <2>1
  <2> QED
    BY <2>2 DEF Halved
<1>7. Predict(g, st, 1) =
        [x \in D |-> IF x \in st.odd THEN g[x] + 1 * Halved(g, st, x) ELSE g[x]]
  BY <1>5, PredictIs
<1>8. ASSUME NEW x \in D
      PROVE  Predict(g, st, 1)[x] = f[x]
  <2>1. CASE x \in st.odd
    <3>1. Predict(g, st, 1)[x] = g[x] + 1 * Halved(f, st, x)
      BY <1>6, <1>7, <2>1
    <3>2. g[x] = f[x] + (-1) * Halved(f, st, x)
      BY <1>3, <2>1
    <3> QED
      BY <1>2, <2>1, <3>1, <3>2
  <2>2. CASE x \notin st.odd
    BY <1>3, <1>7, <2>2
  <2> QED
    BY <2>1, <2>2
<1>9. Predict(g, st, 1) = f
  BY <1>7, <1>8
<1> QED
  BY <1>1, <1>5, <1>9

\* What an even sample gets.
Times(st, x, y) ==
    (IF x - st.s = y THEN 1 ELSE 0) + (IF st.right[x] = y THEN 1 ELSE 0)
Part(f, st, x, y) == IF x \in st.odd THEN Times(st, x, y) * Quot(f[x], 4) ELSE 0
Share(f, st, y) ==
    Part(f, st, y - st.s, y) + Part(f, st, y + st.s, y)
      + IF st.end \in {y - st.s, y + st.s} THEN 0 ELSE Part(f, st, st.end, y)

\* What Update makes of a row, sample by sample.
LEMMA UpdateIs ==
    ASSUME NEW f, NEW st, NEW sign
    PROVE  Update(f, st, sign) =
             [y \in DOMAIN f |-> IF y \in st.odd THEN f[y]
                                 ELSE f[y] + sign * Share(f, st, y)]
BY DEF Update, Share, Part, Times

\* What an even sample gets is an integer, and made of odd samples only.
LEMMA ShareFacts ==
    ASSUME NEW D, NEW f \in [D -> Int], NEW g \in [D -> Int], NEW st, IsStencil(st, D),
           \A x \in st.odd : g[x] = f[x], NEW y
    PROVE  Share(f, st, y) \in Int /\ Share(g, st, y) = Share(f, st, y)
<1>1. ASSUME NEW x
      PROVE  Part(f, st, x, y) \in Int /\ Part(g, st, x, y) = Part(f, st, x, y)
  <2>1. CASE x \in st.odd
    <3>1. f[x] \in Int
      BY <2>1 DEF IsStencil
    <3>2. PICK q \in Int : q = Quot(f[x], 4)
      BY <3>1, QuotInt
    <3>3. PICK c \in Int : c = Times(st, x, y)
      BY DEF Times
    <3>4. Part(f, st, x, y) = c * q
      BY <2>1, <3>2, <3>3 DEF Part
    <3>5. Part(g, st, x, y) = c * q
      BY <2>1, <3>2, <3>3 DEF Part
    <3> QED
      BY <3>4, <3>5
  <2>2. CASE x \notin st.odd
    BY <2>2 DEF Part
  <2> QED
    BY <2>1, <2>2
<1>2. PICK a \in Int, b \in Int, c \in Int :
         a = Part(f, st, y - st.s, y) /\ b = Part(f, st, y + st.s, y)
         /\ c = Part(f, st, st.end, y)
  BY <1>1
<1>4. Share(f, st, y) = a + b + IF st.end \in {y - st.s, y + st.s} THEN 0 ELSE c
  BY <1>2 DEF Share
<1>5. Share(g, st, y) = a + b + IF st.end \in {y - st.s, y + st.s} THEN 0 ELSE c
  BY <1>1, <1>2 DEF Share
<1> QED
  BY <1>4, <1>5

\* The shares are made of odd samples, which the update leaves alone.
LEMMA UpdateUndone ==
    ASSUME NEW D, NEW f \in [D -> Int], NEW st, IsStencil(st, D)
    PROVE  /\ Update(f, st, 1) \in [D -> Int]
           /\ Update(Update(f, st, 1), st, -1) = f
<1>1. PICK g : g = Update(f, st, 1)
  OBVIOUS
<1>2. \A y : Share(f, st, y) \in Int
  BY ShareFacts
<1>3. g = [y \in D |-> IF y \in st.odd THEN f[y] ELSE f[y] + 1 * Share(f, st, y)]
  BY <1>1, UpdateIs
<1>4. g \in [D -> Int]
  <2>1. ASSUME NEW y \in D
        PROVE  (IF y \in st.odd THEN f[y] ELSE f[y] + 1 * Share(f, st, y)) \in Int
    BY <1>2
  <2> QED
    BY <1>3, <2>1
<1>5. \A x \in st.odd : g[x] = f[x]
  BY <1>3 DEF IsStencil
<1>6. \A y : Share(g, st, y) = Share(f, st, y)
  BY <1>4, <1>5, ShareFacts
<1>7. Update(g, st, -1) =
        [y \in D |-> IF y \in st.odd THEN g[y] ELSE g[y] + (-1) * Share(g, st, y)]
  BY <1>4, UpdateIs
<1>8. ASSUME NEW y \in D
      PROVE  Update(g, st, -1)[y] = f[y]
  <2>1. CASE y \in st.odd
    BY <1>3, <1>7, <2>1
  <2>2. CASE y \notin st.odd
    <3>1. PICK s \in Int : s = Share(f, st, y)
      BY <1>2
    <3>2. Update(g, st, -1)[y] = g[y] + (-1) * s
      BY <1>6, <1>7, <2>2, <3>1
    <3>3. g[y] = f[y] + 1 * s /\ f[y] \in Int
      BY <1>3, <2>2, <3>1
    <3> QED
      BY <3>2, <3>3
  <2> QED
    BY <2>1, <2>2
<1>9. Update(g, st, -1) = f
  BY <1>7, <1>8
<1> QED
  BY <1>1, <1>4, <1>9

\* The mirror image of the last sample but one stands for the one after the last.
LEMMA MirroredStencil ==
    ASSUME NEW m \in Nat, NEW N \in Nat, 1 < m, m <= N
    PROVE  IsStencil(Mirrored(m), 0 .. N - 1)
<1>1. PICK odd : odd = {x \in 1 .. m - 1 : x % 2 = 1}
  OBVIOUS
<1>2. Mirrored(m) = [odd |-> odd, s |-> 1, end |-> m - 1,
                     right |-> [x \in odd |-> IF x < m - 1 THEN x + 1 ELSE x - 1]]
  BY <1>1 DEF Mirrored
<1>3. ASSUME NEW x \in odd
      PROVE  /\ x \in 1 .. m - 1
             /\ x - 1 \in (0 .. N - 1) \ odd
             /\ x < m - 1 => x + 1 \in (0 .. N - 1) \ odd
  <2>1. x \in 1 .. m - 1 /\ (x % 2) = 1
    BY <1>1
  <2>2. ((x - 1) % 2) = 0 /\ ((x + 1) % 2) = 0
    BY <2>1
  <2>3. x - 1 \notin odd /\ x + 1 \notin odd
    BY <1>1, <2>2
  <2> QED
    BY <2>1, <2>3
<1>4. odd \subseteq 0 .. N - 1
  BY <1>3
<1>5. PICK st : st = Mirrored(m)
  OBVIOUS
<1>6. st.odd = odd /\ st.s = 1
  BY <1>2, <1>5
<1>7. ASSUME NEW x \in odd
      PROVE  st.right[x] \in (0 .. N - 1) \ odd
  <2>1. st.right[x] = IF x < m - 1 THEN x + 1 ELSE x - 1
    BY <1>2, <1>5
  <2> QED
    BY <1>3, <2>1
<1> QED
  BY <1>3, <1>4, <1>5, <1>6, <1>7 DEF IsStencil

\* Merge moves the samples back to where Split took them from.
LEMMA MergeSplit ==
    ASSUME NEW m \in Nat, NEW N \in Nat, 1 < m, m <= N, NEW f \in [0 .. N - 1 -> Int]
    PROVE  Split(f, m) \in [0 .. N - 1 -> Int] /\ Merge(Split(f, m), m) = f
<1>1. PICK half \in Nat : half = (m + 1) \div 2 /\ 2 * half <= m + 1 /\ m <= 2 * half
  OBVIOUS
<1>2. PICK g : g = Split(f, m)
  OBVIOUS
<1>3. g = [x \in 0 .. N - 1 |-> IF x < half THEN f[2 * x]
                                ELSE IF x < m THEN f[2 * (x - half) + 1] ELSE f[x]]
  BY <1>1, <1>2 DEF Split
<1>4. g \in [0 .. N - 1 -> Int]
  <2>1. ASSUME NEW x \in 0 .. N - 1
        PROVE  g[x] \in Int
    <3>1. CASE x < half
      <4>1. 2 * x \in 0 .. N - 1
        BY <1>1, <3>1
      <4> QED
        BY <1>3, <3>1, <4>1
    <3>2. CASE ~ (x < half) /\ x < m
      <4>1. 2 * (x - half) + 1 \in 0 .. N - 1
        BY <1>1, <3>2
      <4> QED
        BY <1>3, <3>2, <4>1
    <3>3. CASE ~ (x < half) /\ ~ (x < m)
      BY <1>3, <3>3
    <3> QED
      BY <3>1, <3>2, <3>3
  <2> QED
    BY <1>3, <2>1
<1>5. Merge(g, m) = [x \in 0 .. N - 1 |-> IF x >= m THEN g[x]
                       ELSE IF x % 2 = 0 THEN g[x \div 2] ELSE g[half + x \div 2]]
  BY <1>1, <1>4 DEF Merge
<1>6. ASSUME NEW x \in 0 .. N - 1
      PROVE  Merge(g, m)[x] = f[x]
  <2>1. PICK h \in Nat : h = x \div 2 /\ (x = 2 * h \/ x = 2 * h + 1)
    OBVIOUS
  <2>2. CASE x >= m
    <3>1. Merge(g, m)[x] = g[x]
      BY <1>5, <2>2
    <3>2. ~ (x < half) /\ ~ (x < m)
      BY <1>1, <2>2
    <3>3. g[x] = f[x]
      BY <1>3, <3>2
    <3> QED
      BY <3>1, <3>3
  <2>3. CASE ~ (x >= m) /\ x = 2 * h
    <3>1. Merge(g, m)[x] = g[h]
      <4>1. (x % 2) = 0
        BY <2>3
      <4> QED
        BY <1>5, <2>1, <2>3, <4>1
    <3>2. h \in 0 .. N - 1 /\ h < half
      BY <1>1, <2>3
    <3>3. g[h] = f[2 * h]
      BY <1>3, <3>2
    <3> QED
      BY <2>3, <3>1, <3>3
  <2>4. CASE ~ (x >= m) /\ x = 2 * h + 1
    <3>1. Merge(g, m)[x] = g[half + h]
      <4>1. (x % 2) # 0
        BY <2>4
      <4> QED
        BY <1>5, <2>1, <2>4, <4>1
    <3>2. half + h \in 0 .. N - 1 /\ ~ (half + h < half) /\ half + h < m
      BY <1>1, <2>4
    <3>3. g[half + h] = f[2 * (half + h - half) + 1]
      BY <1>3, <3>2
    <3>4. 2 * (half + h - half) + 1 = x
      BY <2>4
    <3> QED
      BY <3>1, <3>3, <3>4
  <2> QED
    BY <2>1, <2>2, <2>3, <2>4
<1>7. Merge(g, m) = f
  BY <1>5, <1>6
<1> QED
  BY <1>2, <1>4, <1>7

\* ILiftOld undoes FLiftOld, for every row and however much of it is lifted.
THEOREM RowUndone ==
    ASSUME NEW m \in Nat, NEW N \in Nat, 1 < m, m <= N, NEW f \in [0 .. N - 1 -> Int]
    PROVE  FLiftOld(f, m) \in [0 .. N - 1 -> Int] /\ ILiftOld(FLiftOld(f, m), m) = f
<1>1. PICK st : st = Mirrored(m)
  OBVIOUS
<1>2. IsStencil(st, 0 .. N - 1)
  BY <1>1, MirroredStencil
<1>3. PICK g : g = Predict(f, st, -1)
  OBVIOUS
<1>4. g \in [0 .. N - 1 -> Int] /\ Predict(g, st, 1) = f
  BY <1>2, <1>3, PredictUndone
<1>5. PICK h : h = Update(g, st, 1)
  OBVIOUS
<1>6. h \in [0 .. N - 1 -> Int] /\ Update(h, st, -1) = g
  BY <1>2, <1>4, <1>5, UpdateUndone
<1>7. Split(h, m) \in [0 .. N - 1 -> Int] /\ Merge(Split(h, m), m) = h
  BY <1>6, MergeSplit
<1>8. FLiftOld(f, m) = Split(h, m)
  BY <1>1, <1>3, <1>5 DEF FLiftOld
<1>9. ILiftOld(Split(h, m), m) = Predict(Update(Merge(Split(h, m), m), st, -1), st, 1)
  BY <1>1 DEF ILiftOld
<1> QED
  BY <1>4, <1>6, <1>7, <1>8, <1>9

-----------------------------------------------------------------------------
(* A pass lifts every row that starts in the part of the volume that is left, *)
(* and the pass back lifts the same rows back.                               *)

RowOf(v, n, a, q) == [x \in 0 .. n[a] - 1 |-> v[Row(n, [q EXCEPT ![a] = x])]]
StartOf(n, a, i) == [Position(n, i) EXCEPT ![a] = 0]

\* What a pass makes of a volume, sample by sample.
LEMMA ForwardIs ==
    ASSUME NEW n, NEW m, NEW a, m[a] \in Nat, m[a] > 1, NEW v
    PROVE  ForwardOld(v, n, a, m) =
             [i \in DOMAIN v |->
                IF StartOf(n, a, i) \in Starts(m, a)
                THEN FLiftOld(RowOf(v, n, a, StartOf(n, a, i)), m[a])[Position(n, i)[a]]
                ELSE v[i]]
<1>1. ~ (m[a] <= 1)
  OBVIOUS
<1> DEFINE rows == [q \in Starts(m, a) |-> FLiftOld(RowOf(v, n, a, q), m[a])]
<1>2. ForwardOld(v, n, a, m) =
        [i \in DOMAIN v |-> IF StartOf(n, a, i) \in Starts(m, a)
                            THEN rows[StartOf(n, a, i)][Position(n, i)[a]] ELSE v[i]]
  BY <1>1 DEF ForwardOld, OnRows, RowOf, StartOf
<1>3. \A q \in Starts(m, a) : rows[q] = FLiftOld(RowOf(v, n, a, q), m[a])
  OBVIOUS
<1> HIDE DEF rows
<1> QED
  BY <1>2, <1>3

\* What a pass back makes of a volume, sample by sample.
LEMMA InverseIs ==
    ASSUME NEW n, NEW m, NEW a, m[a] \in Nat, m[a] > 1, NEW v
    PROVE  InverseOld(v, n, a, m) =
             [i \in DOMAIN v |->
                IF StartOf(n, a, i) \in Starts(m, a)
                THEN ILiftOld(RowOf(v, n, a, StartOf(n, a, i)), m[a])[Position(n, i)[a]]
                ELSE v[i]]
<1>1. ~ (m[a] <= 1)
  OBVIOUS
<1> DEFINE rows == [q \in Starts(m, a) |-> ILiftOld(RowOf(v, n, a, q), m[a])]
<1>2. InverseOld(v, n, a, m) =
        [i \in DOMAIN v |-> IF StartOf(n, a, i) \in Starts(m, a)
                            THEN rows[StartOf(n, a, i)][Position(n, i)[a]] ELSE v[i]]
  BY <1>1 DEF InverseOld, OnRows, RowOf, StartOf
<1>3. \A q \in Starts(m, a) : rows[q] = ILiftOld(RowOf(v, n, a, q), m[a])
  OBVIOUS
<1> HIDE DEF rows
<1> QED
  BY <1>2, <1>3

\* The places of a row.
LEMMA InRow ==
    ASSUME NEW n \in Sizes, NEW m \in Sizes, \A i \in Axes : m[i] <= n[i], NEW a \in Axes,
           NEW q \in Starts(m, a), NEW x \in 0 .. n[a] - 1
    PROVE  /\ [q EXCEPT ![a] = x] \in Box(n)
           /\ [[q EXCEPT ![a] = x] EXCEPT ![a] = 0] = q
           /\ [q EXCEPT ![a] = x][a] = x
<1>1. PICK x1 \in Nat, x2 \in Nat, x3 \in Nat :
         /\ q = <<x1, x2, x3>> /\ x1 < m[1] /\ x2 < m[2] /\ x3 < m[3] /\ q[a] = 0
  BY DEF Starts, Sizes
<1>2. /\ m[1] \in Nat /\ m[2] \in Nat /\ m[3] \in Nat /\ n[1] \in Nat /\ n[2] \in Nat
      /\ n[3] \in Nat /\ m[1] <= n[1] /\ m[2] <= n[2] /\ m[3] <= n[3]
  BY DEF Sizes, Axes
<1>3. CASE a = 1
  <2>1. [q EXCEPT ![a] = x] = <<x, x2, x3>> /\ q = <<0, x2, x3>>
    BY <1>1, <1>3
  <2> QED
    BY <1>1, <1>2, <1>3, <2>1 DEF Box
<1>4. CASE a = 2
  <2>1. [q EXCEPT ![a] = x] = <<x1, x, x3>> /\ q = <<x1, 0, x3>>
    BY <1>1, <1>4
  <2> QED
    BY <1>1, <1>2, <1>4, <2>1 DEF Box
<1>5. CASE a = 3
  <2>1. [q EXCEPT ![a] = x] = <<x1, x2, x>> /\ q = <<x1, x2, 0>>
    BY <1>1, <1>5
  <2> QED
    BY <1>1, <1>2, <1>5, <2>1 DEF Box
<1> QED
  BY <1>3, <1>4, <1>5 DEF Axes

\* A position is its place along an axis and the start of its row.
LEMMA InPlaceOf ==
    ASSUME NEW n \in Sizes, NEW a \in Axes, NEW i \in Indices(n)
    PROVE  /\ Position(n, i)[a] \in 0 .. n[a] - 1
           /\ [StartOf(n, a, i) EXCEPT ![a] = Position(n, i)[a]] = Position(n, i)
<1>1. PICK p : p = Position(n, i)
  OBVIOUS
<1>2. p \in Box(n)
  BY <1>1, PositionAt
<1>3. p = <<p[1], p[2], p[3]>>
  BY <1>2 DEF Box
<1>4. p[a] \in 0 .. n[a] - 1
  BY <1>2 DEF Box, Axes
<1>5. [[p EXCEPT ![a] = 0] EXCEPT ![a] = p[a]] = p
  <2>1. PICK x, y, z : p = <<x, y, z>>
    BY <1>3
  <2>2. CASE a = 1
    BY <2>1, <2>2
  <2>3. CASE a = 2
    BY <2>1, <2>3
  <2>4. CASE a = 3
    BY <2>1, <2>4
  <2> QED
    BY <2>2, <2>3, <2>4 DEF Axes
<1> QED
  BY <1>1, <1>4, <1>5 DEF StartOf

\* A pass of InverseCdf53Old undoes one of ForwardCdf53Old, whatever part of the
\* volume is left to its level.
THEOREM PassUndone ==
    ASSUME NEW n \in Sizes, NEW m \in Sizes, \A i \in Axes : m[i] <= n[i], NEW a \in Axes,
           NEW v \in [Indices(n) -> Int]
    PROVE  /\ ForwardOld(v, n, a, m) \in [Indices(n) -> Int]
           /\ InverseOld(ForwardOld(v, n, a, m), n, a, m) = v
<1>1. CASE m[a] <= 1
  BY <1>1 DEF ForwardOld, InverseOld
<1>2. CASE ~ (m[a] <= 1)
  <2>1. m[a] \in Nat /\ n[a] \in Nat /\ 1 < m[a] /\ m[a] <= n[a]
    BY <1>2 DEF Sizes, Axes
  <2>2. PICK w : w = ForwardOld(v, n, a, m)
    OBVIOUS
  <2>3. w = [i \in Indices(n) |->
                IF StartOf(n, a, i) \in Starts(m, a)
                THEN FLiftOld(RowOf(v, n, a, StartOf(n, a, i)), m[a])[Position(n, i)[a]]
                ELSE v[i]]
    BY <2>1, <2>2, ForwardIs
  <2>4. ASSUME NEW q \in Starts(m, a)
        PROVE  RowOf(v, n, a, q) \in [0 .. n[a] - 1 -> Int]
    <3>1. ASSUME NEW x \in 0 .. n[a] - 1
          PROVE  v[Row(n, [q EXCEPT ![a] = x])] \in Int
      <4>1. [q EXCEPT ![a] = x] \in Box(n)
        BY InRow
      <4>2. Row(n, [q EXCEPT ![a] = x]) \in Indices(n)
        BY <4>1, RowAt
      <4> QED
        BY <4>2
    <3> QED
      BY <3>1 DEF RowOf
  <2>5. ASSUME NEW q \in Starts(m, a)
        PROVE  /\ FLiftOld(RowOf(v, n, a, q), m[a]) \in [0 .. n[a] - 1 -> Int]
               /\ ILiftOld(FLiftOld(RowOf(v, n, a, q), m[a]), m[a]) = RowOf(v, n, a, q)
    BY <2>1, <2>4, RowUndone
  <2>6. w \in [Indices(n) -> Int]
    <3>1. ASSUME NEW i \in Indices(n)
          PROVE  w[i] \in Int
      <4>1. CASE StartOf(n, a, i) \in Starts(m, a)
        <5>1. w[i] = FLiftOld(RowOf(v, n, a, StartOf(n, a, i)), m[a])[Position(n, i)[a]]
          BY <2>3, <4>1
        <5>2. Position(n, i)[a] \in 0 .. n[a] - 1
          BY InPlaceOf
        <5> QED
          BY <2>5, <4>1, <5>1, <5>2
      <4>2. CASE StartOf(n, a, i) \notin Starts(m, a)
        BY <2>3, <4>2
      <4> QED
        BY <4>1, <4>2
    <3> QED
      BY <2>3, <3>1
  <2>7. ASSUME NEW q \in Starts(m, a)
        PROVE  RowOf(w, n, a, q) = FLiftOld(RowOf(v, n, a, q), m[a])
    <3>1. ASSUME NEW x \in 0 .. n[a] - 1
          PROVE  w[Row(n, [q EXCEPT ![a] = x])] = FLiftOld(RowOf(v, n, a, q), m[a])[x]
      <4>1. PICK p : p = [q EXCEPT ![a] = x]
        OBVIOUS
      <4>0. /\ [q EXCEPT ![a] = x] \in Box(n)
            /\ [[q EXCEPT ![a] = x] EXCEPT ![a] = 0] = q
            /\ [q EXCEPT ![a] = x][a] = x
        BY InRow
      <4>2. p \in Box(n) /\ [p EXCEPT ![a] = 0] = q /\ p[a] = x
        BY <4>0, <4>1
      <4>3. Row(n, p) \in Indices(n) /\ Position(n, Row(n, p)) = p
        BY <4>2, RowAt
      <4>4. StartOf(n, a, Row(n, p)) = q
        BY <4>2, <4>3 DEF StartOf
      <4>5. w[Row(n, p)] = FLiftOld(RowOf(v, n, a, q), m[a])[x]
        BY <2>3, <4>2, <4>3, <4>4
      <4> QED
        BY <4>1, <4>5
    <3>2. FLiftOld(RowOf(v, n, a, q), m[a]) \in [0 .. n[a] - 1 -> Int]
      BY <2>5
    <3> QED
      BY <3>1, <3>2 DEF RowOf
  <2>8. InverseOld(w, n, a, m) =
          [i \in Indices(n) |->
             IF StartOf(n, a, i) \in Starts(m, a)
             THEN ILiftOld(RowOf(w, n, a, StartOf(n, a, i)), m[a])[Position(n, i)[a]]
             ELSE w[i]]
    BY <2>1, <2>6, InverseIs
  <2>9. ASSUME NEW i \in Indices(n)
        PROVE  InverseOld(w, n, a, m)[i] = v[i]
    <3>1. CASE StartOf(n, a, i) \in Starts(m, a)
      <4>1. PICK q \in Starts(m, a) : q = StartOf(n, a, i)
        BY <3>1
      <4>2. InverseOld(w, n, a, m)[i] = ILiftOld(RowOf(w, n, a, q), m[a])[Position(n, i)[a]]
        BY <2>8, <3>1, <4>1
      <4>3. ILiftOld(RowOf(w, n, a, q), m[a]) = RowOf(v, n, a, q)
        BY <2>5, <2>7
      <4>4. Position(n, i)[a] \in 0 .. n[a] - 1
        BY InPlaceOf
      <4>5. RowOf(v, n, a, q)[Position(n, i)[a]] = v[Row(n, [q EXCEPT ![a] = Position(n, i)[a]])]
        BY <4>4 DEF RowOf
      <4>6. [q EXCEPT ![a] = Position(n, i)[a]] = Position(n, i)
        BY <4>1, InPlaceOf
      <4>7. Row(n, Position(n, i)) = i
        BY PositionAt
      <4> QED
        BY <4>2, <4>3, <4>5, <4>6, <4>7
    <3>2. CASE StartOf(n, a, i) \notin Starts(m, a)
      <4>1. InverseOld(w, n, a, m)[i] = w[i]
        BY <2>8, <3>2
      <4>2. w[i] = v[i]
        BY <2>3, <3>2
      <4> QED
        BY <4>1, <4>2
    <3> QED
      BY <3>1, <3>2
  <2>10. InverseOld(w, n, a, m) = v
    BY <2>8, <2>9
  <2> QED
    BY <2>2, <2>6, <2>10
<1> QED
  BY <1>1, <1>2

-----------------------------------------------------------------------------
(* Rows that nothing is extrapolated in: an odd number of samples, s apart. *)

\* Multiples of s are ordered as their numbers are.
LEMMA Ordered ==
    ASSUME NEW s \in Nat \ {0}, NEW x \in Int, NEW y \in Int
    PROVE  x * s \in Int /\ y * s \in Int /\ (x <= y <=> x * s <= y * s)
<1>1. x * s \in Int /\ y * s \in Int
  OBVIOUS
<1>2. x <= y => x * s <= y * s
  <2>1. ASSUME x <= y PROVE x * s <= y * s
    <3>1. PICK d \in Nat : y = x + d
      BY <2>1
    <3>2. d * s \in Nat /\ y * s = x * s + d * s
      BY <3>1
    <3> QED
      BY <1>1, <3>2
  <2> QED
    BY <2>1
<1>3. y < x => y * s < x * s
  <2>1. ASSUME y < x PROVE y * s < x * s
    <3>1. PICK d \in Nat : x = (y + 1) + d
      <4>1. x - (y + 1) \in Nat /\ x = (y + 1) + (x - (y + 1))
        BY <2>1
      <4> QED
        BY <4>1
    <3>2. d * s \in Nat /\ x * s = (y * s + s) + d * s
      BY <3>1
    <3> QED
      BY <1>1, <3>2
  <2> QED
    BY <2>1
<1> QED
  BY <1>1, <1>2, <1>3

\* Where sample x is.
Spot(p, s, x) == p + x * s

Strided(f, p, s, c) == [x \in 0 .. c - 1 |-> f[Spot(p, s, x)]]

\* What lifting makes of the samples, by their numbers.
Detail(r, x) == r[x] + (-1) * (Quot(r[x - 1], 2) + Quot(r[x + 1], 2))
FromLeft(r, x) == IF x = 0 THEN 0 ELSE Quot(Detail(r, x - 1), 4)
FromRight(r, c, x) == IF x = c - 1 THEN 0 ELSE Quot(Detail(r, x + 1), 4)
LiftedAt(r, c, x) == IF x % 2 = 1 THEN Detail(r, x)
                     ELSE r[x] + (FromLeft(r, x) + FromRight(r, c, x))

LEMMA SpotsDiffer ==
    ASSUME NEW p \in Int, NEW s \in Nat \ {0}, NEW x \in Int, NEW y \in Int,
           Spot(p, s, x) = Spot(p, s, y)
    PROVE  x = y
<1>1. PICK a \in Int, b \in Int : a = x * s /\ b = y * s
  OBVIOUS
<1>2. a = b
  BY <1>1 DEF Spot
<1>3. x <= y /\ y <= x
  BY <1>1, <1>2, Ordered
<1> QED
  BY <1>3

LEMMA SpotSteps ==
    ASSUME NEW p \in Int, NEW s \in Nat \ {0}, NEW x \in Int
    PROVE  /\ Spot(p, s, x) \in Int
           /\ Spot(p, s, x) - s = Spot(p, s, x - 1) /\ Spot(p, s, x) + s = Spot(p, s, x + 1)
<1>1. (x - 1) * s = x * s - s /\ (x + 1) * s = x * s + s /\ x * s \in Int
  OBVIOUS
<1>2. PICK a \in Int : a = x * s
  BY <1>1
<1> QED
  BY <1>1, <1>2 DEF Spot

LEMMA SpotsFit ==
    ASSUME NEW p \in Nat, NEW s \in Nat \ {0}, NEW c \in Nat, NEW N \in Nat,
           Spot(p, s, c - 1) < N, NEW x \in 0 .. c - 1
    PROVE  Spot(p, s, x) \in 0 .. N - 1
<1>1. PICK a \in Int, b \in Int : a = x * s /\ b = (c - 1) * s
  OBVIOUS
<1>2. a <= b
  BY <1>1, Ordered
<1>3. a \in Nat
  BY <1>1
<1> QED
  BY <1>1, <1>2, <1>3 DEF Spot

\* The stencil of such a row; where it ends makes no difference.
Regular(st, p, s, c) ==
    /\ st.s = s
    /\ \A y : y \in st.odd <=> \E x \in 1 .. c - 2 : x % 2 = 1 /\ y = Spot(p, s, x)
    /\ \A y \in st.odd : st.right[y] = y + s

\* u is f, lifted.
Lifts(u, f, p, s, c) ==
    /\ \A x \in 0 .. c - 1 : u[Spot(p, s, x)] = LiftedAt(Strided(f, p, s, c), c, x)
    /\ \A y \in DOMAIN f : (\A x \in 0 .. c - 1 : y # Spot(p, s, x)) => u[y] = f[y]

LEMMA RegularOdd ==
    ASSUME NEW p \in Nat, NEW s \in Nat \ {0}, NEW c \in Nat, c % 2 = 1, c > 1, NEW st,
           Regular(st, p, s, c), NEW x \in 0 .. c - 1
    PROVE  Spot(p, s, x) \in st.odd <=> x % 2 = 1
<1>1. ASSUME x % 2 = 1
      PROVE  Spot(p, s, x) \in st.odd
  <2>1. x \in 1 .. c - 2
    <3>1. x # 0 /\ x # c - 1
      BY <1>1
    <3> QED
      BY <3>1
  <2> QED
    BY <1>1, <2>1 DEF Regular
<1>2. ASSUME Spot(p, s, x) \in st.odd
      PROVE  x % 2 = 1
  <2>1. PICK y \in 1 .. c - 2 : y % 2 = 1 /\ Spot(p, s, x) = Spot(p, s, y)
    BY <1>2 DEF Regular
  <2>2. x = y
    BY <2>1, SpotsDiffer
  <2> QED
    BY <2>1, <2>2
<1> QED
  BY <1>1, <1>2

\* h is f, the odd samples less half of both neighbours.
Predicted(h, f, st, p, s, c) ==
    /\ \A x \in 0 .. c - 1 :
          h[Spot(p, s, x)] = IF x % 2 = 1 THEN Detail(Strided(f, p, s, c), x)
                             ELSE f[Spot(p, s, x)]
    /\ \A y \in DOMAIN f : y \notin st.odd => h[y] = f[y]

LEMMA RegularPredict ==
    ASSUME NEW p \in Nat, NEW s \in Nat \ {0}, NEW c \in Nat, c % 2 = 1, c > 1, NEW st,
           Regular(st, p, s, c), NEW N \in Nat, Spot(p, s, c - 1) < N,
           NEW f \in [0 .. N - 1 -> Int]
    PROVE  /\ Predict(f, st, -1) \in [0 .. N - 1 -> Int]
           /\ Predicted(Predict(f, st, -1), f, st, p, s, c)
<1>0. PICK h : h = Predict(f, st, -1)
  OBVIOUS
<1>1. h = [y \in 0 .. N - 1 |-> IF y \in st.odd THEN f[y] + (-1) * Halved(f, st, y) ELSE f[y]]
  BY <1>0, PredictIs
<1>2. PICK r : r = Strided(f, p, s, c)
  OBVIOUS
<1>3. \A x \in 0 .. c - 1 : r[x] = f[Spot(p, s, x)]
  BY <1>2 DEF Strided
<1>4. ASSUME NEW x \in 0 .. c - 1, x % 2 = 1
      PROVE  /\ h[Spot(p, s, x)] = Detail(r, x)
             /\ Detail(r, x) \in Int
  <2>1. Spot(p, s, x) \in st.odd /\ Spot(p, s, x) \in 0 .. N - 1
    BY <1>4, RegularOdd, SpotsFit
  <2>2. x - 1 \in 0 .. c - 1 /\ x + 1 \in 0 .. c - 1
    <3>1. x # 0 /\ x # c - 1
      BY <1>4
    <3> QED
      BY <3>1
  <2>3. st.s = s /\ st.right[Spot(p, s, x)] = Spot(p, s, x) + s
    BY <2>1 DEF Regular
  <2>4. Spot(p, s, x) - s = Spot(p, s, x - 1) /\ Spot(p, s, x) + s = Spot(p, s, x + 1)
    <3>1. p \in Int /\ x \in Int
      OBVIOUS
    <3> QED
      BY <3>1, SpotSteps
  <2>5. Halved(f, st, Spot(p, s, x)) = Quot(r[x - 1], 2) + Quot(r[x + 1], 2)
    BY <1>3, <2>2, <2>3, <2>4 DEF Halved
  <2>6. h[Spot(p, s, x)] = f[Spot(p, s, x)] + (-1) * Halved(f, st, Spot(p, s, x))
    BY <1>1, <2>1
  <2>7. h[Spot(p, s, x)] = Detail(r, x)
    BY <1>3, <2>5, <2>6 DEF Detail
  <2>8. r[x] \in Int /\ r[x - 1] \in Int /\ r[x + 1] \in Int
    BY <1>3, <2>2, SpotsFit
  <2>9. Quot(r[x - 1], 2) \in Int /\ Quot(r[x + 1], 2) \in Int
    <3>1. 2 \in Nat \ {0}
      OBVIOUS
    <3> QED
      BY <2>8, <3>1, QuotInt
  <2>10. PICK a \in Int, b \in Int, d \in Int :
            a = r[x] /\ b = Quot(r[x - 1], 2) /\ d = Quot(r[x + 1], 2)
    BY <2>8, <2>9
  <2>11. Detail(r, x) = a + (-1) * (b + d)
    BY <2>10 DEF Detail
  <2> QED
    BY <2>7, <2>11
<1>5. ASSUME NEW x \in 0 .. c - 1, x % 2 # 1
      PROVE  h[Spot(p, s, x)] = f[Spot(p, s, x)]
  <2>1. Spot(p, s, x) \notin st.odd /\ Spot(p, s, x) \in 0 .. N - 1
    BY <1>5, RegularOdd, SpotsFit
  <2> QED
    BY <1>1, <2>1
<1>6. ASSUME NEW y \in 0 .. N - 1
      PROVE  h[y] \in Int
  <2>1. CASE y \in st.odd
    <3>1. PICK x \in 1 .. c - 2 : x % 2 = 1 /\ y = Spot(p, s, x)
      BY <2>1 DEF Regular
    <3>2. x \in 0 .. c - 1
      OBVIOUS
    <3> QED
      BY <1>4, <3>1, <3>2
  <2>2. CASE y \notin st.odd
    BY <1>1, <2>2
  <2> QED
    BY <2>1, <2>2
<1>7. h \in [0 .. N - 1 -> Int]
  BY <1>1, <1>6
<1> QED
  BY <1>0, <1>1, <1>2, <1>4, <1>5, <1>7 DEF Predicted

LEMMA Parity ==
    ASSUME NEW x \in Nat
    PROVE  /\ x % 2 = 0 => (x + 1) % 2 = 1 /\ (x # 0 => (x - 1) % 2 = 1)
           /\ x % 2 = 1 => (x + 1) % 2 = 0 /\ (x - 1) % 2 = 0
OBVIOUS

LEMMA Moved ==
    ASSUME NEW y \in Int, NEW s \in Int, NEW a \in Int
    PROVE  (y - s = a <=> y = a + s) /\ (y + s = a <=> y = a - s)
OBVIOUS

\* The even samples get a quarter of both neighbours, and nothing else changes.
LEMMA RegularLift ==
    ASSUME NEW p \in Nat, NEW s \in Nat \ {0}, NEW c \in Nat, c % 2 = 1, c > 1, NEW st,
           Regular(st, p, s, c), NEW N \in Nat, Spot(p, s, c - 1) < N,
           NEW f \in [0 .. N - 1 -> Int], NEW u, u = Update(Predict(f, st, -1), st, 1)
    PROVE  u \in [0 .. N - 1 -> Int] /\ Lifts(u, f, p, s, c)
<1>1. PICK h \in [0 .. N - 1 -> Int] : /\ h = Predict(f, st, -1)
                                       /\ Predicted(h, f, st, p, s, c)
  BY RegularPredict
<1>2. PICK r : r = Strided(f, p, s, c)
  OBVIOUS
<1>3. ASSUME NEW x \in 0 .. c - 1
      PROVE  h[Spot(p, s, x)] = IF x % 2 = 1 THEN Detail(r, x) ELSE f[Spot(p, s, x)]
  BY <1>1, <1>2 DEF Predicted
<1>4. ASSUME NEW y \in 0 .. N - 1, y \notin st.odd
      PROVE  h[y] = f[y]
  BY <1>1, <1>4 DEF Predicted
<1>5. u = [y \in 0 .. N - 1 |-> IF y \in st.odd THEN h[y] ELSE h[y] + 1 * Share(h, st, y)]
  BY <1>1, UpdateIs
<1>6. ASSUME NEW y \in 0 .. N - 1
      PROVE  Share(h, st, y) = Part(h, st, y - s, y) + Part(h, st, y + s, y) + 0
  <2>1. CASE st.end \in {y - s, y + s}
    BY <2>1 DEF Share, Regular
  <2>2. CASE st.end \notin {y - s, y + s}
    <3>1. Part(h, st, st.end, y) = 0
      <4>1. CASE st.end \in st.odd
        <5>1. st.right[st.end] = st.end + s /\ st.s = s
          BY <4>1 DEF Regular
        <5>2. PICK e \in Int : e = st.end
          <6>1. PICK x \in 1 .. c - 2 : st.end = Spot(p, s, x)
            BY <4>1 DEF Regular
          <6>2. Spot(p, s, x) \in Int
            <7>1. p \in Int /\ x \in Int
              OBVIOUS
            <7> QED
              BY <7>1, SpotSteps
          <6> QED
            BY <6>1, <6>2
        <5>3. e - s # y /\ e + s # y
          <6>1. e # y - s /\ e # y + s
            BY <2>2, <5>2
          <6> QED
            BY <6>1
        <5>4. Times(st, st.end, y) = 0
          BY <5>1, <5>2, <5>3 DEF Times
        <5>5. Quot(h[st.end], 4) \in Int
          <6>1. PICK x \in 1 .. c - 2 : st.end = Spot(p, s, x)
            BY <4>1 DEF Regular
          <6>2. x \in 0 .. c - 1
            OBVIOUS
          <6>3. h[st.end] \in Int
            BY <6>1, <6>2, SpotsFit
          <6>4. 4 \in Nat \ {0}
            OBVIOUS
          <6> QED
            BY <6>3, <6>4, QuotInt
        <5> QED
          BY <5>4, <5>5 DEF Part
      <4>2. CASE st.end \notin st.odd
        BY <4>2 DEF Part
      <4> QED
        BY <4>1, <4>2
    <3>2. st.s = s
      BY DEF Regular
    <3> QED
      BY <2>2, <3>1, <3>2 DEF Share
  <2> QED
    BY <2>1, <2>2
<1>7. ASSUME NEW y \in 0 .. N - 1, NEW x \in 0 .. c - 1, x % 2 = 1, y + s = Spot(p, s, x)
      PROVE  Part(h, st, y + s, y) = Quot(Detail(r, x), 4) /\ Quot(Detail(r, x), 4) \in Int
  <2>1. y + s \in st.odd
    <3>1. Spot(p, s, x) \in st.odd <=> x % 2 = 1
      BY RegularOdd
    <3> QED
      BY <1>7, <3>1
  <2>2. st.s = s /\ st.right[y + s] = (y + s) + s
    BY <2>1 DEF Regular
  <2>3. Times(st, y + s, y) = 1
    <3>1. (y + s) - s = y /\ (y + s) + s # y
      OBVIOUS
    <3> QED
      BY <2>2, <3>1 DEF Times
  <2>4. h[y + s] = Detail(r, x) /\ h[y + s] \in Int
    BY <1>3, <1>7, SpotsFit
  <2>5. Quot(h[y + s], 4) \in Int
    <3>1. 4 \in Nat \ {0}
      OBVIOUS
    <3> QED
      BY <2>4, <3>1, QuotInt
  <2>6. Part(h, st, y + s, y) = 1 * Quot(h[y + s], 4)
    BY <2>1, <2>3 DEF Part
  <2> QED
    BY <2>4, <2>5, <2>6
<1>8. ASSUME NEW y \in 0 .. N - 1, NEW x \in 0 .. c - 1, x % 2 = 1, y - s = Spot(p, s, x)
      PROVE  Part(h, st, y - s, y) = Quot(Detail(r, x), 4) /\ Quot(Detail(r, x), 4) \in Int
  <2>1. y - s \in st.odd
    <3>1. Spot(p, s, x) \in st.odd <=> x % 2 = 1
      BY RegularOdd
    <3> QED
      BY <1>8, <3>1
  <2>2. st.s = s /\ st.right[y - s] = (y - s) + s
    BY <2>1 DEF Regular
  <2>3. Times(st, y - s, y) = 1
    <3>1. (y - s) - s # y /\ (y - s) + s = y
      OBVIOUS
    <3> QED
      BY <2>2, <3>1 DEF Times
  <2>4. h[y - s] = Detail(r, x) /\ h[y - s] \in Int
    BY <1>3, <1>8, SpotsFit
  <2>5. Quot(h[y - s], 4) \in Int
    <3>1. 4 \in Nat \ {0}
      OBVIOUS
    <3> QED
      BY <2>4, <3>1, QuotInt
  <2>6. Part(h, st, y - s, y) = 1 * Quot(h[y - s], 4)
    BY <2>1, <2>3 DEF Part
  <2> QED
    BY <2>4, <2>5, <2>6
<1>9. ASSUME NEW y \in 0 .. N - 1, NEW x \in 0 .. c - 1, x % 2 # 1, y = Spot(p, s, x)
      PROVE  /\ Part(h, st, y - s, y) = FromLeft(r, x) /\ FromLeft(r, x) \in Int
             /\ Part(h, st, y + s, y) = FromRight(r, c, x) /\ FromRight(r, c, x) \in Int
  <2>1. y - s = Spot(p, s, x - 1) /\ y + s = Spot(p, s, x + 1)
    <3>1. p \in Int /\ x \in Int
      OBVIOUS
    <3> QED
      BY <1>9, <3>1, SpotSteps
  <2>2. x \in Nat /\ x % 2 = 0
    BY <1>9
  <2>3. ASSUME x = 0
        PROVE  Part(h, st, y - s, y) = FromLeft(r, x) /\ FromLeft(r, x) \in Int
    <3>1. y - s \notin st.odd
      <4>1. SUFFICES ASSUME NEW w \in 1 .. c - 2, y - s = Spot(p, s, w) PROVE FALSE
        BY DEF Regular
      <4>2. p \in Int /\ x - 1 \in Int /\ w \in Int
        OBVIOUS
      <4>3. x - 1 = w
        BY <2>1, <4>1, <4>2, SpotsDiffer
      <4> QED
        BY <2>3, <4>3
    <3>2. Part(h, st, y - s, y) = 0
      BY <3>1 DEF Part
    <3> QED
      BY <2>3, <3>2 DEF FromLeft
  <2>4. ASSUME x # 0
        PROVE  Part(h, st, y - s, y) = FromLeft(r, x) /\ FromLeft(r, x) \in Int
    <3>1. PICK w \in 0 .. c - 1 : w = x - 1 /\ w % 2 = 1
      <4>1. x - 1 \in 0 .. c - 1 /\ (x - 1) % 2 = 1
        BY <2>2, <2>4, Parity
      <4> QED
        BY <4>1
    <3>2. Part(h, st, y - s, y) = Quot(Detail(r, w), 4) /\ Quot(Detail(r, w), 4) \in Int
      BY <1>8, <2>1, <3>1
    <3>3. FromLeft(r, x) = Quot(Detail(r, w), 4)
      BY <2>4, <3>1 DEF FromLeft
    <3> QED
      BY <3>2, <3>3
  <2>5. ASSUME x = c - 1
        PROVE  Part(h, st, y + s, y) = FromRight(r, c, x) /\ FromRight(r, c, x) \in Int
    <3>1. y + s \notin st.odd
      <4>1. SUFFICES ASSUME NEW w \in 1 .. c - 2, y + s = Spot(p, s, w) PROVE FALSE
        BY DEF Regular
      <4>2. p \in Int /\ x + 1 \in Int /\ w \in Int
        OBVIOUS
      <4>3. x + 1 = w
        BY <2>1, <4>1, <4>2, SpotsDiffer
      <4> QED
        BY <2>5, <4>3
    <3>2. Part(h, st, y + s, y) = 0
      BY <3>1 DEF Part
    <3> QED
      BY <2>5, <3>2 DEF FromRight
  <2>6. ASSUME x # c - 1
        PROVE  Part(h, st, y + s, y) = FromRight(r, c, x) /\ FromRight(r, c, x) \in Int
    <3>1. PICK w \in 0 .. c - 1 : w = x + 1 /\ w % 2 = 1
      <4>1. x + 1 \in 0 .. c - 1 /\ (x + 1) % 2 = 1
        BY <2>2, <2>6, Parity
      <4> QED
        BY <4>1
    <3>2. Part(h, st, y + s, y) = Quot(Detail(r, w), 4) /\ Quot(Detail(r, w), 4) \in Int
      BY <1>7, <2>1, <3>1
    <3>3. FromRight(r, c, x) = Quot(Detail(r, w), 4)
      BY <2>6, <3>1 DEF FromRight
    <3> QED
      BY <3>2, <3>3
  <2> QED
    BY <2>3, <2>4, <2>5, <2>6
<1>10. ASSUME NEW x \in 0 .. c - 1
       PROVE  /\ u[Spot(p, s, x)] = LiftedAt(r, c, x)
              /\ u[Spot(p, s, x)] \in Int
  <2>1. PICK y \in 0 .. N - 1 : y = Spot(p, s, x)
    BY SpotsFit
  <2>2. CASE x % 2 = 1
    <3>1. u[y] = h[y]
      BY <1>5, <2>1, <2>2, RegularOdd
    <3> QED
      BY <1>3, <2>1, <2>2, <3>1 DEF LiftedAt
  <2>3. CASE x % 2 # 1
    <3>1. u[y] = h[y] + 1 * Share(h, st, y)
      BY <1>5, <2>1, <2>3, RegularOdd
    <3>2. h[y] = f[y] /\ f[y] = r[x]
      BY <1>2, <1>3, <2>1, <2>3 DEF Strided
    <3>3. PICK a \in Int, b \in Int : /\ a = FromLeft(r, x) /\ b = FromRight(r, c, x)
                                      /\ a = Part(h, st, y - s, y) /\ b = Part(h, st, y + s, y)
      BY <1>9, <2>1, <2>3
    <3>4. Share(h, st, y) = a + b + 0
      BY <1>6, <3>3
    <3>5. PICK z \in Int : z = f[y]
      OBVIOUS
    <3>6. u[y] = z + (a + b)
      BY <3>1, <3>2, <3>4, <3>5
    <3>7. LiftedAt(r, c, x) = z + (a + b)
      BY <2>3, <3>2, <3>3, <3>5 DEF LiftedAt
    <3> QED
      BY <2>1, <3>6, <3>7
  <2> QED
    BY <2>2, <2>3
<1>11. ASSUME NEW y \in 0 .. N - 1, \A x \in 0 .. c - 1 : y # Spot(p, s, x)
       PROVE  u[y] = f[y]
  <2>1. ASSUME NEW x \in 1 .. c - 2
        PROVE  y # Spot(p, s, x) /\ y # Spot(p, s, x) + s /\ y # Spot(p, s, x) - s
    <3>1. x \in 0 .. c - 1 /\ x + 1 \in 0 .. c - 1 /\ x - 1 \in 0 .. c - 1 /\ p \in Int /\ x \in Int
      OBVIOUS
    <3>2. Spot(p, s, x) + s = Spot(p, s, x + 1) /\ Spot(p, s, x) - s = Spot(p, s, x - 1)
      BY <3>1, SpotSteps
    <3> QED
      BY <1>11, <3>1, <3>2
  <2>2. y \notin st.odd
    BY <2>1 DEF Regular
  <2>3. y - s \notin st.odd /\ y + s \notin st.odd
    <3>1. ASSUME NEW x \in 1 .. c - 2
          PROVE  y - s # Spot(p, s, x) /\ y + s # Spot(p, s, x)
      <4>1. PICK a \in Int : a = Spot(p, s, x)
        <5>1. p \in Int /\ x \in Int
          OBVIOUS
        <5> QED
          BY <5>1, SpotSteps
      <4>2. y # a + s /\ y # a - s
        BY <2>1, <4>1
      <4>3. y \in Int /\ s \in Int
        OBVIOUS
      <4>4. y - s # a /\ y + s # a
        BY <4>2, <4>3, Moved
      <4> QED
        BY <4>1, <4>4
    <3> QED
      BY <3>1 DEF Regular
  <2>4. Part(h, st, y - s, y) = 0 /\ Part(h, st, y + s, y) = 0
    BY <2>3 DEF Part
  <2>5. Share(h, st, y) = 0
    BY <1>6, <2>4
  <2>6. u[y] = h[y] + 1 * 0
    BY <1>5, <2>2, <2>5
  <2>7. h[y] = f[y] /\ f[y] \in Int
    BY <1>4, <2>2
  <2> QED
    BY <2>6, <2>7
<1>12. u \in [0 .. N - 1 -> Int]
  <2>1. ASSUME NEW y \in 0 .. N - 1
        PROVE  u[y] \in Int
    BY <1>10, <1>11
  <2> QED
    BY <1>5, <2>1
<1> QED
  BY <1>2, <1>10, <1>11, <1>12 DEF Lifts

\* The stencil of such a row in place.
LEMMA InPlaceStencil ==
    ASSUME NEW p \in Nat, NEW s \in Nat \ {0}, NEW c \in Nat, c % 2 = 1, c > 1,
           NEW m \in Int, Spot(p, s, c - 1) <= m, NEW st, st = InPlace(p, c, s, m)
    PROVE  /\ EndsOf(p, c, s, m).last = Spot(p, s, c - 1)
           /\ EndsOf(p, c, s, m).second = Spot(p, s, c - 2)
           /\ Regular(st, p, s, c)
<1>2. PICK e : e = EndsOf(p, c, s, m)
  OBVIOUS
<1>3. PICK a \in Int : a = s * (c - 1) /\ a = (c - 1) * s /\ p + a <= m
  <2>1. s * (c - 1) = (c - 1) * s /\ s * (c - 1) \in Int
    OBVIOUS
  <2> QED
    BY <2>1 DEF Spot
<1>4. e.last = Spot(p, s, c - 1) /\ e.second = p + s * (c - 2)
  BY <1>2, <1>3 DEF EndsOf, MinOf, Spot
<1>5. e.second = Spot(p, s, c - 2)
  <2>1. s * (c - 2) = (c - 2) * s
    OBVIOUS
  <2> QED
    BY <1>4, <2>1 DEF Spot
<1>6. PICK odd : odd = {p + s * k : k \in {j \in 1 .. c - 2 : j % 2 = 1}}
  OBVIOUS
<1>7. /\ st.odd = odd /\ st.s = s
      /\ \A x \in odd : st.right[x] = IF x = e.second THEN e.last ELSE x + s
  <2>1. st = [odd |-> odd, s |-> s, end |-> e.second,
              right |-> [x \in odd |-> IF x = e.second THEN e.last ELSE x + s]]
    BY <1>2, <1>6 DEF InPlace
  <2> QED
    BY <2>1
<1>8. ASSUME NEW y
      PROVE  y \in odd <=> \E x \in 1 .. c - 2 : x % 2 = 1 /\ y = Spot(p, s, x)
  <2>1. \A k \in 1 .. c - 2 : p + s * k = Spot(p, s, k)
    <3>1. \A k \in 1 .. c - 2 : s * k = k * s
      OBVIOUS
    <3> QED
      BY <3>1 DEF Spot
  <2> QED
    BY <1>6, <2>1
<1>9. ASSUME NEW y \in odd
      PROVE  st.right[y] = y + s
  <2>1. CASE y = e.second
    <3>1. p \in Int /\ c - 2 \in Int /\ (c - 2) + 1 = c - 1
      OBVIOUS
    <3>2. Spot(p, s, c - 2) + s = Spot(p, s, c - 1)
      BY <3>1, SpotSteps
    <3> QED
      BY <1>4, <1>5, <1>7, <2>1, <3>2
  <2>2. CASE y # e.second
    BY <1>7, <2>2
  <2> QED
    BY <2>1, <2>2
<1>10. Regular(st, p, s, c)
  BY <1>7, <1>8, <1>9 DEF Regular
<1> QED
  BY <1>2, <1>4, <1>5, <1>10

\* FLift in place, on an odd number of samples.
LEMMA InPlaceRow ==
    ASSUME NEW p \in Nat, NEW s \in Nat \ {0}, NEW c \in Nat, c % 2 = 1, c > 1,
           NEW N \in Nat, Spot(p, s, c - 1) < N, NEW m \in Int, Spot(p, s, c - 1) <= m,
           NEW f \in [0 .. N - 1 -> Int]
    PROVE  /\ FLift(f, p, c, s, m, "Normal") \in [0 .. N - 1 -> Int]
           /\ Lifts(FLift(f, p, c, s, m, "Normal"), f, p, s, c)
<1>1. PICK st : st = InPlace(p, c, s, m)
  OBVIOUS
<1>2. Regular(st, p, s, c)
  BY <1>1, InPlaceStencil
<1>3. FLift(f, p, c, s, m, "Normal") = Update(Predict(f, st, -1), st, 1)
  <2>1. ~Extrapolates(c)
    BY DEF Extrapolates
  <2>2. "Normal" # "PartialUpdateLast"
    OBVIOUS
  <2> QED
    BY <1>1, <2>1, <2>2 DEF FLift
<1>4. PICK u : u = Update(Predict(f, st, -1), st, 1)
  OBVIOUS
<1>5. u \in [0 .. N - 1 -> Int] /\ Lifts(u, f, p, s, c)
  BY <1>2, <1>4, RegularLift
<1> QED
  BY <1>3, <1>4, <1>5

\* Where Split puts sample x, h being the number of even ones.
HalfPlace(h, x) == IF x % 2 = 0 THEN x \div 2 ELSE h + x \div 2

\* u is f, its first c samples lifted and split.
LiftsOld(u, f, c) ==
    /\ \A x \in 0 .. c - 1 :
          u[HalfPlace((c + 1) \div 2, x)] = LiftedAt(Strided(f, 0, 1, c), c, x)
    /\ \A y \in DOMAIN f : y >= c => u[y] = f[y]

\* FLiftOld does the same and moves the halves apart.
LEMMA OldRow ==
    ASSUME NEW c \in Nat, c % 2 = 1, c > 1, NEW N \in Nat, c <= N,
           NEW f \in [0 .. N - 1 -> Int]
    PROVE  LiftsOld(FLiftOld(f, c), f, c)
<1>1. PICK st : st = Mirrored(c)
  OBVIOUS
<1>2. PICK odd : odd = {x \in 1 .. c - 1 : x % 2 = 1}
  OBVIOUS
<1>3. /\ st.odd = odd /\ st.s = 1
      /\ \A x \in odd : st.right[x] = IF x < c - 1 THEN x + 1 ELSE x - 1
  <2>1. st = [odd |-> odd, s |-> 1, end |-> c - 1,
              right |-> [x \in odd |-> IF x < c - 1 THEN x + 1 ELSE x - 1]]
    BY <1>1, <1>2 DEF Mirrored
  <2> QED
    BY <2>1
<1>4. \A x \in Int : Spot(0, 1, x) = x
  BY DEF Spot
<1>5. \A x \in odd : x \in 1 .. c - 2
  <2>1. (c - 1) % 2 = 0
    OBVIOUS
  <2>2. \A x \in odd : x # c - 1
    <3>1. ASSUME NEW x \in odd
          PROVE  x # c - 1
      <4>1. x % 2 = 1
        BY <1>2
      <4> QED
        BY <2>1, <4>1
    <3> QED
      BY <3>1
  <2> QED
    BY <1>2, <2>2
<1>6. Regular(st, 0, 1, c)
  <2>1. ASSUME NEW y
        PROVE  y \in odd <=> \E x \in 1 .. c - 2 : x % 2 = 1 /\ y = Spot(0, 1, x)
    BY <1>2, <1>4, <1>5
  <2>2. \A y \in odd : st.right[y] = y + 1
    BY <1>3, <1>5
  <2> QED
    BY <1>3, <2>1, <2>2 DEF Regular
<1>7. PICK u : u = Update(Predict(f, st, -1), st, 1)
  OBVIOUS
<1>8. u \in [0 .. N - 1 -> Int] /\ Lifts(u, f, 0, 1, c)
  <2>1. 0 \in Nat /\ 1 \in Nat \ {0} /\ Spot(0, 1, c - 1) < N
    BY <1>4
  <2> QED
    BY <1>6, <1>7, <2>1, RegularLift
<1>9. PICK h \in Nat : h = (c + 1) \div 2 /\ c = 2 * h - 1
  OBVIOUS
<1>10. FLiftOld(f, c) = [x \in 0 .. N - 1 |-> IF x < h THEN u[2 * x]
                           ELSE IF x < c THEN u[2 * (x - h) + 1] ELSE u[x]]
  BY <1>1, <1>7, <1>8, <1>9 DEF FLiftOld, Split
<1>11. ASSUME NEW x \in 0 .. c - 1
       PROVE  FLiftOld(f, c)[HalfPlace(h, x)] = u[x]
  <2>1. CASE x % 2 = 0
    <3>1. PICK y \in 0 .. N - 1 : y = x \div 2 /\ x = 2 * y /\ y < h
      BY <1>9, <2>1
    <3>2. HalfPlace(h, x) = y
      BY <2>1, <3>1 DEF HalfPlace
    <3> QED
      BY <1>10, <3>1, <3>2
  <2>2. CASE x % 2 = 1
    <3>1. PICK z \in Nat : z = x \div 2 /\ x = 2 * z + 1
      BY <2>2
    <3>2. PICK y \in 0 .. N - 1 : y = h + z /\ y - h = z /\ ~(y < h) /\ y < c
      BY <1>9, <3>1
    <3>3. HalfPlace(h, x) = y
      BY <2>2, <3>1, <3>2 DEF HalfPlace
    <3>4. FLiftOld(f, c)[y] = u[2 * (y - h) + 1]
      BY <1>10, <3>2
    <3> QED
      BY <3>1, <3>2, <3>3, <3>4
  <2> QED
    BY <2>1, <2>2
<1>12. ASSUME NEW y \in DOMAIN f, y >= c
       PROVE  FLiftOld(f, c)[y] = f[y]
  <2>1. y \in 0 .. N - 1 /\ ~(y < h) /\ ~(y < c)
    BY <1>9, <1>12
  <2>2. u[y] = f[y]
    <3>1. \A x \in 0 .. c - 1 : y # Spot(0, 1, x)
      BY <1>4, <1>12
    <3> QED
      BY <1>8, <3>1 DEF Lifts
  <2> QED
    BY <1>10, <2>1, <2>2
<1>13. ASSUME NEW x \in 0 .. c - 1
       PROVE  u[x] = LiftedAt(Strided(f, 0, 1, c), c, x)
  <2>1. u[Spot(0, 1, x)] = LiftedAt(Strided(f, 0, 1, c), c, x)
    BY <1>8 DEF Lifts
  <2>2. Spot(0, 1, x) = x
    BY <1>4
  <2> QED
    BY <2>1, <2>2
<1> QED
  BY <1>9, <1>11, <1>12, <1>13 DEF LiftsOld

-----------------------------------------------------------------------------
(* A row in two parts that share a sample.                                 *)

\* The halves and the quarters that are exact add up.
LEMMA QuotSum ==
    ASSUME NEW x \in Int, NEW y \in Int
    PROVE  /\ x % 2 = 0 /\ y % 2 = 0 => Quot(x + y, 2) = Quot(x, 2) + Quot(y, 2)
           /\ x % 4 = 0 /\ y % 4 = 0 => Quot(x + y, 4) = Quot(x, 4) + Quot(y, 4)
<1>1. ASSUME x % 2 = 0, y % 2 = 0
      PROVE  Quot(x + y, 2) = Quot(x, 2) + Quot(y, 2)
  BY <1>1 DEF Quot
<1>2. ASSUME x % 4 = 0, y % 4 = 0
      PROVE  Quot(x + y, 4) = Quot(x, 4) + Quot(y, 4)
  BY <1>2 DEF Quot
<1> QED
  BY <1>1, <1>2

LEMMA QuotExact ==
    ASSUME NEW x \in Int
    PROVE  /\ Quot(x, 2) \in Int /\ Quot(x, 4) \in Int
           /\ x % 64 = 0 => Quot(x, 2) % 32 = 0
           /\ x % 32 = 0 => Quot(x, 4) % 8 = 0
           /\ x % 8 = 0 => Quot(x, 2) % 4 = 0
<1>1. ASSUME x % 64 = 0 PROVE Quot(x, 2) % 32 = 0
  BY <1>1 DEF Quot
<1>2. ASSUME x % 32 = 0 PROVE Quot(x, 4) % 8 = 0
  BY <1>2 DEF Quot
<1>3. ASSUME x % 8 = 0 PROVE Quot(x, 2) % 4 = 0
  BY <1>3 DEF Quot
<1>4. Quot(x, 2) \in Int /\ Quot(x, 4) \in Int
  BY DEF Quot
<1> QED
  BY <1>1, <1>2, <1>3, <1>4

\* Every sample of a row is a multiple of k.
AllMultiples(r, c, k) == \A x \in 0 .. c - 1 : r[x] \in Int /\ r[x] % k = 0

LEMMA DetailExact ==
    ASSUME NEW c \in Nat, NEW r, NEW x \in 1 .. c - 2
    PROVE  /\ AllMultiples(r, c, 64) => Detail(r, x) \in Int /\ Detail(r, x) % 32 = 0
           /\ AllMultiples(r, c, 8) => Detail(r, x) \in Int /\ Detail(r, x) % 4 = 0
<1>1. PICK a, b, d : a = r[x - 1] /\ b = r[x] /\ d = r[x + 1]
  OBVIOUS
<1>2. x - 1 \in 0 .. c - 1 /\ x \in 0 .. c - 1 /\ x + 1 \in 0 .. c - 1
  OBVIOUS
<1>3. ASSUME AllMultiples(r, c, 64)
      PROVE  Detail(r, x) \in Int /\ Detail(r, x) % 32 = 0
  <2>1. a \in Int /\ b \in Int /\ d \in Int /\ a % 64 = 0 /\ b % 64 = 0 /\ d % 64 = 0
    BY <1>1, <1>2, <1>3 DEF AllMultiples
  <2>2. PICK h, k : h = Quot(a, 2) /\ k = Quot(d, 2)
    OBVIOUS
  <2>3. h \in Int /\ k \in Int /\ h % 32 = 0 /\ k % 32 = 0
    BY <2>1, <2>2, QuotExact
  <2>4. Detail(r, x) = b - h - k
    BY <1>1, <2>1, <2>2, <2>3 DEF Detail
  <2> QED
    BY <2>1, <2>3, <2>4
<1>4. ASSUME AllMultiples(r, c, 8)
      PROVE  Detail(r, x) \in Int /\ Detail(r, x) % 4 = 0
  <2>1. a \in Int /\ b \in Int /\ d \in Int /\ a % 8 = 0 /\ b % 8 = 0 /\ d % 8 = 0
    BY <1>1, <1>2, <1>4 DEF AllMultiples
  <2>2. PICK h, k : h = Quot(a, 2) /\ k = Quot(d, 2)
    OBVIOUS
  <2>3. h \in Int /\ k \in Int /\ h % 4 = 0 /\ k % 4 = 0
    BY <2>1, <2>2, QuotExact
  <2>4. Detail(r, x) = b - h - k
    BY <1>1, <2>1, <2>2, <2>3 DEF Detail
  <2> QED
    BY <2>1, <2>3, <2>4
<1> QED
  BY <1>3, <1>4

\* The neighbours of an even sample, where it has them.
LEMMA EvenInside ==
    ASSUME NEW c \in Nat, c % 2 = 1, NEW x \in 0 .. c - 1
    PROVE  /\ x % 2 = 1 => x \in 1 .. c - 2
           /\ x % 2 = 0 /\ x # 0 => x - 1 \in 1 .. c - 2 /\ (x - 1) % 2 = 1
           /\ x % 2 = 0 /\ x # c - 1 => x + 1 \in 1 .. c - 2 /\ (x + 1) % 2 = 1
OBVIOUS

\* What is lifted from multiples of 64 are multiples of 8.
LEMMA LiftedExact ==
    ASSUME NEW c \in Nat, c % 2 = 1, NEW r, AllMultiples(r, c, 64), NEW x \in 0 .. c - 1
    PROVE  /\ LiftedAt(r, c, x) \in Int /\ LiftedAt(r, c, x) % 8 = 0
           /\ x % 2 = 0 => /\ FromLeft(r, x) \in Int /\ FromLeft(r, x) % 8 = 0
                            /\ FromRight(r, c, x) \in Int
<1>1. \A y \in 1 .. c - 2 : Detail(r, y) \in Int /\ Detail(r, y) % 32 = 0
  BY DetailExact
<1>2. \A y \in 1 .. c - 2 : Quot(Detail(r, y), 4) \in Int /\ Quot(Detail(r, y), 4) % 8 = 0
  BY <1>1, QuotExact
<1>3. CASE x % 2 = 1
  <2>1. x \in 1 .. c - 2
    BY <1>3, EvenInside
  <2>2. PICK d : d = Detail(r, x) /\ d \in Int /\ d % 32 = 0
    BY <1>1, <2>1
  <2>3. d % 8 = 0
    BY <2>2
  <2> QED
    BY <1>3, <2>2, <2>3 DEF LiftedAt
<1>4. CASE x % 2 = 0
  <2>1. PICK a, b, d : a = FromLeft(r, x) /\ b = FromRight(r, c, x) /\ d = r[x]
    OBVIOUS
  <2>2. a \in Int /\ a % 8 = 0
    BY <1>2, <1>4, <2>1, EvenInside DEF FromLeft
  <2>3. b \in Int /\ b % 8 = 0
    BY <1>2, <1>4, <2>1, EvenInside DEF FromRight
  <2>4. d \in Int /\ d % 8 = 0
    <3>1. d \in Int /\ d % 64 = 0
      BY <2>1 DEF AllMultiples
    <3> QED
      BY <3>1
  <2>5. LiftedAt(r, c, x) = d + (a + b)
    BY <1>4, <2>1 DEF LiftedAt
  <2>6. d + (a + b) \in Int /\ (d + (a + b)) % 8 = 0
    BY <2>2, <2>3, <2>4
  <2> QED
    BY <2>1, <2>2, <2>3, <2>5, <2>6
<1> QED
  BY <1>3, <1>4

\* Lifting adds up where the halves and the quarters are exact.
LEMMA LiftedSum ==
    ASSUME NEW c \in Nat, c % 2 = 1, NEW l, AllMultiples(l, c, 8), NEW u,
           AllMultiples(u, c, 8), NEW w, \A x \in 0 .. c - 1 : w[x] = l[x] + u[x],
           NEW x \in 0 .. c - 1
    PROVE  LiftedAt(w, c, x) = LiftedAt(l, c, x) + LiftedAt(u, c, x)
<1>1. ASSUME NEW y \in 1 .. c - 2
      PROVE  /\ Detail(w, y) = Detail(l, y) + Detail(u, y)
             /\ Detail(l, y) \in Int /\ Detail(l, y) % 4 = 0
             /\ Detail(u, y) \in Int /\ Detail(u, y) % 4 = 0
  <2>1. y - 1 \in 0 .. c - 1 /\ y \in 0 .. c - 1 /\ y + 1 \in 0 .. c - 1
    OBVIOUS
  <2>2. PICK a, b, d, e, f, g : /\ a = l[y - 1] /\ b = l[y] /\ d = l[y + 1]
                                /\ e = u[y - 1] /\ f = u[y] /\ g = u[y + 1]
    OBVIOUS
  <2>3. /\ a \in Int /\ b \in Int /\ d \in Int /\ a % 8 = 0 /\ d % 8 = 0
        /\ e \in Int /\ f \in Int /\ g \in Int /\ e % 8 = 0 /\ g % 8 = 0
    BY <2>1, <2>2 DEF AllMultiples
  <2>4. w[y - 1] = a + e /\ w[y] = b + f /\ w[y + 1] = d + g
    BY <2>1, <2>2
  <2>5. a % 2 = 0 /\ d % 2 = 0 /\ e % 2 = 0 /\ g % 2 = 0
    BY <2>3
  <2>6. Quot(a + e, 2) = Quot(a, 2) + Quot(e, 2) /\ Quot(d + g, 2) = Quot(d, 2) + Quot(g, 2)
    BY <2>3, <2>5, QuotSum
  <2>7. PICK i \in Int, j \in Int, k \in Int, m \in Int :
           i = Quot(a, 2) /\ j = Quot(e, 2) /\ k = Quot(d, 2) /\ m = Quot(g, 2)
    BY <2>3, QuotExact
  <2>8. Detail(w, y) = Detail(l, y) + Detail(u, y)
    <3>1. Detail(w, y) = (b + f) + (-1) * ((i + j) + (k + m))
      BY <2>4, <2>6, <2>7 DEF Detail
    <3>2. Detail(l, y) = b + (-1) * (i + k) /\ Detail(u, y) = f + (-1) * (j + m)
      BY <2>2, <2>7 DEF Detail
    <3> QED
      BY <2>3, <2>7, <3>1, <3>2
  <2> QED
    BY <2>8, DetailExact
<1>2. ASSUME NEW y \in 1 .. c - 2
      PROVE  /\ Quot(Detail(w, y), 4) = Quot(Detail(l, y), 4) + Quot(Detail(u, y), 4)
             /\ Quot(Detail(l, y), 4) \in Int /\ Quot(Detail(u, y), 4) \in Int
  <2>1. PICK a \in Int, b \in Int : /\ a = Detail(l, y) /\ b = Detail(u, y) /\ Detail(w, y) = a + b
                                    /\ a % 4 = 0 /\ b % 4 = 0
    BY <1>1
  <2>2. Quot(a + b, 4) = Quot(a, 4) + Quot(b, 4)
    BY <2>1, QuotSum
  <2>3. Quot(a, 4) \in Int /\ Quot(b, 4) \in Int
    BY QuotExact
  <2> QED
    BY <2>1, <2>2, <2>3
<1>3. CASE x % 2 = 1
  BY <1>1, <1>3, EvenInside DEF LiftedAt
<1>4. CASE x % 2 = 0
  <2>1. PICK a, b, d, e : a = FromLeft(l, x) /\ b = FromLeft(u, x) /\ d = FromRight(l, c, x)
                          /\ e = FromRight(u, c, x)
    OBVIOUS
  <2>2. a \in Int /\ b \in Int /\ FromLeft(w, x) = a + b
    BY <1>2, <1>4, <2>1, EvenInside DEF FromLeft
  <2>3. d \in Int /\ e \in Int /\ FromRight(w, c, x) = d + e
    BY <1>2, <1>4, <2>1, EvenInside DEF FromRight
  <2>4. PICK i \in Int, j \in Int : i = l[x] /\ j = u[x] /\ w[x] = i + j
    BY DEF AllMultiples
  <2>5. /\ LiftedAt(w, c, x) = (i + j) + ((a + b) + (d + e))
        /\ LiftedAt(l, c, x) = i + (a + d) /\ LiftedAt(u, c, x) = j + (b + e)
    BY <1>4, <2>1, <2>2, <2>3, <2>4 DEF LiftedAt
  <2> QED
    BY <2>2, <2>3, <2>4, <2>5
<1> QED
  BY <1>3, <1>4

\* A row r of c samples, and its parts l and u, which have sample k in common.
PartsOf(r, c, k, l, u) ==
    /\ \A x \in 0 .. k : l[x] = r[x]
    /\ \A x \in 0 .. c - 1 - k : u[x] = r[x + k]

\* What the parts are lifted to, the last sample of l without its own value.
LiftedParts(r, c, k, l, u) ==
    /\ \A x \in 0 .. k - 1 : LiftedAt(l, k + 1, x) = LiftedAt(r, c, x)
    /\ \A x \in k + 1 .. c - 1 : LiftedAt(u, c - k, x - k) = LiftedAt(r, c, x)
    /\ FromLeft(l, k) = FromLeft(r, k)
    /\ LiftedAt(u, c - k, 0) = r[k] + (0 + FromRight(r, c, k))

LEMMA TwoParts ==
    ASSUME NEW c \in Nat, c % 2 = 1, NEW k \in 1 .. c - 2, k % 2 = 0, NEW r, NEW l, NEW u,
           PartsOf(r, c, k, l, u)
    PROVE  LiftedParts(r, c, k, l, u)
<1>0. /\ \A x \in 0 .. k : l[x] = r[x]
      /\ \A x \in 0 .. c - 1 - k : u[x] = r[x + k]
  BY DEF PartsOf
<1>1. ASSUME NEW x \in 1 .. k - 1
      PROVE  Detail(l, x) = Detail(r, x)
  <2>1. x - 1 \in 0 .. k /\ x \in 0 .. k /\ x + 1 \in 0 .. k
    OBVIOUS
  <2>2. l[x - 1] = r[x - 1] /\ l[x] = r[x] /\ l[x + 1] = r[x + 1]
    BY <1>0, <2>1
  <2> QED
    BY <2>2 DEF Detail
<1>2. ASSUME NEW x \in k + 1 .. c - 2
      PROVE  Detail(u, x - k) = Detail(r, x)
  <2>1. PICK y : y = x - k /\ y \in 1 .. c - 2 - k /\ y + k = x
    OBVIOUS
  <2>2. /\ y - 1 \in 0 .. c - 1 - k /\ y \in 0 .. c - 1 - k /\ y + 1 \in 0 .. c - 1 - k
        /\ (y - 1) + k = x - 1 /\ (y + 1) + k = x + 1
    BY <2>1
  <2>3. u[y - 1] = r[x - 1] /\ u[y] = r[x] /\ u[y + 1] = r[x + 1]
    BY <1>0, <2>1, <2>2
  <2> QED
    BY <2>1, <2>3 DEF Detail
<1>3. ASSUME NEW x \in 0 .. k - 1
      PROVE  LiftedAt(l, k + 1, x) = LiftedAt(r, c, x)
  <2>1. CASE x % 2 = 1
    <3>1. x \in 1 .. k - 1
      BY <2>1
    <3> QED
      BY <1>1, <2>1, <3>1 DEF LiftedAt
  <2>2. CASE x % 2 = 0
    <3>1. x + 1 \in 1 .. k - 1 /\ (x # 0 => x - 1 \in 1 .. k - 1)
      BY <2>2
    <3>2. (k + 1) - 1 = k /\ x # k /\ x # c - 1
      OBVIOUS
    <3>3. FromRight(l, k + 1, x) = FromRight(r, c, x)
      BY <1>1, <3>1, <3>2 DEF FromRight
    <3>4. FromLeft(l, x) = FromLeft(r, x)
      BY <1>1, <3>1 DEF FromLeft
    <3>5. l[x] = r[x]
      BY <1>0
    <3>6. x % 2 # 1
      BY <2>2
    <3> QED
      BY <3>3, <3>4, <3>5, <3>6 DEF LiftedAt
  <2> QED
    BY <2>1, <2>2
<1>4. FromLeft(l, k) = FromLeft(r, k)
  <2>1. k - 1 \in 1 .. k - 1
    OBVIOUS
  <2> QED
    BY <1>1, <2>1 DEF FromLeft
<1>5. ASSUME NEW x \in k .. c - 1, x % 2 = 0
      PROVE  FromRight(u, c - k, x - k) = FromRight(r, c, x)
  <2>1. x - k = (c - k) - 1 <=> x = c - 1
    OBVIOUS
  <2>2. CASE x = c - 1
    BY <2>1, <2>2 DEF FromRight
  <2>3. CASE x # c - 1
    <3>1. x + 1 \in k + 1 .. c - 2 /\ (x + 1) - k = (x - k) + 1
      BY <1>5, <2>3
    <3> QED
      BY <1>2, <2>1, <2>3, <3>1 DEF FromRight
  <2> QED
    BY <2>2, <2>3
<1>6. ASSUME NEW x \in k + 1 .. c - 1
      PROVE  LiftedAt(u, c - k, x - k) = LiftedAt(r, c, x)
  <2>1. (x - k) % 2 = x % 2
    OBVIOUS
  <2>2. CASE x % 2 = 1
    <3>1. x \in k + 1 .. c - 2
      BY <2>2
    <3> QED
      BY <1>2, <2>1, <2>2, <3>1 DEF LiftedAt
  <2>3. CASE x % 2 = 0
    <3>1. x - 1 \in k + 1 .. c - 2 /\ (x - 1) - k = (x - k) - 1 /\ x - k # 0 /\ x # 0
      BY <2>3
    <3>2. FromLeft(u, x - k) = FromLeft(r, x)
      BY <1>2, <3>1 DEF FromLeft
    <3>3. FromRight(u, c - k, x - k) = FromRight(r, c, x)
      BY <1>5, <2>3
    <3>4. PICK y : y = x - k /\ y \in 0 .. c - 1 - k /\ y + k = x
      OBVIOUS
    <3>5. u[x - k] = r[x]
      BY <1>0, <3>4
    <3>6. x % 2 # 1 /\ (x - k) % 2 # 1
      BY <2>1, <2>3
    <3> QED
      BY <3>2, <3>3, <3>5, <3>6 DEF LiftedAt
  <2> QED
    BY <2>2, <2>3
<1>7. LiftedAt(u, c - k, 0) = r[k] + (0 + FromRight(r, c, k))
  <2>1. k \in k .. c - 1 /\ k - k = 0 /\ 0 + k = k /\ 0 \in 0 .. c - 1 - k
    OBVIOUS
  <2>2. u[0] = r[k]
    BY <1>0, <2>1
  <2>3. FromRight(u, c - k, 0) = FromRight(r, c, k)
    BY <1>5, <2>1
  <2>4. FromLeft(u, 0) = 0 /\ 0 % 2 # 1
    BY DEF FromLeft
  <2> QED
    BY <2>2, <2>3, <2>4 DEF LiftedAt
<1> QED
  BY <1>3, <1>4, <1>6, <1>7 DEF LiftedParts

\* The shared sample, the last one of the lower part, is not added to.
PartlyLifted(f, p, s, c, N, m) ==
    \A y \in 0 .. N - 1 :
        /\ FLift(f, p, c, s, m, "PartialUpdateLast")[y] \in Int
        /\ FLift(f, p, c, s, m, "PartialUpdateLast")[y]
             = IF y = Spot(p, s, c - 1) THEN FromLeft(Strided(f, p, s, c), c - 1)
               ELSE FLift(f, p, c, s, m, "Normal")[y]

LEMMA PartialRow ==
    ASSUME NEW p \in Nat, NEW s \in Nat \ {0}, NEW c \in Nat, c % 2 = 1, c > 1,
           NEW N \in Nat, Spot(p, s, c - 1) < N, NEW m \in Int, Spot(p, s, c - 1) <= m,
           NEW f \in [0 .. N - 1 -> Int]
    PROVE  PartlyLifted(f, p, s, c, N, m)
<1>0. PICK u, w : /\ u = FLift(f, p, c, s, m, "Normal")
                  /\ w = FLift(f, p, c, s, m, "PartialUpdateLast")
  OBVIOUS
<1>1. PICK st : st = InPlace(p, c, s, m)
  OBVIOUS
<1>2. PICK e : e = EndsOf(p, c, s, m)
  OBVIOUS
<1>3. e.last = Spot(p, s, c - 1) /\ e.second = Spot(p, s, c - 2) /\ Regular(st, p, s, c)
  BY <1>1, <1>2, InPlaceStencil
<1>4. PICK h : h = Predict(f, st, -1)
  OBVIOUS
<1>5. ~Extrapolates(c) /\ "Normal" # "PartialUpdateLast"
  BY DEF Extrapolates
<1>6. u = Update(h, st, 1)
  BY <1>0, <1>1, <1>4, <1>5 DEF FLift
<1>7. w = [u EXCEPT ![e.last] = Quot(h[e.second], 4)]
  BY <1>0, <1>1, <1>2, <1>4, <1>5, <1>6 DEF FLift
<1>8. u \in [0 .. N - 1 -> Int]
  BY <1>0, InPlaceRow
<1>9. h[e.second] = Detail(Strided(f, p, s, c), c - 2)
  <2>1. Predicted(h, f, st, p, s, c)
    BY <1>3, <1>4, RegularPredict
  <2>2. c - 2 \in 0 .. c - 1 /\ (c - 2) % 2 = 1
    OBVIOUS
  <2> QED
    BY <1>3, <2>1, <2>2 DEF Predicted
<1>10. FromLeft(Strided(f, p, s, c), c - 1) = Quot(h[e.second], 4)
  <2>1. c - 1 # 0 /\ (c - 1) - 1 = c - 2
    OBVIOUS
  <2> QED
    BY <1>9, <2>1 DEF FromLeft
<1>11. Quot(h[e.second], 4) \in Int
  <2>1. h \in [0 .. N - 1 -> Int]
    BY <1>3, <1>4, RegularPredict
  <2>2. c - 2 \in 0 .. c - 1
    OBVIOUS
  <2>3. Spot(p, s, c - 2) \in 0 .. N - 1
    BY <2>2, SpotsFit
  <2> QED
    BY <1>3, <2>1, <2>3, QuotExact
<1>12. ASSUME NEW y \in 0 .. N - 1
       PROVE  /\ w[y] \in Int
              /\ w[y] = IF y = Spot(p, s, c - 1) THEN FromLeft(Strided(f, p, s, c), c - 1) ELSE u[y]
  <2>1. u[y] \in Int
    BY <1>8
  <2>2. w[y] = IF y = Spot(p, s, c - 1) THEN Quot(h[e.second], 4) ELSE u[y]
    BY <1>3, <1>7, <1>8
  <2> QED
    BY <1>10, <1>11, <2>1, <2>2
<1> QED
  BY <1>0, <1>12 DEF PartlyLifted

-----------------------------------------------------------------------------
(* A pass in place over a grid, position by position.                      *)

Triple(p) == p = <<p[1], p[2], p[3]>>
Put(q, a, x) == [q EXCEPT ![a] = x]

LEMMA Replaced ==
    ASSUME NEW q, Triple(q), NEW a \in Axes, NEW x
    PROVE  /\ Triple(Put(q, a, x))
           /\ \A i \in Axes : Put(q, a, x)[i] = IF i = a THEN x ELSE q[i]
<1>1. PICK q1, q2, q3 : q = <<q1, q2, q3>>
  BY DEF Triple
<1>2. CASE a = 1
  BY <1>1, <1>2 DEF Triple, Put, Axes
<1>3. CASE a = 2
  BY <1>1, <1>3 DEF Triple, Put, Axes
<1>4. CASE a = 3
  BY <1>1, <1>4 DEF Triple, Put, Axes
<1> QED
  BY <1>2, <1>3, <1>4 DEF Axes

LEMMA SameTriple ==
    ASSUME NEW p, Triple(p), NEW q, Triple(q), \A i \in Axes : p[i] = q[i]
    PROVE  p = q
BY DEF Triple, Axes

LEMMA InBox ==
    ASSUME NEW n, NEW p
    PROVE  p \in Box(n) <=> (Triple(p) /\ \A i \in Axes : p[i] \in 0 .. n[i] - 1)
<1>1. p \in Box(n) => Triple(p) /\ \A i \in Axes : p[i] \in 0 .. n[i] - 1
  BY DEF Box, Triple, Axes
<1>2. ASSUME Triple(p), \A i \in Axes : p[i] \in 0 .. n[i] - 1
      PROVE  p \in Box(n)
  BY <1>2 DEF Box, Triple, Axes
<1> QED
  BY <1>1, <1>2

\* The position of a grid with the numbers j.
SpotAt(g, j) == Each(LAMBDA i : Spot(g.from[i], g.strd[i], j[i]))

\* Of a row of the grid, along axis a.
Along(v, n, g, a, j) ==
    [x \in 0 .. g.dims[a] - 1 |-> v[Row(n, SpotAt(g, Put(j, a, x)))]]

\* The grid is in the volume, and has an odd number of samples along axis a.
GridFits(g, n, a) ==
    /\ \A i \in Axes :
          /\ n[i] \in Nat \ {0} /\ g.from[i] \in Nat /\ g.dims[i] \in Nat \ {0} /\ g.strd[i] \in Int
          /\ g.dims[i] > 1 => g.strd[i] \in Nat \ {0}
          /\ Spot(g.from[i], g.strd[i], g.dims[i] - 1) < n[i]
    /\ g.dims[a] % 2 = 1

LiftedOver(w, v, n, a, g) ==
    /\ w \in [Indices(n) -> Int]
    /\ \A j \in Box(g.dims) :
          w[Row(n, SpotAt(g, j))] = LiftedAt(Along(v, n, g, a, j), g.dims[a], j[a])
    /\ \A p \in Box(n) : (\A j \in Box(g.dims) : p # SpotAt(g, j)) => w[Row(n, p)] = v[Row(n, p)]

LEMMA SpotAxis ==
    ASSUME NEW g, NEW j
    PROVE  /\ Triple(SpotAt(g, j))
           /\ \A i \in Axes : SpotAt(g, j)[i] = Spot(g.from[i], g.strd[i], j[i])
BY DEF SpotAt, Each, Triple, Axes

LEMMA SpotInside ==
    ASSUME NEW n, NEW a \in Axes, NEW g, GridFits(g, n, a), NEW j \in Box(g.dims)
    PROVE  SpotAt(g, j) \in Box(n)
<1>1. ASSUME NEW i \in Axes
      PROVE  Spot(g.from[i], g.strd[i], j[i]) \in 0 .. n[i] - 1
  <2>1. PICK f \in Nat, d \in Nat \ {0}, s \in Int, m \in Nat \ {0} :
           /\ f = g.from[i] /\ d = g.dims[i] /\ s = g.strd[i] /\ m = n[i]
           /\ (d > 1 => s \in Nat \ {0}) /\ Spot(f, s, d - 1) < m
    BY DEF GridFits
  <2>2. j[i] \in 0 .. d - 1
    BY <2>1, InBox
  <2>3. CASE d > 1
    BY <2>1, <2>2, <2>3, SpotsFit
  <2>4. CASE d = 1
    <3>1. j[i] = 0 /\ 0 * s = 0 /\ d - 1 = 0
      BY <2>2, <2>4
    <3>2. Spot(f, s, 0) = f
      BY <3>1 DEF Spot
    <3> QED
      BY <2>1, <3>1, <3>2
  <2> QED
    BY <2>1, <2>3, <2>4
<1> QED
  BY <1>1, SpotAxis, InBox

\* Two positions of a row are as far along it as their numbers say.
LEMMA SpotAlong ==
    ASSUME NEW g, NEW j, Triple(j), NEW a \in Axes, NEW x
    PROVE  SpotAt(g, Put(j, a, x))
             = Put(SpotAt(g, j), a, Spot(g.from[a], g.strd[a], x))
<1>1. PICK p, q, y : /\ p = SpotAt(g, Put(j, a, x)) /\ q = SpotAt(g, j)
                     /\ y = Spot(g.from[a], g.strd[a], x)
  OBVIOUS
<1>2. Triple(p) /\ Triple(q) /\ Triple(Put(q, a, y))
  BY <1>1, SpotAxis, Replaced
<1>3. ASSUME NEW i \in Axes
      PROVE  p[i] = Put(q, a, y)[i]
  <2>1. p[i] = Spot(g.from[i], g.strd[i], Put(j, a, x)[i])
    BY <1>1, SpotAxis
  <2>2. q[i] = Spot(g.from[i], g.strd[i], j[i])
    BY <1>1, SpotAxis
  <2>3. PICK k : k = Put(j, a, x) /\ \A b \in Axes : k[b] = IF b = a THEN x ELSE j[b]
    BY Replaced
  <2>4. \A b \in Axes : Put(q, a, y)[b] = IF b = a THEN y ELSE q[b]
    BY <1>2, Replaced
  <2> QED
    BY <1>1, <2>1, <2>2, <2>3, <2>4
<1> QED
  BY <1>1, <1>2, <1>3, SameTriple

\* Where ForwardCdf53 starts the row of p.
LEMMA StartAxis ==
    ASSUME NEW m, NEW a, NEW p
    PROVE  /\ Triple(StartAt(m, a, p))
           /\ \A i \in Axes : StartAt(m, a, p)[i] = IF i = a THEN 0 ELSE MinOf(p[i], m[i])
BY DEF StartAt, Triple, Each, Axes

LEMMA StartIs ==
    ASSUME NEW n, \A i \in Axes : n[i] \in Nat, NEW a \in Axes, NEW p \in Box(n)
    PROVE  StartAt(n, a, p) = Put(p, a, 0)
<1>1. Triple(p) /\ \A i \in Axes : p[i] \in 0 .. n[i] - 1
  BY InBox
<1>2. PICK e : /\ e = Put(p, a, 0) /\ Triple(e)
               /\ \A i \in Axes : e[i] = IF i = a THEN 0 ELSE p[i]
  BY <1>1, Replaced
<1>3. PICK d : /\ d = StartAt(n, a, p) /\ Triple(d)
               /\ \A i \in Axes : d[i] = IF i = a THEN 0 ELSE MinOf(p[i], n[i])
  BY StartAxis
<1>4. ASSUME NEW i \in Axes
      PROVE  MinOf(p[i], n[i]) = p[i]
  BY <1>1 DEF MinOf
<1>5. ASSUME NEW i \in Axes
      PROVE  d[i] = e[i]
  BY <1>2, <1>3, <1>4
<1>6. d = e
  BY <1>2, <1>3, <1>5, SameTriple
<1> QED
  BY <1>2, <1>3, <1>6

\* What ForwardCdf53 starts a row at.
LEMMA StartsAre ==
    ASSUME NEW n, NEW a \in Axes, NEW g, GridFits(g, n, a), NEW q
    PROVE  q \in RowStarts(g, n, a) <=> \E j \in Box(g.dims) : q = Put(SpotAt(g, j), a, 0)
<1>1. ASSUME NEW j \in Box(g.dims)
      PROVE  StartAt(n, a, SpotAt(g, j)) = Put(SpotAt(g, j), a, 0)
  <2>1. SpotAt(g, j) \in Box(n)
    BY SpotInside
  <2>2. \A i \in Axes : n[i] \in Nat
    BY DEF GridFits
  <2> QED
    BY <2>1, <2>2, StartIs
<1>2. q \in RowStarts(g, n, a) <=> \E p \in Points(g) : q = StartAt(n, a, p)
  BY DEF RowStarts, StartAt
<1>3. ASSUME NEW p
      PROVE  p \in Points(g) <=> \E j \in Box(g.dims) : p = SpotAt(g, j)
  BY DEF Points, SpotAt, Spot, Box
<1> QED
  BY <1>1, <1>2, <1>3

\* What a pass in place makes of the volume.
InPlaceRows(v, n, a, g, m, opt) ==
    [i \in DOMAIN v |->
        IF StartOf(n, a, i) \in RowStarts(g, m, a)
        THEN FLift(RowOf(v, n, a, StartOf(n, a, i)), g.from[a], g.dims[a], g.strd[a],
                   m[a], opt)[Position(n, i)[a]]
        ELSE v[i]]

LEMMA PutAgain ==
    ASSUME NEW p, Triple(p), NEW a \in Axes, NEW x, NEW y
    PROVE  Put(Put(p, a, x), a, y) = Put(p, a, y) /\ Put(p, a, p[a]) = p
<1>1. PICK q, e, d, u : q = Put(p, a, x) /\ e = Put(q, a, y) /\ d = Put(p, a, y) /\ u = Put(p, a, p[a])
  OBVIOUS
<1>2. Triple(q) /\ \A i \in Axes : q[i] = IF i = a THEN x ELSE p[i]
  BY <1>1, Replaced
<1>3. Triple(e) /\ \A i \in Axes : e[i] = IF i = a THEN y ELSE q[i]
  BY <1>1, <1>2, Replaced
<1>4. Triple(d) /\ \A i \in Axes : d[i] = IF i = a THEN y ELSE p[i]
  BY <1>1, Replaced
<1>5. Triple(u) /\ \A i \in Axes : u[i] = IF i = a THEN p[a] ELSE p[i]
  BY <1>1, Replaced
<1>6. e = d
  BY <1>2, <1>3, <1>4, SameTriple
<1>7. u = p
  BY <1>5, SameTriple
<1> QED
  BY <1>1, <1>6, <1>7

\* A pass lifts a row of a grid that fits once: no position is behind the end.
LEMMA VisitedOnce ==
    ASSUME NEW n, NEW a \in Axes, NEW g, GridFits(g, n, a), NEW q \in RowStarts(g, n, a)
    PROVE  Visits(g, n, a, q) = 1
<1> DEFINE at == {p \in Points(g) : p[a] = g.from[a] /\ StartAt(n, a, p) = q}
<1>1. ASSUME NEW p
      PROVE  p \in Points(g) <=> \E j \in Box(g.dims) : p = SpotAt(g, j)
  BY DEF Points, SpotAt, Spot, Box
<1>2. ASSUME NEW p \in Points(g)
      PROVE  p \in Box(n) /\ Triple(p) /\ StartAt(n, a, p) = Put(p, a, 0)
  <2>1. p \in Box(n)
    BY <1>1, SpotInside
  <2>2. \A i \in Axes : n[i] \in Nat
    BY DEF GridFits
  <2> QED
    BY <2>1, <2>2, InBox, StartIs
<1>3. PICK j \in Box(g.dims) : q = Put(SpotAt(g, j), a, 0)
  BY StartsAre
<1>4. PICK e : /\ e = SpotAt(g, Put(j, a, 0)) /\ e = Put(SpotAt(g, j), a, g.from[a])
               /\ Put(j, a, 0) \in Box(g.dims)
  <2>1. Triple(j) /\ \A i \in Axes : j[i] \in 0 .. g.dims[i] - 1
    BY InBox
  <2>2. g.dims[a] \in Nat \ {0} /\ g.from[a] \in Nat /\ g.strd[a] \in Int
    BY DEF GridFits
  <2>3. Spot(g.from[a], g.strd[a], 0) = g.from[a]
    BY <2>2 DEF Spot
  <2>4. PICK k : k = Put(j, a, 0) /\ Triple(k) /\ \A i \in Axes : k[i] = IF i = a THEN 0 ELSE j[i]
    BY <2>1, Replaced
  <2>5. \A i \in Axes : k[i] \in 0 .. g.dims[i] - 1
    BY <2>1, <2>2, <2>4
  <2>6. k \in Box(g.dims)
    BY <2>4, <2>5, InBox
  <2> QED
    BY <2>1, <2>3, <2>4, <2>6, SpotAlong
<1>5. Triple(SpotAt(g, j))
  BY SpotAxis
<1>6. e \in Points(g) /\ e[a] = g.from[a] /\ Put(e, a, 0) = q
  <2>1. e \in Points(g)
    BY <1>1, <1>4
  <2>2. e[a] = g.from[a]
    BY <1>4, <1>5, Replaced
  <2>3. Put(e, a, 0) = q
    BY <1>3, <1>4, <1>5, PutAgain
  <2> QED
    BY <2>1, <2>2, <2>3
<1>7. ASSUME NEW p \in at
      PROVE  p = e
  <2>1. Triple(p) /\ p[a] = g.from[a] /\ Put(p, a, 0) = q
    BY <1>2
  <2>2. Triple(e)
    BY <1>2, <1>6
  <2>3. p = Put(q, a, g.from[a])
    BY <2>1, PutAgain
  <2>4. e = Put(q, a, g.from[a])
    BY <1>6, <2>2, PutAgain
  <2> QED
    BY <2>3, <2>4
<1>8. at = {e}
  <2>1. e \in at
    BY <1>2, <1>6
  <2> QED
    BY <1>7, <2>1
<1>9. Cardinality({e}) = 1
  BY FS_Singleton
<1> QED
  BY <1>8, <1>9 DEF Visits

LEMMA InPlaceIs ==
    ASSUME NEW n, NEW a \in Axes, NEW g, GridFits(g, n, a), g.dims[a] # 1, NEW v, NEW opt
    PROVE  ForwardInPlace(v, n, a, g, n, opt) = InPlaceRows(v, n, a, g, n, opt)
<1> DEFINE Lift(f) == FLift(f, g.from[a], g.dims[a], g.strd[a], n[a], opt)
           Is(r, f, k) == r = [i \in 0 .. k |-> IF i = 0 THEN f ELSE Lift(r[i - 1])]
           times(f, k) == (CHOOSE r : Is(r, f, k))[k]
           rows == [q \in RowStarts(g, n, a) |->
                      times(RowOf(v, n, a, q), Visits(g, n, a, q))]
<1>1. ForwardInPlace(v, n, a, g, n, opt) =
        [i \in DOMAIN v |-> IF StartOf(n, a, i) \in RowStarts(g, n, a)
                            THEN rows[StartOf(n, a, i)][Position(n, i)[a]] ELSE v[i]]
  BY DEF ForwardInPlace, OnRows, RowOf, StartOf, Repeated
<1>2. ASSUME NEW f
      PROVE  times(f, 1) = Lift(f)
  <2>1. PICK l : l = Lift(f)
    OBVIOUS
  <2>2. PICK s : s = [i \in 0 .. 1 |-> IF i = 0 THEN f ELSE l]
    OBVIOUS
  <2>3. s = [i \in 0 .. 1 |-> IF i = 0 THEN f ELSE Lift(s[i - 1])]
    <3>1. s[0] = f
      BY <2>2
    <3>2. ASSUME NEW i \in 0 .. 1
          PROVE  (IF i = 0 THEN f ELSE l) = IF i = 0 THEN f ELSE Lift(s[i - 1])
      <4>1. i = 0 \/ (i = 1 /\ i - 1 = 0 /\ ~ (i = 0))
        OBVIOUS
      <4> QED
        BY <2>1, <3>1, <4>1
    <3> QED
      BY <2>2, <3>2
  <2>4. Is(s, f, 1)
    BY <2>3
  <2>5. PICK r : r = (CHOOSE u : Is(u, f, 1)) /\ Is(r, f, 1)
    <3> HIDE DEF Is
    <3> QED
      BY <2>4
  <2>6. r[0] = f /\ r[1] = Lift(r[0])
    <3>1. 0 \in 0 .. 1 /\ 1 \in 0 .. 1 /\ 1 - 1 = 0 /\ ~ (1 = 0)
      OBVIOUS
    <3> QED
      BY <2>5, <3>1
  <2> QED
    BY <2>5, <2>6
<1>3. \A q \in RowStarts(g, n, a) : rows[q] = Lift(RowOf(v, n, a, q))
  <2> SUFFICES ASSUME NEW q \in RowStarts(g, n, a)
               PROVE  rows[q] = Lift(RowOf(v, n, a, q))
    OBVIOUS
  <2>1. Visits(g, n, a, q) = 1
    BY VisitedOnce
  <2>2. rows[q] = times(RowOf(v, n, a, q), Visits(g, n, a, q))
    OBVIOUS
  <2> HIDE DEF times, rows, Lift
  <2> QED
    BY <1>2, <2>1, <2>2
<1> HIDE DEF rows
<1> QED
  BY <1>1, <1>3 DEF InPlaceRows

LEMMA PutInBox ==
    ASSUME NEW n, NEW p, p \in Box(n), NEW a \in Axes, NEW x, x \in 0 .. n[a] - 1
    PROVE  Put(p, a, x) \in Box(n)
<1>1. PICK q : q = Put(p, a, x)
  OBVIOUS
<1>2. Triple(p) /\ \A i \in Axes : p[i] \in 0 .. n[i] - 1
  BY InBox
<1>3. Triple(q) /\ \A i \in Axes : q[i] = IF i = a THEN x ELSE p[i]
  BY <1>1, <1>2, Replaced
<1>4. q \in Box(n)
  BY <1>2, <1>3, InBox
<1> QED
  BY <1>1, <1>4

\* The row through p.
LEMMA RowThrough ==
    ASSUME NEW n \in Sizes, NEW a \in Axes, NEW p \in Box(n), NEW v \in [Indices(n) -> Int],
           NEW r, r = RowOf(v, n, a, Put(p, a, 0))
    PROVE  /\ r \in [0 .. n[a] - 1 -> Int]
           /\ \A x \in 0 .. n[a] - 1 : r[x] = v[Row(n, Put(p, a, x))]
<1>1. ASSUME NEW x \in 0 .. n[a] - 1
      PROVE  /\ v[Row(n, [Put(p, a, 0) EXCEPT ![a] = x])] = v[Row(n, Put(p, a, x))]
             /\ v[Row(n, Put(p, a, x))] \in Int
  <2>1. Put(p, a, x) \in Box(n)
    BY PutInBox
  <2>2. Row(n, Put(p, a, x)) \in Indices(n)
    BY <2>1, RowAt
  <2>3. Triple(p)
    BY InBox
  <2>4. Put(Put(p, a, 0), a, x) = Put(p, a, x)
    BY <2>3, PutAgain
  <2>5. [Put(p, a, 0) EXCEPT ![a] = x] = Put(p, a, x)
    BY <2>4 DEF Put
  <2> QED
    BY <2>2, <2>5
<1>2. r = [x \in 0 .. n[a] - 1 |-> v[Row(n, [Put(p, a, 0) EXCEPT ![a] = x])]]
  BY DEF RowOf
<1> QED
  BY <1>1, <1>2

LEMMA OneSample ==
    ASSUME NEW n \in Sizes, NEW a \in Axes, NEW g, GridFits(g, n, a), g.dims[a] = 1,
           NEW v \in [Indices(n) -> Int]
    PROVE  LiftedOver(v, v, n, a, g)
<1>1. ASSUME NEW j \in Box(g.dims)
      PROVE  v[Row(n, SpotAt(g, j))] = LiftedAt(Along(v, n, g, a, j), g.dims[a], j[a])
  <2>1. SpotAt(g, j) \in Box(n)
    BY SpotInside
  <2>2. PICK y \in Int : y = v[Row(n, SpotAt(g, j))]
    BY <2>1, RowAt
  <2>3. Triple(j) /\ j[a] \in 0 .. g.dims[a] - 1
    BY InBox
  <2>4. j[a] = 0
    BY <2>3
  <2>5. Put(j, a, 0) = j
    BY <2>3, <2>4, PutAgain
  <2>6. PICK r : r = Along(v, n, g, a, j)
    OBVIOUS
  <2>7. r[0] = y
    BY <2>2, <2>5, <2>6 DEF Along
  <2>8. FromLeft(r, 0) = 0 /\ FromRight(r, 1, 0) = 0
    BY DEF FromLeft, FromRight
  <2>9. LiftedAt(r, 1, 0) = y + (0 + 0)
    BY <2>7, <2>8 DEF LiftedAt
  <2> QED
    BY <2>2, <2>4, <2>6, <2>9
<1> QED
  BY <1>1 DEF LiftedOver

LEMMA PassInPlace ==
    ASSUME NEW n \in Sizes, NEW a \in Axes, NEW g, GridFits(g, n, a),
           NEW v \in [Indices(n) -> Int]
    PROVE  LiftedOver(ForwardInPlace(v, n, a, g, n, "Normal"), v, n, a, g)
<1>1. CASE g.dims[a] = 1
  <2>1. ForwardInPlace(v, n, a, g, n, "Normal") = v
    BY <1>1 DEF ForwardInPlace
  <2> QED
    BY <1>1, <2>1, OneSample
<1>2. CASE g.dims[a] # 1
  <2>1. PICK p \in Nat, c \in Nat \ {0}, s \in Nat \ {0}, N \in Nat \ {0} :
           /\ p = g.from[a] /\ c = g.dims[a] /\ s = g.strd[a] /\ N = n[a]
           /\ c % 2 = 1 /\ c > 1 /\ Spot(p, s, c - 1) < N
    BY <1>2 DEF GridFits
  <2> DEFINE FL(q) == FLift(RowOf(v, n, a, q), p, c, s, N, "Normal")
  <2>2. PICK w : w = ForwardInPlace(v, n, a, g, n, "Normal")
    OBVIOUS
  <2>3. w = [i \in Indices(n) |->
               IF StartOf(n, a, i) \in RowStarts(g, n, a)
               THEN FL(StartOf(n, a, i))[Position(n, i)[a]] ELSE v[i]]
    <3>1. ForwardInPlace(v, n, a, g, n, "Normal") = InPlaceRows(v, n, a, g, n, "Normal")
      BY <1>2, InPlaceIs
    <3>2. DOMAIN v = Indices(n)
      OBVIOUS
    <3> QED
      BY <2>1, <2>2, <3>1, <3>2 DEF InPlaceRows
  <2>4. ASSUME NEW e \in Box(n)
        PROVE  /\ FL(Put(e, a, 0)) \in [0 .. N - 1 -> Int]
               /\ Lifts(FL(Put(e, a, 0)), RowOf(v, n, a, Put(e, a, 0)), p, s, c)
    <3>1. PICK r \in [0 .. N - 1 -> Int] : r = RowOf(v, n, a, Put(e, a, 0))
      BY <2>1, RowThrough
    <3>2. Spot(p, s, c - 1) \in Int /\ N \in Int
      <4>1. p \in Int /\ c - 1 \in Int
        BY <2>1
      <4> QED
        BY <4>1, SpotSteps
    <3>3. Spot(p, s, c - 1) <= N
      BY <2>1, <3>2
    <3>4. /\ FLift(r, p, c, s, N, "Normal") \in [0 .. N - 1 -> Int]
          /\ Lifts(FLift(r, p, c, s, N, "Normal"), r, p, s, c)
      BY <2>1, <3>2, <3>3, InPlaceRow
    <3> QED
      BY <3>1, <3>4
  <2> HIDE DEF FL
  <2>5. ASSUME NEW e \in Box(n)
        PROVE  /\ Row(n, e) \in Indices(n) /\ e[a] \in 0 .. N - 1
               /\ w[Row(n, e)] = IF Put(e, a, 0) \in RowStarts(g, n, a)
                                 THEN FL(Put(e, a, 0))[e[a]] ELSE v[Row(n, e)]
    <3>1. Row(n, e) \in Indices(n) /\ Position(n, Row(n, e)) = e
      BY RowAt
    <3>2. StartOf(n, a, Row(n, e)) = Put(e, a, 0)
      BY <3>1 DEF StartOf, Put
    <3>3. e[a] \in 0 .. N - 1
      BY <2>1, InBox
    <3> QED
      BY <2>3, <3>1, <3>2, <3>3
  <2>6. ASSUME NEW e \in Box(n)
        PROVE  w[Row(n, e)] \in Int
    BY <2>4, <2>5
  <2>7. w \in [Indices(n) -> Int]
    <3>1. ASSUME NEW i \in Indices(n)
          PROVE  w[i] \in Int
      <4>1. Position(n, i) \in Box(n) /\ Row(n, Position(n, i)) = i
        BY PositionAt
      <4> QED
        BY <2>6, <4>1
    <3> QED
      BY <2>3, <3>1
  <2>8. ASSUME NEW e \in Box(n)
        PROVE  Put(e, a, 0) \in RowStarts(g, n, a)
                 <=> \E j \in Box(g.dims) : Put(e, a, 0) = Put(SpotAt(g, j), a, 0)
    BY StartsAre
  <2>9. ASSUME NEW j \in Box(g.dims)
        PROVE  w[Row(n, SpotAt(g, j))] = LiftedAt(Along(v, n, g, a, j), c, j[a])
    <3>1. PICK e \in Box(n) : e = SpotAt(g, j)
      BY SpotInside
    <3>2. w[Row(n, e)] = FL(Put(e, a, 0))[e[a]]
      BY <2>5, <2>8, <3>1
    <3>3. e[a] = Spot(p, s, j[a])
      BY <2>1, <3>1, SpotAxis
    <3>4. Triple(j) /\ j[a] \in 0 .. c - 1
      BY <2>1, InBox
    <3>5. PICK r : r = RowOf(v, n, a, Put(e, a, 0))
      OBVIOUS
    <3>6. FL(Put(e, a, 0))[e[a]] = LiftedAt(Strided(r, p, s, c), c, j[a])
      BY <2>4, <3>3, <3>4, <3>5 DEF Lifts
    <3>7. ASSUME NEW x \in 0 .. c - 1
          PROVE  r[Spot(p, s, x)] = v[Row(n, SpotAt(g, Put(j, a, x)))]
      <4>1. Spot(p, s, x) \in 0 .. N - 1
        BY <2>1, SpotsFit
      <4>2. r[Spot(p, s, x)] = v[Row(n, Put(e, a, Spot(p, s, x)))]
        BY <2>1, <3>5, <4>1, RowThrough
      <4>3. SpotAt(g, Put(j, a, x)) = Put(e, a, Spot(p, s, x))
        BY <2>1, <3>1, <3>4, SpotAlong
      <4> QED
        BY <4>2, <4>3
    <3>8. Strided(r, p, s, c) = Along(v, n, g, a, j)
      BY <2>1, <3>7 DEF Strided, Along
    <3> QED
      BY <3>1, <3>2, <3>6, <3>8
  <2>10. ASSUME NEW e \in Box(n), \A j \in Box(g.dims) : e # SpotAt(g, j)
         PROVE  w[Row(n, e)] = v[Row(n, e)]
    <3>1. CASE Put(e, a, 0) \in RowStarts(g, n, a)
      <4>1. PICK j \in Box(g.dims) : Put(e, a, 0) = Put(SpotAt(g, j), a, 0)
        BY <2>8, <3>1
      <4>2. Triple(e) /\ Triple(j) /\ Triple(SpotAt(g, j))
        BY InBox, SpotAxis
      <4>3. ASSUME NEW x \in 0 .. c - 1, e[a] = Spot(p, s, x)
            PROVE  FALSE
        <5>1. Put(Put(e, a, 0), a, e[a]) = e
          BY <4>2, PutAgain
        <5>2. Put(Put(SpotAt(g, j), a, 0), a, e[a]) = Put(SpotAt(g, j), a, e[a])
          BY <4>2, PutAgain
        <5>3. SpotAt(g, Put(j, a, x)) = Put(SpotAt(g, j), a, e[a])
          BY <2>1, <4>2, <4>3, SpotAlong
        <5>4. Put(j, a, x) \in Box(g.dims)
          BY <2>1, PutInBox
        <5> QED
          BY <2>10, <4>1, <5>1, <5>2, <5>3, <5>4
      <4>4. PICK r \in [0 .. N - 1 -> Int] : r = RowOf(v, n, a, Put(e, a, 0))
        BY <2>1, RowThrough
      <4>5. FL(Put(e, a, 0))[e[a]] = r[e[a]]
        BY <2>4, <2>5, <4>3, <4>4 DEF Lifts
      <4>6. r[e[a]] = v[Row(n, Put(e, a, e[a]))]
        <5>1. e[a] \in 0 .. n[a] - 1
          BY <2>1, <2>5
        <5>2. \A x \in 0 .. n[a] - 1 : r[x] = v[Row(n, Put(e, a, x))]
          BY <4>4, RowThrough
        <5> QED
          BY <5>1, <5>2
      <4>7. Put(e, a, e[a]) = e
        BY <4>2, PutAgain
      <4> QED
        BY <2>5, <3>1, <4>5, <4>6, <4>7
    <3>2. CASE Put(e, a, 0) \notin RowStarts(g, n, a)
      BY <2>5, <3>2
    <3> QED
      BY <3>1, <3>2
  <2> QED
    BY <2>1, <2>2, <2>7, <2>9, <2>10 DEF LiftedOver
<1> QED
  BY <1>1, <1>2

=============================================================================
