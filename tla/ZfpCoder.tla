------------------------------ MODULE ZfpCoder ------------------------------
(***************************************************************************)
(* The resumable coder of one bit plane of one zfp block: Encode and       *)
(* Decode with the arguments N, M and In, src/src/mg_zfp.cpp:9-86.  Both    *)
(* stop when the chunk they work on is full and are called again, with the *)
(* same N, M and In, on the next chunk.                                     *)
(*                                                                         *)
(* The operators are the pieces of the two functions between two labels:   *)
(* each takes the local state of a call and returns it after that piece.   *)
(* A bit plane is the set of the coefficients whose bit is 1.               *)
(*                                                                         *)
(* A state of a call is a record with the fields                           *)
(*   pc    where the call is ("call" is its entry, "return" its end)        *)
(*   n     N, the coefficients known to be significant so far               *)
(*   m     M, the coefficients of this plane finished by earlier calls      *)
(*   p     P, those handled by this call: X has been shifted by p           *)
(*   in    In, 1 when the next call resumes at INNER_LOOP                   *)
(*   lb    Lb, the last group bit (1 at the entry)                          *)
(*   ci    the chunk the stream is on                                       *)
(*   fill  BitSize(Bs), the bits of that chunk already written or read     *)
(* and, for a decoder,                                                     *)
(*   x     the bits of X that are 1, as coefficients (M + position)         *)
(*   block the bits deposited in Block for this plane.                      *)
(*                                                                         *)
(* An operator named Wrong... is the one after it with a mistake: the       *)
(* properties are checked to fail when it takes that one's place.           *)
(***************************************************************************)
EXTENDS Integers

CONSTANT NC      \* coefficients of a block: 64 in the code

ASSUME NCAssumption == NC \in Nat \ {0}

Coefs == 0 .. NC - 1

PCs == {"call", "group", "inner", "after", "return", "done"}

CallState == [pc : PCs, n : Nat, m : Nat, p : Nat, in : {0, 1}, lb : {0, 1},
              ci : Nat, fill : Nat]

\* The state a plane starts in: N is known from the planes before, and the
\* stream may already hold bits of other blocks.
Entry(n, fill) == [pc |-> "call", n |-> n, m |-> 0, p |-> 0, in |-> 0,
                   lb |-> 1, ci |-> 0, fill |-> fill]

\* N starts again at 0 on every plane.
WrongDecEntry(n, fill) == [pc |-> "call", n |-> 0, m |-> 0, p |-> 0, in |-> 0,
                      lb |-> 1, ci |-> 0, fill |-> fill, x |-> {}, block |-> {}]

DecEntry(n, fill) == [pc |-> "call", n |-> n, m |-> 0, p |-> 0, in |-> 0,
                      lb |-> 1, ci |-> 0, fill |-> fill, x |-> {}, block |-> {}]

\* The part of a decoder's state an encoder has too.
Common(d) == [pc |-> d.pc, n |-> d.n, m |-> d.m, p |-> d.p, in |-> d.in,
              lb |-> d.lb, ci |-> d.ci, fill |-> d.fill]

Lesser(a, b) == IF a <= b THEN a ELSE b

\* The coefficient X & 1 stands for.
Cursor(e) == e.m + e.p

\* All the known-significant coefficients, fit or not.
WrongRefinement(cap, e) == e.n - e.m

\* P at the entry of a call: bits of known-significant coefficients that fit.
Refinement(cap, e) == Lesser(e.n - e.m, cap - e.fill)

\* The stream has room: BitSize(Bs) < S.
Room(cap, e) == e.fill < cap

-----------------------------------------------------------------------------
(* Encode.                                                                 *)

\* The cursor's own coefficient is not looked at.
WrongGroupBit(plane, e) == IF \E i \in plane : i > Cursor(e) THEN 1 ELSE 0

\* !!X: some coefficient from the cursor on has its bit set.
GroupBit(plane, e) == IF \E i \in plane : i >= Cursor(e) THEN 1 ELSE 0

\* X & 1.
CoefBit(plane, e) == IF Cursor(e) \in plane THEN 1 ELSE 0

EncCall(cap, e) ==
    [e EXCEPT !.p    = Refinement(cap, e),
              !.fill = @ + Refinement(cap, e),
              !.lb   = 1,
              !.pc   = IF e.in = 1 THEN "inner" ELSE "group"]

\* Whether the piece writes (reads) a bit before it goes on.
AtGroupBit(cap, e) == Room(cap, e) /\ e.n < NC
AtCoefBit(cap, e)  == Room(cap, e) /\ e.n < NC - 1

EncGroup(plane, cap, e) ==
    IF AtGroupBit(cap, e)
    THEN [e EXCEPT !.fill = @ + 1,
                   !.lb   = GroupBit(plane, e),
                   !.pc   = IF GroupBit(plane, e) = 1 THEN "inner" ELSE "return"]
    ELSE [e EXCEPT !.pc = "return"]

EncInner(plane, cap, e) ==
    IF AtCoefBit(cap, e)
    THEN IF CoefBit(plane, e) = 1
         THEN [e EXCEPT !.fill = @ + 1, !.pc = "after"]
         ELSE [e EXCEPT !.fill = @ + 1, !.n = @ + 1, !.p = @ + 1]
    ELSE [e EXCEPT !.pc = "after"]

\* After INNER_LOOP: leave and remember where, or step over the coefficient.
EncAfter(cap, e) ==
    IF Room(cap, e)
    THEN [e EXCEPT !.n = @ + 1, !.p = @ + 1, !.pc = "group"]
    ELSE [e EXCEPT !.in = 1, !.pc = "return"]

\* A zero group bit does not count.
WrongFull(e) == e.n = NC /\ Cursor(e) = e.n

\* The value returned, with M += P done.
Full(e) == (e.n = NC /\ Cursor(e) = e.n) \/ e.lb = 0

-----------------------------------------------------------------------------
(* Decode.  bit stands for what Read returns; bits, for ReadLong, is the   *)
(* set of the positions of its ones.                                        *)

DecCall(cap, d, bits) ==
    [d EXCEPT !.p    = Refinement(cap, d),
              !.fill = @ + Refinement(cap, d),
              !.x    = {d.m + i : i \in bits},
              !.lb   = 1,
              !.pc   = IF d.in = 1 THEN "inner" ELSE "group"]

DecGroup(cap, d, bit) ==
    IF Room(cap, d) /\ d.n < NC
    THEN [d EXCEPT !.fill = @ + 1,
                   !.lb   = bit,
                   !.pc   = IF bit = 1 THEN "inner" ELSE "return"]
    ELSE [d EXCEPT !.pc = "return"]

DecInner(cap, d, bit) ==
    IF Room(cap, d) /\ d.n < NC - 1
    THEN IF bit = 1
         THEN [d EXCEPT !.fill = @ + 1, !.pc = "after"]
         ELSE [d EXCEPT !.fill = @ + 1, !.n = @ + 1, !.p = @ + 1]
    ELSE [d EXCEPT !.pc = "after"]

\* In is not set.
WrongDecAfterIn(cap, d) ==
    IF Room(cap, d)
    THEN [d EXCEPT !.x = @ \union {Cursor(d)},
                   !.n = @ + 1, !.p = @ + 1, !.pc = "group"]
    ELSE [d EXCEPT !.pc = "return"]

\* The bit is added to X before it is known that the call goes on.
WrongDecAfterX(cap, d) ==
    IF Room(cap, d)
    THEN [d EXCEPT !.x = @ \union {Cursor(d)},
                   !.n = @ + 1, !.p = @ + 1, !.pc = "group"]
    ELSE [d EXCEPT !.x = @ \union {Cursor(d)}, !.in = 1, !.pc = "return"]

DecAfter(cap, d) ==
    IF Room(cap, d)
    THEN [d EXCEPT !.x = @ \union {Cursor(d)},
                   !.n = @ + 1, !.p = @ + 1, !.pc = "group"]
    ELSE [d EXCEPT !.in = 1, !.pc = "return"]

\* "deposit bit plane from x"
Deposit(d) == [d EXCEPT !.block = @ \union d.x, !.x = {}, !.m = Cursor(d), !.p = 0]
=============================================================================
