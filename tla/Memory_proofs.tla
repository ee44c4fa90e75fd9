--------------------------- MODULE Memory_proofs ---------------------------
(***************************************************************************)
(* Proofs about the allocators of Memory, for any number of clients, blocks *)
(* and bytes.  All four invariants are needed at once: a pointer is taken   *)
(* back correctly because it is backed (so that Own tells the truth about   *)
(* it) and because nobody else has it.                                      *)
(***************************************************************************)
EXTENDS Memory, SequenceTheorems, TLAPS

\* What a buffer says of where it came from.
Kind(b) ==
    /\ b.bytes > 0
    /\ b.via = "linear" => b.alloc = "linear" /\ b.data[1] = Stack
    /\ b.via = "malloc" => b.alloc = "malloc" /\ b.data[1] \in Blocks
    /\ b.via = "fallback" => b.alloc = IF b.data[1] = Stack THEN "linear" ELSE "malloc"
    /\ b.via = "freelist" => b.alloc = "freelist"

Kinds == \A c \in Clients : bufs[c] # None => Kind(bufs[c])

IInv == TypeOK /\ Kinds /\ LiveApart /\ LiveBacked /\ NoLeak /\ FreesItsOwn

-----------------------------------------------------------------------------
\* A client's buffer is a buffer, and no buffer is None.
LEMMA LiveBuffer ==
    ASSUME TypeOK, NEW c \in Clients, bufs[c] # None
    PROVE  bufs[c] \in Buffer
BY DEF TypeOK

LEMMA NotNone ==
    ASSUME NEW b \in Buffer
    PROVE  b # None
BY DEF Buffer, None, Allocators

\* Some bytes are set aside for every client.
LEMMA FootprintPositive ==
    ASSUME TypeOK, Kinds, NEW c \in Clients, bufs[c] # None
    PROVE  Footprint(c) \in Nat /\ Footprint(c) > 0
BY LiveBuffer, MemoryAssumption DEF Kinds, Kind, Footprint, Buffer

\* The fallback allocator tells right where a pointer with memory behind it
\* came from.
LEMMA OwnTellsRight ==
    ASSUME TypeOK, NEW p \in Pointers, NEW n \in Nat, n > 0, NEW k \in Nat, Backed(p, n)
    PROVE  GoesTo(p, k) = IF p[1] = Stack THEN "linear" ELSE "malloc"
BY DEF GoesTo, Own, Backed, Pointers, TypeOK

\* Two owners of some bytes each do not have the same block of malloc.
LEMMA OneOwner ==
    ASSUME TypeOK,
           NEW p \in Pointers, NEW m \in Nat, m > 0, Backed(p, m), p[1] \in Blocks,
           NEW q \in Pointers, NEW n \in Nat, n > 0, Backed(q, n),
           Apart(p, m, q, n)
    PROVE  p[1] # q[1]
BY MemoryAssumption DEF Backed, Apart, Pointers

-----------------------------------------------------------------------------
\* A client without a buffer is given m bytes of block b.
Granted(c, b, m, n, alloc, via) ==
    /\ bufs[c] = None
    /\ (b = Stack /\ cur + m <= Cap) \/ b \in MallocServes
    /\ Take(b, m) /\ Holds(c, DataIn(b), n, alloc, via)
    /\ UNCHANGED <<head, broken>>

LEMMA GrantKeeps ==
    ASSUME IInv, NEW c \in Clients, NEW b, NEW m \in Nat, NEW n \in Nat, n > 0, m > 0,
           NEW alloc \in Allocators, NEW via \in Allocators,
           Granted(c, b, m, n, alloc, via),
           m = IF via = "freelist" THEN MaxBytes ELSE n,
           Kind([data |-> DataIn(b), bytes |-> n, alloc |-> alloc, via |-> via])
    PROVE  IInv'
<1> DEFINE new == [data |-> DataIn(b), bytes |-> n, alloc |-> alloc, via |-> via]
<1>0. TypeOK /\ Kinds /\ LiveApart /\ LiveBacked /\ NoLeak /\ FreesItsOwn
  BY DEF IInv
<1>1. PICK q \in Pointers : /\ q = DataIn(b) /\ q[1] = b /\ b \in Blocks \cup {Stack}
                            /\ q[2] = IF b = Stack THEN cur ELSE 0
  <2>1. b \in Blocks \cup {Stack}
    BY DEF Granted, MallocServes
  <2>2. DataIn(b) \in Pointers
    BY <1>0, <2>1 DEF DataIn, Pointers, TypeOK
  <2>3. DataIn(b)[1] = b /\ DataIn(b)[2] = IF b = Stack THEN cur ELSE 0
    BY DEF DataIn
  <2> QED BY <2>1, <2>2, <2>3
<1>2. new \in Buffer /\ new # None
  BY <1>1, NotNone DEF Buffer
<1>3. /\ bufs' = [bufs EXCEPT ![c] = new]
      /\ head' = head /\ broken' = broken
      /\ cur' = IF b = Stack THEN cur + m ELSE cur
      /\ heap' = [x \in Blocks |-> IF x = b THEN m ELSE heap[x]]
  BY DEF Granted, Take, Holds
<1>4. bufs'[c] = new /\ bufs'[c].data = q /\ \A d \in Clients : d # c => bufs'[d] = bufs[d]
  BY <1>0, <1>1, <1>3 DEF TypeOK
<1>5. TypeOK'
  <2>1. cur' \in 0 .. Cap
    BY <1>0, <1>3, MemoryAssumption DEF TypeOK, Granted, MallocServes
  <2>2. heap' \in [Blocks -> Nat]
    BY <1>0, <1>3 DEF TypeOK
  <2>3. bufs' \in [Clients -> Buffer \cup {None}]
    BY <1>0, <1>2, <1>3 DEF TypeOK
  <2> QED BY <1>0, <1>3, <2>1, <2>2, <2>3 DEF TypeOK
<1>6. Kinds'
  BY <1>0, <1>4 DEF Kinds
<1>7. /\ \A p \in Pointers, k \in Nat : Backed(p, k) /\ k > 0 => Backed(p, k)'
      /\ Backed(q, m)'
  <2>1. ASSUME NEW p \in Pointers, NEW k \in Nat, k > 0, Backed(p, k)
        PROVE  Backed(p, k)'
    <3>1. CASE p[1] = Stack
      BY <2>1, <3>1, <1>0, <1>3 DEF Backed, TypeOK, Pointers
    <3>2. CASE p[1] # Stack
      <4>1. p[1] \in Blocks
        BY <3>2 DEF Pointers
      <4>2. heap[p[1]] > 0
        BY <2>1, <3>2, <4>1, <1>0 DEF Backed, TypeOK
      <4>3. p[1] # b
        BY <4>2, <3>2 DEF Granted, MallocServes
      <4> QED BY <2>1, <3>2, <4>1, <4>3, <1>3 DEF Backed
    <3> QED BY <3>1, <3>2
  <2>2. Backed(q, m)'
    <3>1. CASE b = Stack
      BY <3>1, <1>0, <1>1, <1>3 DEF Backed, TypeOK
    <3>2. CASE b # Stack
      BY <3>2, <1>0, <1>1, <1>3 DEF Backed, TypeOK
    <3> QED BY <3>1, <3>2
  <2> QED BY <2>1, <2>2
<1>8. /\ Footprint(c)' = m
      /\ \A d \in Clients : d # c => Footprint(d)' = Footprint(d)
  BY <1>4 DEF Footprint
<1>9. \A i \in DOMAIN head : head[i] \in Pointers /\ Backed(head[i], MaxBytes)
  BY <1>0 DEF TypeOK, LiveBacked
<1>10. LiveBacked'
  <2>1. ASSUME NEW d \in Clients, bufs'[d] # None
        PROVE  Backed(bufs[d].data, Footprint(d))'
    <3>1. CASE d = c
      BY <3>1, <1>4, <1>7, <1>8
    <3>2. CASE d # c
      <4>1. bufs[d] # None /\ bufs'[d] = bufs[d]
        BY <2>1, <3>2, <1>4
      <4>2. bufs[d].data \in Pointers
        BY <1>0, <4>1, LiveBuffer DEF Buffer
      <4> QED BY <1>0, <1>7, <1>8, <3>2, <4>1, <4>2, FootprintPositive DEF LiveBacked
    <3> QED BY <3>1, <3>2
  <2>2. \A i \in DOMAIN head' : Backed(head[i], MaxBytes)'
    BY <1>3, <1>7, <1>9, MemoryAssumption
  <2> QED BY <2>1, <2>2 DEF LiveBacked
<1>11. ASSUME NEW p \in Pointers, NEW k \in Nat, k > 0, Backed(p, k)
       PROVE  Apart(q, m, p, k) /\ Apart(p, k, q, m)
  <2>1. CASE b = Stack
    BY <1>0, <1>1, <1>11, <2>1 DEF Apart, Backed, Pointers, TypeOK
  <2>2. CASE b # Stack
    <3>1. b \in Blocks /\ heap[b] = 0
      BY <2>2 DEF Granted, MallocServes
    <3>2. p[1] # b
      BY <1>0, <1>11, <2>2, <3>1 DEF Backed, TypeOK
    <3> QED BY <3>2, <1>1 DEF Apart
  <2> QED BY <2>1, <2>2
<1>12. LiveApart'
  <2>1. ASSUME NEW d \in Clients, d # c, bufs[d] # None
        PROVE  /\ Apart(bufs[c].data, Footprint(c), bufs[d].data, Footprint(d))'
               /\ Apart(bufs[d].data, Footprint(d), bufs[c].data, Footprint(c))'
    <3>1. bufs[d].data \in Pointers
      BY <1>0, <2>1, LiveBuffer DEF Buffer
    <3>2. Backed(bufs[d].data, Footprint(d)) /\ Footprint(d) \in Nat /\ Footprint(d) > 0
      BY <1>0, <2>1, FootprintPositive DEF LiveBacked
    <3> QED BY <3>1, <3>2, <2>1, <1>4, <1>8, <1>11 DEF Apart
  <2>2. ASSUME NEW d \in Clients, NEW e \in Clients, d # e, bufs'[d] # None, bufs'[e] # None
        PROVE  Apart(bufs[d].data, Footprint(d), bufs[e].data, Footprint(e))'
    <3>1. CASE d = c
      BY <2>1, <2>2, <3>1, <1>4
    <3>2. CASE e = c
      BY <2>1, <2>2, <3>2, <1>4
    <3>3. CASE d # c /\ e # c
      BY <2>2, <3>3, <1>0, <1>4, <1>8 DEF LiveApart, Apart
    <3> QED BY <3>1, <3>2, <3>3
  <2>3. ASSUME NEW d \in Clients, NEW i \in DOMAIN head', bufs'[d] # None
        PROVE  Apart(bufs[d].data, Footprint(d), head[i], MaxBytes)'
    <3>1. CASE d = c
      BY <2>3, <3>1, <1>3, <1>4, <1>8, <1>9, <1>11, MemoryAssumption DEF Apart
    <3>2. CASE d # c
      BY <2>3, <3>2, <1>0, <1>3, <1>4, <1>8 DEF LiveApart, Apart
    <3> QED BY <3>1, <3>2
  <2>4. \A i, j \in DOMAIN head' : i # j => Apart(head[i], MaxBytes, head[j], MaxBytes)'
    BY <1>0, <1>3 DEF LiveApart, Apart
  <2> QED BY <2>2, <2>3, <2>4 DEF LiveApart
<1>13. NoLeak'
  <2> SUFFICES ASSUME NEW x \in Blocks, heap'[x] # 0
               PROVE  \/ \E d \in Clients : bufs'[d] # None /\ bufs'[d].data = <<x, 0>>
                      \/ \E i \in DOMAIN head' : head'[i] = <<x, 0>>
    BY DEF NoLeak
  <2>1. CASE x = b
    <3>1. bufs'[c].data = <<x, 0>>
      BY <2>1, <1>1, <1>4, MemoryAssumption DEF Pointers
    <3> QED BY <3>1, <1>2, <1>4
  <2>2. CASE x # b
    <3>1. heap[x] # 0
      BY <2>2, <1>3
    <3>2. CASE \E d \in Clients : bufs[d] # None /\ bufs[d].data = <<x, 0>>
      <4>1. PICK d \in Clients : bufs[d] # None /\ bufs[d].data = <<x, 0>>
        BY <3>2
      <4>2. d # c
        BY <4>1 DEF Granted
      <4> QED BY <4>1, <4>2, <1>4
    <3>3. CASE \E i \in DOMAIN head : head[i] = <<x, 0>>
      BY <3>3, <1>3
    <3> QED BY <3>1, <3>2, <3>3, <1>0 DEF NoLeak
  <2> QED BY <2>1, <2>2
<1> QED BY <1>0, <1>3, <1>5, <1>6, <1>10, <1>12, <1>13 DEF IInv, FreesItsOwn
-----------------------------------------------------------------------------
\* The memory behind a client's buffer.
LEMMA Held ==
    ASSUME IInv, NEW c \in Clients, bufs[c] # None
    PROVE  /\ bufs[c].data \in Pointers /\ bufs[c].bytes \in Nat /\ Kind(bufs[c])
           /\ Footprint(c) \in Nat /\ Footprint(c) > 0
           /\ Backed(bufs[c].data, Footprint(c))
           /\ \A d \in Clients : d # c /\ bufs[d] # None =>
                Apart(bufs[c].data, Footprint(c), bufs[d].data, Footprint(d))
           /\ \A i \in DOMAIN head : Apart(bufs[c].data, Footprint(c), head[i], MaxBytes)
<1>1. TypeOK /\ Kinds /\ LiveApart /\ LiveBacked
  BY DEF IInv
<1>2. bufs[c] \in Buffer
  BY <1>1, LiveBuffer
<1>3. Footprint(c) \in Nat /\ Footprint(c) > 0
  BY <1>1, FootprintPositive
<1> QED BY <1>1, <1>2, <1>3 DEF Buffer, Kinds, LiveApart, LiveBacked

LEMMA Node ==
    ASSUME IInv, NEW i \in DOMAIN head
    PROVE  /\ head[i] \in Pointers /\ Backed(head[i], MaxBytes)
           /\ \A j \in DOMAIN head : i # j => Apart(head[i], MaxBytes, head[j], MaxBytes)
BY DEF IInv, TypeOK, LiveApart, LiveBacked

\* A client gives its buffer back to the linear allocator or to malloc,
\* whichever it came from.
Returned(c, owner) ==
    /\ owner = IF bufs[c].data[1] = Stack THEN "linear" ELSE "malloc"
    /\ Release(owner, bufs[c].data)
    /\ bufs' = [bufs EXCEPT ![c] = None]
    /\ UNCHANGED <<cur, head>>

LEMMA ReturnKeeps ==
    ASSUME IInv, NEW c \in Clients, bufs[c] # None, NEW owner, Returned(c, owner)
    PROVE  IInv'
<1>0. TypeOK /\ Kinds /\ LiveApart /\ LiveBacked /\ NoLeak /\ FreesItsOwn
  BY DEF IInv
<1>1. PICK q : q = bufs[c].data
  OBVIOUS
<1>2. q \in Pointers /\ Backed(q, Footprint(c)) /\ Footprint(c) \in Nat /\ Footprint(c) > 0
  BY <1>1, Held
<1>3. /\ bufs'[c] = None /\ \A d \in Clients : d # c => bufs'[d] = bufs[d]
      /\ bufs' \in [Clients -> Buffer \cup {None}]
      /\ cur' = cur /\ head' = head
  BY <1>0 DEF Returned, TypeOK
<1>4. broken' = broken /\ heap' = [x \in Blocks |-> IF x = q[1] THEN 0 ELSE heap[x]]
  <2>1. CASE q[1] = Stack
    <3>1. Free({})
      BY <2>1, <1>1 DEF Returned, Release
    <3> QED BY <3>1, <2>1, <1>0, MemoryAssumption DEF Free, TypeOK
  <2>2. CASE q[1] # Stack
    <3>1. Free({q})
      BY <2>2, <1>1 DEF Returned, Release
    <3>2. q[1] \in Blocks /\ q = <<q[1], 0>> /\ heap[q[1]] # 0
      BY <2>2, <1>0, <1>2 DEF Backed, Pointers, TypeOK
    <3>3. broken' = broken
      BY <3>1, <3>2, <1>0 DEF Free, TypeOK
    <3>4. \A x \in Blocks : <<x, 0>> \in {q} <=> x = q[1]
      BY <3>2
    <3> QED BY <3>1, <3>3, <3>4 DEF Free
  <2> QED BY <2>1, <2>2
<1>5. TypeOK'
  <2>1. heap' \in [Blocks -> Nat]
    BY <1>0, <1>4 DEF TypeOK
  <2> QED BY <1>0, <1>3, <1>4, <2>1 DEF TypeOK
<1>6. Kinds'
  BY <1>0, <1>3 DEF Kinds
<1>7. \A d \in Clients : bufs'[d] # None => d # c /\ bufs[d] # None /\ bufs'[d] = bufs[d]
  BY <1>3
<1>8. \A d \in Clients : bufs'[d] # None => Footprint(d)' = Footprint(d)
  BY <1>7 DEF Footprint
\* Nobody else has the block that is taken back.
<1>9. ASSUME NEW p \in Pointers, NEW k \in Nat, k > 0, Backed(p, k), Apart(q, Footprint(c), p, k)
      PROVE  Backed(p, k)'
  <2>1. CASE p[1] = Stack
    BY <2>1, <1>3, <1>9 DEF Backed
  <2>2. CASE p[1] # Stack
    <3>1. p[1] # q[1]
      BY <2>2, <1>0, <1>2, <1>9, OneOwner DEF Pointers
    <3>2. p[1] \in Blocks
      BY <2>2 DEF Pointers
    <3> QED BY <2>2, <3>1, <3>2, <1>4, <1>9 DEF Backed
  <2> QED BY <2>1, <2>2
<1>10. LiveBacked'
  <2>1. ASSUME NEW d \in Clients, bufs'[d] # None
        PROVE  Backed(bufs[d].data, Footprint(d))'
    <3>1. /\ bufs[d].data \in Pointers /\ Footprint(d) \in Nat /\ Footprint(d) > 0
          /\ Backed(bufs[d].data, Footprint(d))
          /\ Apart(q, Footprint(c), bufs[d].data, Footprint(d))
      BY <2>1, <1>1, <1>7, Held
    <3> QED BY <3>1, <2>1, <1>7, <1>8, <1>9
  <2>2. \A i \in DOMAIN head' : Backed(head[i], MaxBytes)'
    BY <1>1, <1>3, <1>9, Held, Node, MemoryAssumption
  <2> QED BY <2>1, <2>2 DEF LiveBacked
<1>11. LiveApart'
  BY <1>0, <1>3, <1>7, <1>8 DEF LiveApart, Apart
<1>12. NoLeak'
  <2> SUFFICES ASSUME NEW x \in Blocks, heap'[x] # 0
               PROVE  \/ \E d \in Clients : bufs'[d] # None /\ bufs'[d].data = <<x, 0>>
                      \/ \E i \in DOMAIN head' : head'[i] = <<x, 0>>
    BY DEF NoLeak
  <2>1. x # q[1] /\ heap[x] # 0
    BY <1>4
  <2>2. CASE \E d \in Clients : bufs[d] # None /\ bufs[d].data = <<x, 0>>
    <3>1. PICK d \in Clients : bufs[d] # None /\ bufs[d].data = <<x, 0>>
      BY <2>2
    <3>2. d # c
      BY <2>1, <3>1, <1>1
    <3> QED BY <3>1, <3>2, <1>3
  <2>3. CASE \E i \in DOMAIN head : head[i] = <<x, 0>>
    BY <2>3, <1>3
  <2> QED BY <2>1, <2>2, <2>3, <1>0 DEF NoLeak
<1> QED BY <1>0, <1>4, <1>5, <1>6, <1>10, <1>11, <1>12 DEF IInv, FreesItsOwn
-----------------------------------------------------------------------------
\* The free list takes a client's buffer back.
Pushed(c) ==
    /\ bufs[c].via = "freelist"
    /\ head' = Push(bufs[c].data)
    /\ bufs' = [bufs EXCEPT ![c] = None]
    /\ UNCHANGED <<cur, heap, broken>>

LEMMA PushedAt ==
    ASSUME TypeOK, NEW p \in Pointers
    PROVE  /\ Push(p) \in Seq(Pointers) /\ DOMAIN Push(p) = 1 .. Len(head) + 1
           /\ Push(p)[1] = p
           /\ \A i \in DOMAIN head : i + 1 \in DOMAIN Push(p) /\ Push(p)[i + 1] = head[i]
           /\ \A i \in DOMAIN Push(p) : i # 1 =>
                i - 1 \in DOMAIN head /\ Push(p)[i] = head[i - 1]
BY DEF TypeOK, Push

LEMMA PushKeeps ==
    ASSUME IInv, NEW c \in Clients, bufs[c] # None, Pushed(c)
    PROVE  IInv'
<1>0. TypeOK /\ Kinds /\ LiveApart /\ LiveBacked /\ NoLeak /\ FreesItsOwn
  BY DEF IInv
<1>1. PICK q : q = bufs[c].data
  OBVIOUS
<1>2. q \in Pointers /\ Backed(q, MaxBytes) /\ Footprint(c) = MaxBytes
  BY <1>1, Held DEF Pushed, Footprint
<1>3. /\ bufs'[c] = None /\ \A d \in Clients : d # c => bufs'[d] = bufs[d]
      /\ bufs' \in [Clients -> Buffer \cup {None}]
      /\ cur' = cur /\ heap' = heap /\ broken' = broken
  BY <1>0 DEF Pushed, TypeOK
<1>4. /\ head' \in Seq(Pointers) /\ head'[1] = q /\ 1 \in DOMAIN head'
      /\ \A i \in DOMAIN head : i + 1 \in DOMAIN head' /\ head'[i + 1] = head[i]
      /\ \A i \in DOMAIN head' : i # 1 => i - 1 \in DOMAIN head /\ head'[i] = head[i - 1]
      /\ DOMAIN head' \subseteq Int
  <2>1. Len(head) \in Nat
    BY <1>0 DEF TypeOK
  <2>2. head' = Push(q)
    BY <1>1 DEF Pushed
  <2> QED BY <2>1, <2>2, <1>0, <1>2, PushedAt
<1>5. TypeOK'
  BY <1>0, <1>3, <1>4 DEF TypeOK
<1>6. Kinds'
  BY <1>0, <1>3 DEF Kinds
<1>7. \A d \in Clients : bufs'[d] # None =>
         d # c /\ bufs[d] # None /\ bufs'[d] = bufs[d] /\ Footprint(d)' = Footprint(d)
  BY <1>3 DEF Footprint
<1>8. \A p, k : Backed(p, k)' = Backed(p, k)
  BY <1>3 DEF Backed
<1>9. LiveBacked'
  <2>1. \A d \in Clients : bufs'[d] # None => Backed(bufs[d].data, Footprint(d))'
    BY <1>0, <1>7, <1>8 DEF LiveBacked
  <2>2. \A i \in DOMAIN head' : Backed(head[i], MaxBytes)'
    BY <1>0, <1>2, <1>4, <1>8 DEF LiveBacked
  <2> QED BY <2>1, <2>2 DEF LiveBacked
<1>10. LiveApart'
  <2>1. \A d, e \in Clients : d # e /\ bufs'[d] # None /\ bufs'[e] # None =>
           Apart(bufs[d].data, Footprint(d), bufs[e].data, Footprint(e))'
    BY <1>0, <1>7 DEF LiveApart, Apart
  <2>2. ASSUME NEW d \in Clients, NEW i \in DOMAIN head', bufs'[d] # None
        PROVE  Apart(bufs[d].data, Footprint(d), head[i], MaxBytes)'
    <3>1. bufs[d] # None /\ d # c /\ bufs'[d].data = bufs[d].data /\ Footprint(d)' = Footprint(d)
      BY <2>2, <1>7
    <3>2. CASE i = 1
      BY <3>1, <3>2, <1>0, <1>1, <1>2, <1>4 DEF LiveApart, Apart
    <3>3. CASE i # 1
      BY <3>1, <3>3, <1>0, <1>4 DEF LiveApart, Apart
    <3> QED BY <3>2, <3>3
  <2>3. ASSUME NEW i \in DOMAIN head', NEW j \in DOMAIN head', i # j
        PROVE  Apart(head[i], MaxBytes, head[j], MaxBytes)'
    <3>1. \A k \in DOMAIN head : Apart(q, MaxBytes, head[k], MaxBytes)
                               /\ Apart(head[k], MaxBytes, q, MaxBytes)
      BY <1>0, <1>1, <1>2 DEF LiveApart, Apart
    <3>2. CASE i = 1
      BY <2>3, <3>1, <3>2, <1>4 DEF Apart
    <3>3. CASE j = 1
      BY <2>3, <3>1, <3>3, <1>4 DEF Apart
    <3>4. CASE i # 1 /\ j # 1
      <4>1. i - 1 \in DOMAIN head /\ j - 1 \in DOMAIN head /\ i - 1 # j - 1
        BY <2>3, <3>4, <1>4
      <4> QED BY <3>4, <4>1, <1>0, <1>4 DEF LiveApart, Apart
    <3> QED BY <3>2, <3>3, <3>4
  <2> QED BY <2>1, <2>2, <2>3 DEF LiveApart
<1>11. NoLeak'
  <2> SUFFICES ASSUME NEW x \in Blocks, heap'[x] # 0
               PROVE  \/ \E d \in Clients : bufs'[d] # None /\ bufs'[d].data = <<x, 0>>
                      \/ \E i \in DOMAIN head' : head'[i] = <<x, 0>>
    BY DEF NoLeak
  <2>1. CASE \E d \in Clients : bufs[d] # None /\ bufs[d].data = <<x, 0>>
    <3>1. PICK d \in Clients : bufs[d] # None /\ bufs[d].data = <<x, 0>>
      BY <2>1
    <3>2. CASE d = c
      BY <3>1, <3>2, <1>1, <1>4
    <3>3. CASE d # c
      BY <3>1, <3>3, <1>3
    <3> QED BY <3>2, <3>3
  <2>2. CASE \E i \in DOMAIN head : head[i] = <<x, 0>>
    BY <2>2, <1>4
  <2> QED BY <2>1, <2>2, <1>0, <1>3 DEF NoLeak
<1> QED BY <1>0, <1>3, <1>5, <1>6, <1>9, <1>10, <1>11 DEF IInv, FreesItsOwn

-----------------------------------------------------------------------------
\* A client is given the first node of the free list.
LEMMA PoppedAt ==
    ASSUME TypeOK, head # <<>>
    PROVE  /\ Tail(head) \in Seq(Pointers) /\ 1 \in DOMAIN head /\ Head(head) = head[1]
           /\ \A i \in DOMAIN Tail(head) :
                i \in Int /\ i + 1 \in DOMAIN head /\ Tail(head)[i] = head[i + 1] /\ i + 1 # 1
           /\ \A i \in DOMAIN head : i # 1 =>
                i - 1 \in DOMAIN Tail(head) /\ Tail(head)[i - 1] = head[i]
BY DEF TypeOK

LEMMA PopKeeps ==
    ASSUME IInv, NEW c \in Clients, NEW n \in Sizes, bufs[c] = None, AllocFromList(c, n)
    PROVE  IInv'
<1> DEFINE new == [data |-> Head(head), bytes |-> n, alloc |-> "freelist", via |-> "freelist"]
<1>0. TypeOK /\ Kinds /\ LiveApart /\ LiveBacked /\ NoLeak /\ FreesItsOwn
  BY DEF IInv
<1>1. PICK q \in Pointers : /\ q = Head(head) /\ q = head[1] /\ 1 \in DOMAIN head
                            /\ Backed(q, MaxBytes)
  BY <1>0, PoppedAt, Node DEF AllocFromList
<1>2. new \in Buffer /\ new # None /\ Kind(new)
  BY <1>1, NotNone, MemoryAssumption DEF Buffer, Allocators, Kind
<1>3. /\ bufs'[c] = new /\ bufs'[c].data = q
      /\ \A d \in Clients : d # c => bufs'[d] = bufs[d]
      /\ bufs' \in [Clients -> Buffer \cup {None}]
      /\ cur' = cur /\ heap' = heap /\ broken' = broken
  BY <1>0, <1>1, <1>2 DEF AllocFromList, Holds, TypeOK
<1>4. /\ head' \in Seq(Pointers)
      /\ \A i \in DOMAIN head' : i \in Int /\ i + 1 \in DOMAIN head /\ head'[i] = head[i + 1] /\ i + 1 # 1
      /\ \A i \in DOMAIN head : i # 1 => i - 1 \in DOMAIN head' /\ head'[i - 1] = head[i]
  BY <1>0, PoppedAt DEF AllocFromList, Pop
<1>5. TypeOK'
  BY <1>0, <1>3, <1>4 DEF TypeOK
<1>6. Kinds'
  BY <1>0, <1>2, <1>3 DEF Kinds
<1>7. /\ Footprint(c)' = MaxBytes
      /\ \A d \in Clients : d # c => Footprint(d)' = Footprint(d)
  BY <1>3 DEF Footprint
<1>8. \A p, k : Backed(p, k)' = Backed(p, k)
  BY <1>3 DEF Backed
<1>9. LiveBacked'
  <2>1. ASSUME NEW d \in Clients, bufs'[d] # None
        PROVE  Backed(bufs[d].data, Footprint(d))'
    <3>1. CASE d = c
      BY <3>1, <1>1, <1>3, <1>7, <1>8
    <3>2. CASE d # c
      BY <2>1, <3>2, <1>0, <1>3, <1>7, <1>8 DEF LiveBacked
    <3> QED BY <3>1, <3>2
  <2>2. \A i \in DOMAIN head' : Backed(head[i], MaxBytes)'
    BY <1>0, <1>4, <1>8 DEF LiveBacked
  <2> QED BY <2>1, <2>2 DEF LiveBacked
<1>10. LiveApart'
  <2>1. \A d \in Clients : d # c /\ bufs[d] # None =>
           /\ Apart(q, MaxBytes, bufs[d].data, Footprint(d))
           /\ Apart(bufs[d].data, Footprint(d), q, MaxBytes)
    BY <1>0, <1>1 DEF LiveApart, Apart
  <2>2. ASSUME NEW d \in Clients, NEW e \in Clients, d # e, bufs'[d] # None, bufs'[e] # None
        PROVE  Apart(bufs[d].data, Footprint(d), bufs[e].data, Footprint(e))'
    <3>1. CASE d = c
      BY <2>1, <2>2, <3>1, <1>3, <1>7 DEF Apart
    <3>2. CASE e = c
      BY <2>1, <2>2, <3>2, <1>3, <1>7 DEF Apart
    <3>3. CASE d # c /\ e # c
      BY <2>2, <3>3, <1>0, <1>3, <1>7 DEF LiveApart, Apart
    <3> QED BY <3>1, <3>2, <3>3
  <2>3. ASSUME NEW d \in Clients, NEW i \in DOMAIN head', bufs'[d] # None
        PROVE  Apart(bufs[d].data, Footprint(d), head[i], MaxBytes)'
    <3>1. CASE d = c
      BY <2>3, <3>1, <1>0, <1>1, <1>3, <1>4, <1>7 DEF LiveApart, Apart
    <3>2. CASE d # c
      BY <2>3, <3>2, <1>0, <1>3, <1>4, <1>7 DEF LiveApart, Apart
    <3> QED BY <3>1, <3>2
  <2>4. ASSUME NEW i \in DOMAIN head', NEW j \in DOMAIN head', i # j
        PROVE  Apart(head[i], MaxBytes, head[j], MaxBytes)'
    <3>1. i + 1 \in DOMAIN head /\ j + 1 \in DOMAIN head /\ i + 1 # j + 1
      BY <2>4, <1>4
    <3> QED BY <3>1, <1>0, <1>4 DEF LiveApart, Apart
  <2> QED BY <2>2, <2>3, <2>4 DEF LiveApart
<1>11. NoLeak'
  <2> SUFFICES ASSUME NEW x \in Blocks, heap'[x] # 0
               PROVE  \/ \E d \in Clients : bufs'[d] # None /\ bufs'[d].data = <<x, 0>>
                      \/ \E i \in DOMAIN head' : head'[i] = <<x, 0>>
    BY DEF NoLeak
  <2>1. CASE \E d \in Clients : bufs[d] # None /\ bufs[d].data = <<x, 0>>
    <3>1. PICK d \in Clients : bufs[d] # None /\ bufs[d].data = <<x, 0>>
      BY <2>1
    <3> QED BY <3>1, <1>3
  <2>2. CASE \E i \in DOMAIN head : head[i] = <<x, 0>>
    <3>1. PICK i \in DOMAIN head : head[i] = <<x, 0>>
      BY <2>2
    <3>2. CASE i = 1
      BY <3>1, <3>2, <1>1, <1>2, <1>3
    <3>3. CASE i # 1
      BY <3>1, <3>3, <1>4
    <3> QED BY <3>2, <3>3
  <2> QED BY <2>1, <2>2, <1>0, <1>3 DEF NoLeak
<1> QED BY <1>0, <1>3, <1>5, <1>6, <1>9, <1>10, <1>11 DEF IInv, FreesItsOwn
-----------------------------------------------------------------------------
LEMMA ListDeallocAllKeeps ==
    ASSUME IInv, ListDeallocAll
    PROVE  IInv'
<1> DEFINE nodes == {p \in {head[i] : i \in DOMAIN head} : GoesTo(p, MaxBytes) = "malloc"}
<1>0. TypeOK /\ Kinds /\ LiveApart /\ LiveBacked /\ NoLeak /\ FreesItsOwn
  BY DEF IInv
<1>1. /\ head' = <<>> /\ cur' = cur /\ bufs' = bufs
      /\ heap' = [b \in Blocks |-> IF <<b, 0>> \in nodes THEN 0 ELSE heap[b]]
      /\ broken' = (broken \/ \E p \in nodes : \A b \in Blocks : heap[b] = 0 \/ p # <<b, 0>>)
  BY DEF ListDeallocAll, Free
\* What the parent passes on to malloc are blocks of malloc, once each.
<1>2. ASSUME NEW i \in DOMAIN head
      PROVE  /\ head[i] \in Pointers /\ Backed(head[i], MaxBytes)
             /\ head[i] \in nodes <=> head[i][1] # Stack
  BY <1>0, Node, OwnTellsRight, MemoryAssumption
<1>3. broken' = broken
  <2>1. ASSUME NEW p \in nodes
        PROVE  \E b \in Blocks : heap[b] # 0 /\ p = <<b, 0>>
    <3>1. PICK i \in DOMAIN head : p = head[i]
      OBVIOUS
    <3>2. p \in Pointers /\ Backed(p, MaxBytes) /\ p[1] # Stack
      BY <3>1, <1>2
    <3>3. p[1] \in Blocks /\ p = <<p[1], 0>> /\ heap[p[1]] # 0
      BY <3>2, <1>0, MemoryAssumption DEF Backed, Pointers, TypeOK
    <3> QED BY <3>3
  <2>2. ~ \E p \in nodes : \A b \in Blocks : heap[b] = 0 \/ p # <<b, 0>>
    BY <2>1
  <2> HIDE DEF nodes
  <2>3. ~ broken /\ ~ broken'
    BY <1>0, <1>1, <2>2 DEF FreesItsOwn
  <2>4. broken = FALSE /\ broken' = FALSE
    <3>1. broken \in BOOLEAN /\ broken' \in BOOLEAN
      BY <1>0, <1>1 DEF TypeOK
    <3> QED BY <2>3, <3>1
  <2> QED BY <2>4
<1>4. TypeOK'
  <2>1. heap' \in [Blocks -> Nat]
    BY <1>0, <1>1 DEF TypeOK
  <2>2. head' \in Seq(Pointers)
    BY <1>1
  <2> QED BY <1>0, <1>1, <1>3, <2>1, <2>2 DEF TypeOK
<1>5. Kinds'
  BY <1>0, <1>1 DEF Kinds
<1>6. DOMAIN head' = {}
  BY <1>1
<1>7. \A c \in Clients : Footprint(c)' = Footprint(c)
  BY <1>1 DEF Footprint
<1>8. LiveApart'
  BY <1>0, <1>1, <1>6, <1>7 DEF LiveApart, Apart
<1>9. LiveBacked'
  <2>1. ASSUME NEW c \in Clients, bufs[c] # None
        PROVE  Backed(bufs[c].data, Footprint(c))'
    <3>1. PICK q : q = bufs[c].data
      OBVIOUS
    <3>2. /\ q \in Pointers /\ Backed(q, Footprint(c)) /\ Footprint(c) \in Nat /\ Footprint(c) > 0
          /\ \A i \in DOMAIN head : Apart(q, Footprint(c), head[i], MaxBytes)
      BY <2>1, <3>1, Held
    <3>3. CASE q[1] = Stack
      BY <3>1, <3>2, <3>3, <1>1, <1>7 DEF Backed
    <3>4. CASE q[1] # Stack
      <4>1. q[1] \in Blocks
        BY <3>2, <3>4 DEF Pointers
      <4>2. \A i \in DOMAIN head : q[1] # head[i][1]
        BY <4>1, <3>2, <1>0, <1>2, OneOwner, MemoryAssumption
      <4>3. <<q[1], 0>> \notin nodes
        BY <4>2
      <4> QED BY <3>1, <3>2, <3>4, <4>1, <4>3, <1>1, <1>7 DEF Backed
    <3> QED BY <3>3, <3>4
  <2> QED BY <2>1, <1>1, <1>6 DEF LiveBacked
<1>10. NoLeak'
  <2> SUFFICES ASSUME NEW x \in Blocks, heap'[x] # 0
               PROVE  \E c \in Clients : bufs'[c] # None /\ bufs'[c].data = <<x, 0>>
    BY DEF NoLeak
  <2>1. heap[x] # 0 /\ <<x, 0>> \notin nodes
    BY <1>1
  <2>2. \A i \in DOMAIN head : head[i] # <<x, 0>>
    <3>1. <<x, 0>>[1] # Stack
      BY MemoryAssumption
    <3> QED BY <2>1, <3>1, <1>2
  <2> QED BY <2>1, <2>2, <1>0, <1>1 DEF NoLeak
<1> QED BY <1>0, <1>3, <1>4, <1>5, <1>8, <1>9, <1>10 DEF IInv, FreesItsOwn

LEMMA LinearDeallocAllKeeps ==
    ASSUME IInv, LinearDeallocAll
    PROVE  IInv'
<1>0. TypeOK /\ Kinds /\ LiveApart /\ LiveBacked /\ NoLeak /\ FreesItsOwn
  BY DEF IInv
<1>1. /\ cur' = 0 /\ heap' = heap /\ head' = head /\ bufs' = bufs /\ broken' = broken
      /\ Unused(Stack)
  BY DEF LinearDeallocAll
<1>2. TypeOK'
  BY <1>0, <1>1, MemoryAssumption DEF TypeOK
<1>3. \A c \in Clients : Footprint(c)' = Footprint(c)
  BY <1>1 DEF Footprint
<1>4. LiveBacked'
  BY <1>0, <1>1, <1>3 DEF LiveBacked, Backed, Unused
<1>5. Kinds' /\ LiveApart' /\ NoLeak' /\ FreesItsOwn'
  BY <1>0, <1>1, <1>3 DEF Kinds, LiveApart, Apart, NoLeak, FreesItsOwn
<1> QED BY <1>2, <1>4, <1>5 DEF IInv

-----------------------------------------------------------------------------
LEMMA AllocKeeps ==
    ASSUME IInv, NEW c \in Clients, Alloc(c)
    PROVE  IInv'
<1>1. PICK n \in Sizes : \/ AllocLinear(c, n) \/ AllocMalloc(c, n) \/ AllocFallback(c, n)
                         \/ AllocFromList(c, n) \/ AllocFromParent(c, n)
  BY DEF Alloc
<1>2. bufs[c] = None /\ n \in Nat /\ n > 0 /\ MaxBytes \in Nat /\ MaxBytes > 0
  BY MemoryAssumption DEF Alloc
<1>3. \A b : /\ b \in LinearServes(n) => b = Stack /\ cur + n <= Cap
             /\ b \in MallocServes => b \in Blocks /\ b # Stack
             /\ DataIn(b)[1] = b
  BY MemoryAssumption DEF LinearServes, MallocServes, DataIn
<1>4. \A b, m : b \in FallbackServes(m) => (b = Stack /\ cur + m <= Cap) \/ b \in MallocServes
  BY DEF FallbackServes, LinearServes
<1>5. CASE AllocLinear(c, n)
  <2>1. PICK b \in LinearServes(n) :
           Take(b, n) /\ Holds(c, DataIn(b), n, "linear", "linear") /\ UNCHANGED <<head, broken>>
    BY <1>5 DEF AllocLinear
  <2>2. Granted(c, b, n, n, "linear", "linear")
    BY <2>1, <1>2, <1>3 DEF Granted
  <2>3. Kind([data |-> DataIn(b), bytes |-> n, alloc |-> "linear", via |-> "linear"])
    BY <2>1, <1>2, <1>3 DEF Kind
  <2> QED BY <2>2, <2>3, <1>2, GrantKeeps DEF Allocators
<1>6. CASE AllocMalloc(c, n)
  <2>1. PICK b \in MallocServes :
           Take(b, n) /\ Holds(c, DataIn(b), n, "malloc", "malloc") /\ UNCHANGED <<head, broken>>
    BY <1>6 DEF AllocMalloc
  <2>2. Granted(c, b, n, n, "malloc", "malloc")
    BY <2>1, <1>2 DEF Granted
  <2>3. Kind([data |-> DataIn(b), bytes |-> n, alloc |-> "malloc", via |-> "malloc"])
    BY <2>1, <1>2, <1>3 DEF Kind
  <2> QED BY <2>2, <2>3, <1>2, GrantKeeps DEF Allocators
<1>7. CASE AllocFallback(c, n)
  <2> DEFINE alloc(b) == IF b = Stack THEN "linear" ELSE "malloc"
  <2>1. PICK b \in FallbackServes(n) :
           Take(b, n) /\ Holds(c, DataIn(b), n, alloc(b), "fallback") /\ UNCHANGED <<head, broken>>
    BY <1>7 DEF AllocFallback
  <2>2. Granted(c, b, n, n, alloc(b), "fallback")
    BY <2>1, <1>2, <1>4 DEF Granted
  <2>3. Kind([data |-> DataIn(b), bytes |-> n, alloc |-> alloc(b), via |-> "fallback"])
    BY <1>2, <1>3 DEF Kind
  <2>4. alloc(b) \in Allocators
    BY DEF Allocators
  <2> HIDE DEF alloc
  <2> QED BY <2>2, <2>3, <2>4, <1>2, GrantKeeps DEF Allocators
<1>8. CASE AllocFromList(c, n)
  BY <1>2, <1>8, PopKeeps
<1>9. CASE AllocFromParent(c, n)
  <2>1. PICK b \in FallbackServes(MaxBytes) :
           Take(b, MaxBytes) /\ Holds(c, DataIn(b), n, "freelist", "freelist")
           /\ UNCHANGED <<head, broken>>
    BY <1>9 DEF AllocFromParent, ParentBytes
  <2>2. Granted(c, b, MaxBytes, n, "freelist", "freelist")
    BY <2>1, <1>2, <1>4 DEF Granted
  <2>3. Kind([data |-> DataIn(b), bytes |-> n, alloc |-> "freelist", via |-> "freelist"])
    BY <1>2 DEF Kind
  <2> QED BY <2>2, <2>3, <1>2, GrantKeeps DEF Allocators
<1> QED BY <1>1, <1>5, <1>6, <1>7, <1>8, <1>9

\* Whichever of the two allocators a buffer is given back by, it goes where it
\* came from.
LEMMA DeallocKeeps ==
    ASSUME IInv, NEW c \in Clients, bufs[c] # None, NEW a,
           a \in {bufs[c].alloc, bufs[c].via}, DeallocBy(c, a)
    PROVE  IInv'
<1> DEFINE p == bufs[c].data
           n == bufs[c].bytes
           owner == IF a \in {"fallback", "freelist"} THEN GoesTo(p, n) ELSE a
<1>1. /\ p \in Pointers /\ n \in Nat /\ Kind(bufs[c])
      /\ Footprint(c) \in Nat /\ Footprint(c) > 0 /\ Backed(p, Footprint(c))
  BY Held
<1>2. bufs[c].via \in Allocators
  BY LiveBuffer DEF IInv, Buffer
<1>3. GoesTo(p, n) = IF p[1] = Stack THEN "linear" ELSE "malloc"
  BY <1>1, OwnTellsRight DEF IInv
<1>4. CASE a = "freelist" /\ InRange(n)
  <2>1. bufs[c].via = "freelist"
    BY <1>1, <1>2, <1>4 DEF Kind, Allocators
  <2>2. Pushed(c)
    <3>1. head' = Push(p) /\ UNCHANGED <<heap, broken>>
      BY <1>4 DEF DeallocBy
    <3>2. bufs' = [bufs EXCEPT ![c] = None] /\ UNCHANGED cur
      BY DEF DeallocBy
    <3> QED BY <2>1, <3>1, <3>2 DEF Pushed
  <2> QED BY <2>2, PushKeeps
<1>5. CASE ~(a = "freelist" /\ InRange(n))
  <2>1. owner = IF p[1] = Stack THEN "linear" ELSE "malloc"
    BY <1>1, <1>2, <1>3, MemoryAssumption DEF Kind, Allocators
  <2>2. Release(owner, p) /\ UNCHANGED head
    BY <1>5 DEF DeallocBy
  <2>3. bufs' = [bufs EXCEPT ![c] = None] /\ UNCHANGED cur
    BY DEF DeallocBy
  <2>4. Returned(c, owner)
    BY <2>1, <2>2, <2>3 DEF Returned
  <2> HIDE DEF owner
  <2> QED BY <2>4, ReturnKeeps
<1> QED BY <1>4, <1>5

\* The allocators keep each other's promises, whatever the clients do.
THEOREM Invariance == Spec => []IInv
<1>1. Init => IInv
  <2> SUFFICES ASSUME Init
               PROVE  IInv
    OBVIOUS
  <2>1. \A c \in Clients : bufs[c] = None
    BY DEF Init
  <2>2. DOMAIN head = {}
    BY DEF Init
  <2>3. TypeOK
    <3>1. cur \in 0 .. Cap
      BY MemoryAssumption DEF Init
    <3>2. heap \in [Blocks -> Nat]
      BY DEF Init
    <3>3. head \in Seq(Pointers)
      BY DEF Init
    <3>4. bufs \in [Clients -> Buffer \cup {None}]
      BY DEF Init
    <3>5. broken \in BOOLEAN
      BY DEF Init
    <3> QED BY <3>1, <3>2, <3>3, <3>4, <3>5 DEF TypeOK
  <2>4. Kinds /\ LiveApart /\ LiveBacked /\ NoLeak /\ FreesItsOwn
    BY <2>1, <2>2 DEF Init, Kinds, LiveApart, LiveBacked, NoLeak, FreesItsOwn
  <2> QED BY <2>3, <2>4 DEF IInv
<1>2. IInv /\ [Next]_vars => IInv'
  <2> SUFFICES ASSUME IInv, [Next]_vars
               PROVE  IInv'
    OBVIOUS
  <2>1. ASSUME NEW c \in Clients, Alloc(c)
        PROVE  IInv'
    BY <2>1, AllocKeeps
  <2>2. ASSUME NEW c \in Clients, DeallocBuf(c)
        PROVE  IInv'
    BY <2>2, DeallocKeeps DEF DeallocBuf
  <2>3. ASSUME NEW c \in Clients, DeallocTypedBuf(c)
        PROVE  IInv'
    BY <2>3, DeallocKeeps DEF DeallocTypedBuf
  <2>4. CASE ListDeallocAll
    BY <2>4, ListDeallocAllKeeps
  <2>5. CASE LinearDeallocAll
    BY <2>5, LinearDeallocAllKeeps
  <2>6. CASE UNCHANGED vars
    BY <2>6 DEF vars, IInv, TypeOK, Kinds, Kind, LiveApart, LiveBacked, NoLeak, FreesItsOwn,
                Apart, Backed, Footprint
  <2> QED BY <2>1, <2>2, <2>3, <2>4, <2>5, <2>6 DEF Next
<1> QED BY <1>1, <1>2, PTL DEF Spec

\* The variables have their types: CurrentBytes stays within the block.
THEOREM TypeCorrect == Spec => []TypeOK
<1>1. IInv => TypeOK
  BY DEF IInv
<1> QED BY <1>1, Invariance, PTL

\* No byte is handed out twice.
THEOREM LiveApartCorrect == Spec => []LiveApart
<1>1. IInv => LiveApart
  BY DEF IInv
<1> QED BY <1>1, Invariance, PTL

\* Whatever is handed out is memory the client may use.
THEOREM LiveBackedCorrect == Spec => []LiveBacked
<1>1. IInv => LiveBacked
  BY DEF IInv
<1> QED BY <1>1, Invariance, PTL

\* No block of malloc is lost.
THEOREM NoLeakCorrect == Spec => []NoLeak
<1>1. IInv => NoLeak
  BY DEF IInv
<1> QED BY <1>1, Invariance, PTL

\* free() is only ever given what malloc handed out, once.
THEOREM FreesItsOwnCorrect == Spec => []FreesItsOwn
<1>1. IInv => FreesItsOwn
  BY DEF IInv
<1> QED BY <1>1, Invariance, PTL
=============================================================================
