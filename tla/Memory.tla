------------------------------- MODULE Memory ------------------------------
(***************************************************************************)
(* The allocators of src/src/mg_memory.cpp put together as they are meant   *)
(* to be: a linear allocator over a block on the stack, malloc, a fallback   *)
(* allocator that tries the first and then the second, and a free list      *)
(* whose parent is the fallback allocator.  Clients take buffers from any of *)
(* the four and give them back in any order.                                *)
(*                                                                         *)
(* A pointer is a block and an offset in it.  malloc is external: it hands  *)
(* out whole blocks and takes back what it handed out.  What a buffer holds  *)
(* is left out; what is told apart is who may use which bytes.  The list's   *)
(* nodes lie in the memory taken back, so the list is a sequence of pointers. *)
(***************************************************************************)
EXTENDS Integers, Sequences

CONSTANTS Clients,             \* places for one buffer each
          Blocks,              \* what malloc hands out (bounds the heap)
          Stack,               \* the block of the linear allocator
          Cap,                 \* and its bytes
          MinBytes, MaxBytes,  \* what the free list keeps
          Sizes                \* the bytes clients ask for, never none at all

ASSUME MemoryAssumption ==
    /\ Stack \notin Blocks
    /\ Cap \in Nat /\ MinBytes \in Nat /\ MaxBytes \in Nat
    /\ 0 < MinBytes /\ MinBytes <= MaxBytes
    /\ Sizes \subseteq Nat \ {0}

VARIABLES cur,      \* CurrentBytes of the linear allocator
          heap,     \* for each block of malloc, its bytes, or 0 when it is free
          head,     \* the free list, from Head on
          bufs,     \* the buffer of each client, or None
          broken    \* free() was given something malloc had not handed out

vars == <<cur, heap, head, bufs, broken>>

Pointers == (Blocks \cup {Stack}) \X Nat
Allocators == {"linear", "malloc", "fallback", "freelist"}
None == [data |-> <<Stack, 0>>, bytes |-> 0, alloc |-> "none", via |-> "none"]

\* "via" is the allocator the client asked, "alloc" the one the buffer names.
Buffer == [data : Pointers, bytes : Nat, alloc : Allocators, via : Allocators]

TypeOK ==
    /\ cur \in 0 .. Cap
    /\ heap \in [Blocks -> Nat]
    /\ head \in Seq(Pointers)
    /\ bufs \in [Clients -> Buffer \cup {None}]
    /\ broken \in BOOLEAN

Init ==
    /\ cur = 0
    /\ heap = [b \in Blocks |-> 0]
    /\ head = <<>>
    /\ bufs = [c \in Clients |-> None]
    /\ broken = FALSE

-----------------------------------------------------------------------------
\* Alloc.  The blocks that serve a request: malloc may take any that is free,
\* and aborts when there is none, which the model leaves out.
LinearServes(n) == IF cur + n <= Cap THEN {Stack} ELSE {}
MallocServes == {b \in Blocks : heap[b] = 0}
FallbackServes(n) == IF LinearServes(n) # {} THEN {Stack} ELSE MallocServes

DataIn(b) == <<b, IF b = Stack THEN cur ELSE 0>>

Take(b, n) ==
    /\ cur' = IF b = Stack THEN cur + n ELSE cur
    /\ heap' = [x \in Blocks |-> IF x = b THEN n ELSE heap[x]]

Holds(c, data, n, alloc, via) ==
    bufs' = [bufs EXCEPT ![c] = [data |-> data, bytes |-> n, alloc |-> alloc, via |-> via]]

Own(p) == p[1] = Stack /\ p[2] < cur
\* Leaves out the buffer allocated last.
WrongGoesTo(p, n) == IF p[1] = Stack /\ p[2] + n < cur THEN "linear" ELSE "malloc"
\* Where fallback_allocator::Dealloc sends a pointer.
GoesTo(p, n) == IF Own(p) THEN "linear" ELSE "malloc"

InRange(n) == MinBytes <= n /\ n <= MaxBytes

AllocLinear(c, n) ==
    \E b \in LinearServes(n) :
        /\ Take(b, n) /\ Holds(c, DataIn(b), n, "linear", "linear")
        /\ UNCHANGED <<head, broken>>

AllocMalloc(c, n) ==
    \E b \in MallocServes :
        /\ Take(b, n) /\ Holds(c, DataIn(b), n, "malloc", "malloc")
        /\ UNCHANGED <<head, broken>>

AllocFallback(c, n) ==
    \E b \in FallbackServes(n) :
        /\ Take(b, n)
        /\ Holds(c, DataIn(b), n, IF b = Stack THEN "linear" ELSE "malloc", "fallback")
        /\ UNCHANGED <<head, broken>>

\* Forgets to move Head on.
WrongPop == head' = head
Pop == head' = Tail(head)

AllocFromList(c, n) ==
    /\ InRange(n) /\ head # <<>>
    /\ Holds(c, Head(head), n, "freelist", "freelist")
    /\ Pop
    /\ UNCHANGED <<cur, heap, broken>>

\* Asks the parent for what the client wants and not for MaxBytes.
WrongParentBytes(n) == n
ParentBytes(n) == MaxBytes

AllocFromParent(c, n) ==
    /\ ~(InRange(n) /\ head # <<>>)
    /\ \E b \in FallbackServes(ParentBytes(n)) :
        /\ Take(b, ParentBytes(n))
        /\ Holds(c, DataIn(b), n, "freelist", "freelist")
    /\ UNCHANGED <<head, broken>>

Alloc(c) ==
    /\ bufs[c] = None
    /\ \E n \in Sizes :
        \/ AllocLinear(c, n) \/ AllocMalloc(c, n) \/ AllocFallback(c, n)
        \/ AllocFromList(c, n) \/ AllocFromParent(c, n)

-----------------------------------------------------------------------------
\* Dealloc.  free() of a set of pointers.
Free(ps) ==
    /\ heap' = [b \in Blocks |-> IF <<b, 0>> \in ps THEN 0 ELSE heap[b]]
    /\ broken' = (broken \/ \E p \in ps : \A b \in Blocks : heap[b] = 0 \/ p # <<b, 0>>)

\* linear_allocator::Dealloc sets Buf->Bytes to zero before it subtracts it:
\* it never gives anything back.  So only malloc's part of a Dealloc changes
\* anything.
Release(owner, p) == Free(IF owner = "malloc" THEN {p} ELSE {})

\* Head = P without P->Next = Head.
WrongPush(p) == <<p>>
Push(p) == <<p>> \o head

\* Dealloc of the buffer of c by allocator a.
DeallocBy(c, a) ==
    LET p == bufs[c].data
        n == bufs[c].bytes
    IN /\ IF a = "freelist" /\ InRange(n)
          THEN head' = Push(p) /\ UNCHANGED <<heap, broken>>
          ELSE /\ Release(IF a \in {"fallback", "freelist"} THEN GoesTo(p, n) ELSE a, p)
               /\ UNCHANGED head
       /\ bufs' = [bufs EXCEPT ![c] = None]
       /\ UNCHANGED cur

\* DeallocBuf goes by what the buffer says.
DeallocBuf(c) == bufs[c] # None /\ DeallocBy(c, bufs[c].alloc)

\* Arrays and typed buffers go by the allocator they were made with.
DeallocTypedBuf(c) == bufs[c] # None /\ DeallocBy(c, bufs[c].via)

\* free_list_allocator::DeallocAll hands the nodes to the parent.
ListDeallocAll ==
    /\ head # <<>> /\ head' = <<>>
    /\ Free({p \in {head[i] : i \in DOMAIN head} : GoesTo(p, MaxBytes) = "malloc"})
    /\ UNCHANGED <<cur, bufs>>

\* DeallocAll of the linear and, as malloc's does nothing, of the fallback
\* allocator: for the client to call when nothing of the stack is in use, which
\* the code leaves to it (mg_memory.cpp:154).
Unused(b) ==
    /\ \A c \in Clients : bufs[c] = None \/ bufs[c].data[1] # b
    /\ \A i \in DOMAIN head : head[i][1] # b

LinearDeallocAll ==
    /\ cur > 0 /\ Unused(Stack) /\ cur' = 0
    /\ UNCHANGED <<heap, head, bufs, broken>>

Next ==
    \/ \E c \in Clients : Alloc(c) \/ DeallocBuf(c) \/ DeallocTypedBuf(c)
    \/ ListDeallocAll \/ LinearDeallocAll

Spec == Init /\ [][Next]_vars
-----------------------------------------------------------------------------
\* The bytes set aside for a client: those of the free list have MaxBytes.
Footprint(c) == IF bufs[c].via = "freelist" THEN MaxBytes ELSE bufs[c].bytes

Apart(p, m, q, n) == p[1] # q[1] \/ p[2] + m <= q[2] \/ q[2] + n <= p[2]

\* No byte belongs to two clients, or to a client and to the free list, which
\* keeps its links there, or to two nodes of the list.
LiveApart ==
    /\ \A c, d \in Clients : c # d /\ bufs[c] # None /\ bufs[d] # None =>
            Apart(bufs[c].data, Footprint(c), bufs[d].data, Footprint(d))
    /\ \A c \in Clients, i \in DOMAIN head : bufs[c] # None =>
            Apart(bufs[c].data, Footprint(c), head[i], MaxBytes)
    /\ \A i, j \in DOMAIN head : i # j => Apart(head[i], MaxBytes, head[j], MaxBytes)

Backed(p, n) ==
    IF p[1] = Stack THEN p[2] + n <= cur ELSE p[2] = 0 /\ n <= heap[p[1]]

\* What is set aside for a client, and for whoever is given a node of the free
\* list next, is memory somebody handed out and nobody took back.
LiveBacked ==
    /\ \A c \in Clients : bufs[c] # None => Backed(bufs[c].data, Footprint(c))
    /\ \A i \in DOMAIN head : Backed(head[i], MaxBytes)

\* Every block of malloc can still be given back: a client or the list has it.
NoLeak ==
    \A b \in Blocks : heap[b] # 0 =>
        \/ \E c \in Clients : bufs[c] # None /\ bufs[c].data = <<b, 0>>
        \/ \E i \in DOMAIN head : head[i] = <<b, 0>>

\* However a buffer is given back, by what it says or by the allocator it came
\* from, free() is never given a part of the stack block or a block twice.
FreesItsOwn == ~broken
=============================================================================
