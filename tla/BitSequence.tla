---------------------------- MODULE BitSequence ----------------------------
(***************************************************************************)
(* What src/src/mg_bitstream.h promises: a sequence of bits.  A write puts *)
(* its bits at the end; once reading has begun, a read returns the next    *)
(* bits not yet taken.  last is what the last call wrote or returned, the  *)
(* low bit first.                                                           *)
(***************************************************************************)
EXTENDS Integers, Sequences

VARIABLES seq, reading, taken, last

vars == <<seq, reading, taken, last>>

Init ==
    /\ seq = <<>>
    /\ reading = FALSE
    /\ taken = 0
    /\ last = <<>>

\* The bits of a write, last', come from the caller: they are not chosen here.
Write ==
    /\ ~ reading
    /\ seq' = seq \o last'
    /\ UNCHANGED <<reading, taken>>

StartReading ==
    /\ reading' = TRUE
    /\ taken' = 0
    /\ last' = <<>>
    /\ UNCHANGED seq

Read ==
    /\ reading
    /\ \E n \in 0 .. Len(seq) - taken :
          /\ last' = SubSeq(seq, taken + 1, taken + n)
          /\ taken' = taken + n
    /\ UNCHANGED <<seq, reading>>

Next == Write \/ StartReading \/ Read

Spec == Init /\ [][Next]_vars
=============================================================================
