------------------------------- MODULE Logger ------------------------------
(***************************************************************************)
(* The table of open files of src/src/mg_logger.cpp.  A file name is hashed  *)
(* to a slot; a slot taken by another name is a collision, and the slots     *)
(* after it are probed.  Slots are never given back.  Two different names    *)
(* may have the same slot but are taken to have different hashes and to      *)
(* differ in their first 64 characters.                                     *)
(***************************************************************************)
EXTENDS Integers, FiniteSets

CONSTANTS FileNames,   \* the names messages are logged to
          MaxSlots,    \* of the table, at least one
          NoFile       \* not a name

VARIABLES hash,     \* the slot each name is hashed to
          slots,    \* the name whose file is open in each slot, or NoFile
          logged,   \* the name whose handle was asked for last, or NoFile
          got,      \* and the name of the file whose handle was returned
          aborted

vars == <<hash, slots, logged, got, aborted>>

Slots == 0 .. MaxSlots - 1

Init ==
    /\ hash \in [FileNames -> Slots]
    /\ slots = [i \in Slots |-> NoFile]
    /\ logged = NoFile /\ got = NoFile
    /\ aborted = FALSE

Collision(f) == slots[hash[f]] \notin {f, NoFile}

\* The slots the probe of GetFileHandle stops at, by their distance.
Stops(f) == {i \in Slots : slots[(hash[f] + i) % MaxSlots] \in {f, NoFile}}
Nearest(s) == CHOOSE i \in s : \A j \in s : i <= j

\* Idx and the place Fp points to part ways when the probe finds nothing: then
\* Fp is the last slot probed, which is taken.
Found(f) ==
    IF ~Collision(f) THEN hash[f]
    ELSE IF Stops(f) = {} THEN (hash[f] + MaxSlots - 1) % MaxSlots
    ELSE (hash[f] + Nearest(Stops(f))) % MaxSlots

\* An empty slot: open a new file for logging.
OpenFile(f) ==
    /\ slots[Found(f)] = NoFile
    /\ slots' = [slots EXCEPT ![Found(f)] = f]
    /\ logged' = f /\ got' = f
    /\ UNCHANGED <<hash, aborted>>

\* "No more open slots".
Abort(f) ==
    /\ slots[Found(f)] # NoFile /\ Collision(f)
    /\ aborted' = TRUE /\ logged' = f /\ got' = NoFile
    /\ UNCHANGED <<hash, slots>>

ReturnHandle(f) ==
    /\ slots[Found(f)] # NoFile /\ ~Collision(f)
    /\ logged' = f /\ got' = slots[Found(f)]
    /\ UNCHANGED <<hash, slots, aborted>>

GetFileHandle(f) == ~aborted /\ (OpenFile(f) \/ Abort(f) \/ ReturnHandle(f))

Next == \E f \in FileNames : GetFileHandle(f)

Spec == Init /\ [][Next]_vars
-----------------------------------------------------------------------------
\* What the comments of GetFileHandle say: after a collision the next empty slot
\* is found, and the program ends only when there are no more open slots.  It
\* also ends when the file it is asked for is open in the slot it was probed to.
AbortsOnlyWhenFull ==
    aborted => \A i \in Slots : slots[i] \notin {NoFile, logged}
=============================================================================
