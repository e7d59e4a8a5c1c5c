------------------------------ MODULE FindChunk ------------------------------
(***************************************************************************)
(* find_chunk (src/snek-memory.c): the binary search by which note_chunk   *)
(* finds the place of an object in the sorted chunk array, and move_map    *)
(* the entry of a reference.  SnekHeap uses its result, Position, in one   *)
(* step.                                                                   *)
(***************************************************************************)
EXTENDS ChunkArray, TLAPS

VARIABLES
  old,          \* the old_offset fields of snek_chunk
  first, last,  \* chunk_first, chunk_last
  offset,       \* the argument
  l, r          \* the locals

vars == <<old, first, last, offset, l, r>>

Offset == 0..(Pool - 1)
Entries == first..(last - 1)

Sorted == \A i, j \in Entries : i < j => old[i] < old[j]

Init ==
  /\ old \in [0..(NChunk - 1) -> Offset]
  /\ first \in 0..NChunk /\ last \in first..NChunk
  /\ Sorted
  /\ offset \in Offset
  /\ l = first /\ r = last

Middle == (l + r) \div 2

\* One turn of the loop.
Halve ==
  /\ l < r
  /\ IF old[Middle] < offset THEN l' = Middle + 1 /\ r' = r
                             ELSE r' = Middle /\ l' = l
  /\ UNCHANGED <<old, first, last, offset>>

Next == Halve

Spec == Init /\ [][Next]_vars

----------------------------------------------------------------------------
TypeOK ==
  /\ old \in [0..(NChunk - 1) -> Offset]
  /\ first \in 0..NChunk /\ last \in first..NChunk
  /\ offset \in Offset
  /\ l \in first..last /\ r \in first..last

\* The search returns the one place that keeps the array sorted: all entries
\* before it are smaller and all from it on are not, so the entry of offset is
\* there if there is one.
Position(k) ==
  /\ \A j \in first..(k - 1) : old[j] < offset
  /\ \A j \in k..(last - 1)  : old[j] >= offset

FindsPosition == l = r => Position(l)

\* No turn reads an entry outside the part of the array in use.
ReadsEntries == l < r => Middle \in Entries

----------------------------------------------------------------------------
(***************************************************************************)
(* Proofs: find_chunk returns the right place for every array.             *)
(***************************************************************************)
\* What is left of l is smaller, what is right of r is not.
IInv ==
  /\ TypeOK /\ Sorted
  /\ l <= r
  /\ \A j \in first..(l - 1) : old[j] < offset
  /\ \A j \in r..(last - 1)  : old[j] >= offset

USE ChunkAssumption, PoolAssumption DEF Offset, Entries

LEMMA InitIInv == Init => IInv
BY DEF Init, IInv, TypeOK, Sorted

\* The middle of a non-empty interval is an entry.
LEMMA MiddleLies ==
  ASSUME TypeOK, l < r
  PROVE  Middle \in l..(r - 1)
BY DEF TypeOK, Middle

LEMMA NextIInv ==
  ASSUME IInv, [Next]_vars
  PROVE  IInv'
<1>1. CASE Halve
  <2>1. Middle \in l..(r - 1) /\ l < r
    BY <1>1, MiddleLies DEF IInv, Halve
  <2>2. /\ old' = old /\ first' = first /\ last' = last /\ offset' = offset
        /\ \/ old[Middle] < offset /\ l' = Middle + 1 /\ r' = r
           \/ ~(old[Middle] < offset) /\ l' = l /\ r' = Middle
    BY <1>1 DEF Halve
  <2> HIDE DEF Middle
  <2>3. TypeOK' /\ Sorted' /\ l' <= r'
    BY <2>1, <2>2 DEF IInv, TypeOK, Sorted
  <2>4. ASSUME old[Middle] < offset, l' = Middle + 1, NEW j \in first..(l' - 1)
        PROVE  old[j] < offset
    <3>1. j <= Middle /\ j \in Entries /\ Middle \in Entries
      BY <2>1, <2>4 DEF IInv, TypeOK
    <3>2. j < Middle => old[j] < old[Middle]
      BY <2>1, <3>1 DEF IInv, Sorted
    <3> QED
      BY <2>1, <2>4, <3>1, <3>2 DEF IInv, TypeOK
  <2>5. ASSUME ~(old[Middle] < offset), r' = Middle, NEW j \in r'..(last - 1)
        PROVE  old[j] >= offset
    <3>1. Middle <= j /\ j \in Entries /\ Middle \in Entries
      BY <2>1, <2>5 DEF IInv, TypeOK
    <3>2. Middle < j => old[Middle] < old[j]
      BY <2>1, <3>1 DEF IInv, Sorted
    <3> QED
      BY <2>1, <2>5, <3>1, <3>2 DEF IInv, TypeOK
  <2> QED
    BY <2>2, <2>3, <2>4, <2>5 DEF IInv
<1>2. CASE UNCHANGED vars
  BY <1>2 DEF vars, IInv, TypeOK, Sorted
<1> QED
  BY <1>1, <1>2 DEF Next

THEOREM IInvHolds == Spec => []IInv
BY InitIInv, NextIInv, PTL DEF Spec

\* The place find_chunk returns splits the entries at offset: what note_chunk's
\* insertion and move_map's lookup rest on.
THEOREM FindsPositionHolds == Spec => []FindsPosition
<1>1. IInv => FindsPosition
  BY DEF IInv, FindsPosition, Position
<1> QED
  BY <1>1, IInvHolds, PTL

\* The search never reads past chunk_last, the full array included.
THEOREM ReadsEntriesHolds == Spec => []ReadsEntries
<1>1. IInv => ReadsEntries
  BY MiddleLies DEF IInv, ReadsEntries, TypeOK
<1> QED
  BY <1>1, IInvHolds, PTL

\* Every turn of the loop makes the interval smaller, so it turns at most
\* chunk_last - chunk_first times: why it ends, for every array.
Shrinks == [][r' - l' < r - l]_vars

THEOREM ShrinksHolds == Spec => Shrinks
<1>1. ASSUME IInv, [Next]_vars PROVE [r' - l' < r - l]_vars
  <2>1. CASE Halve
    <3>1. Middle \in l..(r - 1)
      BY <1>1, <2>1, MiddleLies DEF IInv, Halve
    <3>2. (l' = Middle + 1 /\ r' = r) \/ (l' = l /\ r' = Middle)
      BY <2>1 DEF Halve
    <3> HIDE DEF Middle
    <3> QED
      BY <1>1, <3>1, <3>2 DEF IInv, TypeOK
  <2> QED
    BY <1>1, <2>1 DEF Next
<1> QED
  BY <1>1, IInvHolds, PTL DEF Spec, Shrinks
=============================================================================
