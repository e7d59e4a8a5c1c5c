--------------------------- MODULE SnekHeap_proofs ---------------------------
(***************************************************************************)
(* Theorems about SnekHeap for every pool, chunk array and program: the    *)
(* layout of memory is kept, the memmoves of the collector destroy nothing *)
(* that is needed, and an incremental collection leaves the old space in   *)
(* place.                                                                  *)
(*                                                                         *)
(* None of these is inductive.  What makes them so is the state of a pass: *)
(* the chunk array is sorted and holds exactly the marked objects between  *)
(* chunk_low and chunk_high, and the place the next object goes to is at   *)
(* or below where it comes from.                                           *)
(***************************************************************************)
EXTENDS SnekHeap, TLAPS

\* What has been placed ends at `to', which no object lies across.
PlacedInv ==
  Collecting =>
    /\ to <= high /\ high <= top
    /\ \A o \in DOMAIN pool : o < to => End(o) <= to
    /\ style = "incr" => lastTop <= to

\* The entries are in order.
SortedInv ==
  pc \in {"mark", "find", "copy"} =>
    \A i, j \in 0..(last - 1) : i < j => chunk[i].old < chunk[j].old

\* The entry i is an object that is where it was and lies below chunk_high.
Entry(i) ==
  /\ chunk[i].old \in DOMAIN pool
  /\ chunk[i].val = pool[chunk[i].old].size
  /\ chunk[i].old + chunk[i].val <= high

\* The first walk, and until copying starts: the array holds the marked
\* objects from chunk_low to chunk_high.
MarkInv ==
  pc \in {"mark", "find"} =>
    /\ first = 0
    /\ busy \subseteq DOMAIN pool
    /\ \A i \in 0..(last - 1) : Entry(i) /\ chunk[i].old \in busy /\ low <= chunk[i].old
    /\ high = IF last = NChunk THEN chunk[last - 1].old + chunk[last - 1].val ELSE top
    /\ \A o \in busy : low <= o /\ o < high => \E i \in 0..(last - 1) : chunk[i].old = o
    /\ pc = "mark" => to <= low

\* An object never moves up.
SlideInv ==
  pc \in {"find", "copy"} => c <= last /\ (c < last => to <= chunk[c].old)

CopyInv ==
  pc = "copy" =>
    /\ first <= c
    /\ \A i \in c..(last - 1) : Entry(i)
    /\ \A i \in first..(c - 1) : chunk[i].old \in DOMAIN pool => chunk[i].old < to
    /\ first < last => low = chunk[first].old
    /\ first < last =>
         \A o \in busy : low <= o /\ o < high =>
                           \E i \in first..(last - 1) : chunk[i].old = o

PassInv == PlacedInv /\ SortedInv /\ MarkInv /\ SlideInv /\ CopyInv

IInv == TypeOK /\ Layout /\ PassInv
USE PoolAssumption, ChunkAssumption DEF Offset

----------------------------------------------------------------------------
(***************************************************************************)
(* Steps that move no object                                               *)
(***************************************************************************)
\* Objects keep their places and sizes; references may change.
SamePlaces ==
  /\ DOMAIN pool' = DOMAIN pool
  /\ \A o \in DOMAIN pool : /\ DOMAIN pool'[o] = DOMAIN pool[o]
                            /\ pool'[o].kind = pool[o].kind
                            /\ pool'[o].size = pool[o].size

SameRegisters == UNCHANGED <<top, lastTop, pc, style, to, c>>

\* Writing a field other than kind and size moves nothing.
LEMMA WriteRef ==
  ASSUME TypeOK, NEW a, NEW i, NEW x, pool' = [pool EXCEPT ![a].refs[i] = x]
  PROVE  SamePlaces
BY DEF SamePlaces, TypeOK, Fields

LEMMA WriteNext ==
  ASSUME TypeOK, NEW a, NEW x, pool' = [pool EXCEPT ![a].next = x]
  PROVE  SamePlaces
BY DEF SamePlaces, TypeOK, Fields

LEMMA QuietStep ==
  ASSUME IInv, SamePlaces, SameRegisters, UNCHANGED <<busy, chunkVars>>
  PROVE  IInv'
<1> USE DEF SamePlaces, SameRegisters, chunkVars
<1>1. TypeOK'
  BY DEF IInv, TypeOK
<1>2. Layout'
  BY DEF IInv, TypeOK, Layout, End, Collecting
<1>3. PlacedInv'
  BY DEF IInv, TypeOK, PassInv, PlacedInv, End, Collecting
<1>4. SortedInv' /\ SlideInv'
  BY DEF IInv, PassInv, SortedInv, SlideInv
<1>5. \A i \in 0..(last - 1) : Entry(i) => Entry(i)'
  BY DEF Entry
<1>6. MarkInv'
  <2>1. MarkInv
    BY DEF IInv, PassInv
  <2> QED
    BY <1>5, <2>1 DEF MarkInv
<1>7. CopyInv'
  <2>1. CopyInv /\ (pc = "copy" => c \in Nat)
    BY DEF IInv, TypeOK, PassInv
  <2> QED
    BY <1>5, <2>1 DEF CopyInv
<1> QED
  BY <1>1, <1>2, <1>3, <1>4, <1>6, <1>7 DEF IInv, PassInv

LEMMA IsIndex ==
  ASSUME NEW i \in Int, NEW n \in Int, 0 <= i, i < n
  PROVE  i \in 0..(n - 1)
OBVIOUS

\* The first walk marks an object: its entry goes to its place in the array,
\* which, when it is full, loses its last entry and chunk_high with it.
LEMMA NoteStep ==
  ASSUME IInv, SamePlaces, SameRegisters, pc = "mark",
         NEW o \in DOMAIN pool, o \notin busy, busy' = busy \cup {o},
         note_chunk(o, pool[o].size)
  PROVE  IInv'
<1> USE DEF SamePlaces, SameRegisters, End
<1>1. CASE o < low \/ high <= o
  <2>1. UNCHANGED chunkVars
    BY <1>1 DEF note_chunk
  <2>2. TypeOK' /\ Layout'
    BY <2>1 DEF IInv, TypeOK, Layout, Collecting, chunkVars
  <2>3. PlacedInv' /\ SortedInv' /\ SlideInv' /\ CopyInv'
    BY <2>1 DEF IInv, TypeOK, PassInv, PlacedInv, SortedInv, SlideInv, CopyInv,
                Collecting, chunkVars
  <2>4. MarkInv'
    <3>1. MarkInv /\ TypeOK
      BY DEF IInv, PassInv
    <3>2. \A p \in busy' : low <= p /\ p < high =>
                             \E i \in 0..(last - 1) : chunk[i].old = p
      BY <1>1, <3>1 DEF MarkInv, TypeOK
    <3> QED
      BY <2>1, <3>1, <3>2 DEF MarkInv, Entry, chunkVars
  <2> QED
    BY <2>2, <2>3, <2>4 DEF IInv, PassInv
<1>2. CASE low <= o /\ o < high
  <2>0. /\ low \in 0..Pool /\ high \in 0..Pool /\ last \in 0..NChunk
        /\ chunk \in [0..(NChunk - 1) -> Chunk]
        /\ DOMAIN pool \subseteq 0..(Pool - 1) /\ busy \subseteq DOMAIN pool
        /\ top \in 0..Pool
        /\ \A p \in DOMAIN pool : pool[p].size \in 1..Pool
    BY DEF IInv, TypeOK, PassInv, MarkInv
  <2>1. PICK k \in 0..last :
          /\ \A j \in 0..(k - 1) : chunk[j].old < o
          /\ \A j \in k..(last - 1) : chunk[j].old >= o
          /\ chunk' = [i \in 0..(NChunk - 1) |->
                         IF i = k THEN [old |-> o, val |-> pool[o].size]
                         ELSE IF i > k /\ i <= last THEN chunk[i - 1] ELSE chunk[i]]
          /\ last' = IF last < NChunk THEN last + 1 ELSE last
          /\ high' = IF last' = NChunk
                     THEN chunk'[NChunk - 1].old + chunk'[NChunk - 1].val ELSE high
          /\ low' = low /\ first' = first
    BY <1>2, <2>0 DEF note_chunk, NextLast, NextHigh, Position, IInv, PassInv, MarkInv
  <2>1a. /\ last' = IF last < NChunk THEN last + 1 ELSE last
         /\ high' = IF last' = NChunk
                    THEN chunk'[NChunk - 1].old + chunk'[NChunk - 1].val ELSE high
         /\ low' = low /\ first' = first
    BY <2>1
  <2>1b. \A i \in 0..(NChunk - 1) :
           /\ i = k => chunk'[i] = [old |-> o, val |-> pool[o].size]
           /\ i > k /\ i <= last => chunk'[i] = chunk[i - 1]
           /\ i < k => chunk'[i] = chunk[i]
    BY <2>0, <2>1
  <2>2. \A j \in 0..(last - 1) :
          /\ chunk[j].old \in 0..Pool /\ chunk[j].val \in 0..Pool
          /\ chunk[j].old \in busy /\ chunk[j].old # o
          /\ chunk[j].val = pool[chunk[j].old].size
          /\ low <= chunk[j].old /\ chunk[j].old + chunk[j].val <= high
    <3>1. \A j \in 0..(last - 1) :
            Entry(j) /\ chunk[j].old \in busy /\ low <= chunk[j].old
      BY DEF IInv, PassInv, MarkInv
    <3>2. \A j \in 0..(last - 1) : chunk[j] \in Chunk
      BY <2>0
    <3>3. \A j \in 0..(last - 1) : chunk[j].old \in 0..Pool /\ chunk[j].val \in 0..Pool
      BY <3>2 DEF Chunk
    <3> QED
      BY <3>1, <3>3 DEF Entry
  <2>3a. \A p, q \in DOMAIN pool : p < q => p + pool[p].size <= q
    BY DEF IInv, Layout, End
  <2>3b. high = IF last = NChunk THEN chunk[last - 1].old + chunk[last - 1].val ELSE top
    BY DEF IInv, PassInv, MarkInv
  <2>3. k < NChunk
    <3> SUFFICES ASSUME k = NChunk, last = NChunk PROVE FALSE
      BY <2>0, <2>1
    <3>1. chunk[NChunk - 1].old < o /\ chunk[NChunk - 1].old \in DOMAIN pool
      BY <2>0, <2>1, <2>2
    <3> QED
      BY <1>2, <2>0, <2>2, <2>3a, <2>3b, <3>1, SMTT(60)
  <2>4. \A i \in 0..(last' - 1) :
          \/ i < k /\ i < last /\ chunk'[i] = chunk[i]
          \/ i = k /\ chunk'[i] = [old |-> o, val |-> pool[o].size]
          \/ i > k /\ i - 1 < last /\ chunk'[i] = chunk[i - 1]
    BY SMTT(60), <2>0, <2>1, <2>3
  <2>5. o + pool[o].size <= high
    <3>1. CASE last = NChunk
      <4>1. chunk[last - 1].old \in DOMAIN pool /\ chunk[last - 1].old # o
        BY <2>0, <2>2, <3>1
      <4>2. o < chunk[last - 1].old
        BY <1>2, <2>0, <2>2, <2>3a, <2>3b, <3>1, <4>1
      <4> QED
        BY <2>0, <2>2, <2>3a, <2>3b, <3>1, <4>1, <4>2
    <3>2. CASE last # NChunk
      BY <2>3b, <3>2 DEF IInv, Layout, End
    <3> QED
      BY <3>1, <3>2
  <2>6. SortedInv'
    <3> SUFFICES ASSUME NEW i \in 0..(last' - 1), NEW j \in 0..(last' - 1), i < j
                 PROVE  chunk'[i].old < chunk'[j].old
      BY DEF SortedInv
    <3>1. \A m, n \in 0..(last - 1) : m < n => chunk[m].old < chunk[n].old
      BY DEF IInv, PassInv, SortedInv
    <3>2. last' \in 0..NChunk /\ last' <= last + 1 /\ o \in 0..Pool
      BY <2>0, <2>1
    <3>3. \A m \in k..(last - 1) : o < chunk[m].old
      BY <2>0, <2>1, <2>2
    <3>4. CASE j < k
      BY <2>0, <2>1, <2>4, <3>1, <3>2, <3>4
    <3>5. CASE j = k
      BY <2>0, <2>1, <2>4, <3>1, <3>2, <3>5
    <3>6. CASE j > k /\ i < k
      BY <2>0, <2>1, <2>4, <3>1, <3>2, <3>6
    <3>7. CASE j > k /\ i = k
      BY <2>0, <2>1, <2>4, <3>1, <3>2, <3>3, <3>7
    <3>8. CASE j > k /\ i > k
      BY SMTT(60), <2>0, <2>1, <2>4, <3>1, <3>2, <3>8
    <3> QED
      BY <2>0, <2>1, <3>4, <3>5, <3>6, <3>7, <3>8
  <2> DEFINE Fits(e) == /\ e \in Chunk
                        /\ e.old \in busy' /\ e.old \in DOMAIN pool
                        /\ e.val = pool[e.old].size
                        /\ low <= e.old /\ e.old + e.val <= high
  <2>7. \A i \in 0..(last' - 1) : Fits(chunk'[i])
    <3>1. Fits([old |-> o, val |-> pool[o].size])
      BY <1>2, <2>0, <2>5 DEF Chunk
    <3>2. \A j \in 0..(last - 1) : Fits(chunk[j])
      BY <2>0, <2>2
    <3> HIDE DEF Fits
    <3> SUFFICES ASSUME NEW i \in 0..(last' - 1) PROVE Fits(chunk'[i])
      OBVIOUS
    <3>3. (i < k /\ i < last) \/ i = k \/ (i > k /\ i - 1 < last)
      BY <2>4
    <3>4. CASE i < k /\ i < last
      BY <2>0, <2>1a, <2>1b, <2>4, <3>2, <3>4
    <3>5. CASE i = k
      BY <2>0, <2>1a, <2>1b, <2>4, <3>1, <3>5
    <3>6. CASE i > k /\ i - 1 < last
      BY <2>0, <2>1a, <2>1b, <2>4, <3>2, <3>6
    <3> QED
      BY <3>3, <3>4, <3>5, <3>6
  <2>8. last' \in 1..NChunk /\ (last' = NChunk \/ last' = last + 1)
    BY <2>0, <2>1a, <2>1b
  <2>8a. high' <= high /\ high' \in 0..Pool /\ low <= high'
    <3>1. CASE last' = NChunk
      <4>1. Fits(chunk'[NChunk - 1])
        BY <2>7, <2>8, <3>1
      <4>2. /\ high' = chunk'[NChunk - 1].old + chunk'[NChunk - 1].val
            /\ chunk'[NChunk - 1].old \in Nat /\ chunk'[NChunk - 1].val \in Nat
            /\ low <= chunk'[NChunk - 1].old
            /\ chunk'[NChunk - 1].old + chunk'[NChunk - 1].val <= high
        BY <2>1a, <3>1, <4>1 DEF Chunk
      <4>3. low \in Nat /\ high \in 0..Pool
        BY <2>0
      <4> QED
        BY <4>2, <4>3
    <3>2. CASE last' # NChunk
      BY <1>2, <2>0, <2>1a, <2>1b, <3>2
    <3> QED
      BY <3>1, <3>2
  <2>8b. to <= high'
    BY <2>0, <2>8a DEF IInv, PassInv, MarkInv, TypeOK
  <2>9. \A i \in 0..(last' - 1) : chunk'[i].old + chunk'[i].val <= high'
    <3> SUFFICES ASSUME NEW i \in 0..(last' - 1)
                 PROVE  chunk'[i].old + chunk'[i].val <= high'
      OBVIOUS
    <3>1. Fits(chunk'[i])
      BY <2>7
    <3>2. CASE last' = NChunk /\ i # NChunk - 1
      <4>1. Fits(chunk'[NChunk - 1])
        BY <2>7, <2>8, <3>2
      <4>2. chunk'[i].old < chunk'[NChunk - 1].old
        BY <2>6, <2>8, <3>2 DEF SortedInv
      <4>3. chunk'[i].old + chunk'[i].val <= chunk'[NChunk - 1].old
        BY <2>3a, <3>1, <4>1, <4>2
      <4>4. /\ high' = chunk'[NChunk - 1].old + chunk'[NChunk - 1].val
            /\ chunk'[NChunk - 1].old \in Nat /\ chunk'[NChunk - 1].val \in Nat
            /\ chunk'[i].old \in Nat /\ chunk'[i].val \in Nat
        BY <2>1a, <3>1, <3>2, <4>1 DEF Chunk
      <4> QED
        BY <4>3, <4>4
    <3>3. CASE last' = NChunk /\ i = NChunk - 1
      BY <2>0, <2>1a, <2>1b, <3>1, <3>3 DEF Chunk
    <3>4. CASE last' # NChunk
      BY <2>1a, <2>1b, <3>1, <3>4
    <3> QED
      BY <3>2, <3>3, <3>4
  <2>10. \A p \in busy' : low <= p /\ p < high' =>
                            \E i \in 0..(last' - 1) : chunk'[i].old = p
    <3> SUFFICES ASSUME NEW p \in busy', low <= p, p < high'
                 PROVE  \E i \in 0..(last' - 1) : chunk'[i].old = p
      OBVIOUS
    <3>1. CASE p = o
      <4>1. k \in 0..(last' - 1)
        BY <2>0, <2>1a, <2>1b, <2>3, <2>8
      <4> QED
        BY <2>1a, <2>1b, <2>3, <3>1, <4>1
    <3>2. CASE p # o
      <4>1. p \in busy /\ p < high /\ p \in 0..Pool
        BY <2>0, <2>8a, <3>2
      <4>2. PICK j \in 0..(last - 1) : chunk[j].old = p
        BY <4>1 DEF IInv, PassInv, MarkInv
      <4>3. CASE j < k
        <5> HIDE DEF SamePlaces, SameRegisters, End
        <5>0. /\ last \in 0..NChunk /\ last' \in 1..NChunk
              /\ last' = NChunk \/ last' = last + 1
          BY <2>0, <2>8
        <5>1. j \in Int /\ 0 <= j /\ j < last
          BY <4>2, <5>0
        <5>1a. j < NChunk /\ j < last' /\ NChunk \in Int /\ last' \in Int
          BY <5>0, <5>1
        <5>1b. j \in 0..(NChunk - 1) /\ j \in 0..(last' - 1)
          BY <5>1, <5>1a, IsIndex, Zenon
        <5>2. chunk'[j] = chunk[j]
          BY <2>1b, <4>3, <5>1b
        <5> QED
          BY <4>2, <5>1b, <5>2
      <4>4. CASE j >= k /\ j + 1 < NChunk
        <5>1. j + 1 \in 0..(last' - 1) /\ chunk'[j + 1] = chunk[j]
          BY SMTT(60), <2>0, <2>1a, <2>1b, <2>8, <4>2, <4>4
        <5> QED
          BY <4>2, <5>1
      <4>5. CASE j >= k /\ j + 1 = NChunk
        \* the evicted entry: it lies from the new chunk_high on
        <5>1. last = NChunk /\ last' = NChunk /\ j = NChunk - 1
          BY <2>0, <2>1a, <4>2, <4>5
        <5>1a. Fits(chunk'[NChunk - 1])
          BY <2>7, <2>8, <5>1
        <5>2. chunk'[NChunk - 1].old < p
          <6>1. CASE k = NChunk - 1
            <7>1. chunk'[NChunk - 1].old = o
              BY <2>1b, <6>1
            <7>2. p >= o
              BY <2>1, <4>2, <5>1, <6>1
            <7> QED
              BY <2>0, <3>2, <4>1, <7>1, <7>2
          <6>2. CASE k < NChunk - 1
            <7>1. chunk'[NChunk - 1] = chunk[NChunk - 2]
              BY SMTT(60), <2>0, <2>1a, <2>1b, <5>1, <6>2
            <7>2. chunk[NChunk - 2].old < chunk[NChunk - 1].old
              <8>1. NChunk - 2 \in 0..(last - 1) /\ NChunk - 1 \in 0..(last - 1)
                BY <5>1, <6>2
              <8> QED
                BY <8>1 DEF IInv, PassInv, SortedInv
            <7> QED
              BY <4>2, <5>1, <7>1, <7>2
          <6>3. k = NChunk - 1 \/ k < NChunk - 1
            BY <2>0, <2>3
          <6> QED
            BY <6>1, <6>2, <6>3
        <5>3. chunk'[NChunk - 1].old + chunk'[NChunk - 1].val <= p
          BY <2>0, <2>3a, <4>1, <5>1a, <5>2
        <5> QED
          BY SMTT(30), <2>0, <2>1a, <2>8a, <4>1, <5>1, <5>3
      <4> QED
        BY SMTT(60), <2>0, <4>2, <4>3, <4>4, <4>5
    <3> QED
      BY <3>1, <3>2
  <2>11. TypeOK'
    <3>1. chunk' \in [0..(NChunk - 1) -> Chunk]
      <4> SUFFICES ASSUME NEW i \in 0..(NChunk - 1) PROVE chunk'[i] \in Chunk
        BY <2>1
      <4>1. CASE i = k
        BY <2>0, <2>1a, <2>1b, <4>1 DEF Chunk
      <4>2. CASE i > k /\ i <= last
        BY <2>0, <2>1a, <2>1b, <4>2
      <4>3. CASE ~(i = k) /\ ~(i > k /\ i <= last)
        BY <2>0, <2>1, <4>3
      <4> QED
        BY <4>1, <4>2, <4>3
    <3> QED
      BY SMTT(60), <2>0, <2>1a, <2>1b, <2>8, <2>8a, <3>1 DEF IInv, TypeOK
  <2>12. Layout'
    BY DEF IInv, TypeOK, Layout, Collecting
  <2>13. PlacedInv'
    BY SMTT(30), <2>8a, <2>8b DEF IInv, TypeOK, PassInv, PlacedInv, Collecting
  <2>14. MarkInv'
    <3>1. first' = 0 /\ to <= low
      BY <2>1 DEF IInv, PassInv, MarkInv
    <3>2. busy' \subseteq DOMAIN pool
      BY <2>0
    <3>3. high' = IF last' = NChunk
                  THEN chunk'[last' - 1].old + chunk'[last' - 1].val ELSE top'
      <4>1. CASE last' = NChunk
        BY <2>1a, <4>1
      <4>2. CASE last' # NChunk
        BY <2>0, <2>1a, <2>3b, <4>2
      <4> QED
        BY <4>1, <4>2
    <3>4. \A i \in 0..(last' - 1) :
            Entry(i)' /\ chunk'[i].old \in busy' /\ low <= chunk'[i].old
      BY <2>7, <2>9 DEF Entry
    <3> QED
      BY <2>1a, <2>1b, <2>10, <3>1, <3>2, <3>3, <3>4 DEF MarkInv
  <2>15. SlideInv' /\ CopyInv'
    BY DEF SlideInv, CopyInv
  <2> QED
    BY <2>6, <2>11, <2>12, <2>13, <2>14, <2>15 DEF IInv, PassInv
<1> QED
  <2>1. low \in Int /\ high \in Int /\ o \in Int
    BY DEF IInv, TypeOK
  <2> QED
    BY <1>1, <1>2, <2>1

\* The second walk sets busy bits and looks objects up; the array stays.
LEMMA MoveStep ==
  ASSUME IInv, SamePlaces, SameRegisters, pc = "move", UNCHANGED chunkVars,
         NEW o \in DOMAIN pool, busy' = busy \cup {o}
  PROVE  IInv'
<1> USE DEF SamePlaces, SameRegisters, chunkVars
<1>1. TypeOK'
  BY DEF IInv, TypeOK
<1>2. Layout'
  BY DEF IInv, TypeOK, Layout, End, Collecting
<1>3. PlacedInv'
  BY DEF IInv, TypeOK, PassInv, PlacedInv, End, Collecting
<1>4. (SortedInv /\ MarkInv /\ SlideInv /\ CopyInv)'
  BY DEF SortedInv, MarkInv, SlideInv, CopyInv
<1> QED
  BY <1>1, <1>2, <1>3, <1>4 DEF IInv, PassInv

\* What a step of either walk may do.
MarksOne ==
  \/ UNCHANGED <<busy, chunkVars>>
  \/ \E o \in DOMAIN pool : o \notin busy /\ Mark(o)

LEMMA EnterMarksOne ==
  ASSUME NEW offset, NEW o \in DOMAIN pool, NEW callers, Enter(offset, o, callers)
  PROVE  MarksOne
BY DEF Enter, MarksOne

LEMMA WalkStep ==
  ASSUME IInv, Walking, SamePlaces, SameRegisters, MarksOne
  PROVE  IInv'
<1>1. CASE UNCHANGED <<busy, chunkVars>>
  BY <1>1, QuietStep
<1>2. ASSUME NEW o \in DOMAIN pool, o \notin busy, Mark(o)
      PROVE  IInv'
  <2>1. CASE pc = "mark"
    BY <1>2, <2>1, NoteStep DEF Mark
  <2>2. CASE pc = "move"
    BY <1>2, <2>2, MoveStep DEF Mark
  <2> QED
    BY <2>1, <2>2 DEF Walking
<1> QED
  BY <1>1, <1>2 DEF MarksOne

LEMMA SameIfUnchanged ==
  ASSUME TypeOK, pool' = pool
  PROVE  SamePlaces
BY DEF SamePlaces

\* The part of a step that follows refs[i] of the object at a.
LEMMA VisitRefStep ==
  ASSUME TypeOK, NEW a, NEW i, VisitRef(a, i)
  PROVE  SamePlaces /\ MarksOne
<1>1. CASE pool[a].refs[i] = None
  BY <1>1, SameIfUnchanged DEF VisitRef, MarksOne
<1>2. CASE pool[a].refs[i] # None
  <2>1. PICK t \in DOMAIN pool : /\ pool' = [pool EXCEPT ![a].refs[i] = t]
                                 /\ Enter(pool[a].refs[i], t, Stepped)
    BY <1>2 DEF VisitRef
  <2> QED
    BY <2>1, WriteRef, EnterMarksOne
<1> QED
  BY <1>1, <1>2

LEMMA WalkPlaces ==
  ASSUME TypeOK, Walk
  PROVE  Walking /\ SamePlaces /\ SameRegisters /\ MarksOne
<1> USE DEF walkFrame
<1>0. TypeOK
  OBVIOUS
<1>1. CASE VisitRoot
  <2>1. SamePlaces /\ SameRegisters /\ Walking
    BY <1>0, <1>1, SameIfUnchanged DEF VisitRoot, SameRegisters
  <2>2. MarksOne
    BY <1>1, EnterMarksOne DEF VisitRoot, MarksOne
  <2> QED
    BY <2>1, <2>2
<1>2. CASE VisitData
  <2> DEFINE r == pool[Cursor.obj].refs[1]
  <2>1. SameRegisters /\ Walking
    BY <1>2 DEF VisitData, SameRegisters, At
  <2>2. CASE r = None
    BY <1>0, <1>2, <2>1, <2>2, SameIfUnchanged DEF VisitData, MarksOne
  <2>3. CASE r # None
    <3>1. PICK t \in DOMAIN pool :
            /\ pool' = [pool EXCEPT ![Cursor.obj].refs[1] = t]
            /\ IF t \in busy THEN UNCHANGED <<busy, chunkVars>> ELSE Mark(t)
      BY <1>2, <2>3 DEF VisitData
    <3> QED
      BY <1>0, <2>1, <3>1, WriteRef DEF MarksOne
  <2> QED
    BY <2>2, <2>3
<1>3. CASE VisitItem
  BY <1>0, <1>3, VisitRefStep DEF VisitItem, SameRegisters, At
<1>4. CASE LeaveList
  BY <1>0, <1>4, WriteNext DEF LeaveList, SameRegisters, At, MarksOne
<1>5. CASE VisitVariable
  BY <1>0, <1>5, VisitRefStep DEF VisitVariable, SameRegisters, At
<1>6. CASE VisitPrev
  <2> DEFINE r == pool[Cursor.obj].refs[2]
  <2>1. SameRegisters /\ Walking
    BY <1>6 DEF VisitPrev, SameRegisters, At
  <2>2. CASE r = None
    BY <1>0, <1>6, <2>1, <2>2, SameIfUnchanged DEF VisitPrev, MarksOne
  <2>3. CASE r # None
    <3>1. PICK t \in DOMAIN pool :
            /\ pool' = [pool EXCEPT ![Cursor.obj].refs[2] = t]
            /\ Enter(r, t, Returned)
      BY <1>6, <2>3 DEF VisitPrev
    <3> QED
      BY <1>0, <2>1, <3>1, WriteRef, EnterMarksOne
  <2> QED
    BY <2>2, <2>3
<1>7. CASE TakeNotes
  BY <1>0, <1>7, SameIfUnchanged DEF TakeNotes, SameRegisters, RootsDone, MarksOne, memVars
<1>8. CASE ProcessNote
  BY <1>0, <1>8, WriteNext DEF ProcessNote, SameRegisters, RootsDone, MarksOne
<1> QED
  BY <1>1, <1>2, <1>3, <1>4, <1>5, <1>6, <1>7, <1>8 DEF Walk

LEMMA WalkKeepsIInv ==
  ASSUME IInv, Walk
  PROVE  IInv'
BY WalkPlaces, WalkStep DEF IInv

----------------------------------------------------------------------------
(***************************************************************************)
(* The interpreter and snek_alloc                                          *)
(***************************************************************************)
LEMMA InitIInv == Init => IInv
<1> SUFFICES ASSUME Init PROVE IInv
  OBVIOUS
<1>1. TypeOK
  BY DEF Init, TypeOK, EmptyChunks, Chunk
<1>2. Layout
  BY DEF Init, Layout
<1>3. PassInv
  BY DEF Init, PassInv, PlacedInv, SortedInv, MarkInv, SlideInv, CopyInv, Collecting
<1> QED
  BY <1>1, <1>2, <1>3 DEF IInv

\* Outside a collection the state of a pass is of no account.
LEMMA CalmState ==
  ASSUME pc' \in {"run", "alloc"}, TypeOK', Layout'
  PROVE  IInv'
BY DEF IInv, PassInv, PlacedInv, SortedInv, MarkInv, SlideInv, CopyInv, Collecting

\* Nothing is allocated.
LEMMA CalmStep ==
  ASSUME IInv, pc \in {"run", "alloc"}, pc' \in {"run", "alloc"}, SamePlaces,
         UNCHANGED <<top, lastTop, collectorVars>>
  PROVE  IInv'
<1> USE DEF SamePlaces, collectorVars, chunkVars, walkVars
<1>1. TypeOK'
  BY DEF IInv, TypeOK
<1>2. Layout'
  BY SMTT(60) DEF IInv, TypeOK, Layout, End, Collecting
<1> QED
  BY <1>1, <1>2, CalmState

LEMMA InterpretKeepsIInv ==
  ASSUME IInv, Interpret
  PROVE  IInv'
<1>0. TypeOK
  BY DEF IInv
<1>1. /\ pc = "run" /\ pc' \in {"run", "alloc"}
      /\ UNCHANGED <<top, lastTop, collectorVars>>
  BY DEF Interpret, CallBlob, CallList, CallFrame, CallAppend, AppendInPlace, LoadItem,
         StoreItem, DeleteItem, Drop, PushNumber, PopFrame, LoadVariable, StoreVariable,
         Calls, Call, Runs, memVars
<1>2. SamePlaces
  <2>1. CASE CallBlob \/ CallList \/ CallFrame \/ CallAppend
    BY <1>0, <2>1, SameIfUnchanged
       DEF CallBlob, CallList, CallFrame, CallAppend, Calls, memVars
  <2>2. CASE LoadItem \/ Drop \/ PushNumber \/ PopFrame \/ LoadVariable
    BY SMTT(60), <1>0, <2>2, SameIfUnchanged DEF LoadItem, Drop, PushNumber, PopFrame, LoadVariable
  <2>3. CASE StoreItem
    BY <1>0, <2>3, WriteRef DEF StoreItem
  <2>4. CASE StoreVariable
    BY <1>0, <2>4, WriteRef DEF StoreVariable
  <2>5. CASE AppendInPlace
    BY <1>0, <2>5 DEF AppendInPlace, SamePlaces, TypeOK, Fields
  <2>6. CASE DeleteItem
    <3>1. PICK a, b, x, y : pool' = [pool EXCEPT ![a].len = x, ![b].refs = y]
      BY <2>6 DEF DeleteItem
    <3> QED
      BY <1>0, <3>1 DEF SamePlaces, TypeOK, Fields
  <2> QED
    BY <2>1, <2>2, <2>3, <2>4, <2>5, <2>6 DEF Interpret
<1> QED
  BY <1>1, <1>2, CalmStep

\* A new object ends at the new snek_top.
LEMMA GrowStep ==
  ASSUME IInv, pc = "alloc", pc' \in {"run", "alloc"},
         NEW n \in 1..Free, top' = top + n, UNCHANGED <<lastTop, collectorVars>>,
         DOMAIN pool' = DOMAIN pool \cup {top},
         pool'[top].size = n,
         \A o \in DOMAIN pool' : DOMAIN pool'[o] = Fields /\ pool'[o].kind \in Kinds,
         \A o \in DOMAIN pool : pool'[o].size = pool[o].size
  PROVE  IInv'
<1> USE DEF collectorVars, chunkVars, walkVars
<1>1. TypeOK'
  BY DEF IInv, TypeOK, Free
<1>2. Layout'
  <2>1. /\ top \in 0..Pool /\ lastTop \in 0..Pool /\ lastTop <= top
        /\ DOMAIN pool \subseteq 0..(Pool - 1)
        /\ \A o \in DOMAIN pool : pool[o].size \in 1..Pool
        /\ \A o \in DOMAIN pool : o + pool[o].size <= top
        /\ \A o \in DOMAIN pool : o < lastTop => o + pool[o].size <= lastTop
        /\ \A o, p \in DOMAIN pool : o < p => o + pool[o].size <= p
    BY DEF IInv, TypeOK, Layout, End, Collecting
  <2>2. n \in 1..Pool
    BY <2>1 DEF Free
  <2> QED
    BY <2>1, <2>2 DEF Layout, End
<1> QED
  BY <1>1, <1>2, CalmState

LEMMA AllocKeepsIInv ==
  ASSUME IInv, Alloc
  PROVE  IInv'
<1>0. TypeOK
  BY DEF IInv
<1> DEFINE Placed == /\ DOMAIN pool' = DOMAIN pool \cup {top}
                     /\ pool'[top].size = req.size
                     /\ \A o \in DOMAIN pool' : /\ DOMAIN pool'[o] = Fields
                                                /\ pool'[o].kind \in Kinds
                     /\ \A o \in DOMAIN pool : pool'[o].size = pool[o].size
<1>1. CASE AllocFails
  <2>1. SamePlaces
    BY <1>0, <1>1, SameIfUnchanged DEF AllocFails, memVars
  <2> QED
    BY <1>1, <2>1, CalmStep DEF AllocFails, Done, memVars
<1>2. CASE AllocBlob \/ AllocHead \/ AllocData \/ AllocAppend \/ AllocFrame
  <2>1. /\ pc = "alloc" /\ pc' \in {"run", "alloc"} /\ req.size \in 1..Free
        /\ top' = top + req.size /\ UNCHANGED <<lastTop, collectorVars>>
    BY <1>2 DEF AllocBlob, AllocHead, AllocData, AllocAppend, AllocFrame,
                Allocates, Done, Call
  <2>2. top \notin DOMAIN pool
    BY <1>0 DEF IInv, TypeOK, Layout, End
  <2>3. ASSUME NEW kind \in Kinds, NEW refs, NEW len,
               pool' = Put(pool, top, New(kind, req.size, refs, len))
        PROVE  Placed
    BY <1>0, <2>2, <2>3 DEF Put, New, TypeOK, Fields
  <2>4. ASSUME NEW a, NEW items, pool' = NewBlock(a, items)
        PROVE  Placed
    <3> DEFINE p == Put(pool, top,
                        New("data", req.size, Over(Zeroed(req.size), 0, items), 0))
    <3>1. /\ DOMAIN p = DOMAIN pool \cup {top}
          /\ p[top].size = req.size
          /\ \A o \in DOMAIN p : DOMAIN p[o] = Fields /\ p[o].kind \in Kinds
          /\ \A o \in DOMAIN pool : p[o].size = pool[o].size
      BY <1>0, <2>2 DEF Put, New, TypeOK, Fields, Kinds
    <3>2. pool' = [p EXCEPT ![a].refs = <<top>>, ![a].len = Len(items)]
      BY <2>4 DEF NewBlock
    <3> HIDE DEF p
    <3> QED
      BY <3>1, <3>2 DEF Fields
  <2>5. Placed
    BY <1>2, <2>3, <2>4
       DEF AllocBlob, AllocHead, AllocData, AllocAppend, AllocFrame, Kinds
  <2> QED
    BY <2>1, <2>5, GrowStep
<1> QED
  BY <1>1, <1>2 DEF Alloc

----------------------------------------------------------------------------
(***************************************************************************)
(* The collector                                                           *)
(***************************************************************************)
\* A pass starts where what has been placed ends, or above it.
LEMMA StartPassKeepsIInv ==
  ASSUME IInv, NEW offset \in 0..Pool, StartPass(offset),
         to' \in 0..offset, offset <= top,
         \A o \in DOMAIN pool : o < to' => End(o) <= to',
         style' \in {"incr", "full"}, style' = "incr" => lastTop <= to',
         Collecting => style' = style,
         c' = c, UNCHANGED memVars
  PROVE  IInv'
<1> USE DEF StartPass, StartWalk, memVars
<1>1. TypeOK'
  BY DEF IInv, TypeOK
<1>2. Layout'
  BY DEF IInv, TypeOK, Layout, End, Collecting
<1>3. PlacedInv'
  BY DEF IInv, TypeOK, PlacedInv, End, Collecting
<1>4. MarkInv'
  BY DEF IInv, TypeOK, MarkInv
<1>5. SortedInv' /\ SlideInv' /\ CopyInv'
  BY DEF IInv, TypeOK, SortedInv, SlideInv, CopyInv
<1> QED
  BY <1>1, <1>2, <1>3, <1>4, <1>5 DEF IInv, PassInv

LEMMA CollectKeepsIInv ==
  ASSUME IInv, Collect
  PROVE  IInv'
<1>1. /\ pc = "alloc" /\ style' \in {"incr", "full"}
      /\ to' = IF style' = "full" THEN 0 ELSE lastTop
      /\ StartPass(to') /\ UNCHANGED memVars /\ c' = c
  BY DEF Collect, Bottom, NextTry
<1>2. /\ top \in 0..Pool /\ lastTop \in 0..Pool /\ lastTop <= top
      /\ DOMAIN pool \subseteq 0..(Pool - 1)
      /\ \A o \in DOMAIN pool : o < lastTop => End(o) <= lastTop
  BY <1>1 DEF IInv, TypeOK, Layout, Collecting
<1>3. \A o \in DOMAIN pool : o < to' => End(o) <= to'
  BY <1>1, <1>2
<1> QED
  BY <1>1, <1>2, <1>3, StartPassKeepsIInv DEF Collecting

\* The next pass starts at chunk_high.
LEMMA PassKeepsIInv ==
  ASSUME IInv, FindNone \/ NextPass
  PROVE  IInv'
<1>1. /\ Collecting /\ StartPass(high)
      /\ UNCHANGED <<memVars, style, to, c>>
  BY DEF FindNone, NextPass, NextLow, Collecting
<1>2. /\ to \in 0..high /\ high \in 0..Pool /\ high <= top
      /\ style \in {"incr", "full"} /\ (style = "incr" => lastTop <= to)
      /\ \A o \in DOMAIN pool : o < to => End(o) <= to
  BY <1>1 DEF IInv, TypeOK, PassInv, PlacedInv
<1> QED
  BY <1>1, <1>2, StartPassKeepsIInv

LEMMA MarkDoneKeepsIInv ==
  ASSUME IInv, MarkDone
  PROVE  IInv'
<1> USE DEF MarkDone, memVars, chunkVars, walkVars
<1>1. TypeOK'
  BY DEF IInv, TypeOK
<1>2. Layout' /\ PlacedInv'
  BY DEF IInv, Layout, PassInv, PlacedInv, End, Collecting
<1>3. SortedInv' /\ CopyInv'
  BY DEF IInv, PassInv, SortedInv, CopyInv
<1>4. MarkInv'
  BY DEF IInv, PassInv, MarkInv, Entry
<1>5. SlideInv'
  <2>1. last \in 0..NChunk /\ to \in 0..Pool /\ low \in 0..Pool /\ to <= low
    BY DEF IInv, TypeOK, PassInv, MarkInv
  <2>2. ASSUME 0 < last PROVE to <= chunk[0].old
    <3>1. low <= chunk[0].old /\ chunk[0] \in Chunk
      BY <2>1, <2>2 DEF IInv, TypeOK, PassInv, MarkInv
    <3> QED
      BY <2>1, <3>1 DEF Chunk
  <2> QED
    BY <2>1, <2>2 DEF SlideInv
<1> QED
  BY <1>1, <1>2, <1>3, <1>4, <1>5 DEF IInv, PassInv

\* The entry that the search or the copying is at: where it is, where the next
\* one is, and that no object lies between.
LEMMA CurrentEntry ==
  ASSUME IInv, pc \in {"find", "copy"}, c < last
  PROVE  /\ c \in 0..(NChunk - 1) /\ last \in 0..NChunk
         /\ to \in 0..Pool /\ high \in 0..Pool /\ top \in 0..Pool /\ high <= top
         /\ chunk[c].old \in DOMAIN pool /\ chunk[c].old \in 0..(Pool - 1)
         /\ chunk[c].val = pool[chunk[c].old].size /\ chunk[c].val \in 1..Pool
         /\ to <= chunk[c].old /\ chunk[c].old + chunk[c].val <= high
         /\ \A i \in (c + 1)..(last - 1) :
              /\ chunk[i].old \in DOMAIN pool
              /\ chunk[c].old + chunk[c].val <= chunk[i].old
<1>1. /\ c \in 0..(NChunk - 1) /\ last \in 0..NChunk
      /\ to \in 0..Pool /\ high \in 0..Pool /\ top \in 0..Pool /\ high <= top
      /\ first \in 0..NChunk /\ first <= c
      /\ DOMAIN pool \subseteq 0..(Pool - 1)
      /\ \A o \in DOMAIN pool : pool[o].size \in 1..Pool
  BY DEF IInv, TypeOK, PassInv, PlacedInv, MarkInv, CopyInv, Collecting
<1>2. \A i \in c..(last - 1) : Entry(i)
  BY <1>1 DEF IInv, PassInv, MarkInv, CopyInv
<1>3. to <= chunk[c].old
  BY DEF IInv, PassInv, SlideInv
<1>4. \A i \in (c + 1)..(last - 1) : chunk[c].old < chunk[i].old
  BY <1>1 DEF IInv, PassInv, SortedInv
<1>5. \A o, p \in DOMAIN pool : o < p => o + pool[o].size <= p
  BY DEF IInv, Layout, End
<1> QED
  BY <1>1, <1>2, <1>3, <1>4, <1>5 DEF Entry

LEMMA FindSkipKeepsIInv ==
  ASSUME IInv, FindSkip
  PROVE  IInv'
<1> USE DEF FindSkip, memVars, chunkVars, walkVars
<1> DEFINE o == chunk[c].old
           n == chunk[c].val
<1>1. /\ c \in 0..(NChunk - 1) /\ last \in 0..NChunk
      /\ o \in DOMAIN pool /\ o = to /\ n = pool[o].size /\ n \in 1..Pool
      /\ to \in 0..Pool /\ high \in 0..Pool /\ top \in 0..Pool /\ high <= top
      /\ o + n <= high
  BY CurrentEntry
<1>2. \A i \in (c + 1)..(last - 1) : o + n <= chunk[i].old
  BY CurrentEntry
<1> HIDE DEF o, n
<1>3. to' = to + n /\ c' = c + 1
  BY DEF n
<1>4. TypeOK'
  BY SMTT(60), <1>1, <1>3 DEF IInv, TypeOK
<1>5. Layout'
  BY DEF IInv, Layout, End, Collecting
<1>6. PlacedInv'
  <2>1. \A p \in DOMAIN pool : p < to + n => p + pool[p].size <= to + n
    <3>1. \A p \in DOMAIN pool : p \in 0..Pool /\ pool[p].size \in 1..Pool
      BY DEF IInv, TypeOK
    <3>2. \A p \in DOMAIN pool : /\ p < to => p + pool[p].size <= to
                                 /\ o < p => o + pool[o].size <= p
      BY <1>1 DEF IInv, Layout, PassInv, PlacedInv, End, Collecting
    <3> QED
      BY <1>1, <3>1, <3>2
  <2>2. style = "incr" => lastTop <= to + n
    BY <1>1 DEF IInv, TypeOK, PassInv, PlacedInv, Collecting
  <2> QED
    BY <1>1, <1>3, <2>1, <2>2 DEF PlacedInv, End
<1>7. SlideInv'
  BY <1>1, <1>2, <1>3 DEF SlideInv
<1>8. SortedInv' /\ MarkInv' /\ CopyInv'
  BY DEF IInv, PassInv, SortedInv, MarkInv, CopyInv, Entry
<1> QED
  BY <1>4, <1>5, <1>6, <1>7, <1>8 DEF IInv, PassInv

LEMMA FindDoneKeepsIInv ==
  ASSUME IInv, FindDone
  PROVE  IInv'
<1> USE DEF FindDone, memVars, walkVars
<1>1. TypeOK'
  BY DEF IInv, TypeOK, Chunk
<1>2. Layout' /\ PlacedInv'
  BY DEF IInv, Layout, PassInv, PlacedInv, End, Collecting
<1>3. SortedInv' /\ MarkInv' /\ SlideInv'
  BY DEF IInv, PassInv, SortedInv, MarkInv, SlideInv
<1>4. CopyInv'
  <2>1. /\ c \in 0..(NChunk - 1) /\ last \in 0..NChunk /\ low \in 0..Pool
        /\ first' = c /\ low' = chunk[c].old /\ high' = high /\ busy' = busy
        /\ chunk' = chunk /\ last' = last /\ pool' = pool /\ c' = c
        /\ high \in 0..Pool /\ busy \subseteq 0..(Pool - 1)
        /\ \A i \in 0..(last - 1) : Entry(i) /\ low <= chunk[i].old
        /\ \A i \in 0..(NChunk - 1) : chunk[i].old \in 0..Pool
    BY SMTT(60) DEF IInv, TypeOK, PassInv, MarkInv, Chunk
  <2>2. ASSUME c < last, NEW o \in busy, chunk[c].old <= o, o < high
        PROVE  \E i \in c..(last - 1) : chunk[i].old = o
    <3>1. low <= o
      BY <2>1, <2>2
    <3>2. PICK i \in 0..(last - 1) : chunk[i].old = o
      BY <2>2, <3>1 DEF IInv, PassInv, MarkInv
    <3>3. i < c => chunk[i].old < chunk[c].old
      BY <2>1, <2>2 DEF IInv, PassInv, SortedInv
    <3> QED
      BY <2>1, <2>2, <3>2, <3>3
  <2> QED
    BY <2>1, <2>2 DEF CopyInv, Entry
<1> QED
  BY <1>1, <1>2, <1>3, <1>4 DEF IInv, PassInv

\* What memmove leaves of pool: the object is at its new place, and any other
\* that is still there is where and what it was, clear of the new place.
LEMMA MovedPlaces ==
  ASSUME IInv, Copy
  PROVE  LET n == chunk[c].val IN
         /\ to \in DOMAIN pool' /\ pool'[to] = pool[chunk[c].old]
         /\ \A o \in DOMAIN pool' : o # to =>
              /\ o \in DOMAIN pool /\ o # chunk[c].old /\ pool'[o] = pool[o]
              /\ End(o) <= to \/ to + n <= o
         /\ \A o \in DOMAIN pool :
              o # chunk[c].old /\ (End(o) <= to \/ to + n <= o) =>
                o \in DOMAIN pool' /\ pool'[o] = pool[o]
<1> DEFINE old == chunk[c].old
           n   == chunk[c].val
           keep == {o \in DOMAIN pool \ {old} :
                      ~Overlaps(o, pool[o].size, to, pool[old].size)}
<1>1. /\ pc = "copy" /\ c < last
      /\ pool' = [o \in keep \cup {to} |-> IF o = to THEN pool[old] ELSE pool[o]]
  BY DEF Copy, NextPlace, Moved
<1>2. /\ old \in DOMAIN pool /\ n = pool[old].size /\ n \in 1..Pool /\ to \in 0..Pool
  BY <1>1, CurrentEntry
<1>3. \A o \in DOMAIN pool : o \in 0..(Pool - 1) /\ pool[o].size \in 1..Pool
  BY DEF IInv, TypeOK
<1>4. \A o \in DOMAIN pool :
        ~Overlaps(o, pool[o].size, to, pool[old].size) <=> (End(o) <= to \/ to + n <= o)
  <2> SUFFICES ASSUME NEW o \in DOMAIN pool
               PROVE  ~(o < to + n /\ to < o + pool[o].size) <=>
                        (o + pool[o].size <= to \/ to + n <= o)
    BY <1>2 DEF Overlaps, End
  <2> HIDE DEF n
  <2> QED
    BY <1>2, <1>3
<1>5. DOMAIN pool' = keep \cup {to}
  BY <1>1
<1>6. \A o \in keep : o # to => pool'[o] = pool[o]
  BY <1>1
<1>7. \A o \in keep : o # to
  <2> SUFFICES ASSUME to \in keep PROVE FALSE
    OBVIOUS
  <2>1. to \in DOMAIN pool /\ (to + pool[to].size <= to \/ to + n <= to)
    BY <1>4 DEF End
  <2> HIDE DEF n, keep
  <2> QED
    BY <1>2, <1>3, <2>1
<1> QED
  BY <1>1, <1>2, <1>4, <1>5, <1>6, <1>7

LEMMA CopyKeepsIInv ==
  ASSUME IInv, Copy
  PROVE  IInv'
<1> DEFINE old == chunk[c].old
           n   == chunk[c].val
<1>1. /\ c \in 0..(NChunk - 1) /\ last \in 0..NChunk /\ c < last
      /\ old \in DOMAIN pool /\ to <= old /\ n = pool[old].size /\ n \in 1..Pool
      /\ to \in 0..Pool /\ high \in 0..Pool /\ top \in 0..Pool /\ high <= top
      /\ old \in 0..(Pool - 1) /\ old + n <= high
  BY CurrentEntry DEF Copy, NextPlace
<1>2. \A i \in (c + 1)..(last - 1) : /\ chunk[i].old \in DOMAIN pool
                                     /\ old + n <= chunk[i].old
  BY CurrentEntry DEF Copy, NextPlace
<1>3. /\ pc = "copy" /\ pc' = "copy" /\ to' = to + n /\ c' = c + 1
      /\ UNCHANGED <<top, lastTop, style, low, high, first, last, busy>>
  BY DEF Copy, NextPlace, walkVars
<1>4. /\ to \in DOMAIN pool' /\ pool'[to] = pool[old]
      /\ \A o \in DOMAIN pool' : o # to =>
           /\ o \in DOMAIN pool /\ o # old /\ pool'[o] = pool[o]
           /\ o + pool[o].size <= to \/ to + n <= o
      /\ \A o \in DOMAIN pool :
           o # old /\ (o + pool[o].size <= to \/ to + n <= o) =>
             o \in DOMAIN pool' /\ pool'[o] = pool[o]
  BY MovedPlaces DEF End
<1>5. /\ \A o \in DOMAIN pool : o \in 0..(Pool - 1) /\ pool[o].size \in 1..Pool
      /\ chunk \in [0..(NChunk - 1) -> Chunk]
      /\ lastTop \in 0..Pool /\ first \in 0..NChunk
  BY DEF IInv, TypeOK
<1>6. /\ \A i \in 0..(NChunk - 1) : /\ chunk'[i].old = chunk[i].old
                                    /\ i # c => chunk'[i] = chunk[i]
                                    /\ chunk[i].old \in 0..Pool
      /\ chunk' \in [0..(NChunk - 1) -> Chunk]
  <2>1. chunk' = [chunk EXCEPT ![c].val = to]
    BY DEF Copy, NextPlace
  <2> QED
    BY <1>1, <1>5, <2>1 DEF Chunk
<1> HIDE DEF old, n
<1>7. \A o \in DOMAIN pool' :
        /\ o \in 0..(Pool - 1) /\ pool'[o].size \in 1..Pool
        /\ DOMAIN pool'[o] = Fields /\ pool'[o].kind \in Kinds
  <2>1. \A o \in DOMAIN pool : DOMAIN pool[o] = Fields /\ pool[o].kind \in Kinds
    BY DEF IInv, TypeOK
  <2> QED
    BY <1>1, <1>4, <1>5, <2>1
<1>8. TypeOK'
  <2>1. to' \in 0..Pool /\ c' \in 0..NChunk
    BY <1>1, <1>3
  <2> QED
    BY <1>3, <1>6, <1>7, <2>1 DEF IInv, TypeOK
<1>9. Layout'
  <2>1. /\ lastTop <= top
        /\ \A o \in DOMAIN pool :
             /\ o + pool[o].size <= top
             /\ style = "incr" /\ o < lastTop => o + pool[o].size <= lastTop
             /\ \A p \in DOMAIN pool : o < p => o + pool[o].size <= p
        /\ style \in {"incr", "full"} /\ (style = "incr" => lastTop <= to)
    BY <1>3 DEF IInv, TypeOK, Layout, PassInv, PlacedInv, End, Collecting
  <2>2. ASSUME NEW o \in DOMAIN pool', NEW p \in DOMAIN pool', o < p
        PROVE  o + pool'[o].size <= p
    <3>1. CASE o = to
      BY <1>1, <1>4, <1>7, <2>2, <3>1
    <3>2. CASE o # to /\ p = to
      BY <1>1, <1>4, <1>7, <2>2, <3>2
    <3>3. CASE o # to /\ p # to
      BY <1>4, <2>1, <2>2, <3>3
    <3> QED
      BY <3>1, <3>2, <3>3
  <2>3. \A o \in DOMAIN pool' : o + pool'[o].size <= top
    BY <1>1, <1>4, <1>5, <2>1
  <2>4. \A o \in DOMAIN pool' : style = "incr" /\ o < lastTop => o + pool'[o].size <= lastTop
    BY <1>1, <1>4, <1>5, <2>1
  <2> QED
    BY <1>3, <2>1, <2>2, <2>3, <2>4 DEF Layout, End, Collecting
<1>10. PlacedInv'
  <2>1. style = "incr" => lastTop <= to
    BY <1>3 DEF IInv, PassInv, PlacedInv, Collecting
  <2>2. \A o \in DOMAIN pool' : o < to + n => o + pool'[o].size <= to + n
    BY SMTT(60), <1>1, <1>4, <1>5
  <2> QED
    BY <1>1, <1>3, <1>5, <2>1, <2>2 DEF PlacedInv, End
<1>11. SortedInv'
  BY <1>1, <1>3, <1>6 DEF IInv, PassInv, SortedInv
<1>12. MarkInv'
  BY <1>3 DEF MarkInv
<1>13. SlideInv'
  <2>1. ASSUME c + 1 < last PROVE to + n <= chunk[c + 1].old
    <3>1. c + 1 \in (c + 1)..(last - 1) /\ c + 1 \in 0..(NChunk - 1)
      BY <1>1, <2>1
    <3>2. old + n <= chunk[c + 1].old /\ chunk[c + 1].old \in 0..Pool
      BY <1>2, <1>6, <3>1
    <3> QED
      BY <1>1, <3>2
  <2> QED
    BY SMTT(60), <1>1, <1>3, <1>6, <2>1 DEF SlideInv
<1>14. CopyInv'
  <2>1. /\ first <= c
        /\ \A i \in c..(last - 1) : Entry(i)
        /\ \A i \in first..(c - 1) : chunk[i].old \in DOMAIN pool => chunk[i].old < to
        /\ first < last => low = chunk[first].old
        /\ first < last =>
             \A o \in busy : low <= o /\ o < high =>
                               \E i \in first..(last - 1) : chunk[i].old = o
    BY <1>3 DEF IInv, PassInv, CopyInv
  <2>2. \A i \in (c + 1)..(last - 1) : Entry(i)'
    <3> SUFFICES ASSUME NEW i \in (c + 1)..(last - 1) PROVE Entry(i)'
      OBVIOUS
    <3>1. Entry(i) /\ i \in 0..(NChunk - 1) /\ i # c
      BY <1>1, <2>1
    <3>2. chunk[i].old # old /\ to + n <= chunk[i].old /\ chunk[i].old \in DOMAIN pool
      BY SMTT(60), <1>1, <1>2, <1>6, <3>1
    <3> QED
      BY <1>3, <1>4, <1>6, <3>1, <3>2 DEF Entry
  <2>3. \A i \in first..c : chunk[i].old \in DOMAIN pool' => chunk[i].old < to + n
    <3> SUFFICES ASSUME NEW i \in first..c, chunk[i].old \in DOMAIN pool'
                 PROVE  chunk[i].old < to + n
      OBVIOUS
    <3>1. chunk[i].old = to \/ (chunk[i].old \in DOMAIN pool /\ chunk[i].old # old)
      BY <1>4
    <3>2. i = c => chunk[i].old = old
      BY DEF old
    <3>3. chunk[i].old = to => chunk[i].old < to + n
      BY <1>1
    <3>4. ASSUME chunk[i].old # to PROVE chunk[i].old < to + n
      <4>1. i \in first..(c - 1) /\ chunk[i].old \in 0..Pool
        BY SMTT(60), <1>1, <1>5, <1>6, <3>1, <3>2, <3>4
      <4>2. chunk[i].old < to
        BY <2>1, <3>1, <3>4, <4>1
      <4> QED
        BY <1>1, <4>1, <4>2
    <3> QED
      BY <3>3, <3>4
  <2>4. \A i \in first..(last - 1) : chunk'[i].old = chunk[i].old
    BY <1>1, <1>5, <1>6
  <2>5. \A i \in first'..(c' - 1) : chunk'[i].old \in DOMAIN pool' => chunk'[i].old < to'
    BY <1>1, <1>3, <1>5, <2>3, <2>4
  <2>6. first' <= c' /\ \A i \in c'..(last' - 1) : Entry(i)'
    BY <1>1, <1>3, <1>5, <2>1, <2>2
  <2>7. first < last => first \in first..(last - 1)
    BY <1>1, <1>5
  <2> QED
    BY <1>3, <2>1, <2>4, <2>5, <2>6, <2>7 DEF CopyInv
<1> QED
  BY <1>8, <1>9, <1>10, <1>11, <1>12, <1>13, <1>14 DEF IInv, PassInv

\* Relocation starts, or is over, or there was none.
LEMMA CopiedKeepsIInv ==
  ASSUME IInv, CopyDone \/ MoveDone
  PROVE  IInv'
<1> USE DEF CopyDone, MoveDone, StartWalk, memVars, chunkVars, walkVars
<1>1. /\ Collecting /\ pc' \in {"move", "next"} /\ (busy' = busy \/ busy' = {})
      /\ UNCHANGED <<memVars, style, to, chunkVars, c>>
  BY DEF Collecting
<1> HIDE DEF CopyDone, MoveDone
<1>2. TypeOK'
  BY <1>1 DEF IInv, TypeOK
<1>3. Layout' /\ PlacedInv'
  BY <1>1 DEF IInv, Layout, PassInv, PlacedInv, End, Collecting
<1>4. SortedInv' /\ MarkInv' /\ SlideInv' /\ CopyInv'
  BY <1>1 DEF SortedInv, MarkInv, SlideInv, CopyInv
<1> QED
  BY <1>2, <1>3, <1>4 DEF IInv, PassInv

LEMMA FinishKeepsIInv ==
  ASSUME IInv, Finish
  PROVE  IInv'
<1> USE DEF Finish, NextBorder
<1>1. /\ Collecting /\ to \in 0..Pool /\ high \in 0..Pool /\ to <= top
      /\ top \in 0..Pool /\ lastTop \in 0..Pool /\ style \in {"incr", "full"}
      /\ DOMAIN pool \subseteq 0..(Pool - 1)
      /\ \A o \in DOMAIN pool : pool[o].size \in 1..Pool
      /\ \A o \in DOMAIN pool : o < to => o + pool[o].size <= to
      /\ style = "incr" => lastTop <= to
  BY DEF IInv, TypeOK, PassInv, PlacedInv, End, Collecting
<1>2. \A o \in DOMAIN pool :
        /\ style = "incr" /\ o < lastTop => o + pool[o].size <= lastTop
        /\ \A p \in DOMAIN pool : o < p => o + pool[o].size <= p
  BY <1>1 DEF IInv, Layout, End
<1>3. /\ DOMAIN pool' = {x \in DOMAIN pool : x < to}
      /\ \A o \in DOMAIN pool' : pool'[o] = pool[o]
  OBVIOUS
<1>4. TypeOK'
  BY <1>1, <1>3 DEF IInv, TypeOK, EmptyChunks, Chunk
<1>5. Layout'
  BY <1>1, <1>2, <1>3 DEF Layout, End
<1> QED
  BY <1>4, <1>5, CalmState

LEMMA CollectorKeepsIInv ==
  ASSUME IInv, Collector
  PROVE  IInv'
BY CollectKeepsIInv, MarkDoneKeepsIInv, FindSkipKeepsIInv, FindDoneKeepsIInv,
   PassKeepsIInv, CopyKeepsIInv, CopiedKeepsIInv, FinishKeepsIInv DEF Collector

LEMMA NextKeepsIInv ==
  ASSUME IInv, [Next]_vars
  PROVE  IInv'
<1>1. CASE UNCHANGED vars
  <2>1. SamePlaces
    BY <1>1, SameIfUnchanged DEF IInv, vars
  <2> QED
    BY <1>1, <2>1, QuietStep DEF vars, SameRegisters, chunkVars
<1>2. CASE Next
  BY <1>2, InterpretKeepsIInv, AllocKeepsIInv, WalkKeepsIInv, CollectorKeepsIInv
     DEF Next
<1> QED
  BY <1>1, <1>2

----------------------------------------------------------------------------
THEOREM IInvHolds == Spec => []IInv
BY InitIInv, NextKeepsIInv, PTL DEF Spec

\* The registers of the collector stay in their ranges: in particular no index
\* into snek_chunk leaves it, whatever the program and the size of the array.
THEOREM TypeCorrect == Spec => []TypeOK
<1>1. IInv => TypeOK
  BY DEF IInv
<1> QED
  BY <1>1, IInvHolds, PTL

\* Objects never overlap, before, during and after a collection, and none lies
\* across the border of the old space.
THEOREM LayoutHolds == Spec => []Layout
<1>1. IInv => Layout
  BY DEF IInv
<1> QED
  BY <1>1, IInvHolds, PTL

LEMMA OldObjectsStayStep ==
  ASSUME IInv, Next
  PROVE  KeepsOldObjects
<1> SUFFICES ASSUME Collecting, style = "incr", NEW o \in DOMAIN pool, o < lastTop
             PROVE  /\ o \in DOMAIN pool' /\ pool'[o].kind = pool[o].kind
                    /\ pool'[o].size = pool[o].size
  BY DEF KeepsOldObjects
<1>1. /\ o \in 0..Pool /\ lastTop \in 0..Pool /\ to \in 0..Pool
      /\ lastTop <= to /\ End(o) <= to /\ TypeOK
  <2>1. o \in 0..Pool /\ lastTop \in 0..Pool /\ to \in 0..Pool /\ lastTop <= to
    BY DEF IInv, TypeOK, PassInv, PlacedInv
  <2> QED
    BY <2>1 DEF IInv, PassInv, PlacedInv
<1>2. CASE Copy
  <2>1. o # chunk[c].old
    BY <1>1, <1>2, CurrentEntry DEF Copy, NextPlace
  <2> QED
    BY <1>1, <1>2, <2>1, MovedPlaces
<1>3. CASE Finish
  BY <1>1, <1>3 DEF Finish
<1>4. CASE Walk
  BY <1>1, <1>4, WalkPlaces DEF SamePlaces
<1>5. CASE MarkDone \/ FindSkip \/ FindDone \/ FindNone \/ CopyDone \/ MoveDone \/ NextPass
  BY SMTT(60), <1>5 DEF MarkDone, FindSkip, FindDone, FindNone, CopyDone, MoveDone, NextPass, memVars
<1>6. ~Collect /\ ~Alloc /\ ~Interpret
  BY DEF Collecting, Collect, Alloc, AllocBlob, AllocHead, AllocData, AllocAppend,
         AllocFrame, AllocFails, Allocates, Interpret, CallBlob, CallList, CallFrame,
         CallAppend, AppendInPlace, LoadItem, StoreItem, DeleteItem, Drop, PushNumber, PopFrame,
         LoadVariable, StoreVariable, Calls, Runs
<1> QED
  BY <1>2, <1>3, <1>4, <1>5, <1>6 DEF Next, Collector

\* An incremental collection moves and loses nothing of the old space.
THEOREM OldObjectsStayHolds == Spec => OldObjectsStay
<1>1. IInv /\ [Next]_vars => [KeepsOldObjects]_vars
  BY OldObjectsStayStep
<1> QED
  BY <1>1, IInvHolds, PTL DEF Spec, OldObjectsStay

LEMMA SlideIsSafeStep ==
  ASSUME IInv, Next
  PROVE  KeepsPlacedAndMarked
<1> SUFFICES ASSUME pc = "copy", NEW o \in DOMAIN pool,
                    o < to \/ (o \in busy /\ low <= o),
                    c < last => o # chunk[c].old
             PROVE  o \in DOMAIN pool' /\ pool'[o] = pool[o]
  BY DEF KeepsPlacedAndMarked
<1>1. CASE Copy
  <2> DEFINE old == chunk[c].old
             n   == chunk[c].val
  <2>1. /\ c \in 0..(NChunk - 1) /\ last \in 0..NChunk /\ c < last /\ o # old
        /\ old \in 0..Pool /\ n \in 1..Pool /\ to \in 0..Pool /\ high \in 0..Pool
        /\ to <= old /\ old + n <= high
        /\ \A i \in (c + 1)..(last - 1) : old + n <= chunk[i].old
    BY <1>1, CurrentEntry DEF Copy, NextPlace
  <2>2. o \in 0..Pool /\ first \in 0..NChunk /\ low \in 0..Pool
    BY DEF IInv, TypeOK
  <2>3. /\ first <= c
        /\ \A i \in first..(c - 1) : chunk[i].old \in DOMAIN pool => chunk[i].old < to
        /\ first < last =>
             \A p \in busy : low <= p /\ p < high =>
                               \E i \in first..(last - 1) : chunk[i].old = p
    BY DEF IInv, PassInv, CopyInv
  <2> HIDE DEF n
  <2>4. CASE o < to
    BY <1>1, <2>1, <2>4, MovedPlaces DEF IInv, PassInv, PlacedInv, Collecting
  <2>5. CASE to <= o
    <3>1. CASE high <= o
      <4>1. to + n <= o
        BY <2>1, <2>2, <3>1
      <4> QED
        BY <1>1, <2>1, <4>1, MovedPlaces DEF n
    <3>2. CASE o < high
      <4>1. PICK i \in first..(last - 1) : chunk[i].old = o
        BY <2>1, <2>2, <2>3, <2>5, <3>2
      <4>2. i \in (c + 1)..(last - 1)
        <5>1. i # c
          BY <2>1, <4>1
        <5>2. ~(i < c)
          BY <2>1, <2>2, <2>3, <2>5, <4>1
        <5> QED
          BY <2>1, <2>2, <2>3, <5>1, <5>2
      <4>3. to + n <= o
        BY <2>1, <2>2, <4>1, <4>2
      <4> QED
        BY <1>1, <2>1, <4>3, MovedPlaces DEF n
    <3> QED
      BY <2>1, <2>2, <3>1, <3>2
  <2> QED
    BY <2>1, <2>2, <2>4, <2>5
<1>2. CASE CopyDone
  BY <1>2 DEF CopyDone, memVars
<1>3. Copy \/ CopyDone
  BY DEF Next, Walk, Collector, Collect, MarkDone, FindSkip, FindDone, FindNone, MoveDone,
         NextPass, Finish, VisitRoot, VisitData, VisitItem, LeaveList, VisitVariable,
         VisitPrev, TakeNotes, ProcessNote, RootsDone, At, Walking,
         Alloc, AllocBlob, AllocHead, AllocData, AllocAppend,
         AllocFrame, AllocFails, Allocates, Interpret, CallBlob, CallList, CallFrame,
         CallAppend, AppendInPlace, LoadItem, StoreItem, DeleteItem, Drop, PushNumber, PopFrame,
         LoadVariable, StoreVariable, Calls, Runs
<1> QED
  BY <1>1, <1>2, <1>3

\* The memmoves of the collector destroy no object that was placed, and none
\* that the pass or a later one is to move.
THEOREM SlideIsSafeHolds == Spec => SlideIsSafe
<1>1. IInv /\ [Next]_vars => [KeepsPlacedAndMarked]_vars
  BY SlideIsSafeStep
<1> QED
  BY <1>1, IInvHolds, PTL DEF Spec, SlideIsSafe

\* When the first walk is over the chunk array holds exactly the lowest marked
\* objects of the pass, whatever order the walk met them in.
THEOREM ChunksAreLowestHolds == Spec => []ChunksAreLowest
<1>1. ASSUME IInv PROVE ChunksAreLowest
  <2> SUFFICES ASSUME pc = "find", c = 0
               PROVE  LET found == {o \in busy : low <= o}
                          kept  == {chunk[i].old : i \in 0..(last - 1)}
                      IN  /\ kept \subseteq found
                          /\ \A i \in 0..(last - 1) :
                               /\ chunk[i].val = pool[chunk[i].old].size
                               /\ \A j \in 0..(i - 1) : chunk[j].old < chunk[i].old
                          /\ \A o \in found \ kept : last = NChunk /\ high <= o
    BY DEF ChunksAreLowest
  <2>1. /\ last \in 0..NChunk /\ low \in 0..Pool /\ high \in 0..Pool /\ top \in 0..Pool
        /\ busy \subseteq DOMAIN pool
        /\ \A o \in DOMAIN pool : o \in 0..Pool /\ pool[o].size \in 1..Pool
    BY <1>1 DEF IInv, TypeOK, PassInv, MarkInv
  <2>2. \A i \in 0..(last - 1) : /\ chunk[i].old \in busy /\ low <= chunk[i].old
                                 /\ chunk[i].val = pool[chunk[i].old].size
    BY <1>1 DEF IInv, PassInv, MarkInv, Entry
  <2>3. \A i, j \in 0..(last - 1) : j < i => chunk[j].old < chunk[i].old
    BY <1>1 DEF IInv, PassInv, SortedInv
  <2>4. ASSUME NEW o \in busy, low <= o, \A i \in 0..(last - 1) : chunk[i].old # o
        PROVE  last = NChunk /\ high <= o
    <3>1. ~(o < high)
      BY <1>1, <2>4 DEF IInv, PassInv, MarkInv
    <3>2. high <= o
      BY <2>1, <3>1
    <3>3. o + pool[o].size <= top
      BY <1>1, <2>1 DEF IInv, Layout, End
    <3>4. high # top
      BY <2>1, <3>2, <3>3
    <3> QED
      BY <1>1, <3>2, <3>4 DEF IInv, PassInv, MarkInv
  <2> QED
    BY <2>1, <2>2, <2>3, <2>4
<1> QED
  BY <1>1, IInvHolds, PTL
=============================================================================
