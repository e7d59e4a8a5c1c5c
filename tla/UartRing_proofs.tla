-------------------------- MODULE UartRing_proofs --------------------------
(***************************************************************************)
(* A uart_ring of any size is a queue, wherever `read' is.                 *)
(***************************************************************************)
EXTENDS UartRing, SequenceTheorems, TLAPS

\* Where the index runs over the end of the array it starts again: the modulus
\* of an index at most once around is a subtraction.
LEMMA OnceAround ==
  /\ \A x \in Index : x % RingSize = x
  /\ \A x \in RingSize..(2 * RingSize - 1) : x % RingSize = x - RingSize
<1>1. \A x \in Index : x % RingSize = x
  BY SizeAssumption, SMT DEF Index
<1>2. \A x \in RingSize..(2 * RingSize - 1) : x % RingSize = x - RingSize
  BY SizeAssumption, SMT
<1> QED
  BY <1>1, <1>2

\* The slot of the i-th byte from the oldest
Slot(r, i) == IF r + i - 1 < RingSize THEN r + i - 1 ELSE r + i - 1 - RingSize

LEMMA SlotIs ==
  ASSUME NEW r \in Index, NEW i \in 1..RingSize
  PROVE  /\ (r + i - 1) % RingSize = Slot(r, i)
         /\ Slot(r, i) \in Index
<1>1. CASE r + i - 1 < RingSize
  BY <1>1, OnceAround, SizeAssumption DEF Slot, Index
<1>2. CASE r + i - 1 >= RingSize
  <2>1. r + i - 1 \in RingSize..(2 * RingSize - 1)
    BY <1>2, SizeAssumption DEF Index
  <2> QED
    BY <1>2, <2>1, OnceAround, SizeAssumption DEF Slot, Index
<1> QED
  BY <1>1, <1>2, SizeAssumption DEF Index

LEMMA ContentsIs ==
  ASSUME NEW r \in Index, NEW n \in 0..RingSize, NEW f
  PROVE  [i \in 1..n |-> f[(r + i - 1) % RingSize]] = [i \in 1..n |-> f[Slot(r, i)]]
<1>1. \A i \in 1..n : (r + i - 1) % RingSize = Slot(r, i)
  BY SlotIs, SizeAssumption
<1> QED
  BY <1>1

----------------------------------------------------------------------------
\* The offset of `read' and the count stay in their ranges: no operation
\* leaves the array.
THEOREM TypeCorrect == Spec => []TypeOK
<1>1. Init => TypeOK
  BY SizeAssumption DEF Init, TypeOK, Index
<1>2. TypeOK /\ [Next]_vars => TypeOK'
  <2> SUFFICES ASSUME TypeOK, [Next]_vars PROVE TypeOK'
    OBVIOUS
  <2>1. ASSUME NEW b \in Byte, ring_put(b) PROVE TypeOK'
    <3>1. Write \in Index
      <4>1. read \in Index /\ count + 1 \in 1..RingSize
        BY <2>1, SizeAssumption DEF TypeOK, ring_put, ring_full
      <4>2. (read + (count + 1) - 1) % RingSize \in Index
        BY <4>1, SlotIs
      <4>3. read + (count + 1) - 1 = read + count
        BY <4>1, SizeAssumption DEF Index, TypeOK
      <4> QED
        BY <4>2, <4>3 DEF Write
    <3> QED
      BY <2>1, <3>1, SizeAssumption DEF TypeOK, ring_put, ring_full
  <2>2. CASE ring_get
    <3>1. read + 1 \in Index \/ read + 1 \in RingSize..(2 * RingSize - 1)
      BY SizeAssumption DEF TypeOK, Index
    <3>2. (read + 1) % RingSize \in Index
      BY <3>1, OnceAround, SizeAssumption DEF TypeOK, Index
    <3> QED
      BY <2>2, <3>2, SizeAssumption DEF TypeOK, ring_get, ring_empty
  <2>3. CASE Discard
    BY <2>3, SizeAssumption DEF TypeOK, Discard
  <2>4. CASE UNCHANGED vars
    BY <2>4 DEF TypeOK, vars
  <2> QED
    BY <2>1, <2>2, <2>3, <2>4 DEF Next
<1> QED
  BY <1>1, <1>2, PTL DEF Spec

----------------------------------------------------------------------------
\* ring_put adds its byte at the end, and what was in the ring stays there.
LEMMA PutAppends ==
  ASSUME TypeOK, TypeOK', NEW b \in Byte, ring_put(b)
  PROVE  Contents' = Append(Contents, b) /\ Len(Contents) < RingSize
<1>1. /\ count \in 0..(RingSize - 1) /\ count' = count + 1 /\ read' = read
      /\ read \in Index /\ buf \in [Index -> Byte]
  BY SizeAssumption DEF TypeOK, ring_put, ring_full
<1>2. Write = Slot(read, count + 1)
  <2>1. (read + (count + 1) - 1) % RingSize = Slot(read, count + 1)
    BY <1>1, SlotIs, SizeAssumption
  <2> QED
    BY <1>1, <2>1, SizeAssumption DEF Write, Index
<1>3. buf' = [buf EXCEPT ![Slot(read, count + 1)] = b]
  BY <1>2 DEF ring_put
<1>4. \A i \in 1..count : Slot(read, i) # Slot(read, count + 1)
  BY <1>1, SizeAssumption DEF Slot, Index
<1>5. \A i \in 1..RingSize : Slot(read, i) \in Index
  BY <1>1, SlotIs
<1>6. \A i \in 1..count : buf'[Slot(read, i)] = buf[Slot(read, i)]
  BY <1>1, <1>3, <1>4, <1>5, SizeAssumption
<1>7. buf'[Slot(read, count + 1)] = b
  BY <1>1, <1>3, <1>5, SizeAssumption
<1>8. Contents = [i \in 1..count |-> buf[Slot(read, i)]]
  BY ContentsIs DEF Contents, TypeOK
<1>9. Contents' = [i \in 1..(count + 1) |-> buf'[Slot(read, i)]]
  <2>1. count + 1 \in 0..RingSize
    BY <1>1, SizeAssumption
  <2> QED
    BY <1>1, <2>1, ContentsIs DEF Contents
<1>10. Contents \in Seq(Byte) /\ Len(Contents) = count
  BY <1>1, <1>5, <1>8, SizeAssumption
<1> QED
  BY <1>1, <1>6, <1>7, <1>8, <1>9, <1>10, SizeAssumption

LEMMA TailIs ==
  ASSUME NEW S, NEW s \in Seq(S), s # << >>
  PROVE  Tail(s) = [i \in 1..(Len(s) - 1) |-> s[i + 1]]
<1> DEFINE t == [i \in 1..(Len(s) - 1) |-> s[i + 1]]
<1>1. Len(s) \in Nat \ {0}
  OBVIOUS
<1>2. t \in Seq(S) /\ Len(t) = Len(s) - 1
  BY <1>1
<1>3. \A i \in 1..(Len(s) - 1) : t[i] = s[i + 1]
  OBVIOUS
<1> HIDE DEF t
<1>4. Tail(s) = t
  BY <1>1, <1>2, <1>3, HeadTailProperties, SeqEqual
<1> QED
  BY <1>4 DEF t

\* ring_get takes the oldest byte.
LEMMA GetTakesHead ==
  ASSUME TypeOK, TypeOK', ring_get
  PROVE  Contents' = Tail(Contents) /\ Contents # << >>
<1>1. /\ count \in 1..RingSize /\ count' = count - 1 /\ buf' = buf
      /\ read \in Index /\ buf \in [Index -> Byte] /\ read' = (read + 1) % RingSize
  BY SizeAssumption DEF TypeOK, ring_get, ring_empty
<1>2. read' = IF read + 1 < RingSize THEN read + 1 ELSE 0
  <2>1. CASE read + 1 < RingSize
    BY <1>1, <2>1, OnceAround, SizeAssumption DEF Index
  <2>2. CASE read + 1 = RingSize
    BY <1>1, <2>2, OnceAround, SizeAssumption DEF Index
  <2> QED
    BY <1>1, <2>1, <2>2, SizeAssumption DEF Index
<1>3. \A i \in 1..(count - 1) : Slot(read', i) = Slot(read, i + 1)
  BY <1>1, <1>2, SizeAssumption DEF Slot, Index
<1>4. \A i \in 1..RingSize : Slot(read, i) \in Index
  BY <1>1, SlotIs
<1>5. Contents = [i \in 1..count |-> buf[Slot(read, i)]]
  BY ContentsIs DEF Contents, TypeOK
<1>6. Contents' = [i \in 1..(count - 1) |-> buf[Slot(read', i)]]
  <2>1. count - 1 \in 0..RingSize /\ read' \in Index
    BY <1>1, SizeAssumption DEF TypeOK
  <2> QED
    BY <1>1, <2>1, ContentsIs DEF Contents
<1>7. Contents \in Seq(Byte) /\ Len(Contents) = count
  BY <1>1, <1>4, <1>5, SizeAssumption
<1>8. Tail(Contents) = [i \in 1..(count - 1) |-> Contents[i + 1]]
  <2>1. Contents # << >>
    BY <1>1, <1>7
  <2> QED
    BY <1>7, <2>1, TailIs
<1>9. \A i \in 1..(count - 1) : Contents[i + 1] = buf[Slot(read, i + 1)]
  BY <1>1, <1>5, SizeAssumption
<1> QED
  BY <1>1, <1>3, <1>6, <1>7, <1>8, <1>9, SizeAssumption

\* Wherever `read' is, the ring is a queue: what is put is got once, in order,
\* and nothing that is queued is overwritten.
THEOREM RingIsQueue == Spec => ImplementsQueue
<1>1. Init => Queue!Init
  BY DEF Init, Queue!Init, Contents
<1>2. TypeOK /\ TypeOK' /\ [Next]_vars => [Queue!Next]_Contents
  <2> SUFFICES ASSUME TypeOK, TypeOK', [Next]_vars
               PROVE  Queue!Next \/ Contents' = Contents
    OBVIOUS
  <2>1. ASSUME NEW b \in Byte, ring_put(b) PROVE Queue!Next
    BY <2>1, PutAppends DEF Queue!Next, Queue!Put
  <2>2. CASE ring_get
    BY <2>2, GetTakesHead DEF Queue!Next, Queue!Get
  <2>3. CASE Discard
    <3>1. Contents' = << >>
      BY <2>3 DEF Discard, Contents
    <3> QED
      BY <3>1 DEF Queue!Next, Queue!Clear
  <2>4. CASE UNCHANGED vars
    BY <2>4 DEF vars, Contents
  <2> QED
    BY <2>1, <2>2, <2>3, <2>4 DEF Next
<1> QED
  BY <1>1, <1>2, TypeCorrect, PTL DEF Spec, ImplementsQueue, Queue!Spec
=============================================================================
