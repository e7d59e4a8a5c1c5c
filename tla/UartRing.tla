------------------------------ MODULE UartRing ------------------------------
(***************************************************************************)
(* The rings of the atmega UART (src/chips/atmega/snek-atmega-serial.c):   *)
(* an array used round and round from `read' on.  Every operation runs     *)
(* with interrupts off, so each is one step.  AtmegaUart uses the rings as *)
(* the bounded queues that this module implements.                         *)
(***************************************************************************)
EXTENDS Integers, Sequences, RingArray

CONSTANT Byte       \* the bytes queued

VARIABLES read, count, buf

vars == <<read, count, buf>>

Index == 0..(RingSize - 1)

Init ==
  /\ read = 0 /\ count = 0
  /\ buf \in [Index -> Byte]   \* zeros in the code; never read

ring_full  == count = RingSize
ring_empty == count = 0

\* The & (UART_RINGSIZE - 1) of the code: its size is a power of two.
Write == (read + count) % RingSize

ring_put(b) ==
  /\ ~ring_full
  /\ buf' = [buf EXCEPT ![Write] = b]
  /\ count' = count + 1
  /\ UNCHANGED read

\* The byte returned is buf[read].
ring_get ==
  /\ ~ring_empty
  /\ read' = (read + 1) % RingSize
  /\ count' = count - 1
  /\ UNCHANGED buf

\* ^C in the receive interrupt
Discard == count' = 0 /\ UNCHANGED <<read, buf>>

Next == (\E b \in Byte : ring_put(b)) \/ ring_get \/ Discard

Spec == Init /\ [][Next]_vars

----------------------------------------------------------------------------
TypeOK ==
  /\ read \in Index /\ count \in 0..RingSize
  /\ buf \in [Index -> Byte]

\* The bytes in the ring, oldest first.
Contents == [i \in 1..count |-> buf[(read + i - 1) % RingSize]]

Queue == INSTANCE BoundedQueue WITH queue <- Contents, Size <- RingSize

\* Wherever `read' is, the ring is a queue: what is put is got once, in order,
\* and nothing that is queued is overwritten.
ImplementsQueue == Queue!Spec
=============================================================================
