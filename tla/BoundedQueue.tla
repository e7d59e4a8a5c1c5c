----------------------------- MODULE BoundedQueue -----------------------------
(***************************************************************************)
(* What a uart_ring promises to the interrupts and the program that share  *)
(* it: a queue of at most Size bytes, which ^C empties.                    *)
(***************************************************************************)
EXTENDS Naturals, Sequences

CONSTANTS Byte,   \* what is queued
          Size    \* the bytes there is room for

VARIABLE queue

Init == queue = << >>

Put(b) == Len(queue) < Size /\ queue' = Append(queue, b)

Get == queue # << >> /\ queue' = Tail(queue)

Clear == queue' = << >>

Next == (\E b \in Byte : Put(b)) \/ Get \/ Clear

Spec == Init /\ [][Next]_queue
=============================================================================
