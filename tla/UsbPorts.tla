------------------------------ MODULE UsbPorts ------------------------------
(***************************************************************************)
(* Both USB devices, one at a time, against the same host and the same     *)
(* program, so that what UsbHost says of one it says of the other.         *)
(***************************************************************************)
EXTENDS UsbHost

VARIABLES in, out, ep0, dadd, eorst, running

Samd == INSTANCE SamdUsb
Avr == INSTANCE AvrUsb

vars == Samd!vars

Init == Samd!Init \/ Avr!Init

Next == Samd!Next \/ Avr!Next

Spec == Init /\ [][Next]_vars /\ Samd!Fairness /\ Avr!Fairness

\* ^C is in a bank of the samd21 that comes when the other is empty.
ComesAlone ==
  /\ plan.chip = "samd21"
  /\ \E b \in Samd!Banks :
       out.ready = {b} /\ out.flags = {b} /\ plan.intr \in ToSet(out.buffer[b])

\* ^C is noticed though the program does not read, unless the bus is reset: on
\* the AVR as long as what is in front of it leaves room in the fifo
\* (_ao_usb_fifo_check); on the samd21 also when its bank does not fit, if that
\* bank comes alone (ao_usb_fifo_check, ao_usb_out_hook).  There each interrupt,
\* and each byte that is read, looks at one bank, so that a ^C behind another
\* bank is noticed when that has been read, unless the program leaves something
\* in the fifo for good.
InterruptNoticed ==
  /\ (ComesAlone \/ (plan.chip = "avr" /\ plan.intr \in 1..FifoSize /\ sent >= plan.intr))
       ~> (abort \/ resets > 0)
  /\ (plan.chip = "samd21" /\ plan.intr # 0 /\ sent >= plan.intr)
       ~> (abort \/ resets > 0 \/ [](fifo # << >>))

Plan(print, type, ask, reset, intr) ==
  {[chip |-> c, print |-> print, type |-> type, ask |-> ask, reset |-> reset, intr |-> intr] :
     c \in {"samd21", "avr"}}

\* Each direction with its banks used again and again (the samd21 prints only
\* after something was typed), every request after every other, each of these
\* with a reset in between, and all of it together.
EachAlone ==
  Plan(5, 1, 0, 0, 0) \cup Plan(0, 7, 0, 0, 3) \cup Plan(0, 0, 2, 1, 0) \cup
  Plan(3, 1, 0, 1, 0) \cup Plan(0, 3, 0, 1, 0) \cup Plan(1, 1, 1, 0, 0)
=============================================================================
