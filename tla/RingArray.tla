----------------------------- MODULE RingArray ------------------------------
(***************************************************************************)
(* The size of the rings of src/chips/atmega/snek-atmega-serial.c, for one *)
(* ring and for the port that has two.                                     *)
(***************************************************************************)
EXTENDS Integers

CONSTANT RingSize   \* UART_RINGSIZE

ASSUME SizeAssumption == RingSize \in Nat \ {0}
=============================================================================
