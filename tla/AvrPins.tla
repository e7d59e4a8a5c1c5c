------------------------------- MODULE AvrPins -------------------------------
(***************************************************************************)
(* The pins of the AVR boards.  The hardware is a record h: dir and out    *)
(* are the bits of DDRx and PORTx, wave the bit that connects the pin's    *)
(* timer, duty its compare register; tone says that the timer of the tone  *)
(* toggles its pin.  A board says which pins have a timer (pwm), which one *)
(* the tone is on (toned), which pins share its timer (shared), which of   *)
(* these it disconnects (dropped), whether stopall stops it (stops), and   *)
(* how many bits the int has that masks the pulls (bits).                  *)
(***************************************************************************)
EXTENDS Naturals

CONSTANT Full                       \* 255, or 65535 on the nano every
VARIABLE board

Asked(on, power, p) == IF p \in on THEN power[p] ELSE 0

\* The compare register stays, but is written before it is used again.
set_out(h, on, power, p) ==
  LET v == Asked(on, power, p) IN
  IF p \in board.pwm /\ v \in 1..(Full - 1)
  THEN [h EXCEPT !.duty[p] = v, !.wave[p] = TRUE]
  ELSE [h EXCEPT !.out[p] = (v # 0), !.wave[p] = FALSE, !.duty[p] = 0]

\* set_dir(pin, 1)
talk(h, p) == [h EXCEPT !.dir[p] = TRUE]

\* set_dir(pin, 0)
listen(h, pulled, p) ==
  [h EXCEPT !.dir[p] = FALSE, !.out[p] = (p \in pulled)]

(***************************************************************************)
(* 1 << p is an int: shifted into its sign it widens to the bits above,    *)
(* shifted beyond it, by the loop the compiler makes of it, it is 0.       *)
(***************************************************************************)
mask(p) == CASE p < board.bits - 1 -> {p}
             [] p = board.bits - 1 -> {q \in board.pins : q >= p}
             [] OTHER -> {}

-----------------------------------------------------------------------------
(***************************************************************************)
(* tcc0_reset, or tone_reset on the nano every: the latch of the pin stays *)
(* as it is.                                                               *)
(***************************************************************************)
tone_reset(h) ==
  [h EXCEPT !.wave = [p \in board.pins |-> h.wave[p] /\ p \notin board.dropped],
            !.duty = [p \in board.pins |-> IF p \in board.dropped THEN 0 ELSE h.duty[p]],
            !.tone = FALSE]

tone(h) ==
  [tone_reset(h) EXCEPT !.tone = TRUE, !.dir[board.toned] = TRUE]

Shows(h, p) == IF h.wave[p] THEN h.duty[p] ELSE IF h.out[p] THEN Full ELSE 0

\* Without a timer a pin has all power or none.
Wanted(on, power, p) ==
  LET v == Asked(on, power, p) IN
  IF p \in board.pwm \/ v = 0 THEN v ELSE Full
=============================================================================
