------------------------------ MODULE SamdPins ------------------------------
(***************************************************************************)
(* The pins of the samd21 boards: what the functions of snek-gpio.c do to  *)
(* the port, the timers and the converter.  The hardware is one record h:  *)
(*   dir   is the pin an output of the port                                *)
(*   out   the output latch, which also chooses the pull of an input       *)
(*   pull  the pull that is enabled, "none", "up" or "down"                *)
(*   wave  PMUXEN: a peripheral has the pin instead of the port            *)
(*   duty  the compare value of the pin's timer channel                    *)
(*   dac   the converter of ao-dac-samd21.c, see below                     *)
(* A board says which pins have a timer (pwm), a channel of the analog     *)
(* converter (adc), the digital to analog converter (dac), an inverted     *)
(* load (invert), and which pairs drive a motor (motors).                  *)
(***************************************************************************)
EXTENDS Naturals

CONSTANTS
  Full,                             \* SNEK_PWM_MAX
  Samples                           \* NSINE
VARIABLE board

Is(set, p) == p \in set
has_pwm(p) == Is(board.pwm, p)
has_adc(p) == Is(board.adc, p)
has_dac(p) == Is(board.dac, p)
invert_pin(p) == Is(board.invert, p)

port_set(h, p, v) == [h EXCEPT !.out[p] = ((v # 0) # invert_pin(p))]

\* The compare value stays, but is written before the timer is used again.
clr_pmux(h, p) == [h EXCEPT !.wave[p] = FALSE, !.duty[p] = 0]

set_pwm(h, p, v) ==
  [h EXCEPT !.duty[p] = IF invert_pin(p) THEN Full - v ELSE v,
            !.wave[p] = TRUE,
            !.pull[p] = "none"]

-----------------------------------------------------------------------------
(***************************************************************************)
(* The converter.  A tone is made by an interrupt that writes one sample   *)
(* of a sine, scaled by current, and moves phase by step; step is 0 when   *)
(* there is no tone.  A new power or the end of the tone waits for the     *)
(* next turn of the sine.                                                  *)
(***************************************************************************)
NoDac == [power |-> 0, current |-> 0, data |-> 0,
          phase |-> 0, step |-> 0, running |-> FALSE]

dac_set(h, v) ==
  IF h.dac.step = 0
  THEN [h EXCEPT !.dac.power = v, !.dac.current = v, !.dac.data = v]
  ELSE [h EXCEPT !.dac.power = v]

dac_set_hz(h, step) ==
  IF step # 0
  THEN [h EXCEPT !.dac.running = TRUE, !.dac.step = step]
  ELSE [h EXCEPT !.dac.running = FALSE]

\* The sine begins and ends low and is high between.
sine(phase) == IF 2 * phase \in (Samples - 1)..(Samples + 1) THEN Full ELSE 0

\* M: the tone stops at once, with the power of the last turn
isrAtOnce(h) ==
  LET d == h.dac IN
  [h EXCEPT !.dac.data = (sine(d.phase) * d.current) \div Full,
            !.dac.phase = (d.phase + d.step) % Samples,
            !.dac.step = IF d.running THEN @ ELSE 0]

isr(h) ==
  LET d == h.dac
      moved == d.phase + d.step
      turned == moved >= Samples
      stops == turned /\ ~d.running
  IN [h EXCEPT !.dac.data = (sine(d.phase) * d.current) \div Full,
               !.dac.phase = IF stops THEN 0 ELSE moved % Samples,
               !.dac.current = IF turned THEN d.power ELSE @,
               !.dac.step = IF stops THEN 0 ELSE @]

set_dac(h, p, v) ==
  [dac_set(h, v) EXCEPT !.wave[p] = TRUE, !.pull[p] = "none"]

clr_dac(h, p) == clr_pmux(dac_set(h, 0), p)

-----------------------------------------------------------------------------
\* What a pin that is on or off is to show.
Asked(on, power, p) == IF p \in on THEN power[p] ELSE 0

\* M: a pin at full power stays with its timer
putKeepsPwm(h, p, v) ==
  CASE has_dac(p) -> set_dac(h, p, v)
    [] ~has_dac(p) /\ has_pwm(p) /\ v \in 1..(Full - 1) -> set_pwm(h, p, v)
    [] OTHER -> port_set(h, p, v)

\* _set_out
put(h, p, v) ==
  CASE has_dac(p) -> set_dac(h, p, v)
    [] ~has_dac(p) /\ has_pwm(p) /\ v \in 1..(Full - 1) -> set_pwm(h, p, v)
    [] OTHER -> port_set(IF has_pwm(p) THEN clr_pmux(h, p) ELSE h, p, v)

set_in(h, p) ==
  CASE has_pwm(p) -> clr_pmux(h, p)
    [] ~has_pwm(p) /\ has_dac(p) -> clr_dac(h, p)
    [] OTHER -> h

InMotor(p) == \E m \in board.motors : p \in {m.pwm, m.dir}
MotorOf(p) == CHOOSE m \in board.motors : p \in {m.pwm, m.dir}

\* A motor turns one way by one pin of its pair and back by the other.
set_out(h, on, power, p) ==
  IF InMotor(p)
  THEN LET m == MotorOf(p)
           v == Asked(on, power, m.pwm)
       IN IF m.dir \in on
          THEN put(put(h, m.pwm, 0), m.dir, v)
          ELSE put(put(h, m.dir, 0), m.pwm, v)
  ELSE put(h, p, Asked(on, power, p))

enable_output(h, p, high) ==
  [h EXCEPT !.out[p] = high, !.dir[p] = TRUE, !.pull[p] = "none"]

\* M: the pin is left to its peripheral
enable_inputOnly(h, p, mode) ==
  [h EXCEPT !.dir[p] = FALSE,
            !.pull[p] = mode,
            !.out[p] = IF mode = "none" THEN @ ELSE mode = "up"]

enable_input(h, p, mode) ==
  [h EXCEPT !.dir[p] = FALSE,
            !.wave[p] = FALSE,
            !.duty[p] = 0,
            !.pull[p] = mode,
            !.out[p] = IF mode = "none" THEN @ ELSE mode = "up"]

set_adc(h, p) == [h EXCEPT !.wave[p] = TRUE, !.pull[p] = "none"]

\* set_dir(pin, 1)
talk(h, on, power, p) ==
  LET free == IF has_adc(p) THEN clr_pmux(h, p) ELSE h
  IN set_out(enable_output(free, p, Asked(on, power, p) # 0), on, power, p)

\* set_dir(pin, 0)
listen(h, p, mode) ==
  LET quiet == set_in(h, p)
      connected == CASE has_adc(p) /\ mode = "none" -> set_adc(quiet, p)
                     [] has_adc(p) /\ mode # "none" -> clr_pmux(quiet, p)
                     [] OTHER -> quiet
  IN enable_input(connected, p, mode)

-----------------------------------------------------------------------------
\* What the load at an output sees; an inverted one is bright when low.
Shows(h, p) ==
  CASE h.wave[p] /\ has_dac(p) -> h.dac.data
    [] h.wave[p] /\ ~has_dac(p) ->
         IF invert_pin(p) THEN Full - h.duty[p] ELSE h.duty[p]
    [] OTHER -> IF h.out[p] # invert_pin(p) THEN Full ELSE 0

\* Without a timer or the converter a pin has all power or none.
Level(p, v) == IF has_pwm(p) \/ has_dac(p) \/ v = 0 THEN v ELSE Full

\* What the load is to see.
Wanted(on, power, p) ==
  IF InMotor(p)
  THEN LET m == MotorOf(p)
       IN IF p = (IF m.dir \in on THEN m.dir ELSE m.pwm)
          THEN Level(p, Asked(on, power, m.pwm)) ELSE 0
  ELSE Level(p, Asked(on, power, p))
=============================================================================
