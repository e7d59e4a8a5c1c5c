------------------------------- MODULE PinsMC -------------------------------
(***************************************************************************)
(* Boards with the kinds of pins the real ones have, few of each: a motor  *)
(* (crickit), the analog output with tones (playground), an inverted load  *)
(* beside an input of the analog converter (xiao); AVR boards with the     *)
(* tone (duemilanove, nano every) and without (uno, mega).  The pulls of   *)
(* the uno are masked with an int, here of two bits, so that pins 1 and 2  *)
(* are as 15 and 16 are there.                                             *)
(***************************************************************************)
EXTENDS Pins, TLC

Pulls == {"none", "up", "down"}
Levels == 0..Full

SamdBoard(levels, pwm, adc, dac, invert, motors, tones, modes) ==
  [family |-> "samd21", pins |-> DOMAIN levels, levels |-> levels, pulled |-> {},
   pwm |-> pwm, adc |-> adc, dac |-> dac, invert |-> invert,
   motors |-> motors, tones |-> tones, modes |-> modes]

AvrBoard(levels, pwm, tones, shared, dropped, stops, wide) ==
  [family |-> "avr", pins |-> DOMAIN levels, levels |-> levels, pulled |-> {0},
   pwm |-> pwm, tones |-> tones, toned |-> 0, shared |-> shared,
   dropped |-> dropped, stops |-> stops, wide |-> wide, bits |-> 2,
   modes |-> {"none", "up"}]

Crickit ==
  SamdBoard(0 :> Levels @@ 1 :> {Full}, {0, 1}, {}, {}, {},
            {[pwm |-> 0, dir |-> 1]}, FALSE, Pulls)
Playground ==
  SamdBoard(0 :> {0, Full} @@ 1 :> {Full}, {}, {0}, {0}, {}, {}, TRUE, {"none"})
Xiao ==
  SamdBoard(0 :> Levels @@ 1 :> {Full}, {0}, {1}, {}, {0}, {}, FALSE, Pulls)
Uno ==
  AvrBoard(0 :> {Full} @@ 1 :> {Full} @@ 2 :> {Full}, {0}, FALSE, {}, {}, FALSE, TRUE)
Duemilanove ==
  AvrBoard(0 :> Levels @@ 1 :> Levels, {0, 1}, TRUE, {0, 1}, {0, 1}, FALSE, TRUE)
NanoEvery ==
  AvrBoard(0 :> Levels @@ 1 :> Levels, {0, 1}, TRUE, {0, 1}, {0}, TRUE, FALSE)
Mega ==
  AvrBoard(0 :> Levels @@ 1 :> {0, 1}, {0}, FALSE, {}, {}, FALSE, FALSE)

AllBoards == {Crickit, Playground, Xiao, Uno, Duemilanove, NanoEvery, Mega}
ToneSteps == {0, 1, 2}
=============================================================================
