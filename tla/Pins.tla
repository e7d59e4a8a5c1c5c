-------------------------------- MODULE Pins --------------------------------
(***************************************************************************)
(* The functions by which a program uses the pins of a board: talkto,      *)
(* setpower, on, off, setleft, setright, onfor, the pulls, read, stopall   *)
(* and tone.  A pin is on or off and has a power; what they promise is     *)
(* that an output shows its power when it is on and nothing when it is     *)
(* off.  The functions are the same on all boards (snek-gpio.c for the     *)
(* samd21, a file for each of the AVR chips); SamdPins and AvrPins say     *)
(* what they do to the hardware.  The functions run one at a time; the     *)
(* sample interrupt of the tone comes in between, and onfor and tonefor    *)
(* let time pass.                                                          *)
(***************************************************************************)
EXTENDS Naturals

CONSTANTS
  Full,             \* the greatest power
  Samples,          \* samples of a turn of the sine
  Steps,            \* how many samples the tones move on at once
  Boards            \* the boards, see PinsMC

Modes == {"none", "up", "down"}
Motor(m) == {m.pwm, m.dir}

\* A board has one converter, and each of its motors two pins of its own.
IsSamdBoard(b) ==
  /\ b.family = "samd21"
  /\ b.pins \subseteq Nat /\ 0 \in b.pins
  /\ b.levels \in [b.pins -> SUBSET (0..Full)]
  /\ b.tones \in BOOLEAN /\ b.modes \subseteq Modes
  /\ \A part \in {b.pulled, b.pwm, b.adc, b.dac, b.invert} : part \subseteq b.pins
  /\ \A p, q \in b.dac : p = q
  /\ \A m \in b.motors : Motor(m) \subseteq b.pins /\ m.pwm # m.dir
  /\ \A m, n \in b.motors : Motor(m) \cap Motor(n) # {} => m = n

IsAvrBoard(b) ==
  /\ b.family = "avr"
  /\ b.pins \subseteq Nat /\ 0 \in b.pins
  /\ b.levels \in [b.pins -> SUBSET (0..Full)]
  /\ {b.tones, b.stops, b.wide} \subseteq BOOLEAN /\ b.modes \subseteq Modes \ {"down"}
  /\ \A part \in {b.pulled, b.pwm, b.shared, b.dropped} : part \subseteq b.pins
  /\ b.tones \/ b.stops => b.toned \in b.dropped
  /\ b.bits \in Nat

ASSUME NumbersAssumption ==
  Full \in Nat \ {0} /\ Samples \in Nat \ {0} /\ Steps \subseteq Nat

ASSUME BoardsAssumption == \A b \in Boards : IsSamdBoard(b) \/ IsAvrBoard(b)

VARIABLES
  board,            \* the board
  power, on,        \* power[], on_pins
  powerPin, dirPin, \* power_pin, dir_pin
  pull,             \* the pull each pin is to have when it is read
  hw,               \* the hardware
  call,             \* the function that waits, "onfor" or "tonefor", or is in
                    \* its loop, "stopall"; else "no"
  listened,         \* history: the pull a pin was read with, "no" once the
                    \* pin was written
  stale             \* history: pins something else than set_out wrote

vars == <<board, power, on, powerPin, dirPin, pull, hw, call, listened, stale>>

Samd == INSTANCE SamdPins
Avr == INSTANCE AvrPins

IsSamd == board.family = "samd21"
Pins == board.pins
NoHardware(b) ==
  LET none == [p \in b.pins |-> FALSE] IN
  [dir |-> none, out |-> none, wave |-> none, tone |-> FALSE,
   duty |-> [p \in b.pins |-> 0],
   pull |-> [p \in b.pins |-> "none"],
   dac |-> Samd!NoDac]

\* ao_snek_port_init, and the values the AVR boards start with.
Init ==
  /\ board \in Boards
  /\ power = [p \in board.pins |-> Full]
  /\ on = {}
  /\ powerPin = 0
  /\ dirPin = 0
  /\ pull = [p \in board.pins |-> IF p \in board.pulled THEN "up" ELSE "none"]
  /\ hw = NoHardware(board)
  /\ call = "no"
  /\ listened = [p \in board.pins |-> "no"]
  /\ stale = {}

-----------------------------------------------------------------------------
Idle == call = "no"

Out(h, o, w, p) ==
  IF IsSamd THEN Samd!set_out(h, o, w, p) ELSE Avr!set_out(h, o, w, p)

\* The pins set_out(p) writes.
Written(p) ==
  IF IsSamd /\ Samd!InMotor(p)
  THEN {Samd!MotorOf(p).pwm, Samd!MotorOf(p).dir} ELSE {p}

Unread(ps) == [p \in Pins |-> IF p \in ps THEN "no" ELSE listened[p]]

\* While there is a tone the converter takes a new value only at a turn.
Settled(h, ps) == IF IsSamd /\ h.dac.step # 0 THEN ps \ board.dac ELSE ps

Set(p, o, w) ==
  /\ on' = o
  /\ power' = w
  /\ hw' = Out(hw, o, w, p)
  /\ listened' = Unread(Written(p))
  /\ stale' = stale \ Settled(hw, Written(p))

setpower(v) ==
  /\ Idle
  /\ Set(powerPin, on, [power EXCEPT ![powerPin] = v])
  /\ UNCHANGED <<board, powerPin, dirPin, pull, call>>

setleft ==
  /\ Idle
  /\ Set(dirPin, on \union {dirPin}, power)
  /\ UNCHANGED <<board, powerPin, dirPin, pull, call>>

setright ==
  /\ Idle
  /\ Set(dirPin, on \ {dirPin}, power)
  /\ UNCHANGED <<board, powerPin, dirPin, pull, call>>

turn_on ==
  /\ Idle
  /\ Set(powerPin, on \union {powerPin}, power)
  /\ UNCHANGED <<board, powerPin, dirPin, pull, call>>

turn_off ==
  /\ Idle
  /\ Set(powerPin, on \ {powerPin}, power)
  /\ UNCHANGED <<board, powerPin, dirPin, pull, call>>

onfor ==
  /\ Idle
  /\ Set(powerPin, on \union {powerPin}, power)
  /\ call' = "onfor"
  /\ UNCHANGED <<board, powerPin, dirPin, pull>>

\* The time is over, or ^C ends the wait: the pin goes off all the same.
OnforEnds ==
  /\ call = "onfor"
  /\ call' = "no"
  /\ Set(powerPin, on \ {powerPin}, power)
  /\ UNCHANGED <<board, powerPin, dirPin, pull>>

\* On the AVR boards talkto does not call set_out.
talkto(p, d) ==
  /\ Idle
  /\ powerPin' = p
  /\ dirPin' = d
  /\ IF IsSamd
     THEN /\ hw' = Samd!talk(Samd!talk(hw, on, power, p), on, power, d)
          /\ listened' = Unread(Written(p) \union Written(d))
          /\ stale' = stale \ Settled(hw, Written(p) \union Written(d))
     ELSE /\ hw' = Avr!talk(Avr!talk(hw, p), d)
          /\ listened' = Unread({p, d})
          /\ UNCHANGED stale
  /\ UNCHANGED <<board, power, on, pull, call>>

set_pull(p, mode) ==
  LET changed == IF IsSamd \/ ~board.wide THEN {p} ELSE Avr!mask(p) IN
  /\ Idle
  /\ pull' = [q \in Pins |-> IF q \in changed THEN mode ELSE pull[q]]
  /\ UNCHANGED <<board, power, on, powerPin, dirPin, hw, call, listened, stale>>

read(p) ==
  /\ Idle
  /\ hw' = IF IsSamd THEN Samd!listen(hw, p, pull[p])
           ELSE Avr!listen(hw, {q \in Pins : pull[q] = "up"}, p)
  /\ listened' = [listened EXCEPT ![p] = pull[p]]
  /\ stale' = IF IsSamd \/ hw.wave[p] THEN stale ELSE stale \union {p}
  /\ UNCHANGED <<board, power, on, powerPin, dirPin, pull, call>>

\* On some boards stopall ends the tone first.
stopall ==
  LET quiet == ~IsSamd /\ board.stops IN
  /\ Idle
  /\ call' = "stopall"
  /\ hw' = IF quiet THEN Avr!tone_reset(hw) ELSE hw
  /\ on' = IF quiet THEN on \ {board.toned} ELSE on
  /\ stale' = IF quiet THEN stale \union board.dropped ELSE stale
  /\ UNCHANGED <<board, power, powerPin, dirPin, pull, listened>>

\* The loop of stopall goes up the pins; those that are off it leaves alone.
StopPin(p) ==
  /\ call = "stopall"
  /\ p \in on
  /\ \A q \in on : p <= q
  /\ Set(p, on \ {p}, power)
  /\ UNCHANGED <<board, powerPin, dirPin, pull, call>>

StopallEnds ==
  /\ call = "stopall"
  /\ on = {}
  /\ call' = "no"
  /\ UNCHANGED <<board, power, on, powerPin, dirPin, pull, hw, listened, stale>>

-----------------------------------------------------------------------------
\* What tone(f), f not 0, and tone(0) do to the hardware and to on_pins.
Toned(step) ==
  CASE IsSamd -> Samd!dac_set_hz(hw, step)
    [] ~IsSamd /\ step # 0 -> Avr!tone(hw)
    [] OTHER -> Avr!tone_reset(hw)

TonedOn(step) ==
  CASE IsSamd -> on
    [] ~IsSamd /\ step # 0 -> on \union {board.toned}
    [] OTHER -> on \ {board.toned}

\* The pins tone makes outputs, and those it leaves to their next set_out.
Talked(step) == IF ~IsSamd /\ step # 0 THEN {board.toned} ELSE {}
Dropped == IF IsSamd THEN {} ELSE board.dropped

Play(step) ==
  /\ hw' = Toned(step)
  /\ on' = TonedOn(step)
  /\ listened' = Unread(Talked(step))
  /\ stale' = stale \union Dropped

tone(step) ==
  /\ Idle
  /\ board.tones
  /\ Play(step)
  /\ UNCHANGED <<board, power, powerPin, dirPin, pull, call>>

\* tone(f), on(), and then the wait.
tonefor(step) ==
  LET o == TonedOn(step) \union {powerPin} IN
  /\ Idle
  /\ board.tones
  /\ call' = "tonefor"
  /\ on' = o
  /\ hw' = Out(Toned(step), o, power, powerPin)
  /\ listened' = Unread(Talked(step) \union Written(powerPin))
  /\ stale' = (stale \union Dropped) \ Settled(Toned(step), Written(powerPin))
  /\ UNCHANGED <<board, power, powerPin, dirPin, pull>>

ToneforEnds ==
  /\ call = "tonefor"
  /\ call' = "no"
  /\ Play(0)
  /\ UNCHANGED <<board, power, powerPin, dirPin, pull>>

\* The interrupt of the tone; it is off when there is no tone.
Sample ==
  /\ IsSamd
  /\ hw.dac.step # 0
  /\ hw' = Samd!isr(hw)
  /\ stale' = IF hw'.dac.step = 0 THEN stale \union board.dac ELSE stale
  /\ UNCHANGED <<board, power, on, powerPin, dirPin, pull, call, listened>>

-----------------------------------------------------------------------------
Program ==
  \/ \E v \in board.levels[powerPin] : setpower(v)
  \/ setleft \/ setright \/ turn_on \/ turn_off \/ onfor \/ stopall
  \/ \E p, d \in Pins : talkto(p, d)
  \/ \E p \in Pins : read(p) \/ \E mode \in board.modes : set_pull(p, mode)
  \/ \E step \in Steps : tone(step) \/ tonefor(step)

\* What a function that waits or loops does next.
GoOn ==
  OnforEnds \/ ToneforEnds \/ StopallEnds \/ \E p \in Pins : StopPin(p)

Next == Program \/ GoOn \/ Sample

Spec == Init /\ [][Next]_vars /\ WF_vars(Sample) /\ WF_vars(GoOn)

-----------------------------------------------------------------------------
ToneHas(p) ==
  \/ IsSamd /\ p \in board.dac /\ hw.dac.step # 0
  \/ ~IsSamd /\ hw.tone /\ p \in board.shared

\* An output shows its power when it is on and nothing when it is off,
\* whatever it was used for before: a motor's pins by turns, a pin that has
\* been an input, inverted or analog, has been left to a timer or to the port.
\* Not so while a tone has the pin, and where the code leaves it to the next
\* set_out: after the end of a tone, and on AVR boards after a read.
OutputsAreRight ==
  \A p \in Pins :
    hw.dir[p] /\ p \notin stale /\ ~ToneHas(p) =>
      IF IsSamd THEN Samd!Shows(hw, p) = Samd!Wanted(on, power, p)
      ELSE Avr!Shows(hw, p) = Avr!Wanted(on, power, p)

\* A pin that was read stays an input, driven by nothing and pulled the way it
\* was at the read, until it is written or talked to itself: no use of other
\* pins, of a tone or of stopall disturbs it.
InputsAreQuiet ==
  \A p \in Pins :
    listened[p] # "no" =>
      /\ ~hw.dir[p]
      /\ IF IsSamd
         THEN /\ ~hw.wave[p]
              /\ hw.pull[p] = listened[p]
              /\ listened[p] # "none" => hw.out[p] = (listened[p] = "up")
         ELSE hw.out[p] = (listened[p] = "up")

\* A new power of the analog pin gets to the converter in the end, at once or
\* at the next turn of a tone's sine, also when the tone ends in between; and a
\* tone that is ended does end.
ToneFollows ==
  /\ []<>(hw.dac.current = hw.dac.power)
  /\ []((hw.dac.step # 0 /\ ~hw.dac.running) ~> (hw.dac.step = 0 \/ hw.dac.running))
=============================================================================
