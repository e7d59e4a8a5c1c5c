----------------------------- MODULE Pins_proofs -----------------------------
(***************************************************************************)
(* Theorems about Pins for boards of any pins, motors and timers, and      *)
(* tones of any steps.                                                     *)
(*                                                                         *)
(* A function that writes a pin writes all of what the pin shows, and      *)
(* nothing of another pin but its motor's other one: so each pin can be    *)
(* looked at by itself, from its last set_out on.                          *)
(***************************************************************************)
EXTENDS Pins, Integers, TLAPS

----------------------------------------------------------------------------
(***************************************************************************)
(* Types                                                                   *)
(***************************************************************************)
Dac == [power : Nat, current : Nat, data : Int, phase : Int, step : Nat, running : BOOLEAN]

Hardware(ps) ==
  [dir : [ps -> BOOLEAN], out : [ps -> BOOLEAN], wave : [ps -> BOOLEAN], tone : BOOLEAN,
   duty : [ps -> Int], pull : [ps -> Modes], dac : Dac]

\* Only a board with tones waits in tonefor.
Waits == call = "tonefor" => board.tones

TypeOK ==
  /\ board \in Boards
  /\ power \in [Pins -> 0..Full]
  /\ on \subseteq Pins
  /\ powerPin \in Pins /\ dirPin \in Pins
  /\ pull \in [Pins -> Modes]
  /\ hw \in Hardware(Pins)
  /\ listened \in [Pins -> Modes \cup {"no"}]

LEMMA BoardIs ==
  ASSUME board \in Boards
  PROVE  IF IsSamd THEN IsSamdBoard(board) ELSE IsAvrBoard(board)
BY BoardsAssumption DEF IsSamd, IsSamdBoard, IsAvrBoard

----------------------------------------------------------------------------
(***************************************************************************)
(* What the functions of SamdPins do to a pin, and that they leave the     *)
(* others alone.                                                           *)
(***************************************************************************)
SamePort(g, h, q) ==
  /\ g.dir[q] = h.dir[q] /\ g.out[q] = h.out[q] /\ g.wave[q] = h.wave[q]
  /\ g.duty[q] = h.duty[q] /\ g.pull[q] = h.pull[q]

Same(g, h, q) == SamePort(g, h, q) /\ (q \in board.dac => g.dac = h.dac)

\* A peripheral has a pin only if it has one.
Waves(h) == \A p \in Pins : h.wave[p] => p \in board.pwm \cup board.dac

\* The tone keeps the converter.
Free(h, p) == p \in board.dac => h.dac.step = 0

\* From hardware h to g only ps is written.
Writes(g, h, ps) ==
  /\ g \in Hardware(Pins)
  /\ g.dac.step = h.dac.step
  /\ \A q \in Pins \ ps : Same(g, h, q)

Samds == board \in Boards /\ IsSamd

LEMMA SameShows ==
  ASSUME NEW g, NEW h, NEW q \in Pins, Same(g, h, q)
  PROVE  Samd!Shows(g, q) = Samd!Shows(h, q)
BY DEF Same, SamePort, Samd!Shows, Samd!has_dac, Samd!Is

LEMMA ConverterIsOne ==
  ASSUME Samds, NEW p \in board.dac, NEW q \in board.dac
  PROVE  p = q
BY BoardIs DEF Samds, IsSamdBoard

LEMMA WritesMore ==
  ASSUME NEW f, NEW g, NEW h, NEW ps, NEW qs, Writes(g, h, ps), Writes(f, g, qs)
  PROVE  Writes(f, h, ps \cup qs)
<1>1. f \in Hardware(Pins) /\ f.dac.step = h.dac.step
  BY DEF Writes
<1>2. ASSUME NEW q \in Pins \ (ps \cup qs) PROVE Same(f, h, q)
  <2>1. Same(f, g, q) /\ Same(g, h, q)
    BY DEF Writes
  <2> QED
    BY <2>1 DEF Same, SamePort
<1> QED
  BY <1>1, <1>2 DEF Writes

\* ao_snek_port_set: the latch of the pin, inverted or not.
LEMMA PortSetIs ==
  ASSUME Samds, NEW h \in Hardware(Pins), NEW p \in Pins, NEW v \in 0..Full
  PROVE  LET g == Samd!port_set(h, p, v) IN
         /\ Writes(g, h, {p}) /\ g.dir = h.dir /\ g.wave = h.wave
         /\ ~h.wave[p] => Samd!Shows(g, p) = IF v = 0 THEN 0 ELSE Full
<1> DEFINE g == Samd!port_set(h, p, v)
           x == ((v # 0) # (p \in board.invert))
<1>1. g = [h EXCEPT !.out[p] = x] /\ x \in BOOLEAN
  BY DEF Samd!port_set, Samd!invert_pin, Samd!Is
<1> HIDE DEF g, x
<1>2. g \in Hardware(Pins)
  BY <1>1 DEF Hardware
<1>3. g.dir = h.dir /\ g.wave = h.wave /\ g.duty = h.duty /\ g.pull = h.pull /\ g.dac = h.dac
      /\ g.out = [h.out EXCEPT ![p] = x]
  BY <1>1 DEF Hardware
<1>4. h.out \in [Pins -> BOOLEAN]
  BY DEF Hardware
<1>5. g.out[p] = x /\ \A q \in Pins \ {p} : g.out[q] = h.out[q]
  BY <1>3, <1>4
<1>6. Writes(g, h, {p})
  BY <1>2, <1>3, <1>5 DEF Writes, Same, SamePort
<1>7. ~h.wave[p] => Samd!Shows(g, p) = IF v = 0 THEN 0 ELSE Full
  BY <1>3, <1>5 DEF Samd!Shows, Samd!invert_pin, Samd!Is, x
<1> QED
  BY <1>3, <1>6, <1>7 DEF g

LEMMA ClearIs ==
  ASSUME Samds, NEW h \in Hardware(Pins), NEW p \in Pins
  PROVE  LET g == Samd!clr_pmux(h, p) IN
         /\ Writes(g, h, {p}) /\ g.dir = h.dir /\ g.out = h.out /\ g.pull = h.pull /\ g.dac = h.dac
         /\ ~g.wave[p]
<1> DEFINE g == Samd!clr_pmux(h, p)
           off == FALSE
           zero == 0
<1>0. off \in BOOLEAN /\ zero \in Int /\ ~off
  OBVIOUS
<1>1. g = [h EXCEPT !.wave[p] = off, !.duty[p] = zero]
  BY DEF Samd!clr_pmux
<1> HIDE DEF g, off, zero
<1>2. g \in Hardware(Pins)
  BY <1>0, <1>1 DEF Hardware
<1>3. g.dir = h.dir /\ g.out = h.out /\ g.pull = h.pull /\ g.dac = h.dac
      /\ g.wave = [h.wave EXCEPT ![p] = off] /\ g.duty = [h.duty EXCEPT ![p] = zero]
  BY <1>1 DEF Hardware
<1>4. h.wave \in [Pins -> BOOLEAN] /\ h.duty \in [Pins -> Int]
  BY DEF Hardware
<1>5. ~g.wave[p] /\ \A q \in Pins \ {p} : g.wave[q] = h.wave[q] /\ g.duty[q] = h.duty[q]
  BY <1>0, <1>3, <1>4
<1>6. Writes(g, h, {p})
  BY <1>2, <1>3, <1>5 DEF Writes, Same, SamePort
<1> QED
  BY <1>3, <1>5, <1>6 DEF g

LEMMA SetPwmIs ==
  ASSUME Samds, NEW h \in Hardware(Pins), NEW p \in Pins, NEW v \in 0..Full
  PROVE  LET g == Samd!set_pwm(h, p, v) IN
         /\ Writes(g, h, {p}) /\ g.dir = h.dir
         /\ p \notin board.dac => Samd!Shows(g, p) = v
<1> DEFINE g == Samd!set_pwm(h, p, v)
           x == IF p \in board.invert THEN Full - v ELSE v
<1>1. g = [h EXCEPT !.duty[p] = x, !.wave[p] = TRUE, !.pull[p] = "none"]
  BY DEF Samd!set_pwm, Samd!invert_pin, Samd!Is
<1>2. x \in Int /\ "none" \in Modes
  BY NumbersAssumption DEF Modes
<1> HIDE DEF g, x
<1>3. g \in Hardware(Pins)
  BY <1>1, <1>2 DEF Hardware
<1>4. g.dir = h.dir /\ g.out = h.out /\ g.dac = h.dac /\ g.wave = [h.wave EXCEPT ![p] = TRUE]
      /\ g.duty = [h.duty EXCEPT ![p] = x] /\ g.pull = [h.pull EXCEPT ![p] = "none"]
  BY <1>1 DEF Hardware
<1>5. h.wave \in [Pins -> BOOLEAN] /\ h.duty \in [Pins -> Int] /\ h.pull \in [Pins -> Modes]
  BY DEF Hardware
<1>6. g.wave[p] /\ g.duty[p] = x
      /\ \A q \in Pins \ {p} : g.wave[q] = h.wave[q] /\ g.duty[q] = h.duty[q] /\ g.pull[q] = h.pull[q]
  BY <1>4, <1>5
<1>7. Writes(g, h, {p})
  BY <1>3, <1>4, <1>6 DEF Writes, Same, SamePort
<1>8. ASSUME p \notin board.dac PROVE Samd!Shows(g, p) = v
  <2>1. Samd!Shows(g, p) = IF p \in board.invert THEN Full - x ELSE x
    BY <1>6, <1>8 DEF Samd!Shows, Samd!has_dac, Samd!invert_pin, Samd!Is
  <2> QED
    BY <2>1, NumbersAssumption DEF x
<1> QED
  BY <1>4, <1>7, <1>8 DEF g

LEMMA DacSetIs ==
  ASSUME Samds, NEW h \in Hardware(Pins), NEW v \in 0..Full
  PROVE  LET g == Samd!dac_set(h, v) IN
         /\ Writes(g, h, board.dac) /\ g.dir = h.dir /\ g.out = h.out /\ g.pull = h.pull
         /\ g.wave = h.wave /\ g.duty = h.duty
         /\ h.dac.step = 0 => g.dac.data = v
<1> DEFINE g == Samd!dac_set(h, v)
           d == IF h.dac.step = 0
                THEN [h.dac EXCEPT !.power = v, !.current = v, !.data = v]
                ELSE [h.dac EXCEPT !.power = v]
<1>1. h.dac \in Dac /\ v \in Nat /\ v \in Int
  BY NumbersAssumption DEF Hardware
<1>2. d \in Dac /\ d.step = h.dac.step /\ (h.dac.step = 0 => d.data = v)
  BY <1>1 DEF Dac
<1>3. g = [h EXCEPT !.dac = d]
  BY DEF Samd!dac_set, Hardware
<1> HIDE DEF g, d
<1>4. g \in Hardware(Pins)
  BY <1>2, <1>3 DEF Hardware
<1>5. g.dir = h.dir /\ g.out = h.out /\ g.pull = h.pull /\ g.wave = h.wave /\ g.duty = h.duty /\ g.dac = d
  BY <1>3 DEF Hardware
<1>6. Writes(g, h, board.dac)
  BY <1>2, <1>4, <1>5 DEF Writes, Same, SamePort
<1> QED
  BY <1>2, <1>5, <1>6 DEF g

\* What set_dac and set_adc do to a pin of the port.
LEMMA ConnectIs ==
  ASSUME Samds, NEW h \in Hardware(Pins), NEW p \in Pins
  PROVE  LET g == [h EXCEPT !.wave[p] = TRUE, !.pull[p] = "none"] IN
         Writes(g, h, {p}) /\ g.dir = h.dir /\ g.out = h.out /\ g.dac = h.dac /\ g.wave[p]
<1> DEFINE yes == TRUE
           none == "none"
           g == [h EXCEPT !.wave[p] = yes, !.pull[p] = none]
<1>1. yes \in BOOLEAN /\ none \in Modes /\ yes
  BY DEF Modes
<1>2. g = [h EXCEPT !.wave[p] = yes, !.pull[p] = none]
  OBVIOUS
<1> HIDE DEF g, yes, none
<1>3. g \in Hardware(Pins)
  BY <1>1, <1>2 DEF Hardware
<1>4. g.dir = h.dir /\ g.out = h.out /\ g.dac = h.dac /\ g.duty = h.duty
      /\ g.wave = [h.wave EXCEPT ![p] = yes] /\ g.pull = [h.pull EXCEPT ![p] = none]
  BY <1>2 DEF Hardware
<1>5. h.wave \in [Pins -> BOOLEAN] /\ h.pull \in [Pins -> Modes]
  BY DEF Hardware
<1>6. g.wave[p] /\ \A q \in Pins \ {p} : g.wave[q] = h.wave[q] /\ g.pull[q] = h.pull[q]
  BY <1>1, <1>4, <1>5
<1>7. Writes(g, h, {p})
  BY <1>3, <1>4, <1>6 DEF Writes, Same, SamePort
<1> QED
  BY <1>4, <1>6, <1>7 DEF g, yes, none

LEMMA SetDacIs ==
  ASSUME Samds, NEW h \in Hardware(Pins), NEW p \in board.dac, p \in Pins, NEW v \in 0..Full
  PROVE  LET g == Samd!set_dac(h, p, v) IN
         /\ Writes(g, h, {p}) /\ g.dir = h.dir /\ g.wave[p]
         /\ Free(h, p) => Samd!Shows(g, p) = v
<1> DEFINE f == Samd!dac_set(h, v)
           g == [f EXCEPT !.wave[p] = TRUE, !.pull[p] = "none"]
<1>1. /\ Writes(f, h, board.dac) /\ f.dir = h.dir
      /\ h.dac.step = 0 => f.dac.data = v
  BY DacSetIs
<1>2. f \in Hardware(Pins)
  BY <1>1 DEF Writes
<1>3. g = Samd!set_dac(h, p, v)
  BY DEF Samd!set_dac
<1> HIDE DEF f
<1>4. Writes(g, f, {p}) /\ g.dir = f.dir /\ g.dac = f.dac /\ g.wave[p]
  BY <1>2, ConnectIs
<1> HIDE DEF g
<1>5. board.dac \cup {p} = {p}
  BY ConverterIsOne
<1>6. Writes(g, h, {p})
  <2>1. Writes(g, h, board.dac \cup {p})
    BY <1>1, <1>4, WritesMore
  <2> QED
    BY <1>5, <2>1
<1>7. Free(h, p) => Samd!Shows(g, p) = v
  BY <1>1, <1>4 DEF Free, Samd!Shows, Samd!has_dac, Samd!Is
<1> QED
  BY <1>1, <1>3, <1>4, <1>6, <1>7

\* _set_out writes the pin and nothing else, and the pin shows the value.
LEMMA PutIs ==
  ASSUME Samds, NEW h \in Hardware(Pins), Waves(h), NEW p \in Pins, NEW v \in 0..Full
  PROVE  LET g == Samd!put(h, p, v) IN
         /\ Writes(g, h, {p}) /\ g.dir = h.dir /\ Waves(g)
         /\ Free(h, p) => Samd!Shows(g, p) = Samd!Level(p, v)
<1> DEFINE g == Samd!put(h, p, v)
           timed == p \in board.pwm
           analog == p \in board.dac
<1>0. Writes(g, h, {p}) => (Waves(g) <=> (g.wave[p] => timed \/ analog))
  BY DEF Writes, Same, SamePort, Waves
<1>1. CASE analog
  <2>1. g = Samd!set_dac(h, p, v)
    BY <1>1 DEF Samd!put, Samd!has_dac, Samd!Is
  <2>2. Samd!Level(p, v) = v
    BY <1>1 DEF Samd!Level, Samd!has_dac, Samd!Is
  <2> HIDE DEF g
  <2>3. Writes(g, h, {p}) /\ g.dir = h.dir /\ (Free(h, p) => Samd!Shows(g, p) = v)
    BY <1>1, <2>1, SetDacIs
  <2> QED
    BY <1>0, <1>1, <2>2, <2>3 DEF g
<1>2. CASE ~analog /\ timed /\ v \in 1..(Full - 1)
  <2>1. g = Samd!set_pwm(h, p, v)
    BY <1>2 DEF Samd!put, Samd!has_dac, Samd!has_pwm, Samd!Is
  <2>2. Samd!Level(p, v) = v
    BY <1>2 DEF Samd!Level, Samd!has_pwm, Samd!Is
  <2> HIDE DEF g
  <2>3. Writes(g, h, {p}) /\ g.dir = h.dir /\ Samd!Shows(g, p) = v
    BY <1>2, <2>1, SetPwmIs
  <2> QED
    BY <1>0, <1>2, <2>2, <2>3 DEF g
<1>3. CASE ~analog /\ ~(timed /\ v \in 1..(Full - 1))
  <2> DEFINE f == IF timed THEN Samd!clr_pmux(h, p) ELSE h
  <2>1. g = Samd!port_set(f, p, v)
    BY <1>3 DEF Samd!put, Samd!has_dac, Samd!has_pwm, Samd!Is
  <2>2. Samd!Level(p, v) = IF v = 0 THEN 0 ELSE Full
    BY <1>3, NumbersAssumption DEF Samd!Level, Samd!has_pwm, Samd!has_dac, Samd!Is
  <2> HIDE DEF g
  <2>3. /\ Writes(f, h, {p}) /\ f.dir = h.dir /\ ~f.wave[p]
    <3>1. CASE timed
      BY <3>1, ClearIs
    <3>2. CASE ~timed
      BY <1>3, <3>2 DEF Waves, Writes, Same, SamePort
    <3> QED
      BY <3>1, <3>2
  <2>4. f \in Hardware(Pins)
    BY <2>3 DEF Writes
  <2> HIDE DEF f
  <2>5. /\ Writes(g, f, {p}) /\ g.dir = f.dir /\ g.wave = f.wave
        /\ Samd!Shows(g, p) = IF v = 0 THEN 0 ELSE Full
    BY <2>1, <2>3, <2>4, PortSetIs
  <2>6. Writes(g, h, {p} \cup {p})
    BY <2>3, <2>5, WritesMore
  <2>7. Writes(g, h, {p})
    <3>1. {p} \cup {p} = {p}
      OBVIOUS
    <3> QED
      BY <2>6, <3>1
  <2>8. g.dir = h.dir /\ ~g.wave[p] /\ Samd!Shows(g, p) = Samd!Level(p, v)
    BY <2>2, <2>3, <2>5
  <2> QED
    BY <1>0, <2>7, <2>8 DEF g
<1> QED
  BY <1>1, <1>2, <1>3

LEMMA MotorIs ==
  ASSUME Samds, NEW p \in Pins, Samd!InMotor(p)
  PROVE  LET m == Samd!MotorOf(p) IN
         /\ m \in board.motors /\ p \in {m.pwm, m.dir} /\ m.pwm \in Pins /\ m.dir \in Pins
         /\ m.pwm # m.dir /\ Written(p) = {m.pwm, m.dir}
         /\ \A q \in {m.pwm, m.dir} : Samd!InMotor(q) /\ Samd!MotorOf(q) = m
<1> DEFINE m == Samd!MotorOf(p)
<1>1. m \in board.motors /\ p \in {m.pwm, m.dir}
  BY DEF Samd!InMotor, Samd!MotorOf
<1>2. Written(p) = {m.pwm, m.dir}
  BY DEF Samds, Written
<1>3. /\ \A x \in board.motors : {x.pwm, x.dir} \subseteq Pins /\ x.pwm # x.dir
      /\ \A x, y \in board.motors : {x.pwm, x.dir} \cap {y.pwm, y.dir} # {} => x = y
  BY BoardIs DEF Samds, IsSamdBoard, Motor, Pins
<1> HIDE DEF m
<1>4. ASSUME NEW q \in {m.pwm, m.dir} PROVE Samd!InMotor(q) /\ Samd!MotorOf(q) = m
  <2>1. Samd!InMotor(q)
    BY <1>1 DEF Samd!InMotor
  <2>2. Samd!MotorOf(q) \in board.motors
        /\ q \in {Samd!MotorOf(q).pwm, Samd!MotorOf(q).dir}
    BY <2>1 DEF Samd!InMotor, Samd!MotorOf
  <2>3. {Samd!MotorOf(q).pwm, Samd!MotorOf(q).dir} \cap {m.pwm, m.dir} # {}
    BY <2>2
  <2> QED
    BY <1>1, <1>3, <2>1, <2>2, <2>3
<1> QED
  BY <1>1, <1>2, <1>3, <1>4 DEF m

LEMMA AskedIs ==
  ASSUME NEW o, NEW w \in [Pins -> 0..Full], NEW p \in Pins
  PROVE  Samd!Asked(o, w, p) \in 0..Full
BY NumbersAssumption DEF Samd!Asked

\* set_out writes the pin, or both pins of its motor, and they show what is
\* asked for.
LEMMA SetOutIs ==
  ASSUME Samds, NEW h \in Hardware(Pins), Waves(h), NEW p \in Pins,
         NEW o, NEW w \in [Pins -> 0..Full]
  PROVE  LET g == Samd!set_out(h, o, w, p) IN
         /\ Writes(g, h, Written(p)) /\ g.dir = h.dir /\ Waves(g)
         /\ \A q \in Written(p) : Free(h, q) => Samd!Shows(g, q) = Samd!Wanted(o, w, q)
<1> DEFINE g == Samd!set_out(h, o, w, p)
<1>1. CASE Samd!InMotor(p)
  <2> DEFINE m == Samd!MotorOf(p)
             v == Samd!Asked(o, w, m.pwm)
             b == IF m.dir \in o THEN m.dir ELSE m.pwm
             a == IF m.dir \in o THEN m.pwm ELSE m.dir
             f == Samd!put(h, a, 0)
  <2>1. g = Samd!put(f, b, v)
    BY <1>1 DEF Samd!set_out
  <2>2. /\ m.pwm \in Pins /\ m.dir \in Pins /\ m.pwm # m.dir /\ Written(p) = {m.pwm, m.dir}
        /\ \A q \in {m.pwm, m.dir} : Samd!InMotor(q) /\ Samd!MotorOf(q) = m
    BY <1>1, MotorIs
  <2>3. v \in 0..Full /\ 0 \in 0..Full
    BY <2>2, AskedIs, NumbersAssumption
  <2>4. \A q \in {m.pwm, m.dir} :
          Samd!Wanted(o, w, q) = IF q = b THEN Samd!Level(q, v) ELSE 0
    BY <2>2 DEF Samd!Wanted
  <2> HIDE DEF g, m, v
  <2>5. a \in Pins /\ b \in Pins /\ a # b /\ Written(p) = {a, b} /\ {m.pwm, m.dir} = {a, b}
    BY <2>2
  <2> HIDE DEF a, b
  <2>6. /\ Writes(f, h, {a}) /\ f.dir = h.dir /\ Waves(f)
        /\ Free(h, a) => Samd!Shows(f, a) = Samd!Level(a, 0)
    BY <2>3, <2>5, PutIs
  <2>7. f \in Hardware(Pins) /\ f.dac.step = h.dac.step
    BY <2>6 DEF Writes
  <2> HIDE DEF f
  <2>8. /\ Writes(g, f, {b}) /\ g.dir = f.dir /\ Waves(g)
        /\ Free(f, b) => Samd!Shows(g, b) = Samd!Level(b, v)
    BY <2>1, <2>3, <2>5, <2>6, <2>7, PutIs
  <2>9. Writes(g, h, Written(p))
    <3>1. Writes(g, h, {a} \cup {b})
      BY <2>6, <2>8, WritesMore
    <3>2. {a} \cup {b} = Written(p)
      BY <2>5
    <3> QED
      BY <3>1, <3>2
  <2>10. Samd!Shows(g, a) = Samd!Shows(f, a)
    <3>1. Same(g, f, a)
      BY <2>5, <2>8 DEF Writes
    <3> QED
      BY <2>5, <3>1, SameShows
  <2>11. Samd!Level(a, 0) = 0
    BY DEF Samd!Level
  <2>12. ASSUME NEW q \in Written(p), Free(h, q)
         PROVE  Samd!Shows(g, q) = Samd!Wanted(o, w, q)
    <3>1. CASE q = a
      BY <2>4, <2>5, <2>6, <2>10, <2>11, <2>12, <3>1
    <3>2. CASE q = b
      <4>1. Free(f, b)
        BY <2>7, <2>12, <3>2 DEF Free
      <4> QED
        BY <2>4, <2>5, <2>8, <3>2, <4>1
    <3> QED
      BY <2>5, <3>1, <3>2
  <2> QED
    BY <2>6, <2>8, <2>9, <2>12 DEF g
<1>2. CASE ~Samd!InMotor(p)
  <2> DEFINE v == Samd!Asked(o, w, p)
  <2>1. g = Samd!put(h, p, v) /\ Written(p) = {p} /\ Samd!Wanted(o, w, p) = Samd!Level(p, v)
    BY <1>2 DEF Samd!set_out, Written, Samd!Wanted
  <2>2. v \in 0..Full
    BY AskedIs
  <2> HIDE DEF g, v
  <2>3. /\ Writes(g, h, {p}) /\ g.dir = h.dir /\ Waves(g)
        /\ Free(h, p) => Samd!Shows(g, p) = Samd!Level(p, v)
    BY <2>1, <2>2, PutIs
  <2> QED
    BY <2>1, <2>3 DEF g
<1> QED
  BY <1>1, <1>2

\* set_dir(pin, 1) does what set_out does, and makes the pin an output.
LEMMA TalkIs ==
  ASSUME Samds, NEW h \in Hardware(Pins), Waves(h), NEW p \in Pins,
         NEW o, NEW w \in [Pins -> 0..Full]
  PROVE  LET g == Samd!talk(h, o, w, p) IN
         /\ Writes(g, h, Written(p)) /\ Waves(g)
         /\ \A q \in Written(p) : Free(h, q) => Samd!Shows(g, q) = Samd!Wanted(o, w, q)
<1> DEFINE f == IF Samd!has_adc(p) THEN Samd!clr_pmux(h, p) ELSE h
           high == Samd!Asked(o, w, p) # 0
           yes == TRUE
           none == "none"
           e == Samd!enable_output(f, p, high)
           g == Samd!talk(h, o, w, p)
<1>1. g = Samd!set_out(e, o, w, p) /\ e = [f EXCEPT !.out[p] = high, !.dir[p] = yes, !.pull[p] = none]
  BY DEF Samd!talk, Samd!enable_output
<1>2. high \in BOOLEAN /\ yes \in BOOLEAN /\ none \in Modes
  BY DEF Modes
<1>3. Writes(f, h, {p}) /\ Waves(f)
  <2>1. CASE Samd!has_adc(p)
    <3>1. Writes(f, h, {p}) /\ ~f.wave[p]
      BY <2>1, ClearIs
    <3> QED
      BY <3>1 DEF Waves, Writes, Same, SamePort
  <2>2. CASE ~Samd!has_adc(p)
    BY <2>2 DEF Writes, Same, SamePort
  <2> QED
    BY <2>1, <2>2
<1>4. f \in Hardware(Pins)
  BY <1>3 DEF Writes
<1> HIDE DEF f, high, yes, none, e, g
<1>5. e \in Hardware(Pins)
  BY <1>1, <1>2, <1>4 DEF Hardware
<1>6. /\ e.wave = f.wave /\ e.duty = f.duty /\ e.dac = f.dac
      /\ e.out = [f.out EXCEPT ![p] = high] /\ e.dir = [f.dir EXCEPT ![p] = yes]
      /\ e.pull = [f.pull EXCEPT ![p] = none]
  BY <1>1, <1>4 DEF Hardware
<1>7. f.out \in [Pins -> BOOLEAN] /\ f.dir \in [Pins -> BOOLEAN] /\ f.pull \in [Pins -> Modes]
  BY <1>4 DEF Hardware
<1>8. \A q \in Pins \ {p} : e.out[q] = f.out[q] /\ e.dir[q] = f.dir[q] /\ e.pull[q] = f.pull[q]
  BY <1>6, <1>7
<1>9. Writes(e, f, {p}) /\ Waves(e)
  BY <1>3, <1>5, <1>6, <1>8 DEF Writes, Same, SamePort, Waves
<1>10. /\ Writes(g, e, Written(p)) /\ Waves(g)
       /\ \A q \in Written(p) : Free(e, q) => Samd!Shows(g, q) = Samd!Wanted(o, w, q)
  BY <1>1, <1>5, <1>9, SetOutIs
<1>11. p \in Written(p)
  BY MotorIs DEF Written
<1>12. Writes(g, h, Written(p))
  <2>1. Writes(e, h, {p} \cup {p})
    BY <1>3, <1>9, WritesMore
  <2>2. Writes(g, h, ({p} \cup {p}) \cup Written(p))
    BY <1>10, <2>1, WritesMore
  <2>3. ({p} \cup {p}) \cup Written(p) = Written(p)
    BY <1>11
  <2> QED
    BY <2>2, <2>3
<1>13. \A q \in Written(p) : Free(h, q) => Free(e, q)
  BY <1>3, <1>9 DEF Writes, Free
<1> QED
  BY <1>10, <1>12, <1>13 DEF g

\* set_dir(pin, 0) leaves the pin to nothing, with its pull.
LEMMA ListenIs ==
  ASSUME Samds, NEW h \in Hardware(Pins), Waves(h), NEW p \in Pins, NEW mode \in Modes
  PROVE  LET g == Samd!listen(h, p, mode) IN
         /\ Writes(g, h, {p}) /\ Waves(g)
         /\ ~g.dir[p] /\ ~g.wave[p] /\ g.pull[p] = mode
         /\ mode # "none" => g.out[p] = (mode = "up")
<1> DEFINE f == Samd!set_in(h, p)
           e == CASE Samd!has_adc(p) /\ mode = "none" -> Samd!set_adc(f, p)
                  [] Samd!has_adc(p) /\ mode # "none" -> Samd!clr_pmux(f, p)
                  [] OTHER -> f
           off == FALSE
           zero == 0
           high == IF mode = "none" THEN e.out[p] ELSE mode = "up"
           g == Samd!listen(h, p, mode)
<1>1. Writes(f, h, {p})
  <2>1. CASE Samd!has_pwm(p)
    BY <2>1, ClearIs DEF Samd!set_in
  <2>2. CASE ~Samd!has_pwm(p) /\ Samd!has_dac(p)
    <3> DEFINE d == Samd!dac_set(h, 0)
    <3>1. 0 \in 0..Full
      BY NumbersAssumption
    <3>2. Writes(d, h, board.dac)
      BY <3>1, DacSetIs
    <3>3. d \in Hardware(Pins) /\ f = Samd!clr_pmux(d, p)
      BY <2>2, <3>2 DEF Writes, Samd!set_in, Samd!clr_dac
    <3> HIDE DEF d, f
    <3>4. Writes(f, d, {p})
      BY <3>3, ClearIs
    <3>5. Writes(f, h, board.dac \cup {p})
      BY <3>2, <3>4, WritesMore
    <3>6. board.dac \cup {p} = {p}
      BY <2>2, ConverterIsOne DEF Samd!has_dac, Samd!Is
    <3> QED
      BY <3>5, <3>6
  <2>3. CASE ~Samd!has_pwm(p) /\ ~Samd!has_dac(p)
    BY <2>3 DEF Samd!set_in, Writes, Same, SamePort
  <2> QED
    BY <2>1, <2>2, <2>3
<1>2. f \in Hardware(Pins)
  BY <1>1 DEF Writes
<1> HIDE DEF f
<1>3. Writes(e, f, {p})
  <2>1. CASE Samd!has_adc(p) /\ mode = "none"
    BY <1>2, <2>1, ConnectIs DEF Samd!set_adc
  <2>2. CASE Samd!has_adc(p) /\ mode # "none"
    BY <1>2, <2>2, ClearIs
  <2>3. CASE ~Samd!has_adc(p)
    BY <1>2, <2>3 DEF Writes, Same, SamePort
  <2> QED
    BY <2>1, <2>2, <2>3
<1>4. e \in Hardware(Pins)
  BY <1>3 DEF Writes
<1>5. g = [e EXCEPT !.dir[p] = off, !.wave[p] = off, !.duty[p] = zero, !.pull[p] = mode,
                    !.out[p] = high]
  <2>1. g = Samd!enable_input(e, p, mode)
    BY DEF Samd!listen, f
  <2> HIDE DEF e, g
  <2>2. Samd!enable_input(e, p, mode)
          = [e EXCEPT !.dir[p] = off, !.wave[p] = off, !.duty[p] = zero, !.pull[p] = mode,
                      !.out[p] = high]
    BY <1>4 DEF Samd!enable_input, Hardware
  <2> QED
    BY <2>1, <2>2
<1> HIDE DEF e
<1>6. off \in BOOLEAN /\ ~off /\ zero \in Int /\ high \in BOOLEAN
  <2>1. off \in BOOLEAN /\ ~off /\ zero \in Int
    OBVIOUS
  <2>2. e.out[p] \in BOOLEAN
    BY <1>4 DEF Hardware
  <2>3. (mode = "up") \in BOOLEAN
    OBVIOUS
  <2>4. high \in BOOLEAN
    BY <2>2, <2>3, Zenon
  <2> QED
    BY <2>1, <2>4
<1>7. mode # "none" => high = (mode = "up")
  OBVIOUS
<1> HIDE DEF g, off, zero, high
<1>8. g \in Hardware(Pins)
  BY <1>4, <1>5, <1>6 DEF Hardware
<1>9. /\ g.dir = [e.dir EXCEPT ![p] = off] /\ g.wave = [e.wave EXCEPT ![p] = off]
      /\ g.duty = [e.duty EXCEPT ![p] = zero] /\ g.pull = [e.pull EXCEPT ![p] = mode]
      /\ g.out = [e.out EXCEPT ![p] = high] /\ g.dac = e.dac
  BY <1>4, <1>5 DEF Hardware
<1>10. /\ e.dir \in [Pins -> BOOLEAN] /\ e.wave \in [Pins -> BOOLEAN] /\ e.duty \in [Pins -> Int]
       /\ e.pull \in [Pins -> Modes] /\ e.out \in [Pins -> BOOLEAN]
  BY <1>4 DEF Hardware
<1>11. /\ g.dir[p] = off /\ g.wave[p] = off /\ g.pull[p] = mode /\ g.out[p] = high
       /\ \A q \in Pins \ {p} : SamePort(g, e, q)
  BY <1>9, <1>10 DEF SamePort
<1>12. Writes(g, e, {p})
  BY <1>8, <1>9, <1>11 DEF Writes, Same
<1>13. Writes(g, h, {p})
  <2>1. Writes(e, h, {p} \cup {p})
    BY <1>1, <1>3, WritesMore
  <2>2. Writes(g, h, ({p} \cup {p}) \cup {p})
    BY <1>12, <2>1, WritesMore
  <2>3. ({p} \cup {p}) \cup {p} = {p}
    OBVIOUS
  <2> QED
    BY <2>2, <2>3
<1>14. Waves(g)
  BY <1>6, <1>11, <1>13 DEF Waves, Writes, Same, SamePort
<1> QED
  BY <1>6, <1>7, <1>11, <1>13, <1>14 DEF g

----------------------------------------------------------------------------
(***************************************************************************)
(* What the functions of AvrPins do.                                       *)
(***************************************************************************)
Avrs == board \in Boards /\ ~IsSamd

AvrSame(g, h, q) == g.out[q] = h.out[q] /\ g.wave[q] = h.wave[q] /\ g.duty[q] = h.duty[q]

LEMMA AvrSetOutIs ==
  ASSUME Avrs, NEW h \in Hardware(Pins), NEW p \in Pins, NEW o, NEW w \in [Pins -> 0..Full]
  PROVE  LET g == Avr!set_out(h, o, w, p) IN
         /\ g \in Hardware(Pins) /\ g.dir = h.dir
         /\ Avr!Shows(g, p) = Avr!Wanted(o, w, p)
         /\ \A q \in Pins \ {p} : AvrSame(g, h, q)
<1> DEFINE v == Avr!Asked(o, w, p)
           timed == p \in board.pwm /\ v \in 1..(Full - 1)
           g == Avr!set_out(h, o, w, p)
           high == v # 0
           yes == TRUE
           off == FALSE
           zero == 0
<1>1. v \in 0..Full /\ v \in Int
  BY NumbersAssumption DEF Avr!Asked
<1>2. g = IF timed THEN [h EXCEPT !.duty[p] = v, !.wave[p] = yes]
          ELSE [h EXCEPT !.out[p] = high, !.wave[p] = off, !.duty[p] = zero]
  BY DEF Avr!set_out
<1>3. Avr!Wanted(o, w, p) = IF timed THEN v ELSE IF high THEN Full ELSE 0
  BY <1>1, NumbersAssumption DEF Avr!Wanted
<1>4. high \in BOOLEAN /\ yes \in BOOLEAN /\ yes /\ off \in BOOLEAN /\ ~off /\ zero \in Int
  OBVIOUS
<1>5. /\ h.dir \in [Pins -> BOOLEAN] /\ h.out \in [Pins -> BOOLEAN] /\ h.wave \in [Pins -> BOOLEAN]
      /\ h.duty \in [Pins -> Int]
  BY DEF Hardware
<1>6. CASE timed
  <2> HIDE DEF v, timed, g, high, yes, off, zero
  <2>1. g = [h EXCEPT !.duty[p] = v, !.wave[p] = yes]
    BY <1>2, <1>6
  <2>2. g \in Hardware(Pins)
    BY <1>1, <1>4, <2>1 DEF Hardware
  <2>3. /\ g.dir = h.dir /\ g.out = h.out /\ g.duty = [h.duty EXCEPT ![p] = v]
        /\ g.wave = [h.wave EXCEPT ![p] = yes]
    BY <2>1 DEF Hardware
  <2>4. g.wave[p] /\ g.duty[p] = v /\ \A q \in Pins \ {p} : AvrSame(g, h, q)
    BY <1>4, <1>5, <2>3 DEF AvrSame
  <2>5. Avr!Shows(g, p) = v
    BY <2>4 DEF Avr!Shows
  <2> QED
    BY <1>3, <1>6, <2>2, <2>3, <2>4, <2>5 DEF g
<1>7. CASE ~timed
  <2> HIDE DEF v, timed, g, high, yes, off, zero
  <2>1. g = [h EXCEPT !.out[p] = high, !.wave[p] = off, !.duty[p] = zero]
    BY <1>2, <1>7
  <2>2. g \in Hardware(Pins)
    BY <1>4, <2>1 DEF Hardware
  <2>3. /\ g.dir = h.dir /\ g.out = [h.out EXCEPT ![p] = high] /\ g.duty = [h.duty EXCEPT ![p] = zero]
        /\ g.wave = [h.wave EXCEPT ![p] = off]
    BY <2>1 DEF Hardware
  <2>4. g.wave[p] = off /\ g.out[p] = high /\ \A q \in Pins \ {p} : AvrSame(g, h, q)
    BY <1>5, <2>3 DEF AvrSame
  <2>5. Avr!Shows(g, p) = IF high THEN Full ELSE 0
    BY <1>4, <2>4 DEF Avr!Shows
  <2> QED
    BY <1>3, <1>7, <2>2, <2>3, <2>4, <2>5 DEF g
<1> QED
  BY <1>6, <1>7

LEMMA ToneResetIs ==
  ASSUME Avrs, NEW h \in Hardware(Pins)
  PROVE  LET g == Avr!tone_reset(h) IN
         /\ g \in Hardware(Pins) /\ g.dir = h.dir /\ g.out = h.out
         /\ \A q \in Pins \ board.dropped : AvrSame(g, h, q)
<1> DEFINE g == Avr!tone_reset(h)
           waves == [p \in Pins |-> h.wave[p] /\ p \notin board.dropped]
           duties == [p \in Pins |-> IF p \in board.dropped THEN 0 ELSE h.duty[p]]
           off == FALSE
<1>1. g = [h EXCEPT !.wave = waves, !.duty = duties, !.tone = off]
  BY DEF Avr!tone_reset, Pins
<1>2. h.wave \in [Pins -> BOOLEAN] /\ h.duty \in [Pins -> Int]
  BY DEF Hardware
<1>3. waves \in [Pins -> BOOLEAN] /\ \A q \in Pins \ board.dropped : waves[q] = h.wave[q]
  <2>1. \A q \in Pins : (h.wave[q] /\ q \notin board.dropped) \in BOOLEAN
    BY Zenon
  <2>2. waves \in [Pins -> BOOLEAN]
    BY <2>1, Zenon
  <2>3. ASSUME NEW q \in Pins \ board.dropped PROVE waves[q] = h.wave[q]
    <3>1. h.wave[q] \in BOOLEAN
      BY <1>2
    <3>2. waves[q] = (h.wave[q] /\ q \notin board.dropped)
      BY Zenon
    <3> QED
      BY <3>1, <3>2
  <2> QED
    BY <2>2, <2>3
<1>4. duties \in [Pins -> Int] /\ \A q \in Pins \ board.dropped : duties[q] = h.duty[q]
  BY <1>2
<1>5. off \in BOOLEAN
  OBVIOUS
<1> HIDE DEF g, waves, duties, off
<1>6. g \in Hardware(Pins)
  BY <1>1, <1>3, <1>4, <1>5 DEF Hardware
<1>7. g.dir = h.dir /\ g.out = h.out /\ g.wave = waves /\ g.duty = duties
  BY <1>1 DEF Hardware
<1> QED
  BY <1>3, <1>4, <1>6, <1>7 DEF AvrSame, g

LEMMA AvrDirIs ==
  ASSUME Avrs, NEW h \in Hardware(Pins), NEW p \in Pins
  PROVE  LET g == Avr!talk(h, p) IN
         /\ g \in Hardware(Pins)
         /\ \A q \in Pins : AvrSame(g, h, q)
         /\ \A q \in Pins \ {p} : g.dir[q] = h.dir[q]
<1> DEFINE g == Avr!talk(h, p)
           yes == TRUE
<1>1. g = [h EXCEPT !.dir[p] = yes] /\ yes \in BOOLEAN
  BY DEF Avr!talk
<1> HIDE DEF g, yes
<1>2. g \in Hardware(Pins)
  BY <1>1 DEF Hardware
<1>3. /\ g.out = h.out /\ g.wave = h.wave /\ g.duty = h.duty /\ g.dir = [h.dir EXCEPT ![p] = yes]
      /\ h.dir \in [Pins -> BOOLEAN]
  BY <1>1 DEF Hardware
<1> QED
  BY <1>2, <1>3 DEF AvrSame, g

LEMMA ToneIs ==
  ASSUME Avrs, NEW h \in Hardware(Pins), board.toned \in Pins
  PROVE  LET g == Avr!tone(h) IN
         /\ g \in Hardware(Pins) /\ g.out = h.out
         /\ \A q \in Pins \ board.dropped : AvrSame(g, h, q)
         /\ \A q \in Pins \ {board.toned} : g.dir[q] = h.dir[q]
<1> DEFINE f == Avr!tone_reset(h)
           g == Avr!tone(h)
           p == board.toned
           yes == TRUE
<1>1. g = [f EXCEPT !.tone = yes, !.dir[p] = yes] /\ yes \in BOOLEAN
  BY DEF Avr!tone
<1>2. /\ f \in Hardware(Pins) /\ f.dir = h.dir /\ f.out = h.out
      /\ \A q \in Pins \ board.dropped : AvrSame(f, h, q)
  BY ToneResetIs
<1> HIDE DEF f, g, yes, p
<1>3. g \in Hardware(Pins)
  BY <1>1, <1>2 DEF Hardware
<1>4. /\ g.out = f.out /\ g.wave = f.wave /\ g.duty = f.duty /\ g.dir = [f.dir EXCEPT ![p] = yes]
      /\ f.dir \in [Pins -> BOOLEAN]
  BY <1>1, <1>2 DEF Hardware
<1>5. \A q \in Pins \ {p} : g.dir[q] = h.dir[q]
  BY <1>2, <1>4
<1> QED
  BY <1>2, <1>3, <1>4, <1>5 DEF AvrSame, g, p

LEMMA AvrListenIs ==
  ASSUME Avrs, NEW h \in Hardware(Pins), NEW p \in Pins, NEW pulled
  PROVE  LET g == Avr!listen(h, pulled, p) IN
         /\ g \in Hardware(Pins) /\ g.wave = h.wave /\ g.duty = h.duty
         /\ ~g.dir[p] /\ g.out[p] = (p \in pulled)
         /\ \A q \in Pins \ {p} : AvrSame(g, h, q) /\ g.dir[q] = h.dir[q]
<1> DEFINE g == Avr!listen(h, pulled, p)
           off == FALSE
           high == p \in pulled
<1>1. g = [h EXCEPT !.dir[p] = off, !.out[p] = high] /\ off \in BOOLEAN /\ high \in BOOLEAN /\ ~off
  BY DEF Avr!listen
<1>2. high = (p \in pulled)
  OBVIOUS
<1> HIDE DEF g, off, high
<1>3. g \in Hardware(Pins)
  BY <1>1 DEF Hardware
<1>4. /\ g.wave = h.wave /\ g.duty = h.duty /\ g.dir = [h.dir EXCEPT ![p] = off]
      /\ g.out = [h.out EXCEPT ![p] = high]
      /\ h.dir \in [Pins -> BOOLEAN] /\ h.out \in [Pins -> BOOLEAN]
  BY <1>1 DEF Hardware
<1>5. g.dir[p] = off /\ g.out[p] = high
      /\ \A q \in Pins \ {p} : AvrSame(g, h, q) /\ g.dir[q] = h.dir[q]
  BY <1>4 DEF AvrSame
<1> QED
  BY <1>1, <1>2, <1>3, <1>4, <1>5 DEF g

----------------------------------------------------------------------------
(***************************************************************************)
(* The invariant                                                           *)
(***************************************************************************)
SamdRight(h, o, w, s) ==
  \A p \in Pins :
    h.dir[p] /\ p \notin s /\ Free(h, p) => Samd!Shows(h, p) = Samd!Wanted(o, w, p)

SamdQuiet(h, l) ==
  \A p \in Pins :
    l[p] # "no" =>
      /\ ~h.dir[p] /\ ~h.wave[p] /\ h.pull[p] = l[p]
      /\ l[p] # "none" => h.out[p] = (l[p] = "up")

\* On AVR boards set_out writes a pin whether it is an output or not.
AvrRight(h, o, w, s) == \A p \in Pins : p \notin s => Avr!Shows(h, p) = Avr!Wanted(o, w, p)

AvrQuiet(h, l) == \A p \in Pins : l[p] # "no" => ~h.dir[p] /\ h.out[p] = (l[p] = "up")

PinsOK(h, o, w, s, l) ==
  /\ h \in Hardware(Pins)
  /\ IF IsSamd THEN Waves(h) /\ SamdRight(h, o, w, s) /\ SamdQuiet(h, l)
     ELSE AvrRight(h, o, w, s) /\ AvrQuiet(h, l)

Inv == TypeOK /\ Waits /\ PinsOK(hw, on, power, stale, listened)

\* The pins are in order after a step.
NextOK == PinsOK(hw', on', power', stale', listened')

LEMMA TypesKept ==
  ASSUME TypeOK, board' = board, NextOK, call' = "tonefor" => board.tones,
         power' \in [Pins -> 0..Full], on' \subseteq Pins, powerPin' \in Pins, dirPin' \in Pins,
         pull' \in [Pins -> Modes], listened' \in [Pins -> Modes \cup {"no"}]
  PROVE  Inv'
<1>1. Pins' = Pins
  BY DEF Pins
<1>2. TypeOK'
  BY <1>1 DEF TypeOK, NextOK, PinsOK
<1>3. PinsOK(hw, on, power, stale, listened)'
  <2>1. IsSamd' <=> IsSamd
    BY DEF IsSamd
  <2>2. Waves(hw)' <=> Waves(hw')
    BY <1>1 DEF Waves
  <2>3. SamdRight(hw, on, power, stale)' <=> SamdRight(hw', on', power', stale')
    BY <1>1 DEF SamdRight, Free, Samd!Shows, Samd!Wanted, Samd!InMotor, Samd!MotorOf, Samd!Level,
                Samd!Asked, Samd!has_dac, Samd!has_pwm, Samd!invert_pin, Samd!Is
  <2>4. SamdQuiet(hw, listened)' <=> SamdQuiet(hw', listened')
    BY <1>1 DEF SamdQuiet
  <2>5. AvrRight(hw, on, power, stale)' <=> AvrRight(hw', on', power', stale')
    BY <1>1 DEF AvrRight, Avr!Shows, Avr!Wanted, Avr!Asked
  <2>6. AvrQuiet(hw, listened)' <=> AvrQuiet(hw', listened')
    BY <1>1 DEF AvrQuiet
  <2> QED
    BY <1>1, <2>1, <2>2, <2>3, <2>4, <2>5, <2>6 DEF NextOK, PinsOK
<1> QED
  BY <1>2, <1>3 DEF Inv, Waits

\* Only pins that are written come to be wanted otherwise, and they show it.
LEMMA SamdWrites ==
  ASSUME Samds, NEW g, NEW h, NEW ps \in SUBSET Pins, Writes(g, h, ps), Waves(g),
         NEW o, NEW w, NEW s, NEW l, SamdRight(h, o, w, s), SamdQuiet(h, l), NEW oo, NEW ww,
         \A q \in ps : Free(h, q) => Samd!Shows(g, q) = Samd!Wanted(oo, ww, q),
         \A q \in Pins \ ps : Samd!Wanted(oo, ww, q) = Samd!Wanted(o, w, q)
  PROVE  /\ SamdRight(g, oo, ww, s \ Settled(h, ps))
         /\ SamdQuiet(g, [q \in Pins |-> IF q \in ps THEN "no" ELSE l[q]])
<1>1. \A q \in Pins : Free(g, q) <=> Free(h, q)
  BY DEF Writes, Free
<1>2. ASSUME NEW q \in Pins \ ps
      PROVE  SamePort(g, h, q) /\ Samd!Shows(g, q) = Samd!Shows(h, q)
  <2>1. Same(g, h, q)
    BY DEF Writes
  <2> QED
    BY <2>1, SameShows DEF Same
<1>3. ASSUME NEW q \in Pins, g.dir[q], q \notin s \ Settled(h, ps), Free(g, q)
      PROVE  Samd!Shows(g, q) = Samd!Wanted(oo, ww, q)
  <2>1. CASE q \in ps
    BY <1>1, <1>3, <2>1
  <2>2. CASE q \notin ps
    <3>1. q \notin s
      BY <1>3, <2>2 DEF Settled
    <3>2. h.dir[q] /\ Free(h, q)
      BY <1>1, <1>2, <1>3, <2>2 DEF SamePort
    <3> QED
      BY <1>2, <2>2, <3>1, <3>2 DEF SamdRight
  <2> QED
    BY <2>1, <2>2
<1>4. SamdRight(g, oo, ww, s \ Settled(h, ps))
  BY <1>3 DEF SamdRight
<1>5. SamdQuiet(g, [q \in Pins |-> IF q \in ps THEN "no" ELSE l[q]])
  <2> DEFINE ll == [q \in Pins |-> IF q \in ps THEN "no" ELSE l[q]]
  <2>1. \A q \in Pins : ll[q] # "no" => q \notin ps /\ ll[q] = l[q]
    OBVIOUS
  <2> HIDE DEF ll
  <2>2. SamdQuiet(g, ll)
    BY <1>2, <2>1 DEF SamdQuiet, SamePort
  <2> QED
    BY <2>2 DEF ll
<1> QED
  BY <1>4, <1>5

\* What is wanted of a pin depends on what set_out of it writes alone.
LEMMA WantedKept ==
  ASSUME Samds, NEW p \in Pins, NEW o, NEW w, NEW oo, NEW ww,
         \A q \in Pins \ {p} : (q \in oo <=> q \in o) /\ ww[q] = w[q],
         NEW q \in Pins \ Written(p)
  PROVE  Samd!Wanted(oo, ww, q) = Samd!Wanted(o, w, q)
<1>1. p \in Written(p)
  BY MotorIs DEF Written
<1>2. CASE Samd!InMotor(q)
  <2> DEFINE m == Samd!MotorOf(q)
  <2>1. /\ m.pwm \in Pins /\ m.dir \in Pins
        /\ \A x \in {m.pwm, m.dir} : Samd!InMotor(x) /\ Samd!MotorOf(x) = m
        /\ q \in {m.pwm, m.dir}
    BY <1>2, MotorIs
  <2> HIDE DEF m
  <2>2. p \notin {m.pwm, m.dir}
    <3> SUFFICES ASSUME p \in {m.pwm, m.dir} PROVE FALSE
      OBVIOUS
    <3>1. Samd!InMotor(p) /\ Samd!MotorOf(p) = m
      BY <2>1
    <3>2. Written(p) = {m.pwm, m.dir}
      BY <3>1, MotorIs
    <3> QED
      BY <2>1, <3>2
  <2>3. /\ (m.dir \in oo <=> m.dir \in o) /\ (m.pwm \in oo <=> m.pwm \in o)
        /\ ww[m.pwm] = w[m.pwm]
    BY <2>1, <2>2
  <2> QED
    BY <1>2, <2>3 DEF Samd!Wanted, Samd!Asked, m
<1>3. CASE ~Samd!InMotor(q)
  <2>1. q # p
    BY <1>1
  <2> QED
    BY <1>3, <2>1 DEF Samd!Wanted, Samd!Asked
<1> QED
  BY <1>2, <1>3

LEMMA AvrWrites ==
  ASSUME NEW g, NEW h, NEW ps, NEW o, NEW w, NEW s, NEW oo, NEW ww, NEW ss,
         AvrRight(h, o, w, s), s \ ps \subseteq ss,
         \A q \in Pins \ ps : AvrSame(g, h, q) /\ Avr!Wanted(oo, ww, q) = Avr!Wanted(o, w, q),
         \A q \in Pins \cap ps : q \notin ss => Avr!Shows(g, q) = Avr!Wanted(oo, ww, q)
  PROVE  AvrRight(g, oo, ww, ss)
<1> SUFFICES ASSUME NEW q \in Pins, q \notin ss
             PROVE  Avr!Shows(g, q) = Avr!Wanted(oo, ww, q)
  BY DEF AvrRight
<1>1. CASE q \in ps
  BY <1>1
<1>2. CASE q \notin ps
  <2>1. Avr!Shows(h, q) = Avr!Wanted(o, w, q)
    BY <1>2 DEF AvrRight
  <2>2. Avr!Shows(g, q) = Avr!Shows(h, q)
    BY <1>2 DEF AvrSame, Avr!Shows
  <2> QED
    BY <1>2, <2>1, <2>2
<1> QED
  BY <1>1, <1>2

LEMMA AvrLeaves ==
  ASSUME NEW g, NEW h, NEW p, NEW o, NEW w, NEW s, NEW ss, AvrRight(h, o, w, s), s \ {p} \subseteq ss,
         \A q \in Pins \ {p} : AvrSame(g, h, q),
         p \notin ss => Avr!Shows(g, p) = Avr!Wanted(o, w, p)
  PROVE  AvrRight(g, o, w, ss)
<1> SUFFICES ASSUME NEW q \in Pins, q \notin ss, q # p
             PROVE  Avr!Shows(g, q) = Avr!Wanted(o, w, q)
  BY DEF AvrRight
<1>1. Avr!Shows(h, q) = Avr!Wanted(o, w, q)
  BY DEF AvrRight
<1>2. Avr!Shows(g, q) = Avr!Shows(h, q)
  BY DEF AvrSame, Avr!Shows
<1> QED
  BY <1>1, <1>2

LEMMA AvrStaysQuiet ==
  ASSUME NEW g, NEW h, NEW l, NEW ll, AvrQuiet(h, l),
         \A q \in Pins : ll[q] # "no" =>
           ll[q] = l[q] /\ g.dir[q] = h.dir[q] /\ g.out[q] = h.out[q]
  PROVE  AvrQuiet(g, ll)
BY DEF AvrQuiet

LEMMA WrittenArePins ==
  ASSUME board \in Boards, NEW p \in Pins
  PROVE  Written(p) \in SUBSET Pins /\ p \in Written(p) /\ (~IsSamd => Written(p) = {p})
BY MotorIs DEF Written, Samds

LEMMA UnreadIs ==
  ASSUME TypeOK, NEW ps
  PROVE  Unread(ps) \in [Pins -> Modes \cup {"no"}]
BY DEF Unread, TypeOK

----------------------------------------------------------------------------
(***************************************************************************)
(* The actions                                                             *)
(***************************************************************************)
\* set_out after a change of one pin's power or switch, of pins in any order.
LEMMA OutKeeps ==
  ASSUME board \in Boards, NEW p \in Pins, NEW h, NEW o, NEW w, NEW s, NEW l, PinsOK(h, o, w, s, l),
         NEW oo, NEW ww \in [Pins -> 0..Full],
         \A q \in Pins \ {p} : (q \in oo <=> q \in o) /\ ww[q] = w[q]
  PROVE  PinsOK(Out(h, oo, ww, p), oo, ww, s \ Settled(h, Written(p)),
                [q \in Pins |-> IF q \in Written(p) THEN "no" ELSE l[q]])
<1> DEFINE g == Out(h, oo, ww, p)
           ps == Written(p)
           ss == s \ Settled(h, ps)
           ll == [q \in Pins |-> IF q \in ps THEN "no" ELSE l[q]]
<1>1. h \in Hardware(Pins) /\ ps \in SUBSET Pins /\ p \in ps
  BY WrittenArePins DEF PinsOK
<1>2. CASE IsSamd
  <2>1. Samds /\ Waves(h) /\ SamdRight(h, o, w, s) /\ SamdQuiet(h, l) /\ g = Samd!set_out(h, oo, ww, p)
    BY <1>2 DEF Samds, PinsOK, Out
  <2>2. /\ Writes(g, h, ps) /\ Waves(g)
        /\ \A q \in ps : Free(h, q) => Samd!Shows(g, q) = Samd!Wanted(oo, ww, q)
    BY <1>1, <2>1, SetOutIs
  <2>3. \A q \in Pins \ ps : Samd!Wanted(oo, ww, q) = Samd!Wanted(o, w, q)
    BY <2>1, WantedKept
  <2>4. g \in Hardware(Pins)
    BY <2>2 DEF Writes
  <2> HIDE DEF g, ps
  <2>5. SamdRight(g, oo, ww, ss) /\ SamdQuiet(g, ll)
    BY <1>1, <2>1, <2>2, <2>3, SamdWrites
  <2> HIDE DEF ss, ll
  <2>6. PinsOK(g, oo, ww, ss, ll)
    BY <1>2, <2>2, <2>4, <2>5 DEF PinsOK
  <2> QED
    BY <2>6 DEF g, ps, ss, ll
<1>3. CASE ~IsSamd
  <2>1. /\ Avrs /\ AvrRight(h, o, w, s) /\ AvrQuiet(h, l) /\ g = Avr!set_out(h, oo, ww, p)
        /\ ps = {p} /\ ss = s \ {p}
    BY <1>3, WrittenArePins DEF Avrs, PinsOK, Out, Settled
  <2>2. /\ g \in Hardware(Pins) /\ g.dir = h.dir
        /\ Avr!Shows(g, p) = Avr!Wanted(oo, ww, p)
        /\ \A q \in Pins \ {p} : AvrSame(g, h, q)
    BY <1>1, <2>1, AvrSetOutIs
  <2>3. \A q \in Pins \ {p} : Avr!Wanted(oo, ww, q) = Avr!Wanted(o, w, q)
    BY DEF Avr!Wanted, Avr!Asked
  <2>4. \A q \in Pins : ll[q] # "no" => q # p /\ ll[q] = l[q]
    BY <2>1
  <2> HIDE DEF g, ps, ss, ll
  <2>5. AvrRight(g, oo, ww, ss)
    BY <2>1, <2>2, <2>3, AvrWrites
  <2>6. AvrQuiet(g, ll)
    <3>1. \A q \in Pins : ll[q] # "no" =>
            ll[q] = l[q] /\ g.dir[q] = h.dir[q] /\ g.out[q] = h.out[q]
      BY <2>2, <2>4 DEF AvrSame
    <3> QED
      BY <2>1, <3>1, AvrStaysQuiet
  <2>7. PinsOK(g, oo, ww, ss, ll)
    BY <1>3, <2>2, <2>5, <2>6 DEF PinsOK
  <2> QED
    BY <2>7 DEF g, ps, ss, ll
<1> QED
  BY <1>2, <1>3

LEMMA SetKeeps ==
  ASSUME Inv, board' = board, call' # "tonefor", NEW p \in Pins, NEW o \in SUBSET Pins,
         NEW w \in [Pins -> 0..Full], Set(p, o, w), UNCHANGED <<powerPin, dirPin, pull>>,
         \A q \in Pins \ {p} : (q \in o <=> q \in on) /\ w[q] = power[q]
  PROVE  Inv'
<1>1. TypeOK /\ board \in Boards /\ PinsOK(hw, on, power, stale, listened)
  BY DEF Inv, TypeOK
<1>2. PinsOK(Out(hw, o, w, p), o, w, stale \ Settled(hw, Written(p)), Unread(Written(p)))
  BY <1>1, OutKeeps DEF Unread
<1>3. NextOK
  BY <1>2 DEF NextOK, Set
<1>4. listened' \in [Pins -> Modes \cup {"no"}] /\ on' = o /\ power' = w
  BY <1>1, UnreadIs DEF Set
<1> QED
  BY <1>1, <1>3, <1>4, TypesKept DEF TypeOK

LEMMA FunctionsKeep ==
  ASSUME Inv,
         \/ \E v \in board.levels[powerPin] : setpower(v)
         \/ setleft \/ setright \/ turn_on \/ turn_off \/ onfor \/ OnforEnds
         \/ \E p \in Pins : StopPin(p)
  PROVE  Inv'
<1>1. /\ board \in Boards /\ power \in [Pins -> 0..Full] /\ on \subseteq Pins
      /\ powerPin \in Pins /\ dirPin \in Pins
  BY DEF Inv, TypeOK
<1>2. CASE \E v \in board.levels[powerPin] : setpower(v)
  <2>1. PICK v \in board.levels[powerPin] : setpower(v)
    BY <1>2
  <2> DEFINE w == [power EXCEPT ![powerPin] = v]
  <2>2. v \in 0..Full
    <3>1. board.levels \in [Pins -> SUBSET (0..Full)]
      BY <1>1, BoardsAssumption DEF IsSamdBoard, IsAvrBoard, Pins
    <3> QED
      BY <1>1, <3>1
  <2>3. w \in [Pins -> 0..Full] /\ \A q \in Pins \ {powerPin} : w[q] = power[q]
    BY <1>1, <2>2
  <2>4. /\ Set(powerPin, on, w) /\ board' = board /\ UNCHANGED <<powerPin, dirPin, pull>>
        /\ call' # "tonefor"
    BY <2>1 DEF setpower, Idle
  <2> HIDE DEF w
  <2> QED
    BY <1>1, <2>3, <2>4, SetKeeps
<1>3. ASSUME NEW p \in Pins, NEW o, o = on \cup {p} \/ o = on \ {p}, Set(p, o, power),
             board' = board, call' # "tonefor", UNCHANGED <<powerPin, dirPin, pull>>
      PROVE  Inv'
  <2>1. o \in SUBSET Pins /\ \A q \in Pins \ {p} : (q \in o <=> q \in on)
    BY <1>1, <1>3
  <2> QED
    BY <1>1, <1>3, <2>1, SetKeeps
<1>4. CASE setleft
  BY <1>1, <1>3, <1>4 DEF setleft, Idle
<1>5. CASE setright
  BY <1>1, <1>3, <1>5 DEF setright, Idle
<1>6. CASE turn_on
  BY <1>1, <1>3, <1>6 DEF turn_on, Idle
<1>7. CASE turn_off
  BY <1>1, <1>3, <1>7 DEF turn_off, Idle
<1>8. CASE onfor
  BY <1>1, <1>3, <1>8 DEF onfor
<1>9. CASE OnforEnds
  BY <1>1, <1>3, <1>9 DEF OnforEnds
<1>10. CASE \E p \in Pins : StopPin(p)
  BY <1>3, <1>10 DEF StopPin
<1> QED
  BY <1>2, <1>4, <1>5, <1>6, <1>7, <1>8, <1>9, <1>10

LEMMA SamdTalktoKeeps ==
  ASSUME Inv, IsSamd, NEW p \in Pins, NEW d \in Pins, talkto(p, d)
  PROVE  NextOK
<1> DEFINE f == Samd!talk(hw, on, power, p)
           g == Samd!talk(f, on, power, d)
           a == Written(p)
           b == Written(d)
           s == stale \ Settled(hw, a)
           l == [q \in Pins |-> IF q \in a THEN "no" ELSE listened[q]]
           ll == [q \in Pins |-> IF q \in b THEN "no" ELSE l[q]]
<1>1. /\ Samds /\ board \in Boards /\ power \in [Pins -> 0..Full] /\ hw \in Hardware(Pins)
      /\ Waves(hw) /\ SamdRight(hw, on, power, stale) /\ SamdQuiet(hw, listened)
  BY DEF Inv, TypeOK, PinsOK, Samds
<1>2. a \in SUBSET Pins /\ b \in SUBSET Pins
  BY <1>1, WrittenArePins
<1>3. /\ hw' = g /\ on' = on /\ power' = power
      /\ listened' = Unread(a \cup b) /\ stale' = stale \ Settled(hw, a \cup b)
  BY DEF talkto
<1>4. /\ Writes(f, hw, a) /\ Waves(f)
      /\ \A q \in a : Free(hw, q) => Samd!Shows(f, q) = Samd!Wanted(on, power, q)
  BY <1>1, TalkIs
<1>5. f \in Hardware(Pins) /\ f.dac.step = hw.dac.step
  BY <1>4 DEF Writes
<1> HIDE DEF f
<1>6. /\ Writes(g, f, b) /\ Waves(g)
      /\ \A q \in b : Free(f, q) => Samd!Shows(g, q) = Samd!Wanted(on, power, q)
  BY <1>1, <1>4, <1>5, TalkIs
<1>7. Settled(hw, a \cup b) = Settled(hw, a) \cup Settled(f, b)
  BY <1>5 DEF Settled
<1>8. Unread(a \cup b) = ll
  BY DEF Unread
<1> HIDE DEF g, a, b
<1>9. SamdRight(f, on, power, s) /\ SamdQuiet(f, l)
  BY <1>1, <1>2, <1>4, SamdWrites
<1> HIDE DEF l
<1>10. SamdRight(g, on, power, s \ Settled(f, b)) /\ SamdQuiet(g, ll)
  <2> HIDE DEF s
  <2> QED
    BY <1>1, <1>2, <1>6, <1>9, SamdWrites
<1>11. s \ Settled(f, b) = stale'
  BY <1>3, <1>7
<1>12. g \in Hardware(Pins)
  BY <1>6 DEF Writes
<1> HIDE DEF s, ll
<1> QED
  BY <1>1, <1>3, <1>6, <1>8, <1>10, <1>11, <1>12 DEF NextOK, PinsOK, Samds

LEMMA AvrTalktoKeeps ==
  ASSUME Inv, ~IsSamd, NEW p \in Pins, NEW d \in Pins, talkto(p, d)
  PROVE  NextOK
<1> DEFINE f == Avr!talk(hw, p)
           g == Avr!talk(f, d)
           ll == Unread({p, d})
<1>1. /\ Avrs /\ hw \in Hardware(Pins) /\ AvrRight(hw, on, power, stale) /\ AvrQuiet(hw, listened)
  BY DEF Inv, TypeOK, PinsOK, Avrs
<1>2. /\ hw' = g /\ on' = on /\ power' = power /\ listened' = ll /\ stale' = stale
  BY DEF talkto
<1>3. /\ f \in Hardware(Pins) /\ \A q \in Pins : AvrSame(f, hw, q)
      /\ \A q \in Pins \ {p} : f.dir[q] = hw.dir[q]
  BY <1>1, AvrDirIs
<1> HIDE DEF f
<1>4. /\ g \in Hardware(Pins) /\ \A q \in Pins : AvrSame(g, f, q)
      /\ \A q \in Pins \ {d} : g.dir[q] = f.dir[q]
  BY <1>1, <1>3, AvrDirIs
<1>5. \A q \in Pins : ll[q] # "no" => q \notin {p, d} /\ ll[q] = listened[q]
  BY DEF Unread
<1> HIDE DEF g, ll
<1>6. \A q \in Pins : AvrSame(g, hw, q)
  BY <1>3, <1>4 DEF AvrSame
<1>7. AvrRight(g, on, power, stale)
  <2>1. \A q \in Pins \ {} : AvrSame(g, hw, q) /\ Avr!Wanted(on, power, q) = Avr!Wanted(on, power, q)
    BY <1>6
  <2> QED
    BY <1>1, <2>1, AvrWrites
<1>8. AvrQuiet(g, ll)
  <2>1. \A q \in Pins : ll[q] # "no" =>
          ll[q] = listened[q] /\ g.dir[q] = hw.dir[q] /\ g.out[q] = hw.out[q]
    BY <1>3, <1>4, <1>5, <1>6 DEF AvrSame
  <2> QED
    BY <1>1, <2>1, AvrStaysQuiet
<1> QED
  BY <1>1, <1>2, <1>4, <1>7, <1>8 DEF NextOK, PinsOK, Avrs

LEMMA TalktoKeeps ==
  ASSUME Inv, NEW p \in Pins, NEW d \in Pins, talkto(p, d)
  PROVE  Inv'
<1>1. NextOK
  BY SamdTalktoKeeps, AvrTalktoKeeps
<1>2. TypeOK /\ board' = board /\ powerPin' = p /\ dirPin' = d /\ call' # "tonefor"
      /\ UNCHANGED <<power, on, pull>>
  BY DEF talkto, Inv, Idle
<1>3. listened' \in [Pins -> Modes \cup {"no"}]
  BY <1>2, UnreadIs DEF talkto
<1> QED
  BY <1>1, <1>2, <1>3, TypesKept DEF TypeOK

LEMMA PullKeeps ==
  ASSUME Inv, NEW p \in Pins, NEW mode \in board.modes, set_pull(p, mode)
  PROVE  Inv'
<1>1. /\ TypeOK /\ UNCHANGED <<board, power, on, powerPin, dirPin, hw, listened, stale>>
      /\ PinsOK(hw, on, power, stale, listened) /\ call' # "tonefor"
  BY DEF set_pull, Inv, Idle
<1>2. NextOK
  BY <1>1 DEF NextOK
<1>3. mode \in Modes
  BY <1>1, BoardsAssumption DEF TypeOK, IsSamdBoard, IsAvrBoard
<1>4. pull' \in [Pins -> Modes]
  <2> DEFINE changed == IF IsSamd \/ ~board.wide THEN {p} ELSE Avr!mask(p)
  <2>1. pull' = [q \in Pins |-> IF q \in changed THEN mode ELSE pull[q]]
    BY DEF set_pull
  <2> HIDE DEF changed
  <2> QED
    BY <1>1, <1>3, <2>1 DEF TypeOK
<1> QED
  BY <1>1, <1>2, <1>4, TypesKept DEF TypeOK

LEMMA SamdReadKeeps ==
  ASSUME Inv, IsSamd, NEW p \in Pins, read(p)
  PROVE  NextOK
<1> DEFINE mode == pull[p]
           g == Samd!listen(hw, p, mode)
           ll == [listened EXCEPT ![p] = mode]
<1>1. /\ Samds /\ mode \in Modes /\ hw \in Hardware(Pins) /\ listened \in [Pins -> Modes \cup {"no"}]
      /\ Waves(hw) /\ SamdRight(hw, on, power, stale) /\ SamdQuiet(hw, listened)
  BY DEF Inv, TypeOK, PinsOK, Samds
<1>2. hw' = g /\ on' = on /\ power' = power /\ listened' = ll /\ stale' = stale
  BY DEF read
<1> HIDE DEF mode
<1>3. /\ Writes(g, hw, {p}) /\ Waves(g)
      /\ ~g.dir[p] /\ ~g.wave[p] /\ g.pull[p] = mode
      /\ mode # "none" => g.out[p] = (mode = "up")
  BY <1>1, ListenIs
<1>4. ll[p] = mode /\ \A q \in Pins \ {p} : ll[q] = listened[q]
  BY <1>1
<1> HIDE DEF g, ll
<1>5. \A q \in Pins \ {p} : Same(g, hw, q) /\ SamePort(g, hw, q) /\ Samd!Shows(g, q) = Samd!Shows(hw, q)
  BY <1>3, SameShows DEF Writes, Same
<1>6. g \in Hardware(Pins) /\ \A q \in Pins : Free(g, q) <=> Free(hw, q)
  BY <1>3 DEF Writes, Free
<1>7. SamdRight(g, on, power, stale)
  <2> SUFFICES ASSUME NEW q \in Pins, g.dir[q], q \notin stale, Free(g, q)
               PROVE  Samd!Shows(g, q) = Samd!Wanted(on, power, q)
    BY DEF SamdRight
  <2>1. q # p
    BY <1>3
  <2> QED
    BY <1>1, <1>5, <1>6, <2>1 DEF SamePort, SamdRight
<1>8. SamdQuiet(g, ll)
  <2> SUFFICES ASSUME NEW q \in Pins, ll[q] # "no"
               PROVE  /\ ~g.dir[q] /\ ~g.wave[q] /\ g.pull[q] = ll[q]
                      /\ ll[q] # "none" => g.out[q] = (ll[q] = "up")
    BY DEF SamdQuiet
  <2>1. CASE q = p
    BY <1>3, <1>4, <2>1
  <2>2. CASE q # p
    BY <1>1, <1>4, <1>5, <2>2 DEF SamePort, SamdQuiet
  <2> QED
    BY <2>1, <2>2
<1> QED
  BY <1>1, <1>2, <1>3, <1>6, <1>7, <1>8 DEF NextOK, PinsOK, Samds

LEMMA AvrReadKeeps ==
  ASSUME Inv, ~IsSamd, NEW p \in Pins, read(p)
  PROVE  NextOK
<1> DEFINE ups == {q \in Pins : pull[q] = "up"}
           g == Avr!listen(hw, ups, p)
           ll == [listened EXCEPT ![p] = pull[p]]
           ss == IF hw.wave[p] THEN stale ELSE stale \cup {p}
<1>1. /\ Avrs /\ hw \in Hardware(Pins) /\ listened \in [Pins -> Modes \cup {"no"}]
      /\ AvrRight(hw, on, power, stale) /\ AvrQuiet(hw, listened)
  BY DEF Inv, TypeOK, PinsOK, Avrs
<1>2. hw' = g /\ on' = on /\ power' = power /\ listened' = ll /\ stale' = ss
  BY DEF read
<1>3. (p \in ups) = (pull[p] = "up")
  OBVIOUS
<1> HIDE DEF ups
<1>4. /\ g \in Hardware(Pins) /\ g.wave = hw.wave /\ g.duty = hw.duty
      /\ ~g.dir[p] /\ g.out[p] = (p \in ups)
      /\ \A q \in Pins \ {p} : AvrSame(g, hw, q) /\ g.dir[q] = hw.dir[q]
  BY <1>1, AvrListenIs
<1>5. ll[p] = pull[p] /\ \A q \in Pins \ {p} : ll[q] = listened[q]
  BY <1>1
<1>6. stale \ {p} \subseteq ss /\ (p \notin ss => hw.wave[p] /\ p \notin stale)
  OBVIOUS
<1> HIDE DEF g, ll, ss
<1>7. AvrRight(g, on, power, ss)
  <2>1. ASSUME p \notin ss PROVE Avr!Shows(g, p) = Avr!Wanted(on, power, p)
    <3>1. Avr!Shows(g, p) = Avr!Shows(hw, p)
      BY <1>4, <1>6, <2>1 DEF Avr!Shows
    <3> QED
      BY <1>1, <1>6, <2>1, <3>1 DEF AvrRight
  <2> QED
    BY <1>1, <1>4, <1>6, <2>1, AvrLeaves
<1>8. AvrQuiet(g, ll)
  <2> SUFFICES ASSUME NEW q \in Pins, ll[q] # "no"
               PROVE  ~g.dir[q] /\ g.out[q] = (ll[q] = "up")
    BY DEF AvrQuiet
  <2>1. CASE q = p
    BY <1>3, <1>4, <1>5, <2>1
  <2>2. CASE q # p
    BY <1>1, <1>4, <1>5, <2>2 DEF AvrSame, AvrQuiet
  <2> QED
    BY <2>1, <2>2
<1> QED
  BY <1>1, <1>2, <1>4, <1>7, <1>8 DEF NextOK, PinsOK, Avrs

LEMMA ReadKeeps ==
  ASSUME Inv, NEW p \in Pins, read(p)
  PROVE  Inv'
<1>1. NextOK
  BY SamdReadKeeps, AvrReadKeeps
<1>2. TypeOK /\ UNCHANGED <<board, power, on, powerPin, dirPin, pull>>
      /\ listened' = [listened EXCEPT ![p] = pull[p]] /\ call' # "tonefor"
  BY DEF read, Inv, Idle
<1>3. listened' \in [Pins -> Modes \cup {"no"}]
  BY <1>2 DEF TypeOK
<1> QED
  BY <1>1, <1>2, <1>3, TypesKept DEF TypeOK

LEMMA StopallKeeps ==
  ASSUME Inv, stopall \/ StopallEnds
  PROVE  Inv'
<1>1. /\ TypeOK /\ UNCHANGED <<board, power, powerPin, dirPin, pull, listened>>
      /\ PinsOK(hw, on, power, stale, listened) /\ call' # "tonefor"
  BY DEF stopall, StopallEnds, Inv
<1> DEFINE quiet == ~IsSamd /\ board.stops
<1>2. CASE stopall /\ quiet
  <2> DEFINE g == Avr!tone_reset(hw)
             p == board.toned
             o == on \ {p}
             ss == stale \cup board.dropped
  <2>1. hw' = g /\ on' = o /\ stale' = ss
    BY <1>2 DEF stopall
  <2>2. /\ Avrs /\ hw \in Hardware(Pins) /\ AvrRight(hw, on, power, stale) /\ AvrQuiet(hw, listened)
        /\ p \in board.dropped
    BY <1>1, <1>2, BoardIs DEF TypeOK, PinsOK, Avrs, IsAvrBoard
  <2> HIDE DEF p
  <2>3. /\ g \in Hardware(Pins) /\ g.dir = hw.dir /\ g.out = hw.out
        /\ \A q \in Pins \ board.dropped : AvrSame(g, hw, q)
    BY <2>2, ToneResetIs
  <2>4. \A q \in Pins \ board.dropped : Avr!Wanted(o, power, q) = Avr!Wanted(on, power, q)
    BY <2>2 DEF Avr!Wanted, Avr!Asked
  <2>5. /\ stale \ board.dropped \subseteq ss
        /\ \A q \in Pins \cap board.dropped :
             q \notin ss => Avr!Shows(g, q) = Avr!Wanted(o, power, q)
    BY Zenon
  <2> HIDE DEF g, o, ss
  <2>6. AvrRight(g, o, power, ss)
    BY <2>2, <2>3, <2>4, <2>5, AvrWrites
  <2>7. AvrQuiet(g, listened)
    BY <2>2, <2>3, AvrStaysQuiet
  <2>8. NextOK
    BY <1>1, <2>1, <2>2, <2>3, <2>6, <2>7 DEF NextOK, PinsOK, Avrs
  <2>9. on' \subseteq Pins
    BY <1>1, <2>1 DEF TypeOK, o
  <2> QED
    BY <1>1, <2>8, <2>9, TypesKept DEF TypeOK
<1>3. CASE (stopall /\ ~quiet) \/ StopallEnds
  <2>1. hw' = hw /\ on' = on /\ stale' = stale
    BY <1>3 DEF stopall, StopallEnds
  <2>2. NextOK
    BY <1>1, <2>1 DEF NextOK
  <2> QED
    BY <1>1, <2>1, <2>2, TypesKept DEF TypeOK
<1> QED
  BY <1>2, <1>3

\* The interrupt and dac_set_hz write the converter alone.
LEMMA ConverterKeeps ==
  ASSUME Samds, NEW h \in Hardware(Pins), NEW d \in Dac, NEW g, g = [h EXCEPT !.dac = d],
         NEW o, NEW w, NEW s, NEW ss, NEW l, Waves(h), SamdRight(h, o, w, s), SamdQuiet(h, l),
         s \subseteq ss,
         d.step = 0 => board.dac \subseteq ss \/ (h.dac.step = 0 /\ d.data = h.dac.data)
  PROVE  g \in Hardware(Pins) /\ Waves(g) /\ SamdRight(g, o, w, ss) /\ SamdQuiet(g, l)
<1>1. g \in Hardware(Pins)
  BY DEF Hardware
<1>2. /\ g.dir = h.dir /\ g.out = h.out /\ g.wave = h.wave /\ g.duty = h.duty /\ g.pull = h.pull
      /\ g.dac = d
  BY DEF Hardware
<1>3. SamdRight(g, o, w, ss)
  <2> SUFFICES ASSUME NEW q \in Pins, g.dir[q], q \notin ss, Free(g, q)
               PROVE  Samd!Shows(g, q) = Samd!Wanted(o, w, q)
    BY DEF SamdRight
  <2>1. h.dir[q] /\ q \notin s
    BY <1>2
  <2>2. Free(h, q) /\ (q \in board.dac => d.data = h.dac.data)
    BY <1>2 DEF Free
  <2>3. Samd!Shows(g, q) = Samd!Shows(h, q)
    BY <1>2, <2>2 DEF Samd!Shows, Samd!has_dac, Samd!Is
  <2> QED
    BY <2>1, <2>2, <2>3 DEF SamdRight
<1> QED
  BY <1>1, <1>2, <1>3 DEF Waves, SamdQuiet

LEMMA SampleKeeps ==
  ASSUME Inv, Sample
  PROVE  Inv'
<1>1. /\ TypeOK /\ UNCHANGED <<board, power, on, powerPin, dirPin, pull, listened>>
      /\ Samds /\ hw \in Hardware(Pins) /\ hw.dac \in Dac
      /\ Waves(hw) /\ SamdRight(hw, on, power, stale) /\ SamdQuiet(hw, listened)
      /\ call' = "tonefor" => board.tones
  BY DEF Sample, Inv, Waits, TypeOK, PinsOK, Samds, Hardware
<1> DEFINE d == hw.dac
           moved == d.phase + d.step
           turned == moved >= Samples
           stops == turned /\ ~d.running
           data == (Samd!sine(d.phase) * d.current) \div Full
           phase == IF stops THEN 0 ELSE moved % Samples
           current == IF turned THEN d.power ELSE d.current
           step == IF stops THEN 0 ELSE d.step
           e == [d EXCEPT !.data = data, !.phase = phase, !.current = current, !.step = step]
           g == [hw EXCEPT !.dac = e]
<1>2. Samd!isr(hw) = g
  BY <1>1 DEF Samd!isr, Hardware, Dac
<1>3. data \in Int
  <2>1. CASE Samd!sine(d.phase) = 0
    <3>1. 0 * d.current = 0
      BY <1>1 DEF Dac
    <3> QED
      BY <2>1, <3>1, NumbersAssumption
  <2>2. CASE Samd!sine(d.phase) = Full
    <3>1. Full * d.current \in Int
      BY <1>1, NumbersAssumption DEF Dac
    <3> QED
      BY <2>2, <3>1, NumbersAssumption
  <2> QED
    BY <2>1, <2>2 DEF Samd!sine
<1>4. phase \in Int
  BY <1>1, NumbersAssumption DEF Dac
<1>5. current \in Nat /\ step \in Nat
  BY <1>1 DEF Dac
<1> HIDE DEF data, phase, current, step
<1>6. e \in Dac /\ e.step = step
  BY <1>1, <1>3, <1>4, <1>5 DEF Dac
<1>7. hw' = g /\ stale' = IF hw'.dac.step = 0 THEN stale \cup board.dac ELSE stale
  BY <1>1, <1>2 DEF Sample, Samds
<1> HIDE DEF e
<1>8. g.dac = e
  BY <1>1 DEF Hardware
<1>9. stale \subseteq stale' /\ (e.step = 0 => board.dac \subseteq stale')
  BY <1>7, <1>8
<1>10. /\ g \in Hardware(Pins) /\ Waves(g) /\ SamdRight(g, on, power, stale')
       /\ SamdQuiet(g, listened)
  <2> DEFINE ss == stale'
  <2>1. stale \subseteq ss /\ (e.step = 0 => board.dac \subseteq ss)
    BY <1>9
  <2> HIDE DEF ss, g
  <2>2. g = [hw EXCEPT !.dac = e]
    BY DEF g
  <2>3. /\ g \in Hardware(Pins) /\ Waves(g) /\ SamdRight(g, on, power, ss)
        /\ SamdQuiet(g, listened)
    BY <1>1, <1>6, <2>1, <2>2, ConverterKeeps
  <2> QED
    BY <2>3 DEF ss
<1> HIDE DEF g
<1>11. NextOK
  BY <1>1, <1>7, <1>10 DEF NextOK, PinsOK, Samds
<1> QED
  BY <1>1, <1>11, TypesKept DEF TypeOK

-----------------------------------------------------------------------------
\* What tone does, before on_pins and the rest are changed by tonefor.
LEMMA ToneKeeps ==
  ASSUME Inv, board.tones, NEW step \in Nat
  PROVE  /\ PinsOK(Toned(step), TonedOn(step), power, stale \cup Dropped, Unread(Talked(step)))
         /\ TonedOn(step) \subseteq Pins
<1>1. TypeOK /\ PinsOK(hw, on, power, stale, listened) /\ board \in Boards
  BY DEF Inv, TypeOK
<1>2. CASE IsSamd
  <2>1. /\ Samds /\ hw \in Hardware(Pins) /\ hw.dac \in Dac
        /\ Waves(hw) /\ SamdRight(hw, on, power, stale) /\ SamdQuiet(hw, listened)
    BY <1>1, <1>2 DEF PinsOK, Samds, Hardware
  <2> DEFINE d == IF step # 0 THEN [hw.dac EXCEPT !.running = TRUE, !.step = step]
                  ELSE [hw.dac EXCEPT !.running = FALSE]
             g == Toned(step)
  <2>2. g = [hw EXCEPT !.dac = d]
    BY <1>2, <2>1 DEF Toned, Samd!dac_set_hz, Hardware
  <2>3. d \in Dac /\ (d.step = 0 => hw.dac.step = 0 /\ d.data = hw.dac.data)
    BY <2>1 DEF Dac
  <2>4. TonedOn(step) = on /\ stale \cup Dropped = stale
    BY <1>2 DEF TonedOn, Dropped
  <2>5. Unread(Talked(step)) = listened
    BY <1>1, <1>2 DEF Unread, Talked, TypeOK
  <2> HIDE DEF d, g
  <2>6. g \in Hardware(Pins) /\ Waves(g) /\ SamdRight(g, on, power, stale) /\ SamdQuiet(g, listened)
    BY <2>1, <2>2, <2>3, ConverterKeeps
  <2>7. PinsOK(g, on, power, stale, listened)
    BY <1>2, <2>6 DEF PinsOK
  <2> QED
    BY <1>1, <2>4, <2>5, <2>7 DEF g, TypeOK
<1>3. CASE ~IsSamd
  <2> DEFINE g == Toned(step)
             p == board.toned
             o == TonedOn(step)
             ss == stale \cup Dropped
             ll == Unread(Talked(step))
  <2>1. /\ Avrs /\ hw \in Hardware(Pins) /\ AvrRight(hw, on, power, stale) /\ AvrQuiet(hw, listened)
        /\ Dropped = board.dropped
    BY <1>1, <1>3 DEF PinsOK, Avrs, Dropped
  <2>2. p \in board.dropped /\ p \in Pins
    BY <1>1, <1>3, BoardIs DEF IsAvrBoard, Pins
  <2>3. /\ g = IF step # 0 THEN Avr!tone(hw) ELSE Avr!tone_reset(hw)
        /\ o = IF step # 0 THEN on \cup {p} ELSE on \ {p}
        /\ ll = [q \in Pins |-> IF step # 0 /\ q = p THEN "no" ELSE listened[q]]
    BY <1>3 DEF Toned, TonedOn, Unread, Talked
  <2> HIDE DEF g, p, o, ll
  <2>4. /\ g \in Hardware(Pins) /\ g.out = hw.out
        /\ \A q \in Pins \ board.dropped : AvrSame(g, hw, q)
        /\ \A q \in Pins : (step # 0 => q # p) => g.dir[q] = hw.dir[q]
    <3>1. CASE step # 0
      BY <2>1, <2>2, <2>3, <3>1, ToneIs DEF p
    <3>2. CASE step = 0
      BY <2>1, <2>3, <3>2, ToneResetIs
    <3> QED
      BY <3>1, <3>2
  <2>5. \A q \in Pins \ board.dropped : Avr!Wanted(o, power, q) = Avr!Wanted(on, power, q)
    BY <2>2, <2>3 DEF Avr!Wanted, Avr!Asked
  <2>6. /\ stale \ board.dropped \subseteq ss
        /\ \A q \in Pins \cap board.dropped :
             q \notin ss => Avr!Shows(g, q) = Avr!Wanted(o, power, q)
    BY <2>1
  <2> HIDE DEF ss
  <2>7. AvrRight(g, o, power, ss)
    BY <2>1, <2>4, <2>5, <2>6, AvrWrites
  <2>8. AvrQuiet(g, ll)
    <3>1. \A q \in Pins : ll[q] # "no" => (step # 0 => q # p) /\ ll[q] = listened[q]
      BY <2>3
    <3>2. \A q \in Pins : ll[q] # "no" =>
            ll[q] = listened[q] /\ g.dir[q] = hw.dir[q] /\ g.out[q] = hw.out[q]
      BY <2>4, <3>1
    <3> QED
      BY <2>1, <3>2, AvrStaysQuiet
  <2>9. PinsOK(g, o, power, ss, ll)
    BY <1>3, <2>4, <2>7, <2>8 DEF PinsOK
  <2>10. o \subseteq Pins
    BY <1>1, <2>2, <2>3 DEF TypeOK
  <2> QED
    BY <2>9, <2>10 DEF g, o, ss, ll
<1> QED
  BY <1>2, <1>3

LEMMA PlayKeeps ==
  ASSUME Inv, board.tones, NEW step \in Nat, Play(step),
         UNCHANGED <<board, power, powerPin, dirPin, pull>>
  PROVE  Inv'
<1>1. /\ PinsOK(Toned(step), TonedOn(step), power, stale \cup Dropped, Unread(Talked(step)))
      /\ TonedOn(step) \subseteq Pins
  BY ToneKeeps
<1>2. NextOK /\ on' \subseteq Pins
  BY <1>1 DEF NextOK, Play
<1>3. TypeOK /\ listened' \in [Pins -> Modes \cup {"no"}] /\ board' = board
  BY UnreadIs DEF Inv, Play
<1> QED
  BY <1>2, <1>3, TypesKept DEF TypeOK

LEMMA ToneforKeeps ==
  ASSUME Inv, NEW step \in Nat, tonefor(step)
  PROVE  Inv'
<1> DEFINE p == powerPin
           h == Toned(step)
           o == TonedOn(step)
           oo == o \cup {p}
           s == stale \cup Dropped
           l == Unread(Talked(step))
           ll == [q \in Pins |-> IF q \in Written(p) THEN "no" ELSE l[q]]
<1>1. /\ TypeOK /\ board \in Boards /\ power \in [Pins -> 0..Full] /\ p \in Pins /\ board.tones
      /\ UNCHANGED <<board, power, powerPin, dirPin, pull>>
  BY DEF Inv, TypeOK, tonefor
<1>2. /\ on' = oo /\ hw' = Out(h, oo, power, p) /\ listened' = Unread(Talked(step) \cup Written(p))
      /\ stale' = s \ Settled(h, Written(p))
  BY DEF tonefor
<1>3. PinsOK(h, o, power, s, l) /\ o \subseteq Pins
  BY <1>1, ToneKeeps
<1>4. Unread(Talked(step) \cup Written(p)) = ll
  BY DEF Unread
<1>5. \A q \in Pins \ {p} : (q \in oo <=> q \in o) /\ power[q] = power[q]
  OBVIOUS
<1> HIDE DEF p, h, o, oo, s, l
<1>6. PinsOK(Out(h, oo, power, p), oo, power, s \ Settled(h, Written(p)), ll)
  BY <1>1, <1>3, <1>5, OutKeeps
<1>7. NextOK
  BY <1>1, <1>2, <1>4, <1>6 DEF NextOK
<1>8. on' \subseteq Pins
  BY <1>1, <1>2, <1>3 DEF oo
<1>9. listened' \in [Pins -> Modes \cup {"no"}]
  BY <1>1, <1>2, UnreadIs
<1> QED
  BY <1>1, <1>7, <1>8, <1>9, TypesKept DEF TypeOK

----------------------------------------------------------------------------
(***************************************************************************)
(* The theorems                                                            *)
(***************************************************************************)
LEMMA PinsBegin == Init => Inv
<1> SUFFICES ASSUME Init PROVE Inv
  OBVIOUS
<1>1. board \in Boards /\ 0 \in Pins
  BY BoardsAssumption DEF Init, IsSamdBoard, IsAvrBoard, Pins
<1>2. 0 \in Nat /\ 0 \in Int /\ Full \in 0..Full /\ FALSE \in BOOLEAN
  BY NumbersAssumption
<1>3. Samd!NoDac \in Dac
  BY DEF Samd!NoDac, Dac
<1> DEFINE none == [p \in Pins |-> FALSE]
           zero == [p \in Pins |-> 0]
           free == [p \in Pins |-> "none"]
           d == Samd!NoDac
           off == FALSE
<1>4. hw = [dir |-> none, out |-> none, wave |-> none, tone |-> off, duty |-> zero, pull |-> free,
            dac |-> d]
  BY DEF Init, NoHardware, Pins
<1>5. /\ none \in [Pins -> BOOLEAN] /\ zero \in [Pins -> Int] /\ free \in [Pins -> Modes]
      /\ off \in BOOLEAN /\ \A p \in Pins : ~none[p]
  BY DEF Modes
<1> HIDE DEF none, zero, free, d, off
<1>6. hw \in Hardware(Pins)
  BY <1>3, <1>4, <1>5 DEF Hardware, d
<1>7. /\ hw.dir = none /\ hw.out = none /\ hw.wave = none /\ on = {}
      /\ \A p \in Pins : listened[p] = "no"
  BY <1>4 DEF Init, Pins
<1>8. TypeOK
  <2>1. power \in [Pins -> 0..Full]
    BY <1>2 DEF Init, Pins
  <2>2. pull \in [Pins -> Modes]
    BY DEF Init, Pins, Modes
  <2>3. listened \in [Pins -> Modes \cup {"no"}]
    BY DEF Init, Pins
  <2> QED
    BY <1>1, <1>6, <2>1, <2>2, <2>3 DEF Init, TypeOK
<1>9. PinsOK(hw, on, power, stale, listened)
  <2>1. Waves(hw) /\ SamdRight(hw, on, power, stale)
    BY <1>5, <1>7 DEF Waves, SamdRight
  <2>2. SamdQuiet(hw, listened) /\ AvrQuiet(hw, listened)
    BY <1>7 DEF SamdQuiet, AvrQuiet
  <2>3. AvrRight(hw, on, power, stale)
    BY <1>5, <1>7 DEF AvrRight, Avr!Shows, Avr!Wanted, Avr!Asked
  <2> QED
    BY <1>6, <2>1, <2>2, <2>3 DEF PinsOK
<1>10. Waits
  BY DEF Init, Waits
<1> QED
  BY <1>8, <1>9, <1>10 DEF Inv

LEMMA PinsKept == Inv /\ [Next]_vars => Inv'
<1> SUFFICES ASSUME Inv, [Next]_vars PROVE Inv'
  OBVIOUS
<1>1. CASE \/ \E v \in board.levels[powerPin] : setpower(v)
           \/ setleft \/ setright \/ turn_on \/ turn_off \/ onfor \/ OnforEnds
           \/ \E p \in Pins : StopPin(p)
  BY <1>1, FunctionsKeep
<1>2. CASE stopall \/ StopallEnds
  BY <1>2, StopallKeeps
<1>3. CASE \E p, d \in Pins : talkto(p, d)
  BY <1>3, TalktoKeeps
<1>4. CASE \E p \in Pins : read(p)
  BY <1>4, ReadKeeps
<1>5. CASE \E p \in Pins : \E mode \in board.modes : set_pull(p, mode)
  BY <1>5, PullKeeps
<1>6. CASE \E step \in Steps : tone(step)
  BY <1>6, PlayKeeps, NumbersAssumption DEF tone
<1>7. CASE \E step \in Steps : tonefor(step)
  BY <1>7, ToneforKeeps, NumbersAssumption
<1>8. CASE ToneforEnds
  <2>1. board.tones
    BY <1>8 DEF Inv, Waits, ToneforEnds
  <2> QED
    BY <1>8, <2>1, PlayKeeps DEF ToneforEnds
<1>9. CASE Sample
  BY <1>9, SampleKeeps
<1>10. CASE UNCHANGED vars
  <2>1. NextOK
    BY <1>10 DEF Inv, NextOK, vars
  <2> QED
    BY <1>10, <2>1, TypesKept DEF Inv, Waits, TypeOK, vars
<1> QED
  BY <1>1, <1>2, <1>3, <1>4, <1>5, <1>6, <1>7, <1>8, <1>9, <1>10 DEF Next, Program, GoOn

\* An output shows its power when it is on and nothing when it is off,
\* whatever it has been used for, on every board: OutputsAreRight.
THEOREM OutputsAreRightHolds == Spec => []OutputsAreRight
<1>1. Inv => OutputsAreRight
  BY DEF Inv, PinsOK, SamdRight, AvrRight, Free, OutputsAreRight, ToneHas
<1> QED
  BY <1>1, PinsBegin, PinsKept, PTL DEF Spec

\* A pin that was read stays a quiet input until it is written or talked to
\* itself, on every board: InputsAreQuiet.
THEOREM InputsAreQuietHolds == Spec => []InputsAreQuiet
<1>1. Inv => InputsAreQuiet
  BY DEF Inv, PinsOK, SamdQuiet, AvrQuiet, InputsAreQuiet
<1> QED
  BY <1>1, PinsBegin, PinsKept, PTL DEF Spec
=============================================================================
