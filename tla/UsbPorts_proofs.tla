--------------------------- MODULE UsbPorts_proofs ---------------------------
(***************************************************************************)
(* Theorems about both USB devices, for banks and a fifo of any size, any  *)
(* number of bytes in each direction, requests and resets of the bus.      *)
(*                                                                         *)
(* A request is in one of a few phases, and in each of them the host's     *)
(* side and the device's side of the control endpoint fit together: that   *)
(* makes the answers right, and it says that a host which has configured   *)
(* the device finds both bulk endpoints empty.  From then on what has been *)
(* read, what is in the fifo and what the banks hold is one sequence, in   *)
(* each direction.                                                         *)
(***************************************************************************)
EXTENDS UsbPorts, SequenceTheorems, TLAPS

----------------------------------------------------------------------------
(***************************************************************************)
(* Numbers and sequences                                                   *)
(***************************************************************************)
Least(a, b) == IF a <= b THEN a ELSE b

LEMMA MinIs ==
  ASSUME NEW a \in Int, NEW b \in Int
  PROVE  /\ Min({a, b}) = Least(a, b)
         /\ Samd!Min({a, b}) = Least(a, b)
         /\ Avr!Min({a, b}) = Least(a, b)
<1> DEFINE m == CHOOSE x \in {a, b} : \A y \in {a, b} : x =< y
<1>1. Least(a, b) \in {a, b} /\ \A y \in {a, b} : Least(a, b) =< y
  BY DEF Least
<1>2. m \in {a, b} /\ \A y \in {a, b} : m =< y
  BY <1>1
<1>3. m = Least(a, b)
  BY <1>1, <1>2
<1> QED
  BY <1>3 DEF Min, Samd!Min, Avr!Min

----------------------------------------------------------------------------
(***************************************************************************)
(* Requests                                                                *)
(***************************************************************************)
AllRequests == Requests \cup {SetAddress, SetConfiguration, NoRequest}

LEMMA SameRequests ==
  /\ Samd!NoRequest = NoRequest /\ Samd!SetAddress = SetAddress
  /\ Samd!SetConfiguration = SetConfiguration /\ Samd!Requests = Requests
  /\ Avr!NoRequest = NoRequest /\ Avr!SetAddress = SetAddress
  /\ Avr!SetConfiguration = SetConfiguration /\ Avr!Requests = Requests
BY DEF NoRequest, SetAddress, SetConfiguration, Requests, Request,
       Samd!NoRequest, Samd!SetAddress, Samd!SetConfiguration, Samd!Requests, Samd!Request,
       Avr!NoRequest, Avr!SetAddress, Avr!SetConfiguration, Avr!Requests, Avr!Request

\* What is said of a request, with the length of what there is
Sane(r, n) ==
  /\ Available(r) = n /\ n \in Nat /\ r.length \in Nat
  /\ \/ r.dir = "in" /\ n = 67 /\ r.length \in {9, 67, 255}
     \/ r.dir = "in" /\ n \in {2, 7} /\ r.length = n
     \/ r.dir = "out" /\ n = 0 /\ r.length = 7 /\ r.name = "set_coding"
     \/ r.dir = "out" /\ n = 0 /\ r.length = 0

LEMMA SaneIs ==
  ASSUME NEW r \in AllRequests
  PROVE  \E n \in Nat : Sane(r, n)
<1>1. \/ \E n \in {9, 67, 255} : r = Request("descriptor", "in", n)
      \/ r = Request("status", "in", 2) \/ r = Request("get_coding", "in", 7)
      \/ r = Request("set_coding", "out", 7)
      \/ r = SetAddress \/ r = SetConfiguration \/ r = NoRequest
  BY DEF AllRequests, Requests
<1>2. /\ SetAddress = Request("address", "out", 0)
      /\ SetConfiguration = Request("configuration", "out", 0)
      /\ NoRequest = Request("none", "out", 0)
  BY DEF SetAddress, SetConfiguration, NoRequest
<1>3. TOTAL_LENGTH = 67
  BY DEF TOTAL_LENGTH
<1>4. CASE \E n \in {9, 67, 255} : r = Request("descriptor", "in", n)
  <2>1. Sane(r, 67)
    BY <1>3, <1>4 DEF Request, Sane, Available
  <2> QED
    BY <2>1
<1>5. CASE r = Request("status", "in", 2)
  <2>1. Sane(r, 2)
    BY <1>5 DEF Request, Sane, Available
  <2> QED
    BY <2>1
<1>6. CASE r = Request("get_coding", "in", 7)
  <2>1. Sane(r, 7)
    BY <1>6 DEF Request, Sane, Available
  <2> QED
    BY <2>1
<1>7. CASE r = Request("set_coding", "out", 7) \/ r = SetAddress \/ r = SetConfiguration \/ r = NoRequest
  <2>1. Sane(r, 0)
    BY <1>2, <1>7 DEF Request, Sane, Available
  <2> QED
    BY <2>1
<1> QED
  BY <1>1, <1>4, <1>5, <1>6, <1>7

LEMMA RequestIs ==
  ASSUME NEW r \in AllRequests
  PROVE  /\ r.dir \in {"in", "out"} /\ r.length \in Nat
         /\ r.dir = "in" => Answer(r) \in {2, 7, 9, 67} /\ r.length # 0
         /\ r.dir = "out" => Available(r) = 0 /\ Answer(r) = 0
         /\ r.dir = "out" /\ r.length # 0 => r.name = "set_coding" /\ r.length = 7
         /\ Answer(r) <= r.length
         /\ Answer(r) = Least(Available(r), r.length) /\ Available(r) \in Nat
<1>1. PICK n \in Nat : Sane(r, n)
  BY SaneIs
<1>2. /\ Available(r) = n /\ r.length \in Nat /\ r.dir \in {"in", "out"}
      /\ r.dir = "in" => \/ n = 67 /\ r.length \in {9, 67, 255}
                         \/ n \in {2, 7} /\ r.length = n
      /\ r.dir = "out" => n = 0
  BY <1>1 DEF Sane
<1>3. r.dir = "out" /\ r.length # 0 => r.name = "set_coding" /\ r.length = 7
  BY <1>1 DEF Sane
<1>4. Answer(r) = Least(Available(r), r.length)
  <2>1. Available(r) \in Int /\ r.length \in Int
    BY <1>2
  <2> QED
    BY <2>1, MinIs, Zenon DEF Answer
<1>5. /\ r.dir = "in" => Answer(r) \in {2, 7, 9, 67} /\ r.length # 0
      /\ r.dir = "out" => Answer(r) = 0
      /\ Answer(r) <= r.length
  BY <1>2, <1>4 DEF Least
<1> QED
  BY <1>2, <1>3, <1>4, <1>5

LEMMA ConfigurationIs ==
  ASSUME NEW r \in AllRequests
  PROVE  r.name = "configuration" <=> r = SetConfiguration
<1>1. CASE r = SetConfiguration
  BY <1>1 DEF SetConfiguration, Request
<1>2. CASE r # SetConfiguration
  BY <1>2 DEF AllRequests, Requests, SetAddress, NoRequest, Request
<1> QED
  BY <1>1, <1>2

----------------------------------------------------------------------------
(***************************************************************************)
(* The host's side of the control endpoint                                 *)
(***************************************************************************)
Stages == {"idle", "in", "out", "status_in", "status_out"}

Control ==
  [stage : Stages, request : AllRequests, total : Nat, asked : Nat, wrong : BOOLEAN,
   address : {0, 1}, configured : BOOLEAN]

\* Where a request has got to, for the host
HostFits(c) ==
  /\ c \in Control /\ ~c.wrong
  /\ c.stage = "in" => /\ c.request.dir = "in"
                       /\ c.total \in {0, 32, 64} /\ c.total < Answer(c.request)
  /\ c.stage = "out" => c.request.dir = "out" /\ c.request.length # 0 /\ c.total = 0
  /\ c.stage = "status_in" => c.request.dir = "out"
  /\ c.stage # "idle" /\ c.request = SetConfiguration => ~c.configured

\* The stage a request begins with
Opening(r) == IF r.length = 0 THEN "status_in" ELSE r.dir

\* The packet that carries what is left of an answer, when n bytes are left
Part(n) == Least(n, 32)

LEMMA SameHost ==
  /\ \A c, r : Samd!Asks(c, r) = Asks(c, r) /\ Avr!Asks(c, r) = Asks(c, r)
  /\ \A c, r, from, n : /\ Samd!TakesControl(c, r, from, n) = TakesControl(c, r, from, n)
                        /\ Avr!TakesControl(c, r, from, n) = TakesControl(c, r, from, n)
  /\ \A c : /\ Samd!GivesControl(c) = GivesControl(c) /\ Avr!GivesControl(c) = GivesControl(c)
            /\ Samd!Wanted(c) = Wanted(c) /\ Avr!Wanted(c) = Wanted(c)
  /\ \A r : /\ Samd!Answer(r) = Answer(r) /\ Avr!Answer(r) = Answer(r)
            /\ Samd!Available(r) = Available(r) /\ Avr!Available(r) = Available(r)
  /\ Samd!ControlSize = 32 /\ Avr!ControlSize = 32 /\ ControlSize = 32
<1>1. \A r : /\ Samd!Available(r) = Available(r) /\ Avr!Available(r) = Available(r)
  BY DEF Available, TOTAL_LENGTH, Samd!Available, Samd!TOTAL_LENGTH, Avr!Available, Avr!TOTAL_LENGTH
<1>2. \A s : Samd!Min(s) = Min(s) /\ Avr!Min(s) = Min(s)
  BY DEF Min, Samd!Min, Avr!Min
<1>3. \A r : Samd!Answer(r) = Answer(r) /\ Avr!Answer(r) = Answer(r)
  BY <1>1, <1>2 DEF Answer, Samd!Answer, Avr!Answer
<1>4. Samd!ControlSize = 32 /\ Avr!ControlSize = 32 /\ ControlSize = 32
  BY DEF ControlSize, Samd!ControlSize, Avr!ControlSize
<1>5. \A c, r : Samd!Asks(c, r) = Asks(c, r) /\ Avr!Asks(c, r) = Asks(c, r)
  BY DEF Asks, Samd!Asks, Avr!Asks
<1>6. ASSUME NEW c, NEW r, NEW from, NEW n
      PROVE  /\ Samd!TakesControl(c, r, from, n) = TakesControl(c, r, from, n)
             /\ Avr!TakesControl(c, r, from, n) = TakesControl(c, r, from, n)
  BY <1>3, <1>4, Zenon DEF TakesControl, Samd!TakesControl, Avr!TakesControl
<1>7. ASSUME NEW c
      PROVE  /\ Samd!GivesControl(c) = GivesControl(c) /\ Avr!GivesControl(c) = GivesControl(c)
             /\ Samd!Wanted(c) = Wanted(c) /\ Avr!Wanted(c) = Wanted(c)
  <2>1. Samd!GivesControl(c) = GivesControl(c) /\ Avr!GivesControl(c) = GivesControl(c)
    BY <1>2, <1>4, Zenon DEF GivesControl, Samd!GivesControl, Avr!GivesControl
  <2>2. Samd!Wanted(c) = Wanted(c) /\ Avr!Wanted(c) = Wanted(c)
    BY SameRequests, Zenon DEF Wanted, Samd!Wanted, Avr!Wanted
  <2> QED
    BY <2>1, <2>2
<1> QED
  BY <1>1, <1>3, <1>4, <1>5, <1>6, <1>7

LEMMA WantedAre ==
  ASSUME NEW c, NEW r \in Wanted(c)
  PROVE  r \in AllRequests /\ (r = SetConfiguration => ~c.configured)
<1>1. r \in AllRequests
  BY DEF Wanted, AllRequests
<1>2. r.name = "configuration" => ~c.configured
  BY DEF Wanted, SetAddress, Requests, Request
<1> QED
  BY <1>1, <1>2, ConfigurationIs

LEMMA AsksFits ==
  ASSUME NEW c, HostFits(c), NEW r \in Wanted(c)
  PROVE  LET d == Asks(c, r)
         IN  /\ HostFits(d) /\ d.request = r /\ d.total = 0 /\ d.stage = Opening(r)
             /\ d.configured = c.configured
<1> DEFINE d == Asks(c, r)
<1>1. /\ r \in AllRequests /\ (r = SetConfiguration => ~c.configured)
      /\ r.length = 0 => r.dir = "out"
      /\ r.dir \in {"in", "out"} /\ r.length \in Nat
      /\ r.dir = "in" => Answer(r) \in {2, 7, 9, 67}
  BY WantedAre, RequestIs
<1>2. d.request = r /\ d.total = 0 /\ d.configured = c.configured /\ d.wrong = c.wrong /\ d.stage = Opening(r)
  BY DEF Asks, HostFits, Control, Opening
<1>3. d \in Control
  <2> DEFINE asked == IF c.configured THEN c.asked + 1 ELSE c.asked
  <2>1. c \in Control /\ asked \in Nat /\ Opening(r) \in Stages
    BY <1>1 DEF HostFits, Control, Opening, Stages
  <2>2. d = [c EXCEPT !.request = r, !.total = 0, !.asked = asked, !.stage = Opening(r)]
    BY <2>1 DEF Asks, Opening, Control
  <2> HIDE DEF asked, d
  <2> QED
    BY <1>1, <2>1, <2>2 DEF Control
<1> HIDE DEF d
<1>4. d.stage \in {"in", "out", "status_in"} /\ (d.stage = "in" <=> r.dir = "in")
      /\ (d.stage = "out" => r.dir = "out" /\ r.length # 0)
  BY <1>1, <1>2 DEF Opening
<1> QED
  BY <1>1, <1>2, <1>3, <1>4 DEF HostFits, d

LEMMA TakesAnswer ==
  ASSUME NEW c, HostFits(c), c.stage = "in", NEW n, n = Part(Answer(c.request) - c.total)
  PROVE  LET d == TakesControl(c, c.request, c.total, n)
         IN  /\ HostFits(d) /\ d.request = c.request /\ d.total = c.total + n
             /\ d.configured = c.configured
             /\ d.stage = IF n = 32 THEN "in" ELSE "status_out"
             /\ n \in 1..32
<1> DEFINE d == TakesControl(c, c.request, c.total, n)
           a == Answer(c.request)
           l == c.request.length
           ends == n < ControlSize \/ c.total + n = c.request.length
<1>1. /\ c \in Control /\ ~c.wrong /\ c.request.dir = "in" /\ c.total \in {0, 32, 64} /\ c.total < a
      /\ c.request = SetConfiguration => ~c.configured
  BY DEF HostFits
<1>2. c.request \in AllRequests
  BY <1>1 DEF Control
<1>3. a \in {2, 7, 9, 67} /\ a <= l /\ l \in Nat
  BY <1>1, <1>2, RequestIs
<1>4. /\ n \in 1..32 /\ (ends <=> n # 32) /\ (ends => c.total + n = a)
      /\ n = 32 => c.total + n \in {0, 32, 64} /\ c.total + n < a
      /\ c.total + n \in Nat
  BY <1>1, <1>3, SameHost DEF Part, Least
<1> HIDE DEF ends, a, l
<1>5. d = [c EXCEPT !.total = c.total + n, !.stage = IF ends THEN "status_out" ELSE @,
                    !.wrong = \/ @ \/ c.request # c.request \/ c.total # c.total
                              \/ ends /\ c.total + n # a]
  BY DEF TakesControl, ends, a
<1> HIDE DEF d
<1>6. d \in Control /\ ~d.wrong /\ d.total = c.total + n /\ d.request = c.request
      /\ d.configured = c.configured /\ d.stage = (IF ends THEN "status_out" ELSE "in")
  BY <1>1, <1>4, <1>5 DEF Control, Stages
<1>7. d.stage = (IF n = 32 THEN "in" ELSE "status_out")
  BY <1>4, <1>6
<1>8. HostFits(d)
  BY <1>1, <1>4, <1>6, <1>7 DEF HostFits, a
<1> QED
  BY <1>4, <1>6, <1>7, <1>8 DEF d

LEMMA TakesStatus ==
  ASSUME NEW c, HostFits(c), c.stage = "status_in", NEW r, NEW from
  PROVE  LET d == TakesControl(c, r, from, 0)
         IN  /\ HostFits(d) /\ d.stage = "idle"
             /\ d.configured = (c.configured \/ c.request = SetConfiguration)
<1> DEFINE d == TakesControl(c, r, from, 0)
<1>1. c \in Control /\ ~c.wrong /\ c.request \in AllRequests
  BY DEF HostFits, Control
<1>2. d = [c EXCEPT !.stage = "idle", !.wrong = @ \/ 0 # 0,
                    !.address = IF c.request.name = "address" THEN 1 ELSE @,
                    !.configured = @ \/ c.request.name = "configuration"]
  BY DEF TakesControl
<1> HIDE DEF d
<1>3. d \in Control /\ ~d.wrong /\ d.stage = "idle"
      /\ d.configured = (c.configured \/ c.request.name = "configuration")
  BY <1>1, <1>2 DEF Control, Stages
<1>4. HostFits(d)
  BY <1>3 DEF HostFits
<1> QED
  BY <1>1, <1>3, <1>4, ConfigurationIs DEF d

LEMMA GivesFits ==
  ASSUME NEW c, HostFits(c), c.stage \in {"out", "status_out"}
  PROVE  LET d == GivesControl(c)
         IN  /\ HostFits(d) /\ d.request = c.request /\ d.configured = c.configured
             /\ d.stage = IF c.stage = "out" THEN "status_in" ELSE "idle"
             /\ c.stage = "out" => d.total - c.total = 7
             /\ d.total - c.total \in Nat
<1> DEFINE d == GivesControl(c)
           n == IF c.stage = "out" THEN Min({ControlSize, c.request.length - c.total}) ELSE 0
<1>1. c \in Control /\ ~c.wrong /\ c.request \in AllRequests /\ c.total \in Nat /\ c.configured \in BOOLEAN
      /\ (c.stage = "out" => c.request.dir = "out" /\ c.request.length # 0 /\ c.total = 0)
      /\ (c.request = SetConfiguration => ~c.configured)
  BY DEF HostFits, Control
<1>2. c.stage = "out" => c.request.length = 7 /\ c.total = 0
  BY <1>1, RequestIs
<1>3. n = IF c.stage = "out" THEN 7 ELSE 0
  <2>1. c.stage = "out" => n = Least(32, 7)
    BY <1>2, MinIs, SameHost
  <2> QED
    BY <2>1 DEF Least
<1> HIDE DEF n
<1>4. d = [c EXCEPT !.total = @ + n,
                    !.stage = IF c.stage = "status_out" THEN "idle"
                              ELSE IF c.total + n = c.request.length THEN "status_in" ELSE @]
  BY DEF GivesControl, n
<1> HIDE DEF d
<1>5. /\ d \in Control /\ ~d.wrong /\ d.request = c.request /\ d.configured = c.configured
      /\ d.total = c.total + n
      /\ d.stage = IF c.stage = "out" THEN "status_in" ELSE "idle"
  <2> DEFINE t == c.total + n
             stage == IF c.stage = "out" THEN "status_in" ELSE "idle"
  <2>1. t \in Nat /\ stage \in Stages
    BY <1>1, <1>3 DEF Stages
  <2>2. stage = IF c.stage = "status_out" THEN "idle"
                ELSE IF c.total + n = c.request.length THEN "status_in" ELSE c.stage
    BY <1>2, <1>3
  <2> HIDE DEF stage
  <2>4. d = [c EXCEPT !.total = t, !.stage = stage]
    BY <1>4, <2>2
  <2> HIDE DEF t
  <2>3. d \in Control /\ ~d.wrong /\ d.request = c.request /\ d.configured = c.configured
        /\ d.total = t /\ d.stage = stage
    BY <1>1, <2>1, <2>4 DEF Control
  <2> QED
    BY <2>3 DEF t, stage
<1>6. HostFits(d)
  BY <1>1, <1>5 DEF HostFits
<1> QED
  BY <1>1, <1>3, <1>5, <1>6 DEF d

----------------------------------------------------------------------------
(***************************************************************************)
(* The samd21: the control endpoint                                        *)
(***************************************************************************)
ControlPacket == [request : AllRequests, from : Nat, bytes : Int]

SamdFlags == {"RXSTP", "TRCPT0", "TRCPT1"}

SamdEp0 ==
  [state : {"idle", "data_in", "data_out"}, request : AllRequests, from : Nat, len : Nat, outlen : Int,
   pending : BOOLEAN, bank0 : ControlPacket, bank1 : ControlPacket, flags : SUBSET SamdFlags]

\* The next packet of an answer waits for the host, or the device has yet to
\* see that the last one is gone.
SamdAnswers(c, e) ==
  LET left == Answer(c.request) - c.total
  IN  /\ e.request = c.request
      /\ \/ /\ e.bank1 = Samd!NoPacket
            /\ e.state = "data_in" /\ e.from = c.total /\ e.len = left
         \/ /\ e.bank1.request = c.request /\ e.bank1.from = c.total /\ e.bank1.bytes = Part(left)
            /\ e.from = c.total + Part(left) /\ e.len = left - Part(left)
            /\ e.state = IF Part(left) = 32 THEN "data_in" ELSE "idle"

\* The data of a request is to come.
SamdListens(e) ==
  e.state = "data_out" /\ e.outlen = 7 /\ e.len = 0 /\ e.bank1 = Samd!NoPacket

\* The host's side and the device's side of a request.  The device sees a new
\* request before anything else of it.
SamdFits(c, e, reset) ==
  /\ e \in SamdEp0
  /\ reset => c.stage = "idle" /\ e.flags = {}
  /\ c.stage \in {"idle", "status_out"} =>
       e.bank1 = Samd!NoPacket /\ "RXSTP" \notin e.flags /\ (reset \/ e.state = "idle")
  /\ "RXSTP" \in e.flags =>
       /\ e.bank1 = Samd!NoPacket /\ e.bank0.request = c.request /\ e.bank0.bytes = 8
       /\ c.total = 0 /\ c.stage = Opening(c.request)
  /\ "RXSTP" \notin e.flags =>
       /\ c.stage = "in" => SamdAnswers(c, e)
       /\ c.stage = "out" => SamdListens(e) /\ "TRCPT0" \notin e.flags
       /\ c.stage = "status_in" => \/ e.bank1.bytes = 0 /\ e.state = "idle"
                                   \/ SamdListens(e) /\ e.bank0.bytes = 7

LEMMA NoPacketIs ==
  /\ Samd!NoPacket \in ControlPacket /\ Samd!NoPacket.bytes = -1
  /\ Avr!NoPacket \in ControlPacket /\ Avr!NoPacket.bytes = -1
BY SameRequests DEF Samd!NoPacket, Avr!NoPacket, ControlPacket, AllRequests

LEMMA SamdFlushIs ==
  ASSUME NEW e \in SamdEp0
  PROVE  LET f == Samd!Ep0Flush(e)
             n == Part(e.len)
         IN  /\ f \in SamdEp0
             /\ e.bank1 # Samd!NoPacket => f = e
             /\ e.bank1 = Samd!NoPacket =>
                  /\ f.bank1.request = e.request /\ f.bank1.from = e.from /\ f.bank1.bytes = n
                  /\ f.from = e.from + n /\ f.len = e.len - n
                  /\ f.state = IF n = 32 THEN e.state ELSE "idle"
             /\ f.request = e.request /\ f.bank0 = e.bank0 /\ f.outlen = e.outlen /\ f.flags = e.flags
<1> DEFINE n == Part(e.len)
           p == [request |-> e.request, from |-> e.from, bytes |-> n]
           state == IF n = 32 THEN e.state ELSE "idle"
           f == Samd!Ep0Flush(e)
<1>1. e.len \in Nat /\ e.from \in Nat /\ e.request \in AllRequests /\ e.state \in {"idle", "data_in", "data_out"}
  BY DEF SamdEp0
<1>2. n \in 0..32 /\ n <= e.len /\ (n < 32 <=> n # 32)
  BY <1>1 DEF Part, Least
<1>3. Samd!Min({e.len, Samd!ControlSize}) = n
  <2>1. e.len \in Int /\ 32 \in Int
    BY <1>1
  <2>2. Samd!Min({e.len, 32}) = Least(e.len, 32)
    BY <2>1, MinIs, Zenon
  <2> QED
    BY <2>2, SameHost, Zenon DEF Part
<1> HIDE DEF n
<1>4. p \in ControlPacket /\ p.request = e.request /\ p.from = e.from /\ p.bytes = n
  BY <1>1, <1>2 DEF ControlPacket
<1>5. e.bank1 # Samd!NoPacket => f = e
  BY DEF Samd!Ep0Flush
<1>6. e.bank1 = Samd!NoPacket =>
        f = [e EXCEPT !.state = state, !.len = e.len - n, !.from = e.from + n, !.bank1 = p]
  BY <1>2, <1>3, SameHost DEF Samd!Ep0Flush
<1>7. state \in {"idle", "data_in", "data_out"} /\ e.len - n \in Nat /\ e.from + n \in Nat
  BY <1>1, <1>2
<1> HIDE DEF f, p, state
<1>8. e.bank1 # Samd!NoPacket => f = e /\ f \in SamdEp0
  BY <1>5
<1>9. ASSUME e.bank1 = Samd!NoPacket
      PROVE  /\ f \in SamdEp0
             /\ f.bank1.request = e.request /\ f.bank1.from = e.from /\ f.bank1.bytes = n
             /\ f.from = e.from + n /\ f.len = e.len - n
             /\ f.state = IF n = 32 THEN e.state ELSE "idle"
             /\ f.request = e.request /\ f.bank0 = e.bank0 /\ f.outlen = e.outlen /\ f.flags = e.flags
  <2>1. f \in SamdEp0
    BY <1>4, <1>6, <1>7, <1>9 DEF SamdEp0
  <2>2. /\ f.bank1 = p /\ f.from = e.from + n /\ f.len = e.len - n /\ f.state = state
        /\ f.request = e.request /\ f.bank0 = e.bank0 /\ f.outlen = e.outlen /\ f.flags = e.flags
    BY <1>6, <1>9 DEF SamdEp0
  <2>3. f.bank1.request = e.request /\ f.bank1.from = e.from /\ f.bank1.bytes = n
    BY <1>4, <2>2
  <2> QED
    BY <1>9, <2>1, <2>2, <2>3 DEF state
<1>10. /\ f \in SamdEp0
       /\ e.bank1 # Samd!NoPacket => f = e
       /\ e.bank1 = Samd!NoPacket =>
             /\ f.bank1.request = e.request /\ f.bank1.from = e.from /\ f.bank1.bytes = n
             /\ f.from = e.from + n /\ f.len = e.len - n
             /\ f.state = IF n = 32 THEN e.state ELSE "idle"
       /\ f.request = e.request /\ f.bank0 = e.bank0 /\ f.outlen = e.outlen /\ f.flags = e.flags
  BY <1>8, <1>9
<1> QED
  BY <1>10 DEF f, n

LEMMA SamdAckIs ==
  ASSUME NEW e \in SamdEp0
  PROVE  LET g == IF e.state = "data_in" THEN Samd!Ep0Flush(e) ELSE e
             f == Samd!Ep0Ack(e)
         IN  /\ f \in SamdEp0
             /\ f.state = g.state /\ f.request = g.request /\ f.from = g.from /\ f.len = g.len
             /\ f.outlen = g.outlen /\ f.bank0 = g.bank0 /\ f.bank1 = g.bank1 /\ f.flags = g.flags
<1> DEFINE g == IF e.state = "data_in" THEN Samd!Ep0Flush(e) ELSE e
<1>1. g \in SamdEp0
  BY SamdFlushIs
<1>2. Samd!Ep0Ack(e) = [g EXCEPT !.pending = FALSE]
  BY DEF Samd!Ep0Ack
<1> HIDE DEF g
<1> QED
  BY <1>1, <1>2 DEF SamdEp0, g

\* How the first step of the handler leaves a request it has seen
LEMMA SamdSetupIs ==
  ASSUME NEW e \in SamdEp0, NEW r \in AllRequests, e.bank0.request = r,
         e.bank1 = Samd!NoPacket, e.flags = {}
  PROVE  LET f == Samd!Ep0Setup(e)
         IN  /\ f \in SamdEp0 /\ f.flags = {}
             /\ r.dir = "in" \/ r.length = 0 =>
                  /\ f.request = r /\ f.bank1.request = r /\ f.bank1.from = 0
                  /\ f.bank1.bytes = Part(Answer(r))
                  /\ f.from = Part(Answer(r)) /\ f.len = Answer(r) - Part(Answer(r))
                  /\ f.state = IF Part(Answer(r)) = 32 THEN "data_in" ELSE "idle"
             /\ ~(r.dir = "in" \/ r.length = 0) => SamdListens(f)
<1> DEFINE begins == r.dir = "in" \/ r.length = 0
           e8 == [e EXCEPT !.outlen = 8]
           n == Samd!Min({8, e8.bank0.bytes})
           filled == Samd!Ep0Fill(e8)
           state == IF begins THEN "data_in" ELSE "data_out"
           pending == filled.pending \/ r.name = "address"
           outlen == IF r.name = "set_coding" THEN 7 ELSE filled.outlen
           f == [filled EXCEPT !.request = r, !.from = 0, !.len = Available(r), !.state = state,
                               !.pending = @ \/ r.name = "address",
                               !.outlen = IF r.name = "set_coding" THEN 7 ELSE @]
           g == [f EXCEPT !.len = Answer(r)]
<1>1. e8 \in SamdEp0 /\ e8.outlen = 8 /\ e8.bank0.bytes \in Int /\ e8.bank1 = Samd!NoPacket /\ e8.flags = {}
  BY DEF SamdEp0, ControlPacket
<1>2. n \in Int
  <2>1. 8 \in Int
    OBVIOUS
  <2>2. n = Least(8, e8.bank0.bytes)
    BY <1>1, <2>1, MinIs, Zenon
  <2> QED
    BY <1>1, <2>2 DEF Least
<1>3. filled \in SamdEp0 /\ filled.bank1 = Samd!NoPacket /\ filled.flags = {}
  <2> HIDE DEF e8
  <2>1. filled = [e8 EXCEPT !.outlen = 8 - n, !.bank0 = Samd!NoPacket]
    BY <1>1 DEF Samd!Ep0Fill, SamdEp0
  <2>2. 8 - n \in Int /\ Samd!NoPacket \in ControlPacket
    BY <1>2, NoPacketIs
  <2> DEFINE m == 8 - n
  <2> HIDE DEF n, filled, m
  <2>3. m \in Int /\ filled = [e8 EXCEPT !.outlen = m, !.bank0 = Samd!NoPacket]
    BY <2>1, <2>2 DEF m
  <2> QED
    BY <1>1, <2>2, <2>3 DEF SamdEp0
<1>4. /\ Available(r) \in Nat /\ Answer(r) \in Nat
      /\ Answer(r) = Least(Available(r), r.length) /\ r.length \in Nat
      /\ ~begins => r.name = "set_coding" /\ Available(r) = 0
  BY RequestIs
<1>5. Samd!Ep0Setup(e) = IF f.state = "data_in" THEN Samd!InStart(f, r.length) ELSE f
  BY SameHost, ZenonT(60) DEF Samd!Ep0Setup
<1> HIDE DEF filled, e8, n
<1>6. f \in SamdEp0 /\ f.state = state /\ f.len = Available(r) /\ f.bank1 = Samd!NoPacket
      /\ f.request = r /\ f.from = 0 /\ f.outlen = outlen /\ f.flags = {}
  <2>1. filled.pending \in BOOLEAN /\ filled.outlen \in Int
    BY <1>3 DEF SamdEp0
  <2>2. outlen \in Int /\ pending \in BOOLEAN /\ state \in {"idle", "data_in", "data_out"}
    BY <2>1
  <2>3. f = [filled EXCEPT !.request = r, !.from = 0, !.len = Available(r), !.state = state,
                           !.pending = pending, !.outlen = outlen]
    OBVIOUS
  <2> HIDE DEF outlen, pending, state, f
  <2> QED
    BY <1>3, <1>4, <2>2, <2>3 DEF SamdEp0
<1> HIDE DEF outlen, pending, state
<1> HIDE DEF f
<1>7. g \in SamdEp0 /\ g.state = state /\ g.len = Answer(r) /\ g.bank1 = Samd!NoPacket
      /\ g.request = r /\ g.from = 0 /\ g.flags = {}
  BY <1>4, <1>6 DEF SamdEp0
<1> HIDE DEF g
<1>8. CASE begins
  <2>1. Samd!Min({f.len, r.length}) = Answer(r)
    <3>1. f.len \in Int /\ r.length \in Int
      BY <1>4, <1>6
    <3>2. Samd!Min({f.len, r.length}) = Least(f.len, r.length)
      BY <3>1, MinIs, Zenon
    <3> QED
      BY <1>4, <1>6, <3>2
  <2>2. Samd!InStart(f, r.length) = Samd!Ep0Flush(g)
    BY <2>1 DEF Samd!InStart, g
  <2>3. Samd!Ep0Setup(e) = Samd!Ep0Flush(g) /\ state = "data_in"
    BY <1>5, <1>6, <1>8, <2>2 DEF state
  <2> DEFINE h == Samd!Ep0Flush(g)
             m == Part(Answer(r))
  <2>4. /\ h \in SamdEp0 /\ h.flags = {} /\ h.request = r /\ h.bank1.request = r /\ h.bank1.from = 0
        /\ h.bank1.bytes = m /\ h.from = 0 + m /\ h.len = Answer(r) - m
        /\ h.state = IF m = 32 THEN "data_in" ELSE "idle"
    BY <1>7, <2>3, SamdFlushIs
  <2>5. 0 + m = m
    BY <1>4 DEF Part, Least
  <2> HIDE DEF h, m
  <2>6. Samd!Ep0Setup(e) = h
    BY <2>3 DEF h
  <2> QED
    BY <1>8, <2>4, <2>5, <2>6 DEF m
<1>9. CASE ~begins
  <2>1. Samd!Ep0Setup(e) = f /\ f.state = "data_out"
    BY <1>5, <1>6, <1>9 DEF state
  <2>2. f.outlen = 7 /\ f.len = 0
    BY <1>4, <1>6, <1>9 DEF outlen
  <2> QED
    BY <1>6, <1>9, <2>1, <2>2 DEF SamdListens
<1> QED
  BY <1>8, <1>9

\* The data of a request has come: an empty packet ends it.
LEMMA SamdDataIs ==
  ASSUME NEW e \in SamdEp0, SamdListens(e), e.bank0.bytes = 7
  PROVE  LET f == Samd!Ep0Data(e)
         IN  f \in SamdEp0 /\ f.flags = e.flags /\ f.bank1.bytes = 0 /\ f.state = "idle"
<1> DEFINE n == Samd!Min({e.outlen, e.bank0.bytes})
           filled == Samd!Ep0Fill(e)
           f == [filled EXCEPT !.state = "data_in"]
           g == [f EXCEPT !.len = 0]
<1>1. e.state = "data_out" /\ e.outlen = 7 /\ e.len = 0 /\ e.bank1 = Samd!NoPacket
  BY DEF SamdListens
<1>2. e.outlen - n = 0
  <2>1. e.outlen \in Int /\ e.bank0.bytes \in Int
    BY <1>1
  <2>2. n = Least(e.outlen, e.bank0.bytes)
    BY <2>1, MinIs, Zenon
  <2> QED
    BY <1>1, <2>2 DEF Least
<1>3. filled \in SamdEp0 /\ filled.bank1 = Samd!NoPacket /\ filled.flags = e.flags
      /\ filled.outlen = 0 /\ filled.len = 0
  <2> DEFINE m == e.outlen - n
  <2>1. filled = [e EXCEPT !.outlen = m, !.bank0 = Samd!NoPacket]
    BY DEF Samd!Ep0Fill
  <2>2. m = 0 /\ m \in Int /\ Samd!NoPacket \in ControlPacket
    BY <1>2, NoPacketIs
  <2> HIDE DEF filled, m
  <2>3. filled \in SamdEp0
    BY <2>1, <2>2 DEF SamdEp0
  <2>4. filled.bank1 = e.bank1 /\ filled.flags = e.flags /\ filled.outlen = m /\ filled.len = e.len
    BY <2>1 DEF SamdEp0
  <2> QED
    BY <1>1, <2>2, <2>3, <2>4
<1> HIDE DEF filled
<1>4. f \in SamdEp0 /\ f.bank1 = Samd!NoPacket /\ f.flags = e.flags /\ f.len = 0 /\ f.outlen = 0
  BY <1>3 DEF SamdEp0
<1>5. Samd!Ep0Data(e) = Samd!InStart(f, 0)
  BY <1>1, <1>3, Zenon DEF Samd!Ep0Data, filled
<1> HIDE DEF f
<1>6. g \in SamdEp0 /\ g.bank1 = Samd!NoPacket /\ g.flags = e.flags /\ g.len = 0
  BY <1>4 DEF SamdEp0
<1>7. Samd!InStart(f, 0) = Samd!Ep0Flush(g)
  <2>1. f.len \in Int /\ 0 \in Int
    BY <1>4
  <2>2. Samd!Min({f.len, 0}) = Least(f.len, 0)
    BY <2>1, MinIs, Zenon
  <2>3. Samd!Min({f.len, 0}) = 0
    BY <1>4, <2>2 DEF Least
  <2> QED
    BY <2>3 DEF Samd!InStart
<1> HIDE DEF g
<1>8. Part(0) = 0
  BY DEF Part, Least
<1> QED
  BY <1>5, <1>6, <1>7, <1>8, SamdFlushIs

\* ep0' in IsrControl
SamdHandled(e) ==
  LET setup == "RXSTP" \in e.flags
      data == ~setup /\ "TRCPT0" \in e.flags
      e0 == [e EXCEPT !.flags = {}]
      e1 == IF setup THEN Samd!Ep0Setup(e0) ELSE e0
      e2 == IF data THEN Samd!Ep0Data(e1) ELSE e1
  IN  IF "TRCPT1" \in e.flags THEN Samd!Ep0Ack(e2) ELSE e2

LEMMA SamdHandles ==
  ASSUME NEW c, NEW e, NEW reset, HostFits(c), SamdFits(c, e, reset), e.flags # {}
  PROVE  SamdFits(c, SamdHandled(e), reset)
<1> DEFINE setup == "RXSTP" \in e.flags
           data == ~setup /\ "TRCPT0" \in e.flags
           e0 == [e EXCEPT !.flags = {}]
           e1 == IF setup THEN Samd!Ep0Setup(e0) ELSE e0
           e2 == IF data THEN Samd!Ep0Data(e1) ELSE e1
           h == IF "TRCPT1" \in e.flags THEN Samd!Ep0Ack(e2) ELSE e2
<1>1. h = SamdHandled(e)
  BY DEF SamdHandled
<1>2. ~reset /\ e \in SamdEp0 /\ c \in Control /\ c.request \in AllRequests /\ c.stage \in Stages
  BY DEF SamdFits, HostFits, Control
<1>3. /\ e0 \in SamdEp0 /\ e0.flags = {} /\ e0.state = e.state /\ e0.request = e.request /\ e0.from = e.from
      /\ e0.len = e.len /\ e0.outlen = e.outlen /\ e0.bank0 = e.bank0 /\ e0.bank1 = e.bank1
  BY <1>2 DEF SamdEp0
<1> HIDE DEF e0
<1>4. \/ c.stage \in {"idle", "status_out"} \/ c.stage = "in" \/ c.stage = "out" \/ c.stage = "status_in"
  BY <1>2 DEF Stages
<1>5. SUFFICES SamdFits(c, h, reset)
  BY <1>1
\* An acknowledge changes nothing unless a packet of the answer is due.
<1>6. ASSUME e2 \in SamdEp0, e2.flags = {}, e2.state # "data_in" \/ e2.bank1 # Samd!NoPacket
      PROVE  /\ h \in SamdEp0 /\ h.flags = {}
             /\ h.state = e2.state /\ h.request = e2.request /\ h.from = e2.from /\ h.len = e2.len
             /\ h.outlen = e2.outlen /\ h.bank0 = e2.bank0 /\ h.bank1 = e2.bank1
  <2> HIDE DEF e2
  <2>1. e2.state = "data_in" => Samd!Ep0Flush(e2) = e2
    BY <1>6, SamdFlushIs
  <2>2. LET g == Samd!Ep0Ack(e2)
        IN  /\ g \in SamdEp0 /\ g.flags = {}
            /\ g.state = e2.state /\ g.request = e2.request /\ g.from = e2.from /\ g.len = e2.len
            /\ g.outlen = e2.outlen /\ g.bank0 = e2.bank0 /\ g.bank1 = e2.bank1
    BY <1>6, <2>1, SamdAckIs
  <2> QED
    BY <1>6, <2>2
<1>7. CASE setup
  <2> DEFINE r == c.request
             a == Answer(r)
  <2>1. e.bank1 = Samd!NoPacket /\ e.bank0.request = r /\ c.total = 0 /\ c.stage = Opening(r)
    BY <1>7 DEF SamdFits
  <2>2. e2 = e1 /\ e1 = Samd!Ep0Setup(e0)
    BY <1>7
  <2>3. /\ e2 \in SamdEp0 /\ e2.flags = {}
        /\ r.dir = "in" \/ r.length = 0 =>
             /\ e2.request = r /\ e2.bank1.request = r /\ e2.bank1.from = 0
             /\ e2.bank1.bytes = Part(a) /\ e2.from = Part(a) /\ e2.len = a - Part(a)
             /\ e2.state = IF Part(a) = 32 THEN "data_in" ELSE "idle"
        /\ ~(r.dir = "in" \/ r.length = 0) => SamdListens(e2)
    <3>1. e0.bank0.request = r /\ e0.bank1 = Samd!NoPacket
      BY <1>3, <2>1
    <3> HIDE DEF e1, e2
    <3> QED
      BY <1>2, <1>3, <2>2, <3>1, SamdSetupIs
  <2> HIDE DEF e2, e1
  <2>4. /\ r.dir \in {"in", "out"} /\ r.length \in Nat
        /\ r.dir = "in" => a \in {2, 7, 9, 67} /\ r.length # 0
        /\ r.dir = "out" => a = 0
    BY <1>2, RequestIs
  <2> HIDE DEF a, r
  <2>5. a \in Nat /\ Part(a) \in Nat /\ (a = 0 => Part(a) = 0) /\ a - 0 = a /\ 0 + Part(a) = Part(a)
    BY <2>4 DEF Part, Least
  <2>6. e2.state # "data_in" \/ e2.bank1 # Samd!NoPacket
    <3>1. CASE r.dir = "in" \/ r.length = 0
      BY <2>3, <2>5, <3>1, NoPacketIs
    <3>2. CASE ~(r.dir = "in" \/ r.length = 0)
      BY <2>3, <3>2 DEF SamdListens
    <3> QED
      BY <3>1, <3>2
  <2>7. /\ h \in SamdEp0 /\ h.flags = {}
        /\ h.state = e2.state /\ h.request = e2.request /\ h.from = e2.from /\ h.len = e2.len
        /\ h.outlen = e2.outlen /\ h.bank0 = e2.bank0 /\ h.bank1 = e2.bank1
    BY <1>6, <2>3, <2>6
  <2> HIDE DEF h
  <2>8. CASE r.dir = "in"
    <3>1. c.stage = "in" /\ c.total = 0
      BY <2>1, <2>4, <2>8 DEF Opening
    <3>2. SamdAnswers(c, h)
      BY <2>3, <2>5, <2>7, <2>8, <3>1 DEF SamdAnswers, a, r
    <3> QED
      BY <1>2, <2>7, <3>1, <3>2 DEF SamdFits
  <2>9. CASE r.dir = "out" /\ r.length = 0
    <3>1. c.stage = "status_in"
      BY <2>1, <2>9 DEF Opening
    <3>2. h.bank1.bytes = 0 /\ h.state = "idle"
      <4>1. Part(a) = 0
        BY <2>4, <2>5, <2>9
      <4>2. e2.bank1.bytes = Part(a) /\ e2.state = IF Part(a) = 32 THEN "data_in" ELSE "idle"
        BY <2>3, <2>9
      <4> QED
        BY <2>7, <4>1, <4>2
    <3> QED
      BY <1>2, <2>7, <3>1, <3>2 DEF SamdFits
  <2>10. CASE r.dir = "out" /\ r.length # 0
    <3>1. c.stage = "out"
      BY <2>1, <2>10 DEF Opening
    <3>2. SamdListens(h)
      BY <2>3, <2>7, <2>10 DEF SamdListens
    <3> QED
      BY <1>2, <2>7, <3>1, <3>2 DEF SamdFits
  <2> QED
    BY <2>4, <2>8, <2>9, <2>10
<1>8. CASE ~setup
  <2>1. e1 = e0 /\ (e.state # "data_out" => e2 = e0)
    BY <1>3, <1>8 DEF Samd!Ep0Data
  <2> HIDE DEF e1
  <2>2. CASE e2 = e0 /\ (e0.state # "data_in" \/ e0.bank1 # Samd!NoPacket)
    <3>1. /\ h \in SamdEp0 /\ h.flags = {}
          /\ h.state = e.state /\ h.request = e.request /\ h.from = e.from /\ h.len = e.len
          /\ h.outlen = e.outlen /\ h.bank0 = e.bank0 /\ h.bank1 = e.bank1
      BY <1>3, <1>6, <2>2
    <3> HIDE DEF h, e2
    <3>2. SamdListens(e) => SamdListens(h)
      BY <3>1 DEF SamdListens
    <3>3. SamdAnswers(c, e) => SamdAnswers(c, h)
      BY <3>1 DEF SamdAnswers
    <3> QED
      BY <1>2, <1>8, <3>1, <3>2, <3>3 DEF SamdFits
  <2>3. CASE c.stage \in {"idle", "status_out"}
    <3>1. e.state = "idle"
      BY <1>2, <2>3 DEF SamdFits
    <3> QED
      BY <1>3, <2>1, <2>2, <3>1
  <2>4. CASE c.stage = "in"
    <3>1. SamdAnswers(c, e)
      BY <1>8, <2>4 DEF SamdFits
    <3>2. e2 = e0
      BY <2>1, <3>1 DEF SamdAnswers
    <3>3. CASE e.bank1 # Samd!NoPacket
      BY <1>3, <2>2, <3>2, <3>3
    <3>4. CASE e.bank1 = Samd!NoPacket /\ "TRCPT1" \notin e.flags
      <4>1. h = e0
        BY <3>2, <3>4
      <4>2. SamdAnswers(c, e0)
        BY <1>3, <3>1 DEF SamdAnswers
      <4> HIDE DEF h, e2
      <4> QED
        BY <1>2, <1>3, <2>4, <4>1, <4>2 DEF SamdFits
    <3>5. CASE e.bank1 = Samd!NoPacket /\ "TRCPT1" \in e.flags
      <4> DEFINE left == Answer(c.request) - c.total
                 f == Samd!Ep0Flush(e0)
      <4>1. h = Samd!Ep0Ack(e0)
        BY <3>2, <3>5
      <4>2. left \in Nat /\ Part(left) \in Nat
        <5>1. c.request.dir = "in" /\ c.total \in {0, 32, 64} /\ c.total < Answer(c.request)
          BY <2>4 DEF HostFits
        <5>2. Answer(c.request) \in Nat
          BY <1>2, <5>1, RequestIs
        <5> QED
          BY <5>1, <5>2 DEF Part, Least
      <4>3. e.state = "data_in" /\ e.from = c.total /\ e.len = left /\ e.request = c.request
        <5>1. e.bank1.bytes # Part(left)
          BY <3>5, <4>2, NoPacketIs
        <5> HIDE DEF left
        <5> QED
          BY <3>1, <5>1 DEF SamdAnswers, left
      <4> HIDE DEF left
      <4>4. /\ f \in SamdEp0 /\ f.flags = {} /\ f.request = c.request
            /\ f.bank1.request = c.request /\ f.bank1.from = c.total /\ f.bank1.bytes = Part(left)
            /\ f.from = c.total + Part(left) /\ f.len = left - Part(left)
            /\ f.state = IF Part(left) = 32 THEN "data_in" ELSE "idle"
        BY <1>3, <3>5, <4>3, SamdFlushIs
      <4> HIDE DEF h, f
      <4>5. h \in SamdEp0 /\ h.flags = {} /\ h.request = f.request /\ h.bank1 = f.bank1 /\ h.from = f.from
            /\ h.len = f.len /\ h.state = f.state
        BY <1>3, <4>1, <4>3, <4>4, SamdAckIs DEF f
      <4>6. SamdAnswers(c, h)
        BY <4>4, <4>5 DEF SamdAnswers, left
      <4> QED
        BY <1>2, <2>4, <4>5, <4>6 DEF SamdFits
    <3> QED
      BY <3>3, <3>4, <3>5
  <2>5. CASE c.stage = "out"
    <3>1. SamdListens(e) /\ e2 = e0
      BY <1>8, <2>1, <2>5 DEF SamdFits
    <3>2. e0.state # "data_in"
      BY <1>3, <3>1 DEF SamdListens
    <3> QED
      BY <2>2, <3>1, <3>2
  <2>6. CASE c.stage = "status_in"
    <3>1. CASE e.bank1.bytes = 0 /\ e.state = "idle"
      BY <1>3, <2>1, <2>2, <3>1
    <3>2. CASE SamdListens(e) /\ e.bank0.bytes = 7
      <4>1. CASE ~data
        <5>1. e2 = e0 /\ e0.state # "data_in"
          BY <1>3, <2>1, <3>2, <4>1 DEF SamdListens
        <5> QED
          BY <2>2, <5>1
      <4>2. CASE data
        <5>1. SamdListens(e0) /\ e0.bank0.bytes = 7
          BY <1>3, <3>2 DEF SamdListens
        <5>2. e2 = Samd!Ep0Data(e0)
          BY <2>1, <4>2
        <5>3. e2 \in SamdEp0 /\ e2.flags = {} /\ e2.bank1.bytes = 0 /\ e2.state = "idle"
          <6> HIDE DEF e2
          <6> QED
            BY <1>3, <5>1, <5>2, SamdDataIs
        <5>4. h \in SamdEp0 /\ h.flags = {} /\ h.bank1.bytes = 0 /\ h.state = "idle"
          BY <1>6, <5>3
        <5> HIDE DEF h, e2
        <5> QED
          BY <1>2, <2>6, <5>4 DEF SamdFits
      <4> QED
        BY <4>1, <4>2
    <3> QED
      BY <1>8, <2>6, <3>1, <3>2 DEF SamdFits
  <2> QED
    BY <1>4, <2>3, <2>4, <2>5, <2>6
<1> QED
  BY <1>7, <1>8

SamdControl == HostFits(control) /\ SamdFits(control, ep0, eorst)

LEMMA SamdSetupFits ==
  ASSUME SamdControl, Samd!Setup
  PROVE  SamdControl'
<1>1. PICK r \in Wanted(control) :
        /\ control' = Asks(control, r)
        /\ ep0' = [ep0 EXCEPT !.bank0 = [request |-> r, from |-> 0, bytes |-> 8],
                              !.flags = @ \cup {"RXSTP"}]
  BY SameHost DEF Samd!Setup
<1>2. control.stage = "idle" /\ ~eorst /\ eorst' = eorst
  BY DEF Samd!Setup
<1>3. /\ HostFits(control') /\ control'.request = r /\ control'.total = 0
      /\ control'.stage = Opening(r) /\ r \in AllRequests
  BY <1>1, AsksFits, WantedAre DEF SamdControl
<1>4. ep0 \in SamdEp0 /\ ep0.bank1 = Samd!NoPacket
  BY <1>2 DEF SamdControl, SamdFits
<1> DEFINE p == [request |-> r, from |-> 0, bytes |-> 8]
<1>5. p \in ControlPacket /\ p.request = r /\ p.bytes = 8
  BY <1>3 DEF ControlPacket
<1> HIDE DEF p
<1>6. ep0' = [ep0 EXCEPT !.bank0 = p, !.flags = @ \cup {"RXSTP"}]
  BY <1>1 DEF p
<1>7. /\ ep0' \in SamdEp0 /\ ep0'.bank1 = Samd!NoPacket /\ ep0'.bank0 = p /\ "RXSTP" \in ep0'.flags
  BY <1>4, <1>5, <1>6 DEF SamdEp0, SamdFlags
<1>8. control'.stage \notin {"idle", "status_out"}
  BY <1>3, RequestIs DEF Opening
<1>9. SamdFits(control', ep0', eorst')
  BY <1>2, <1>3, <1>5, <1>7, <1>8 DEF SamdFits
<1> QED
  BY <1>3, <1>9 DEF SamdControl

\* What a packet that the host takes does to the device
LEMMA SamdTakenIs ==
  ASSUME NEW e \in SamdEp0
  PROVE  LET f == [e EXCEPT !.bank1 = Samd!NoPacket, !.flags = @ \cup {"TRCPT1"}]
         IN  /\ f \in SamdEp0 /\ f.bank1 = Samd!NoPacket /\ f.flags = e.flags \cup {"TRCPT1"}
             /\ f.state = e.state /\ f.request = e.request /\ f.from = e.from /\ f.len = e.len
             /\ f.outlen = e.outlen /\ f.bank0 = e.bank0
BY NoPacketIs DEF SamdEp0, SamdFlags

LEMMA SamdControlInFits ==
  ASSUME SamdControl, Samd!ControlIn
  PROVE  SamdControl'
<1> DEFINE c == control
           p == ep0.bank1
<1>1. /\ c.stage \in {"in", "status_in"} /\ p # Samd!NoPacket /\ eorst' = eorst
      /\ control' = TakesControl(c, p.request, p.from, p.bytes)
      /\ ep0' = [ep0 EXCEPT !.bank1 = Samd!NoPacket, !.flags = @ \cup {"TRCPT1"}]
  BY SameHost DEF Samd!ControlIn
<1>2. HostFits(c) /\ SamdFits(c, ep0, eorst) /\ ep0 \in SamdEp0
  BY DEF SamdControl, SamdFits
<1>3. ~eorst /\ "RXSTP" \notin ep0.flags
  BY <1>1, <1>2 DEF SamdFits
<1>4. /\ ep0' \in SamdEp0 /\ ep0'.bank1 = Samd!NoPacket /\ "RXSTP" \notin ep0'.flags
      /\ ep0'.state = ep0.state /\ ep0'.request = ep0.request /\ ep0'.from = ep0.from
      /\ ep0'.len = ep0.len /\ ep0'.outlen = ep0.outlen /\ ep0'.bank0 = ep0.bank0
  <2> DEFINE f == [ep0 EXCEPT !.bank1 = Samd!NoPacket, !.flags = @ \cup {"TRCPT1"}]
  <2>1. /\ f \in SamdEp0 /\ f.bank1 = Samd!NoPacket /\ f.flags = ep0.flags \cup {"TRCPT1"}
        /\ f.state = ep0.state /\ f.request = ep0.request /\ f.from = ep0.from /\ f.len = ep0.len
        /\ f.outlen = ep0.outlen /\ f.bank0 = ep0.bank0
    BY <1>2, SamdTakenIs
  <2>2. ep0' = f
    BY <1>1
  <2> HIDE DEF f
  <2> QED
    BY <1>3, <2>1, <2>2
<1>5. CASE c.stage = "in"
  <2> DEFINE left == Answer(c.request) - c.total
             n == Part(left)
  <2>1. SamdAnswers(c, ep0)
    BY <1>2, <1>3, <1>5 DEF SamdFits
  <2>2. /\ ep0.request = c.request /\ p.request = c.request /\ p.from = c.total /\ p.bytes = n
        /\ ep0.from = c.total + n /\ ep0.len = left - n
        /\ ep0.state = IF n = 32 THEN "data_in" ELSE "idle"
    BY <1>1, <2>1 DEF SamdAnswers
  <2>3. control' = TakesControl(c, c.request, c.total, n)
    BY <1>1, <2>2
  <2>4. /\ HostFits(control') /\ control'.request = c.request /\ control'.total = c.total + n
        /\ control'.stage = IF n = 32 THEN "in" ELSE "status_out"
    <3> HIDE DEF c, n
    <3>1. n = Part(Answer(c.request) - c.total)
      BY DEF n
    <3> QED
      BY <1>2, <1>5, <2>3, <3>1, TakesAnswer
  <2>5. left - n = Answer(c.request) - (c.total + n)
    <3>1. c.total \in {0, 32, 64} /\ c.request \in AllRequests
      BY <1>2, <1>5 DEF HostFits, Control
    <3>2. Answer(c.request) \in Int
      BY <3>1, RequestIs
    <3> QED
      BY <3>1, <3>2 DEF Part, Least
  <2> HIDE DEF c, p, left, n
  <2>6. CASE n = 32
    <3>1. SamdAnswers(control', ep0')
      BY <1>4, <2>2, <2>4, <2>5, <2>6 DEF SamdAnswers
    <3> QED
      BY <1>1, <1>3, <1>4, <2>4, <2>6, <3>1 DEF SamdFits, SamdControl
  <2>7. CASE n # 32
    BY <1>1, <1>3, <1>4, <2>2, <2>4, <2>7 DEF SamdFits, SamdControl
  <2> QED
    BY <2>6, <2>7
<1>6. CASE c.stage = "status_in"
  <2>1. p.bytes = 0 /\ ep0.state = "idle"
    BY <1>1, <1>2, <1>3, <1>6 DEF SamdFits, SamdListens
  <2>2. HostFits(control') /\ control'.stage = "idle"
    BY <1>1, <1>2, <1>6, <2>1, TakesStatus
  <2> QED
    BY <1>1, <1>3, <1>4, <2>1, <2>2 DEF SamdFits, SamdControl
<1> QED
  BY <1>1, <1>5, <1>6

LEMMA SamdControlOutFits ==
  ASSUME SamdControl, Samd!ControlOut
  PROVE  SamdControl'
<1> DEFINE c == control
           p == [request |-> c.request, from |-> c.total, bytes |-> GivesControl(c).total - c.total]
<1>1. /\ c.stage \in {"out", "status_out"} /\ ep0.bank0 = Samd!NoPacket /\ eorst' = eorst
      /\ control' = GivesControl(c)
      /\ ep0' = [ep0 EXCEPT !.flags = @ \cup {"TRCPT0"}, !.bank0 = p]
  BY SameHost DEF Samd!ControlOut
<1>2. HostFits(c) /\ SamdFits(c, ep0, eorst) /\ ep0 \in SamdEp0
  BY DEF SamdControl, SamdFits
<1>3. ~eorst /\ "RXSTP" \notin ep0.flags
  BY <1>1, <1>2, NoPacketIs DEF SamdFits
<1>4. /\ HostFits(control') /\ p.bytes \in Nat /\ (c.stage = "out" => p.bytes = 7)
      /\ control'.stage = IF c.stage = "out" THEN "status_in" ELSE "idle"
  BY <1>1, <1>2, GivesFits
<1>5. p \in ControlPacket
  <2>1. c.request \in AllRequests /\ c.total \in Nat /\ p.bytes \in Int
    BY <1>2, <1>4 DEF HostFits, Control
  <2> DEFINE n == GivesControl(c).total - c.total
  <2>2. n \in Int
    BY <2>1
  <2> HIDE DEF n
  <2>3. [request |-> c.request, from |-> c.total, bytes |-> n] \in ControlPacket
    BY <2>1, <2>2 DEF ControlPacket
  <2> QED
    BY <2>3 DEF n
<1> HIDE DEF p
<1>6. /\ ep0' \in SamdEp0 /\ ep0'.bank1 = ep0.bank1 /\ "RXSTP" \notin ep0'.flags
      /\ ep0'.state = ep0.state /\ ep0'.len = ep0.len /\ ep0'.outlen = ep0.outlen /\ ep0'.bank0 = p
  BY <1>1, <1>2, <1>3, <1>5 DEF SamdEp0, SamdFlags
<1>7. CASE c.stage = "out"
  <2>1. SamdListens(ep0)
    BY <1>2, <1>3, <1>7 DEF SamdFits
  <2>2. SamdListens(ep0') /\ ep0'.bank0.bytes = 7
    BY <1>4, <1>6, <1>7, <2>1 DEF SamdListens
  <2> QED
    BY <1>1, <1>3, <1>4, <1>6, <1>7, <2>2 DEF SamdFits, SamdControl
<1>8. CASE c.stage = "status_out"
  <2>1. ep0.bank1 = Samd!NoPacket /\ ep0.state = "idle"
    BY <1>2, <1>3, <1>8 DEF SamdFits
  <2> QED
    BY <1>1, <1>3, <1>4, <1>6, <1>8, <2>1 DEF SamdFits, SamdControl
<1> QED
  BY <1>1, <1>7, <1>8

LEMMA SamdIsrFits ==
  ASSUME SamdControl, Samd!IsrControl
  PROVE  SamdControl'
<1>1. ep0.flags # {} /\ control' = control /\ eorst' = eorst /\ ep0' = SamdHandled(ep0)
  BY DEF Samd!IsrControl, SamdHandled, Samd!hostVars
<1> QED
  BY <1>1, SamdHandles DEF SamdControl

LEMMA ResetFits ==
  ASSUME NEW c, HostFits(c)
  PROVE  LET d == [Start EXCEPT !.wrong = c.wrong, !.asked = c.asked]
         IN  HostFits(d) /\ d.stage = "idle" /\ ~d.configured
<1> DEFINE d == [Start EXCEPT !.wrong = c.wrong, !.asked = c.asked]
<1>1. c.asked \in Nat /\ c.wrong = FALSE
  BY DEF HostFits, Control
<1>2. NoRequest \in AllRequests
  BY DEF AllRequests
<1>3. Start \in Control /\ Start.stage = "idle" /\ Start.configured = FALSE
  <2>1. "idle" \in Stages /\ 0 \in Nat /\ 0 \in {0, 1}
    BY DEF Stages
  <2> QED
    BY <1>2, <2>1 DEF Start, Control
<1>4. d \in Control /\ d.stage = "idle" /\ ~d.wrong /\ ~d.configured
  BY <1>1, <1>3 DEF Control
<1> QED
  BY <1>4 DEF HostFits, d

LEMMA SamdResetFits ==
  ASSUME SamdControl, Samd!Reset
  PROVE  SamdControl'
<1>1. /\ control' = [Start EXCEPT !.wrong = control.wrong, !.asked = control.asked]
      /\ ep0' = [ep0 EXCEPT !.bank0 = Samd!NoPacket, !.bank1 = Samd!NoPacket, !.flags = {}]
      /\ eorst' = TRUE
  BY SameRequests DEF Samd!Reset, Samd!HostResets, Samd!Start, Start
<1>2. ep0 \in SamdEp0
  BY DEF SamdControl, SamdFits
<1>3. HostFits(control') /\ control'.stage = "idle"
  BY <1>1, ResetFits DEF SamdControl
<1>4. ep0' \in SamdEp0 /\ ep0'.bank1 = Samd!NoPacket /\ ep0'.flags = {}
  BY <1>1, <1>2, NoPacketIs DEF SamdEp0
<1> QED
  BY <1>1, <1>3, <1>4 DEF SamdFits, SamdControl

LEMMA SamdIsrResetFits ==
  ASSUME SamdControl, Samd!IsrReset
  PROVE  SamdControl'
<1>1. /\ eorst /\ eorst' = FALSE /\ control' = control
      /\ ep0' = [ep0 EXCEPT !.state = "idle", !.len = 0, !.outlen = 0,
                            !.bank0 = Samd!NoPacket, !.bank1 = Samd!NoPacket]
  BY DEF Samd!IsrReset, Samd!hostVars
<1>2. ep0 \in SamdEp0 /\ control.stage = "idle" /\ ep0.flags = {}
  BY <1>1 DEF SamdControl, SamdFits
<1>3. ep0' \in SamdEp0 /\ ep0'.bank1 = Samd!NoPacket /\ ep0'.flags = {} /\ ep0'.state = "idle"
  <2>1. 0 \in Nat /\ 0 \in Int /\ Samd!NoPacket \in ControlPacket
    BY NoPacketIs
  <2> DEFINE z == 0
  <2>2. z \in Nat /\ z \in Int
    OBVIOUS
  <2>3. ep0' = [ep0 EXCEPT !.state = "idle", !.len = z, !.outlen = z,
                           !.bank0 = Samd!NoPacket, !.bank1 = Samd!NoPacket]
    BY <1>1
  <2> HIDE DEF z
  <2> QED
    BY <1>2, <2>1, <2>2, <2>3 DEF SamdEp0
<1> QED
  BY <1>1, <1>2, <1>3 DEF SamdFits, SamdControl

LEMMA SamdControlKept ==
  ASSUME SamdControl, Samd!Next
  PROVE  SamdControl'
<1>1. CASE UNCHANGED <<control, ep0, eorst>>
  BY <1>1 DEF SamdControl
<1>2. CASE Samd!Program \/ Samd!Begins \/ Samd!Getc
  BY <1>1, <1>2 DEF Samd!Program, Samd!Insert, Samd!Flush, Samd!Begins, Samd!Getc, Samd!hostVars,
       Samd!deviceVars
<1>3. CASE Samd!Poll \/ Samd!Type \/ Samd!IsrIn \/ Samd!IsrOut
  BY <1>1, <1>3 DEF Samd!Poll, Samd!Takes, Samd!Type, Samd!Gives, Samd!IsrIn, Samd!IsrOut, Samd!hostVars
<1>4. CASE Samd!Setup \/ Samd!ControlIn \/ Samd!ControlOut \/ Samd!Reset \/ Samd!IsrControl \/ Samd!IsrReset
  BY <1>4, SamdSetupFits, SamdControlInFits, SamdControlOutFits, SamdResetFits, SamdIsrFits, SamdIsrResetFits
<1> QED
  BY <1>2, <1>3, <1>4 DEF Samd!Next, Samd!Host, Samd!Isr

----------------------------------------------------------------------------
(***************************************************************************)
(* The ATmega32u4: the control endpoint                                    *)
(***************************************************************************)
AvrEp0 ==
  [request : AllRequests, from : Nat, len : Nat, outlen : Int, pending : BOOLEAN, address : {0, 1},
   received : ControlPacket, sending : ControlPacket,
   rxstpi : BOOLEAN, rxouti : BOOLEAN, txine : BOOLEAN]

AvrAnswers(c, e) ==
  LET left == Answer(c.request) - c.total
  IN  /\ e.request = c.request
      /\ \/ e.sending = Avr!NoPacket /\ e.from = c.total /\ e.len = left
         \/ /\ e.sending.request = c.request /\ e.sending.from = c.total /\ e.sending.bytes = Part(left)
            /\ e.from = c.total + Part(left) /\ e.len = left - Part(left)

\* Between requests the device may send what it likes: the controller forgets
\* it when the next one begins.
AvrFits(c, e) ==
  /\ e \in AvrEp0
  /\ c.stage \in {"idle", "status_out"} => ~e.rxstpi
  /\ e.rxstpi =>
       /\ e.sending = Avr!NoPacket /\ e.received.request = c.request /\ e.received.bytes = 8
       /\ c.total = 0 /\ c.stage = Opening(c.request)
  /\ ~e.rxstpi =>
       /\ c.stage = "in" => ~e.rxouti /\ AvrAnswers(c, e)
       /\ c.stage \in {"out", "status_in"} => e.len = 0 /\ (e.sending = Avr!NoPacket \/ e.sending.bytes = 0)

LEMMA AvrFlushIs ==
  ASSUME NEW e \in AvrEp0
  PROVE  LET f == Avr!Ep0Flush(e)
             n == Part(e.len)
         IN  /\ f \in AvrEp0
             /\ e.sending # Avr!NoPacket => f = e
             /\ e.sending = Avr!NoPacket =>
                  /\ f.sending.request = e.request /\ f.sending.from = e.from /\ f.sending.bytes = n
                  /\ f.from = e.from + n /\ f.len = e.len - n
             /\ f.request = e.request /\ f.rxstpi = e.rxstpi /\ f.rxouti = e.rxouti
<1> DEFINE n == Part(e.len)
           p == [request |-> e.request, from |-> e.from, bytes |-> n]
           pending == e.pending /\ ~(n = e.len /\ n # Avr!ControlSize)
           f == Avr!Ep0Flush(e)
<1>1. e.len \in Nat /\ e.from \in Nat /\ e.request \in AllRequests /\ e.pending \in BOOLEAN
  BY DEF AvrEp0
<1>2. n \in 0..32 /\ n <= e.len
  BY <1>1 DEF Part, Least
<1>3. Avr!Min({e.len, Avr!ControlSize}) = n
  <2>1. e.len \in Int /\ 32 \in Int
    BY <1>1
  <2>2. Avr!Min({e.len, 32}) = Least(e.len, 32)
    BY <2>1, MinIs, Zenon
  <2> QED
    BY <2>2, SameHost, Zenon DEF Part
<1> HIDE DEF n
<1>4. p \in ControlPacket /\ p.request = e.request /\ p.from = e.from /\ p.bytes = n
  BY <1>1, <1>2 DEF ControlPacket
<1>5. pending \in BOOLEAN /\ e.len - n \in Nat /\ e.from + n \in Nat
  BY <1>1, <1>2
<1>6. e.sending # Avr!NoPacket => f = e
  BY DEF Avr!Ep0Flush, Avr!CanSend
<1>7. e.sending = Avr!NoPacket =>
        f = [e EXCEPT !.len = e.len - n, !.from = e.from + n, !.pending = pending, !.sending = p]
  BY <1>3 DEF Avr!Ep0Flush, Avr!CanSend
<1> HIDE DEF f, p, pending
<1>8. e.sending # Avr!NoPacket => f = e /\ f \in AvrEp0
  BY <1>6
<1>9. ASSUME e.sending = Avr!NoPacket
      PROVE  /\ f \in AvrEp0
             /\ f.sending.request = e.request /\ f.sending.from = e.from /\ f.sending.bytes = n
             /\ f.from = e.from + n /\ f.len = e.len - n
             /\ f.request = e.request /\ f.rxstpi = e.rxstpi /\ f.rxouti = e.rxouti
  <2>1. f \in AvrEp0
    BY <1>4, <1>5, <1>7, <1>9 DEF AvrEp0
  <2>2. /\ f.sending = p /\ f.from = e.from + n /\ f.len = e.len - n
        /\ f.request = e.request /\ f.rxstpi = e.rxstpi /\ f.rxouti = e.rxouti
    BY <1>7, <1>9 DEF AvrEp0
  <2>3. f.sending.request = e.request /\ f.sending.from = e.from /\ f.sending.bytes = n
    BY <1>4, <2>2
  <2> QED
    BY <2>1, <2>2, <2>3
<1>10. /\ f \in AvrEp0
       /\ e.sending # Avr!NoPacket => f = e
       /\ e.sending = Avr!NoPacket =>
            /\ f.sending.request = e.request /\ f.sending.from = e.from /\ f.sending.bytes = n
            /\ f.from = e.from + n /\ f.len = e.len - n
       /\ f.request = e.request /\ f.rxstpi = e.rxstpi /\ f.rxouti = e.rxouti
  BY <1>8, <1>9
<1> QED
  BY <1>10 DEF f, n

LEMMA AvrFillIs ==
  ASSUME NEW e \in AvrEp0, NEW n \in Int
  PROVE  LET f == Avr!Ep0Fill(e, n)
         IN  /\ f \in AvrEp0 /\ ~f.rxstpi /\ ~f.rxouti
             /\ f.request = e.request /\ f.from = e.from /\ f.len = e.len /\ f.sending = e.sending
<1> DEFINE m == e.outlen - Avr!Min({e.outlen, n})
           f == Avr!Ep0Fill(e, n)
<1>1. m \in Int
  <2>1. e.outlen \in Int /\ n \in Int
    BY DEF AvrEp0
  <2>2. Avr!Min({e.outlen, n}) = Least(e.outlen, n)
    BY <2>1, MinIs, Zenon
  <2> QED
    BY <2>1, <2>2 DEF Least
<1>2. f = [e EXCEPT !.outlen = m, !.received = Avr!NoPacket, !.rxstpi = FALSE, !.rxouti = FALSE]
  BY DEF Avr!Ep0Fill
<1> HIDE DEF f, m
<1>3. f \in AvrEp0
  BY <1>1, <1>2, NoPacketIs DEF AvrEp0
<1>4. /\ ~f.rxstpi /\ ~f.rxouti /\ f.request = e.request /\ f.from = e.from /\ f.len = e.len
      /\ f.sending = e.sending
  BY <1>2 DEF AvrEp0
<1> QED
  BY <1>3, <1>4 DEF f

LEMMA AvrSetupIs ==
  ASSUME NEW e \in AvrEp0, NEW r \in AllRequests, e.received.request = r
  PROVE  LET f == Avr!Ep0Setup(e)
         IN  /\ f \in AvrEp0 /\ ~f.rxstpi /\ ~f.rxouti /\ f.sending = e.sending
             /\ f.request = r /\ f.from = 0 /\ f.len = Answer(r)
<1> DEFINE answers == r.dir = "in" \/ r.length = 0
           e8 == [e EXCEPT !.outlen = 8]
           filled == Avr!Ep0Fill(e8, 8)
           len == IF answers THEN Answer(r) ELSE Available(r)
           pending == filled.pending \/ answers
           address == IF r.name = "address" THEN 1 ELSE filled.address
           outlen == IF r.name = "set_coding" THEN 7 ELSE filled.outlen
           f == [filled EXCEPT !.request = r, !.from = 0, !.len = len, !.pending = pending,
                               !.address = address, !.outlen = outlen]
<1>1. e8 \in AvrEp0 /\ e8.sending = e.sending
  BY DEF AvrEp0
<1> HIDE DEF e8
<1>2. filled \in AvrEp0 /\ ~filled.rxstpi /\ ~filled.rxouti /\ filled.sending = e.sending
  <2>1. 8 \in Int
    OBVIOUS
  <2> QED
    BY <1>1, <2>1, AvrFillIs
<1>3. Avr!Ep0Setup(e) = f
  BY SameHost, Zenon DEF Avr!Ep0Setup, e8
<1> HIDE DEF filled
<1>4. len = Answer(r) /\ len \in Nat
  BY RequestIs
<1>5. pending \in BOOLEAN /\ address \in {0, 1} /\ outlen \in Int
  BY <1>2 DEF AvrEp0
<1> DEFINE z == 0
<1>6. z \in Nat /\ f = [filled EXCEPT !.request = r, !.from = z, !.len = len, !.pending = pending,
                                      !.address = address, !.outlen = outlen]
  OBVIOUS
<1> HIDE DEF len, pending, address, outlen, f, z
<1>7. f \in AvrEp0
  BY <1>2, <1>4, <1>5, <1>6 DEF AvrEp0
<1>8. f.request = r /\ f.from = z /\ f.len = len /\ f.sending = e.sending /\ ~f.rxstpi /\ ~f.rxouti
  BY <1>2, <1>6 DEF AvrEp0
<1> QED
  BY <1>3, <1>4, <1>7, <1>8 DEF z

LEMMA AvrDataIs ==
  ASSUME NEW e \in AvrEp0
  PROVE  LET f == Avr!Ep0Data(e)
         IN  /\ f \in AvrEp0 /\ ~f.rxstpi /\ ~f.rxouti
             /\ f.request = e.request /\ f.from = e.from /\ f.len = e.len /\ f.sending = e.sending
<1> DEFINE n == IF e.received = Avr!NoPacket THEN 0 ELSE e.received.bytes
           g == Avr!Ep0Fill(e, n)
<1>1. n \in Int
  BY DEF AvrEp0, ControlPacket
<1> HIDE DEF n
<1>2. /\ g \in AvrEp0 /\ ~g.rxstpi /\ ~g.rxouti
      /\ g.request = e.request /\ g.from = e.from /\ g.len = e.len /\ g.sending = e.sending
  BY <1>1, AvrFillIs
<1>3. Avr!Ep0Data(e) = [g EXCEPT !.pending = TRUE]
  BY Zenon DEF Avr!Ep0Data, n
<1> HIDE DEF g
<1> QED
  BY <1>2, <1>3 DEF AvrEp0

\* What the handler does when the flags it has seen are dealt with
AvrEnd(e2, due) ==
  LET e3 == IF due THEN [e2 EXCEPT !.address = 0] ELSE e2
  IN  [(IF e3.pending THEN Avr!Ep0Flush(e3) ELSE e3) EXCEPT !.txine = e3.pending]

LEMMA AvrEndIs ==
  ASSUME NEW e \in AvrEp0, NEW due \in BOOLEAN
  PROVE  LET h == AvrEnd(e, due)
             n == Part(e.len)
         IN  /\ h \in AvrEp0
             /\ h.request = e.request /\ h.rxstpi = e.rxstpi /\ h.rxouti = e.rxouti
             /\ \/ h.from = e.from /\ h.len = e.len /\ h.sending = e.sending
                \/ /\ e.sending = Avr!NoPacket
                   /\ h.sending.request = e.request /\ h.sending.from = e.from /\ h.sending.bytes = n
                   /\ h.from = e.from + n /\ h.len = e.len - n
<1> DEFINE e3 == IF due THEN [e EXCEPT !.address = 0] ELSE e
           g == IF e3.pending THEN Avr!Ep0Flush(e3) ELSE e3
           h == AvrEnd(e, due)
           n == Part(e.len)
<1>1. /\ e3 \in AvrEp0
      /\ e3.request = e.request /\ e3.from = e.from /\ e3.len = e.len /\ e3.sending = e.sending
      /\ e3.rxstpi = e.rxstpi /\ e3.rxouti = e.rxouti
  BY DEF AvrEp0
<1>2. h = [g EXCEPT !.txine = e3.pending]
  BY Zenon DEF AvrEnd
<1> HIDE DEF h, e3
<1>3. e3.pending \in BOOLEAN
  BY <1>1 DEF AvrEp0
<1>4. /\ g \in AvrEp0
      /\ g.request = e.request /\ g.rxstpi = e.rxstpi /\ g.rxouti = e.rxouti
      /\ \/ g.from = e.from /\ g.len = e.len /\ g.sending = e.sending
         \/ /\ e.sending = Avr!NoPacket
            /\ g.sending.request = e.request /\ g.sending.from = e.from /\ g.sending.bytes = n
            /\ g.from = e.from + n /\ g.len = e.len - n
  BY <1>1, AvrFlushIs
<1> HIDE DEF g, n
<1>5. h \in AvrEp0
  BY <1>2, <1>3, <1>4 DEF AvrEp0
<1>6. /\ h.request = g.request /\ h.from = g.from /\ h.len = g.len /\ h.sending = g.sending
      /\ h.rxstpi = g.rxstpi /\ h.rxouti = g.rxouti
  BY <1>2, <1>4 DEF AvrEp0
<1>7. /\ h \in AvrEp0
      /\ h.request = e.request /\ h.rxstpi = e.rxstpi /\ h.rxouti = e.rxouti
      /\ \/ h.from = e.from /\ h.len = e.len /\ h.sending = e.sending
         \/ /\ e.sending = Avr!NoPacket
            /\ h.sending.request = e.request /\ h.sending.from = e.from /\ h.sending.bytes = n
            /\ h.from = e.from + n /\ h.len = e.len - n
  BY <1>4, <1>5, <1>6
<1> QED
  BY <1>7 DEF h, n

LEMMA AvrHandles ==
  ASSUME NEW c, NEW e, HostFits(c), AvrFits(c, e)
  PROVE  AvrFits(c, Avr!Ep0Handle(e)) /\ ~Avr!Ep0Handle(e).rxstpi
<1> DEFINE e1 == IF e.rxstpi THEN Avr!Ep0Setup(e) ELSE e
           e2 == IF e.rxouti THEN Avr!Ep0Data(e1) ELSE e1
           due == Avr!AddressDue([e2 EXCEPT !.sending = e.sending])
           r == c.request
           h == AvrEnd(e2, due)
<1>1. e \in AvrEp0 /\ c.stage \in Stages /\ r \in AllRequests /\ e.rxstpi \in BOOLEAN
  BY DEF AvrFits, AvrEp0, HostFits, Control
<1>2. /\ e1 \in AvrEp0 /\ ~e1.rxstpi /\ e1.sending = e.sending
      /\ e.rxstpi => e1.request = r /\ e1.from = 0 /\ e1.len = Answer(r) /\ ~e1.rxouti
      /\ ~e.rxstpi => e1 = e
  <2>1. CASE e.rxstpi
    <3>1. e.received.request = r
      BY <2>1 DEF AvrFits
    <3> QED
      BY <1>1, <2>1, <3>1, AvrSetupIs
  <2>2. CASE ~e.rxstpi
    BY <1>1, <2>2
  <2> QED
    BY <2>1, <2>2
<1> HIDE DEF e1
<1>3. /\ e2 \in AvrEp0 /\ ~e2.rxstpi /\ e2.sending = e.sending /\ ~e2.rxouti
      /\ e2.request = e1.request /\ e2.from = e1.from /\ e2.len = e1.len
  <2>1. CASE e.rxouti
    BY <1>2, <2>1, AvrDataIs
  <2>2. CASE ~e.rxouti
    BY <1>2, <2>2
  <2> QED
    BY <2>1, <2>2
<1> HIDE DEF e2
<1>4. due \in BOOLEAN
  BY DEF Avr!AddressDue
<1>5. Avr!Ep0Handle(e) = h
  BY Zenon DEF Avr!Ep0Handle, AvrEnd, e1, e2
<1> HIDE DEF due
<1> DEFINE n == Part(e2.len)
<1>6. /\ h \in AvrEp0 /\ ~h.rxstpi /\ ~h.rxouti /\ h.request = e2.request
      /\ \/ h.from = e2.from /\ h.len = e2.len /\ h.sending = e2.sending
         \/ /\ e2.sending = Avr!NoPacket
            /\ h.sending.request = e2.request /\ h.sending.from = e2.from /\ h.sending.bytes = n
            /\ h.from = e2.from + n /\ h.len = e2.len - n
  BY <1>3, <1>4, AvrEndIs
<1> HIDE DEF h
<1>7. /\ r.dir \in {"in", "out"} /\ (r.dir = "out" => Answer(r) = 0) /\ Answer(r) \in Nat
      /\ r.dir = "in" => r.length # 0
  BY <1>1, RequestIs
<1>8. ASSUME c.stage = "in" PROVE AvrAnswers(c, h)
  <2> DEFINE left == Answer(r) - c.total
  <2>1. /\ e2.request = r
        /\ \/ e2.sending = Avr!NoPacket /\ e2.from = c.total /\ e2.len = left
           \/ /\ e2.sending.request = r /\ e2.sending.from = c.total /\ e2.sending.bytes = Part(left)
              /\ e2.from = c.total + Part(left) /\ e2.len = left - Part(left)
              /\ e2.sending # Avr!NoPacket
    <3>1. CASE e.rxstpi
      <4>1. e.sending = Avr!NoPacket /\ c.total = 0
        BY <3>1 DEF AvrFits
      <4>2. Answer(r) = left
        BY <1>7, <4>1
      <4> QED
        BY <1>2, <1>3, <3>1, <4>1, <4>2
    <3>2. CASE ~e.rxstpi
      <4>1. AvrAnswers(c, e) /\ e1 = e
        BY <1>2, <1>8, <3>2 DEF AvrFits
      <4>2. Part(left) # -1
        <5>1. c.total \in {0, 32, 64} /\ c.total < Answer(r)
          BY <1>8 DEF HostFits
        <5> QED
          BY <1>7, <5>1 DEF Part, Least
      <4> HIDE DEF left
      <4>3. AvrAnswers(c, e2)
        BY <1>3, <4>1 DEF AvrAnswers
      <4> QED
        BY <4>2, <4>3, NoPacketIs DEF AvrAnswers, left
    <3> QED
      BY <1>1, <3>1, <3>2
  <2> HIDE DEF left, r
  <2> QED
    BY <1>6, <2>1 DEF AvrAnswers, left, n, r
<1>9. ASSUME c.stage \in {"out", "status_in"} PROVE h.len = 0 /\ (h.sending = Avr!NoPacket \/ h.sending.bytes = 0)
  <2>1. e2.len = 0 /\ (e2.sending = Avr!NoPacket \/ e2.sending.bytes = 0)
    <3>1. CASE e.rxstpi
      <4>1. e.sending = Avr!NoPacket
        BY <3>1 DEF AvrFits
      <4>2. r.dir = "out"
        BY <1>9 DEF HostFits
      <4> QED
        BY <1>2, <1>3, <1>7, <3>1, <4>1, <4>2
    <3>2. CASE ~e.rxstpi
      BY <1>2, <1>3, <1>9, <3>2 DEF AvrFits
    <3> QED
      BY <1>1, <3>1, <3>2
  <2>2. n = 0 /\ 0 - 0 = 0
    BY <2>1 DEF Part, Least
  <2> QED
    BY <1>6, <2>1, <2>2
<1> HIDE DEF n
<1>10. AvrFits(c, h) /\ ~h.rxstpi
  BY <1>6, <1>8, <1>9 DEF AvrFits
<1> QED
  BY <1>5, <1>10


AvrControl == HostFits(control) /\ AvrFits(control, ep0)

LEMMA AvrSetupFits ==
  ASSUME AvrControl, Avr!Setup
  PROVE  AvrControl'
<1>1. PICK r \in Wanted(control) :
        /\ control' = Asks(control, r)
        /\ ep0' = [ep0 EXCEPT !.received = [request |-> r, from |-> 0, bytes |-> 8],
                              !.rxstpi = TRUE, !.sending = Avr!NoPacket]
  BY SameHost DEF Avr!Setup
<1>2. /\ HostFits(control') /\ control'.request = r /\ control'.total = 0
      /\ control'.stage = Opening(r) /\ r \in AllRequests
  BY <1>1, AsksFits, WantedAre DEF AvrControl
<1> DEFINE p == [request |-> r, from |-> 0, bytes |-> 8]
<1>3. p \in ControlPacket /\ p.request = r /\ p.bytes = 8
  BY <1>2 DEF ControlPacket
<1> HIDE DEF p
<1>4. ep0 \in AvrEp0 /\ ep0' = [ep0 EXCEPT !.received = p, !.rxstpi = TRUE, !.sending = Avr!NoPacket]
  BY <1>1 DEF p, AvrControl, AvrFits
<1>5. ep0' \in AvrEp0 /\ ep0'.sending = Avr!NoPacket /\ ep0'.received = p /\ ep0'.rxstpi
  BY <1>3, <1>4, NoPacketIs DEF AvrEp0
<1>6. control'.stage \notin {"idle", "status_out"}
  BY <1>2, RequestIs DEF Opening
<1>7. AvrFits(control', ep0')
  BY <1>2, <1>3, <1>5, <1>6 DEF AvrFits
<1> QED
  BY <1>2, <1>7 DEF AvrControl

LEMMA AvrControlInFits ==
  ASSUME AvrControl, Avr!ControlIn
  PROVE  AvrControl'
<1> DEFINE c == control
           p == ep0.sending
<1>1. /\ c.stage \in {"in", "status_in"} /\ p # Avr!NoPacket
      /\ control' = TakesControl(c, p.request, p.from, p.bytes)
      /\ ep0' = [ep0 EXCEPT !.sending = Avr!NoPacket]
  BY SameHost DEF Avr!ControlIn
<1>2. HostFits(c) /\ AvrFits(c, ep0) /\ ep0 \in AvrEp0
  BY DEF AvrControl, AvrFits
<1>3. ~ep0.rxstpi
  BY <1>1, <1>2 DEF AvrFits
<1>4. /\ ep0' \in AvrEp0 /\ ep0'.sending = Avr!NoPacket /\ ~ep0'.rxstpi /\ ep0'.rxouti = ep0.rxouti
      /\ ep0'.request = ep0.request /\ ep0'.from = ep0.from /\ ep0'.len = ep0.len
  BY <1>1, <1>2, <1>3, NoPacketIs DEF AvrEp0
<1>5. CASE c.stage = "in"
  <2> DEFINE left == Answer(c.request) - c.total
             n == Part(left)
  <2>1. AvrAnswers(c, ep0) /\ ~ep0.rxouti
    BY <1>2, <1>3, <1>5 DEF AvrFits
  <2>2. /\ ep0.request = c.request /\ p.request = c.request /\ p.from = c.total /\ p.bytes = n
        /\ ep0.from = c.total + n /\ ep0.len = left - n
    BY <1>1, <2>1 DEF AvrAnswers
  <2>3. control' = TakesControl(c, c.request, c.total, n)
    BY <1>1, <2>2
  <2>4. /\ HostFits(control') /\ control'.request = c.request /\ control'.total = c.total + n
        /\ control'.stage = IF n = 32 THEN "in" ELSE "status_out"
    <3> HIDE DEF c, n
    <3>1. n = Part(Answer(c.request) - c.total)
      BY DEF n
    <3> QED
      BY <1>2, <1>5, <2>3, <3>1, TakesAnswer
  <2>5. left - n = Answer(c.request) - (c.total + n)
    <3>1. c.total \in {0, 32, 64} /\ c.request \in AllRequests
      BY <1>2, <1>5 DEF HostFits, Control
    <3>2. Answer(c.request) \in Int
      BY <3>1, RequestIs
    <3> QED
      BY <3>1, <3>2 DEF Part, Least
  <2> HIDE DEF n, left
  <2>6. control'.stage = "in" => AvrAnswers(control', ep0')
    BY <1>4, <2>2, <2>4, <2>5 DEF AvrAnswers
  <2>7. AvrFits(control', ep0')
    BY <1>4, <2>1, <2>4, <2>6 DEF AvrFits
  <2> QED
    BY <2>4, <2>7 DEF AvrControl
<1>6. CASE c.stage = "status_in"
  <2>1. p.bytes = 0
    BY <1>1, <1>2, <1>3, <1>6 DEF AvrFits
  <2>2. HostFits(control') /\ control'.stage = "idle"
    BY <1>1, <1>2, <1>6, <2>1, TakesStatus
  <2>3. AvrFits(control', ep0')
    BY <1>4, <2>2 DEF AvrFits
  <2> QED
    BY <2>2, <2>3 DEF AvrControl
<1> QED
  BY <1>1, <1>5, <1>6

LEMMA AvrControlOutFits ==
  ASSUME AvrControl, Avr!ControlOut
  PROVE  AvrControl'
<1> DEFINE c == control
           p == [request |-> c.request, from |-> c.total, bytes |-> GivesControl(c).total - c.total]
<1>1. /\ c.stage \in {"out", "status_out"} /\ control' = GivesControl(c)
      /\ ep0' = [ep0 EXCEPT !.rxouti = TRUE, !.received = p]
  BY SameHost DEF Avr!ControlOut
<1>2. HostFits(c) /\ AvrFits(c, ep0) /\ ep0 \in AvrEp0 /\ c.request \in AllRequests /\ c.total \in Nat
  BY DEF AvrControl, AvrFits, HostFits, Control
<1>3. /\ HostFits(control') /\ control'.stage = IF c.stage = "out" THEN "status_in" ELSE "idle"
      /\ control'.total - c.total \in Nat
  BY <1>1, <1>2, GivesFits
<1>4. p \in ControlPacket
  BY <1>1, <1>2, <1>3 DEF ControlPacket
<1> HIDE DEF p
<1>5. /\ ep0' \in AvrEp0 /\ ep0'.rxstpi = ep0.rxstpi /\ ep0'.len = ep0.len /\ ep0'.sending = ep0.sending
  BY <1>1, <1>2, <1>4 DEF AvrEp0
<1>6. ~ep0.rxstpi
  <2>1. ep0.received = Avr!NoPacket
    BY DEF Avr!ControlOut
  <2> QED
    BY <1>2, <2>1, NoPacketIs DEF AvrFits
<1>7. AvrFits(control', ep0')
  BY <1>1, <1>2, <1>3, <1>5, <1>6 DEF AvrFits
<1> QED
  BY <1>3, <1>7 DEF AvrControl

LEMMA AvrResetsFit ==
  ASSUME AvrControl
  PROVE  /\ Avr!Reset => AvrControl'
         /\ Avr!IsrReset => AvrControl'
         /\ Avr!IsrControl => AvrControl'
<1>1. HostFits(control) /\ AvrFits(control, ep0) /\ ep0 \in AvrEp0 /\ control \in Control
  BY DEF AvrControl, AvrFits, HostFits
<1>2. ASSUME Avr!Reset PROVE AvrControl'
  <2> DEFINE z == 0
  <2>1. /\ control' = [Start EXCEPT !.wrong = control.wrong, !.asked = control.asked]
        /\ ep0' = [ep0 EXCEPT !.received = Avr!NoPacket, !.sending = Avr!NoPacket,
                              !.rxstpi = FALSE, !.rxouti = FALSE, !.txine = FALSE]
    BY <1>2, SameRequests DEF Avr!Reset, Avr!HostResets, Avr!Start, Start
  <2>2. Start \in Control /\ Start.stage = "idle"
    BY DEF Start, Control, Stages, AllRequests
  <2> HIDE DEF z
  <2>3. control' \in Control /\ control'.stage = "idle" /\ control'.wrong = control.wrong
    BY <1>1, <2>1, <2>2 DEF Control
  <2>4. HostFits(control')
    BY <1>1, <2>3 DEF HostFits
  <2>5. ep0' \in AvrEp0 /\ ~ep0'.rxstpi
    BY <1>1, <2>1, NoPacketIs DEF AvrEp0
  <2>6. AvrFits(control', ep0')
    BY <2>3, <2>5 DEF AvrFits
  <2> QED
    BY <2>4, <2>6 DEF AvrControl
<1>3. ASSUME Avr!IsrReset PROVE AvrControl'
  <2> DEFINE z == 0
  <2>1. control' = control /\ ep0' = [ep0 EXCEPT !.address = z, !.pending = FALSE, !.txine = FALSE]
    BY <1>3 DEF Avr!IsrReset, Avr!hostVars
  <2>2. z \in {0, 1}
    OBVIOUS
  <2> HIDE DEF z
  <2>3. /\ ep0' \in AvrEp0 /\ ep0'.request = ep0.request /\ ep0'.from = ep0.from /\ ep0'.len = ep0.len
        /\ ep0'.received = ep0.received /\ ep0'.sending = ep0.sending
        /\ ep0'.rxstpi = ep0.rxstpi /\ ep0'.rxouti = ep0.rxouti
    BY <1>1, <2>1, <2>2 DEF AvrEp0
  <2>4. AvrFits(control, ep0')
    BY <1>1, <2>3 DEF AvrFits, AvrAnswers
  <2> QED
    BY <1>1, <2>1, <2>4 DEF AvrControl
<1>4. ASSUME Avr!IsrControl PROVE AvrControl'
  <2>1. control' = control /\ ep0' = Avr!Ep0Handle(ep0)
    BY <1>4 DEF Avr!IsrControl, Avr!hostVars
  <2> QED
    BY <1>1, <2>1, AvrHandles DEF AvrControl
<1> QED
  BY <1>2, <1>3, <1>4

LEMMA AvrControlKept ==
  ASSUME AvrControl, Avr!Next
  PROVE  AvrControl'
<1>1. CASE UNCHANGED <<control, ep0>>
  BY <1>1 DEF AvrControl
<1>2. CASE Avr!Program \/ Avr!Begins \/ Avr!Getc \/ Avr!Check
  BY <1>1, <1>2 DEF Avr!Program, Avr!Insert, Avr!Flush, Avr!InWait, Avr!Enters, Avr!Begins, Avr!Getc,
       Avr!Check, Avr!CheckFull, Avr!CheckTakes, Avr!CheckLooks, Avr!CheckAcks, Avr!hostVars, Avr!deviceVars
<1>3. CASE Avr!Poll \/ Avr!Type \/ Avr!IsrIn \/ Avr!IsrOut
  BY <1>1, <1>3 DEF Avr!Poll, Avr!Takes, Avr!Type, Avr!Gives, Avr!IsrIn, Avr!IsrOut, Avr!hostVars
<1>4. CASE Avr!Setup \/ Avr!ControlIn \/ Avr!ControlOut \/ Avr!Reset \/ Avr!IsrControl \/ Avr!IsrReset
  BY <1>4, AvrSetupFits, AvrControlInFits, AvrControlOutFits, AvrResetsFit
<1> QED
  BY <1>2, <1>3, <1>4 DEF Avr!Next, Avr!Host, Avr!Isr

----------------------------------------------------------------------------
(***************************************************************************)
(* Every answer is right                                                   *)
(***************************************************************************)
\* One device is in use, and it stays the same.
ControlInv ==
  /\ plan.chip \in {"samd21", "avr"}
  /\ plan.chip = "samd21" => SamdControl
  /\ plan.chip = "avr" => AvrControl

LEMMA PlanKept == [Next]_vars => plan' = plan
<1>1. CASE UNCHANGED vars
  BY <1>1 DEF vars, Samd!vars, Samd!hostVars
<1>2. CASE Samd!Next
  BY <1>2 DEF Samd!Next, Samd!Program, Samd!Insert, Samd!Flush, Samd!Begins, Samd!Getc, Samd!Host, Samd!Poll,
       Samd!Takes, Samd!Setup, Samd!ControlIn, Samd!ControlOut, Samd!Type, Samd!Gives, Samd!Reset,
       Samd!HostResets, Samd!Isr, Samd!IsrIn, Samd!IsrOut, Samd!IsrControl, Samd!IsrReset, Samd!hostVars
<1>3. CASE Avr!Next
  BY <1>3 DEF Avr!Next, Avr!Program, Avr!Insert, Avr!Flush, Avr!InWait, Avr!Enters, Avr!Begins, Avr!Getc,
       Avr!Check, Avr!CheckFull, Avr!CheckTakes, Avr!CheckLooks, Avr!CheckAcks, Avr!Host, Avr!Poll,
       Avr!Takes, Avr!Setup, Avr!ControlIn, Avr!ControlOut, Avr!Type, Avr!Gives, Avr!Reset,
       Avr!HostResets, Avr!Isr, Avr!IsrIn, Avr!IsrOut, Avr!IsrControl, Avr!IsrReset, Avr!hostVars
<1> QED
  BY <1>1, <1>2, <1>3 DEF Next

LEMMA StartFits == HostFits(Start) /\ Start.stage = "idle" /\ ~Start.configured
<1> DEFINE z == 0
<1>1. Start = [stage |-> "idle", request |-> NoRequest, total |-> z, asked |-> z, wrong |-> FALSE,
               address |-> z, configured |-> FALSE]
  BY DEF Start
<1>2. z \in Nat /\ z \in {0, 1}
  OBVIOUS
<1> HIDE DEF z
<1> QED
  BY <1>1, <1>2 DEF HostFits, Control, Stages, AllRequests

LEMMA ControlBegins == Init => ControlInv
<1>1. Samd!Start = Start /\ Avr!Start = Start
  BY SameRequests DEF Start, Samd!Start, Avr!Start
<1> DEFINE z == 0
<1>2. z \in Nat /\ z \in Int /\ z \in {0, 1} /\ NoRequest \in AllRequests
  BY DEF AllRequests
<1>3. ASSUME Samd!Init PROVE ControlInv
  <2>1. control = Start /\ plan.chip = "samd21" /\ eorst = FALSE
        /\ ep0 = [state |-> "idle", request |-> NoRequest, from |-> z, len |-> z, outlen |-> z,
                  pending |-> FALSE, bank0 |-> Samd!NoPacket, bank1 |-> Samd!NoPacket, flags |-> {}]
    BY <1>1, <1>3, SameRequests DEF Samd!Init, Samd!HostInit, Samd!Here
  <2> HIDE DEF z
  <2>2. ep0 \in SamdEp0 /\ ep0.bank1 = Samd!NoPacket /\ ep0.flags = {} /\ ep0.state = "idle"
    BY <1>2, <2>1, NoPacketIs DEF SamdEp0
  <2>3. SamdFits(control, ep0, eorst)
    BY <2>1, <2>2, StartFits DEF SamdFits
  <2> QED
    BY <2>1, <2>3, StartFits DEF ControlInv, SamdControl
<1>4. ASSUME Avr!Init PROVE ControlInv
  <2>1. control = Start /\ plan.chip = "avr"
        /\ ep0 = [request |-> NoRequest, from |-> z, len |-> z, outlen |-> z, pending |-> FALSE,
                  address |-> z, received |-> Avr!NoPacket, sending |-> Avr!NoPacket,
                  rxstpi |-> FALSE, rxouti |-> FALSE, txine |-> FALSE]
    BY <1>1, <1>4, SameRequests DEF Avr!Init, Avr!HostInit, Avr!Here
  <2> HIDE DEF z
  <2>2. ep0 \in AvrEp0 /\ ~ep0.rxstpi
    BY <1>2, <2>1, NoPacketIs DEF AvrEp0
  <2>3. AvrFits(control, ep0)
    BY <2>1, <2>2, StartFits DEF AvrFits
  <2> QED
    BY <2>1, <2>3, StartFits DEF ControlInv, AvrControl
<1> QED
  BY <1>3, <1>4 DEF Init

LEMMA ControlKept == ControlInv /\ [Next]_vars => ControlInv'
<1> SUFFICES ASSUME ControlInv, [Next]_vars PROVE ControlInv'
  OBVIOUS
<1>1. plan' = plan
  BY PlanKept
<1>2. CASE UNCHANGED vars
  BY <1>2 DEF vars, Samd!vars, Samd!hostVars, Samd!deviceVars, ControlInv, SamdControl, AvrControl
<1>3. CASE Samd!Next
  BY <1>1, <1>3, SamdControlKept DEF Samd!Next, Samd!Here, ControlInv
<1>4. CASE Avr!Next
  BY <1>1, <1>4, AvrControlKept DEF Avr!Next, Avr!Here, ControlInv
<1> QED
  BY <1>2, <1>3, <1>4 DEF Next

\* Whatever the host asks for and however often it resets the bus, each packet
\* of an answer is one of the request that was made last, it begins where the
\* packet before it ended, and the answer ends where it should
\* (ao_usb_ep0_setup, ao_usb_ep0_flush, _ao_usb_ep0_handle).
THEOREM AnswersAreRightHolds == Spec => []AnswersAreRight
<1>1. ControlInv => AnswersAreRight
  BY DEF ControlInv, SamdControl, AvrControl, HostFits, AnswersAreRight
<1> QED
  BY <1>1, ControlBegins, ControlKept, PTL DEF Spec

----------------------------------------------------------------------------
(***************************************************************************)
(* The bytes in each direction                                             *)
(***************************************************************************)
\* The first n of f are the bytes that follow the first k.
Bytes(f, n, k) == \A i \in 1..n : f[i] = k + i

\* What is printed, while nobody has reset the bus
Put == written \in Nat /\ got \in Seq(Nat) /\ Bytes(got, Len(got), 0)

\* Bytes that arrive in order: n are sent, and none is missing before the
\* first reset.
Ordered(s, n, reset) ==
  /\ \A i \in 1..Len(s) : s[i] <= n
  /\ \A i, j \in 1..Len(s) : i < j => s[i] < s[j]
  /\ reset = 0 => Len(s) = n /\ Bytes(s, n, 0)

\* What the program has read, what waits for it and what the device has of the
\* host in its banks, w
Typed(w) ==
  /\ read \in Seq(Nat) /\ fifo \in Seq(Nat) /\ w \in Seq(Nat)
  /\ Ordered((read \o fifo) \o w, sent, resets)

\* Bytes come when the device is configured, and it is configured once before
\* the first reset.
Traffic ==
  /\ sent \in Nat /\ resets \in Nat
  /\ resets = 0 /\ ~control.configured => sent = 0

----------------------------------------------------------------------------
(***************************************************************************)
(* The samd21: what is printed                                             *)
(***************************************************************************)
SamdIn ==
  [which : Samd!Banks, count : 0..InSize, flushed : BOOLEAN, pending : SUBSET Samd!Banks,
   buffer : [Samd!Banks -> [1..InSize -> Nat]], length : [Samd!Banks -> 0..InSize],
   ready : SUBSET Samd!Banks, current : Samd!Banks, flags : SUBSET Samd!Banks]

\* Two banks: the program is in one of them, and what is in the other goes
\* first, unless the program waits with both on their way.  g bytes are gone,
\* n have been put.
SamdLined(i, g, n) ==
  LET w == i.which
      o == 1 - i.which
  IN  \/ /\ i.ready = {} /\ i.current = w
         /\ Bytes(i.buffer[w], i.count, g) /\ g + i.count = n
      \/ /\ i.ready = {o} /\ i.current = o
         /\ Bytes(i.buffer[o], i.length[o], g) /\ Bytes(i.buffer[w], i.count, g + i.length[o])
         /\ g + i.length[o] + i.count = n
      \/ /\ i.ready = {w, o} /\ i.current = w /\ i.count = 0
         /\ Bytes(i.buffer[w], i.length[w], g) /\ Bytes(i.buffer[o], i.length[o], g + i.length[w])
         /\ g + i.length[w] + i.length[o] = n

SamdHolds(i, g, n) ==
  /\ i \in SamdIn
  /\ i.ready \subseteq i.pending /\ i.flags \subseteq i.pending /\ i.ready \cap i.flags = {}
  /\ SamdLined(i, g, n)

\* A full bank is sent at once.
SamdSends(i, g, n) == SamdHolds(i, g, n) /\ i.count < InSize

\* The program has put nothing before somebody listens.
SamdSilent ==
  /\ job \in {<< >>, <<"putc">>, <<"newline">>, <<"flush">>}
  /\ written = 0 /\ in.count = 0 /\ in.ready = {} /\ in.flags = {}

SamdPrinted ==
  resets = 0 =>
    /\ Put /\ ~eorst
    /\ SamdSends(in, Len(got), written)
    /\ ~running => SamdSilent
    /\ ~control.configured => ~running /\ out.flags = {}

----------------------------------------------------------------------------
(***************************************************************************)
(* The samd21: what is typed                                               *)
(***************************************************************************)
SamdOut ==
  [which : Samd!Banks, avail : SUBSET Samd!Banks, buffer : [Samd!Banks -> Seq(Nat)],
   ready : SUBSET Samd!Banks, current : Samd!Banks, flags : SUBSET Samd!Banks]

Held(o) == o.avail \cup o.flags

First(o) == IF Samd!Turn(o) \in Held(o) THEN o.buffer[Samd!Turn(o)] ELSE << >>
Second(o) == IF o.which \in Held(o) THEN o.buffer[o.which] ELSE << >>

\* The banks are filled in turn.
SamdTakes(o) ==
  /\ o \in SamdOut
  /\ o.which \in Held(o) => Samd!Turn(o) \in Held(o)
  /\ o.which \in o.avail => Samd!Turn(o) \in o.avail
  /\ o.avail \cap o.flags = {}

\* The controller agrees with the device about the banks.
Live(o) ==
  /\ o.ready = Held(o)
  /\ o.current = IF Samd!Turn(o) \in Held(o) /\ o.which \notin Held(o) THEN o.which ELSE Samd!Turn(o)

\* The configuration has been handled.
SamdOpened ==
  control.configured \/
    (control.stage = "status_in" /\ control.request = SetConfiguration /\ "RXSTP" \notin ep0.flags)

SamdTyped ==
  /\ SamdTakes(out) /\ Typed(First(out) \o Second(out))
  /\ SamdOpened => Live(out)
  /\ ~control.configured => out.flags = {}

----------------------------------------------------------------------------
(***************************************************************************)
(* The ATmega32u4: what is printed and what is typed                       *)
(***************************************************************************)
\* The bank of the program, b, is behind those that wait, q.
AvrLined(b, q, g, n) ==
  /\ b \in Seq(Nat) /\ q \in Seq(Seq(Nat))
  /\ \/ /\ Len(q) = 0
        /\ Bytes(b, Len(b), g) /\ g + Len(b) = n
     \/ /\ Len(q) = 1
        /\ Bytes(q[1], Len(q[1]), g) /\ Bytes(b, Len(b), g + Len(q[1]))
        /\ g + Len(q[1]) + Len(b) = n
     \/ /\ Len(q) = 2
        /\ Bytes(q[1], Len(q[1]), g) /\ Bytes(q[2], Len(q[2]), g + Len(q[1]))
        /\ Bytes(b, Len(b), g + Len(q[1]) + Len(q[2]))
        /\ g + Len(q[1]) + Len(q[2]) + Len(b) = n

AvrIn ==
  [bank : Seq(Nat), ready : Seq(Seq(Nat)), on : BOOLEAN, txini : BOOLEAN, txine : BOOLEAN,
   flushed : BOOLEAN, asleep : BOOLEAN]

AvrOpened ==
  control.configured \/
    (control.stage = "status_in" /\ control.request = SetConfiguration /\ ~ep0.rxstpi)

AvrPrinted ==
  resets = 0 =>
    /\ Put /\ in \in AvrIn /\ AvrLined(in.bank, in.ready, Len(got), written)
    /\ ~in.on => written = 0 /\ in.bank = << >> /\ in.ready = << >>
    /\ in.on => AvrOpened

AvrOut ==
  [banks : Seq(Seq(Nat)), rxouti : BOOLEAN, rxoute : BOOLEAN, check : {"no", "look", "ack"}]

AvrWaiting(o) ==
  IF Len(o.banks) = 0 THEN << >>
  ELSE IF Len(o.banks) = 1 THEN o.banks[1]
  ELSE o.banks[1] \o o.banks[2]

AvrTyped ==
  /\ out \in AvrOut /\ Len(out.banks) <= 2
  /\ Typed(AvrWaiting(out))

\* The whole of it
Inv ==
  /\ plan \in Plans /\ ControlInv /\ Traffic
  /\ plan.chip = "samd21" => SamdPrinted /\ SamdTyped
  /\ plan.chip = "avr" => AvrPrinted /\ AvrTyped

----------------------------------------------------------------------------
(***************************************************************************)
(* The samd21: what is printed keeps its order                             *)
(***************************************************************************)
LEMMA BankIs ==
  ASSUME NEW w \in Samd!Banks
  PROVE  /\ w \in {0, 1} /\ 1 - w \in Samd!Banks /\ 1 - w # w /\ 1 - (1 - w) = w
         /\ \A b \in Samd!Banks : b = w \/ b = 1 - w
BY DEF Samd!Banks

LEMMA SamdSendIs ==
  ASSUME NEW i, NEW g \in Nat, NEW n \in Nat, SamdHolds(i, g, n), i.which \notin i.pending
  PROVE  SamdSends(Samd!InSend(i), g, n)
<1> DEFINE w == i.which
           o == 1 - w
           f == Samd!InSend(i)
           c == i.count
           z == 0
           pending == i.pending \cup {w}
           flushed == i.flushed \/ c # InSize
           length == [i.length EXCEPT ![w] = c]
           ready == i.ready \cup {w}
<1>1. /\ i \in SamdIn /\ i.ready \subseteq i.pending /\ i.flags \subseteq i.pending /\ i.ready \cap i.flags = {}
      /\ SamdLined(i, g, n)
  BY DEF SamdHolds
<1>2. /\ w \in Samd!Banks /\ c \in 0..InSize /\ c \in Nat /\ z \in 0..InSize /\ i.pending \in SUBSET Samd!Banks
      /\ i.flushed \in BOOLEAN /\ i.length \in [Samd!Banks -> 0..InSize] /\ i.ready \in SUBSET Samd!Banks
      /\ InSize \in Nat /\ z < InSize
  BY <1>1, SizesAssumption DEF SamdIn
<1>3. o \in Samd!Banks /\ o # w /\ 1 - o = w
  BY <1>2, BankIs
<1>4. f = [i EXCEPT !.pending = pending, !.flushed = flushed, !.length = length, !.ready = ready,
                    !.which = o, !.count = z]
  BY <1>1 DEF Samd!InSend, SamdIn
<1>5. /\ pending \in SUBSET Samd!Banks /\ flushed \in BOOLEAN /\ length \in [Samd!Banks -> 0..InSize]
      /\ ready \in SUBSET Samd!Banks /\ length[w] = c /\ length[o] = i.length[o]
  BY <1>2, <1>3
<1>6. \/ i.ready = {} /\ i.current = w /\ Bytes(i.buffer[w], c, g) /\ g + c = n
      \/ /\ i.ready = {o} /\ i.current = o
         /\ Bytes(i.buffer[o], i.length[o], g) /\ Bytes(i.buffer[w], c, g + i.length[o])
         /\ g + i.length[o] + c = n
  BY <1>1 DEF SamdLined, SamdHolds
<1> HIDE DEF f, z, pending, flushed, length, ready
<1>7. f \in SamdIn
  BY <1>1, <1>2, <1>3, <1>4, <1>5 DEF SamdIn
<1>8. /\ f.which = o /\ f.count = z /\ f.pending = pending /\ f.length = length /\ f.ready = ready
      /\ f.current = i.current /\ f.buffer = i.buffer /\ f.flags = i.flags
  BY <1>1, <1>4 DEF SamdIn
<1>9. f.ready \subseteq f.pending /\ f.flags \subseteq f.pending /\ f.ready \cap f.flags = {}
  BY <1>1, <1>8 DEF pending, ready
<1> HIDE DEF w, o, c
<1>10. i.length[o] \in Nat /\ g + c + 0 = g + c /\ g + i.length[o] + c = n => g + i.length[o] + c = n
  BY <1>2, <1>3
<1>11. SamdLined(f, g, n)
  <2>1. CASE i.ready = {} /\ i.current = w /\ Bytes(i.buffer[w], c, g) /\ g + c = n
    <3>1. f.ready = {w} /\ f.current = 1 - f.which /\ f.ready = {1 - f.which} /\ f.length[w] = c
          /\ f.buffer[w] = i.buffer[w] /\ f.count = 0
      BY <1>3, <1>5, <1>8, <2>1 DEF ready, z
    <3>2. Bytes(f.buffer[f.which], f.count, g + f.length[1 - f.which])
      BY <3>1 DEF Bytes
    <3>3. g + f.length[1 - f.which] + f.count = n
      BY <1>2, <1>3, <1>8, <2>1, <3>1
    <3> QED
      BY <1>3, <1>8, <2>1, <3>1, <3>2, <3>3 DEF SamdLined
  <2>2. CASE /\ i.ready = {o} /\ i.current = o
             /\ Bytes(i.buffer[o], i.length[o], g) /\ Bytes(i.buffer[w], c, g + i.length[o])
             /\ g + i.length[o] + c = n
    <3>1. f.ready = {o, w} /\ f.current = f.which /\ f.count = 0 /\ f.length[w] = c /\ f.length[o] = i.length[o]
          /\ f.buffer = i.buffer /\ f.which = o /\ 1 - f.which = w
      BY <1>3, <1>5, <1>8, <2>2 DEF ready, z
    <3> QED
      BY <2>2, <3>1 DEF SamdLined
  <2> QED
    BY <1>6, <2>1, <2>2
<1> QED
  BY <1>2, <1>7, <1>8, <1>9, <1>11 DEF SamdSends, SamdHolds, f, z

\* A byte more in the bank of the program
LEMMA SamdPutIs ==
  ASSUME NEW i, NEW g \in Nat, NEW n \in Nat, SamdSends(i, g, n), i.which \notin i.pending
  PROVE  LET j == [i EXCEPT !.flushed = FALSE, !.count = @ + 1, !.buffer[i.which][i.count + 1] = n + 1]
         IN  SamdHolds(j, g, n + 1) /\ j.which \notin j.pending /\ j.count = i.count + 1
<1> DEFINE w == i.which
           o == 1 - w
           c == i.count
           d == c + 1
           buffer == [i.buffer EXCEPT ![w] = [i.buffer[w] EXCEPT ![d] = n + 1]]
           j == [i EXCEPT !.flushed = FALSE, !.count = @ + 1, !.buffer[i.which][i.count + 1] = n + 1]
<1>1. /\ i \in SamdIn /\ i.ready \subseteq i.pending /\ i.flags \subseteq i.pending /\ i.ready \cap i.flags = {}
      /\ SamdLined(i, g, n) /\ c < InSize
  BY DEF SamdSends, SamdHolds
<1>2. /\ w \in Samd!Banks /\ c \in Nat /\ d \in 1..InSize /\ d \in 0..InSize /\ n + 1 \in Nat
      /\ i.buffer \in [Samd!Banks -> [1..InSize -> Nat]] /\ i.length \in [Samd!Banks -> 0..InSize]
  <2>1. /\ w \in Samd!Banks /\ c \in 0..InSize /\ InSize \in Nat
        /\ i.buffer \in [Samd!Banks -> [1..InSize -> Nat]] /\ i.length \in [Samd!Banks -> 0..InSize]
    BY <1>1, SizesAssumption DEF SamdIn
  <2>2. c < InSize
    BY <1>1
  <2> HIDE DEF c, w
  <2> QED
    BY <2>1, <2>2
<1>3. o \in Samd!Banks /\ o # w
  BY <1>2, BankIs
<1>4. /\ buffer \in [Samd!Banks -> [1..InSize -> Nat]] /\ buffer[o] = i.buffer[o]
      /\ buffer[w][d] = n + 1 /\ \A k \in 1..c : buffer[w][k] = i.buffer[w][k]
  <2> DEFINE b == [i.buffer[w] EXCEPT ![d] = n + 1]
  <2>1. i.buffer[w] \in [1..InSize -> Nat]
    BY <1>2
  <2>2. \A k \in 1..c : k \in 1..InSize /\ k # d
    <3>1. c \in Nat /\ d = c + 1 /\ d \in 1..InSize /\ InSize \in Nat
      BY <1>2, SizesAssumption
    <3> HIDE DEF c, d
    <3> QED
      BY <3>1
  <2> HIDE DEF w, o, d, c
  <2>3. b \in [1..InSize -> Nat] /\ b[d] = n + 1 /\ \A k \in 1..c : b[k] = i.buffer[w][k]
    BY <1>2, <2>1, <2>2
  <2>4. buffer = [i.buffer EXCEPT ![w] = b]
    OBVIOUS
  <2> HIDE DEF b, buffer
  <2>5. buffer \in [Samd!Banks -> [1..InSize -> Nat]] /\ buffer[o] = i.buffer[o] /\ buffer[w] = b
    BY <1>2, <1>3, <2>3, <2>4
  <2> QED
    BY <2>3, <2>5
<1>5. j = [i EXCEPT !.flushed = FALSE, !.count = d, !.buffer = buffer]
  BY <1>1 DEF SamdIn
<1> HIDE DEF buffer, d, j
<1>6. j \in SamdIn
  BY <1>1, <1>2, <1>4, <1>5 DEF SamdIn
<1>7. /\ j.which = w /\ j.count = d /\ j.pending = i.pending /\ j.buffer = buffer /\ j.length = i.length
      /\ j.ready = i.ready /\ j.current = i.current /\ j.flags = i.flags
  BY <1>1, <1>5 DEF SamdIn
<1>8. \A k \in Nat : Bytes(i.buffer[w], c, k) /\ k + c = n => Bytes(buffer[w], d, k) /\ k + d = n + 1
  <2> SUFFICES ASSUME NEW k \in Nat, Bytes(i.buffer[w], c, k), k + c = n
               PROVE  Bytes(buffer[w], d, k) /\ k + d = n + 1
    OBVIOUS
  <2>1. k + d = n + 1 /\ \A m \in 1..d : m \in 1..c \/ m = d
    BY <1>2 DEF d
  <2> QED
    BY <1>4, <2>1 DEF Bytes
<1> HIDE DEF w, o, c
<1>9. i.length[o] \in Nat /\ g + i.length[o] \in Nat
  BY <1>2, <1>3
<1>10. SamdLined(j, g, n + 1)
  <2>1. CASE i.ready = {} /\ i.current = w /\ Bytes(i.buffer[w], c, g) /\ g + c = n
    BY <1>7, <1>8, <2>1 DEF SamdLined
  <2>2. CASE /\ i.ready = {o} /\ i.current = o
             /\ Bytes(i.buffer[o], i.length[o], g) /\ Bytes(i.buffer[w], c, g + i.length[o])
             /\ g + i.length[o] + c = n
    <3>1. Bytes(buffer[w], d, g + i.length[o]) /\ (g + i.length[o]) + d = n + 1
      BY <1>8, <1>9, <2>2
    <3> QED
      BY <1>4, <1>7, <2>2, <3>1 DEF SamdLined, o
  <2> QED
    BY <1>1, <2>1, <2>2 DEF SamdLined, w, o, c
<1>11. SamdHolds(j, g, n + 1) /\ j.which \notin j.pending /\ j.count = c + 1
  BY <1>1, <1>6, <1>7, <1>10 DEF SamdHolds, w, d
<1> QED
  BY <1>11 DEF j, c

LEMMA PrefixIs ==
  ASSUME NEW s \in Seq(Nat), NEW l \in Nat, l <= Len(s)
  PROVE  /\ SubSeq(s, 1, l) \in Seq(Nat) /\ Len(SubSeq(s, 1, l)) = l
         /\ \A k \in 1..l : SubSeq(s, 1, l)[k] = s[k]
OBVIOUS

\* The packet that the host takes
LEMMA SamdPollIs ==
  ASSUME NEW i, NEW g \in Nat, NEW n \in Nat, SamdSends(i, g, n), i.current \in i.ready
  PROVE  LET f == [i EXCEPT !.ready = @ \ {i.current}, !.flags = @ \cup {i.current}, !.current = 1 - @]
             p == SubSeq(i.buffer[i.current], 1, i.length[i.current])
         IN  p \in Seq(Nat) /\ Bytes(p, Len(p), g) /\ SamdSends(f, g + Len(p), n)
<1> DEFINE w == i.which
           o == 1 - w
           t == i.current
           b == i.buffer[t]
           l == i.length[t]
           p == SubSeq(i.buffer[i.current], 1, i.length[i.current])
           ready == i.ready \ {t}
           flags == i.flags \cup {t}
           f == [i EXCEPT !.ready = @ \ {i.current}, !.flags = @ \cup {i.current}, !.current = 1 - @]
<1>1. /\ i \in SamdIn /\ i.ready \subseteq i.pending /\ i.flags \subseteq i.pending /\ i.ready \cap i.flags = {}
      /\ SamdLined(i, g, n) /\ i.count < InSize
  BY DEF SamdSends, SamdHolds
<1>2. /\ w \in Samd!Banks /\ t \in Samd!Banks /\ b \in [1..InSize -> Nat] /\ l \in 0..InSize /\ l \in Nat
      /\ i.ready \in SUBSET Samd!Banks /\ i.flags \in SUBSET Samd!Banks /\ i.count \in Nat
      /\ i.length \in [Samd!Banks -> 0..InSize]
  BY <1>1 DEF SamdIn
<1>3. o \in Samd!Banks /\ o # w /\ 1 - o = w /\ 1 - t \in Samd!Banks
  BY <1>2, BankIs
<1>4. p \in Seq(Nat) /\ Len(p) = l /\ \A k \in 1..l : p[k] = b[k]
  <2>1. b \in Seq(Nat) /\ Len(b) = InSize
    <3>1. b \in [1..InSize -> Nat] /\ InSize \in Nat
      BY <1>2, SizesAssumption
    <3> HIDE DEF b
    <3> QED
      BY <3>1
  <2>2. l <= Len(b)
    BY <1>2, <2>1, SizesAssumption
  <2>3. p = SubSeq(b, 1, l)
    OBVIOUS
  <2> HIDE DEF b, l, p
  <2> QED
    BY <1>2, <2>1, <2>2, <2>3, PrefixIs
<1>5. f = [i EXCEPT !.ready = ready, !.flags = flags, !.current = 1 - t]
  OBVIOUS
<1> HIDE DEF f, ready, flags
<1>6. f \in SamdIn
  BY <1>1, <1>2, <1>3, <1>5 DEF SamdIn, ready, flags
<1>7. /\ f.which = w /\ f.count = i.count /\ f.pending = i.pending /\ f.buffer = i.buffer
      /\ f.length = i.length /\ f.ready = ready /\ f.current = 1 - t /\ f.flags = flags
  BY <1>1, <1>5 DEF SamdIn
<1>8. f.ready \subseteq f.pending /\ f.flags \subseteq f.pending /\ f.ready \cap f.flags = {}
  BY <1>1, <1>7 DEF ready, flags
<1> HIDE DEF w, o, t, p, b, l
<1>9. Bytes(b, l, g) /\ SamdLined(f, g + l, n)
  <2>1. CASE /\ i.ready = {o} /\ t = o
             /\ Bytes(i.buffer[o], i.length[o], g) /\ Bytes(i.buffer[w], i.count, g + i.length[o])
             /\ g + i.length[o] + i.count = n
    <3>1. l = i.length[o] /\ b = i.buffer[o]
      BY <2>1 DEF l, b, t
    <3>2. f.ready = {} /\ f.current = w
      BY <1>3, <1>7, <2>1 DEF ready
    <3> QED
      BY <1>7, <2>1, <3>1, <3>2 DEF SamdLined
  <2>2. CASE /\ i.ready = {w, o} /\ t = w /\ i.count = 0
             /\ Bytes(i.buffer[w], i.length[w], g) /\ Bytes(i.buffer[o], i.length[o], g + i.length[w])
             /\ g + i.length[w] + i.length[o] = n
    <3>1. l = i.length[w] /\ b = i.buffer[w]
      BY <2>2 DEF l, b, t
    <3>2. f.ready = {o} /\ f.current = o /\ 1 - f.which = o /\ f.which = w /\ f.count = 0
      BY <1>3, <1>7, <2>2 DEF ready, o
    <3>3. Bytes(f.buffer[w], f.count, (g + l) + f.length[o])
      BY <3>2 DEF Bytes
    <3>4. (g + l) + f.length[o] + f.count = n
      <4>1. i.length[o] \in Nat
        BY <1>2, <1>3
      <4> QED
        BY <1>2, <1>7, <2>2, <3>1, <3>2, <4>1
    <3> QED
      BY <1>7, <2>2, <3>1, <3>2, <3>3, <3>4 DEF SamdLined
  <2> QED
    BY <1>1, <2>1, <2>2 DEF SamdLined, w, o, t
<1>10. p \in Seq(Nat) /\ Bytes(p, Len(p), g) /\ SamdSends(f, g + Len(p), n)
  BY <1>1, <1>4, <1>6, <1>7, <1>8, <1>9 DEF Bytes, SamdSends, SamdHolds
<1> QED
  BY <1>10 DEF f, p

\* The handler frees what is sent.
LEMMA SamdSentIs ==
  ASSUME NEW i, NEW g, NEW n, SamdSends(i, g, n)
  PROVE  LET f == [i EXCEPT !.pending = @ \ i.flags, !.flags = {}]
         IN  SamdSends(f, g, n) /\ f.count = i.count /\ f.ready = i.ready /\ f.flags = {}
<1> DEFINE f == [i EXCEPT !.pending = @ \ i.flags, !.flags = {}]
<1>1. i \in SamdIn /\ SamdLined(i, g, n) /\ i.count < InSize
      /\ i.ready \subseteq i.pending /\ i.ready \cap i.flags = {}
  BY DEF SamdSends, SamdHolds
<1>2. f \in SamdIn
  BY <1>1 DEF SamdIn
<1>3. /\ f.which = i.which /\ f.count = i.count /\ f.pending = i.pending \ i.flags /\ f.buffer = i.buffer
      /\ f.length = i.length /\ f.ready = i.ready /\ f.current = i.current /\ f.flags = {}
  BY <1>1 DEF SamdIn
<1> HIDE DEF f
<1>4. SamdLined(f, g, n)
  BY <1>1, <1>3 DEF SamdLined
<1>5. SamdSends(f, g, n) /\ f.count = i.count /\ f.ready = i.ready /\ f.flags = {}
  BY <1>1, <1>2, <1>3, <1>4 DEF SamdSends, SamdHolds
<1> QED
  BY <1>5 DEF f

\* The configuration empties the banks; before it there is nothing in them.
LEMMA SamdConfigureIs ==
  ASSUME NEW i, NEW g \in Nat, SamdSends(i, g, 0), i.count = 0, i.ready = {}, i.flags = {}
  PROVE  LET f == Samd!Configured(i)
         IN  SamdSends(f, g, 0) /\ f.count = 0 /\ f.ready = {} /\ f.flags = {}
<1> DEFINE f == Samd!Configured(i)
           z == 0
<1>1. i \in SamdIn /\ SamdLined(i, g, 0) /\ i.count < InSize
  BY DEF SamdSends, SamdHolds
<1>2. f = [i EXCEPT !.which = z, !.flushed = TRUE, !.pending = {}, !.ready = {}, !.current = z]
  BY DEF Samd!Configured
<1>3. z \in Samd!Banks
  BY DEF Samd!Banks
<1> HIDE DEF f, z
<1>4. f \in SamdIn
  BY <1>1, <1>2, <1>3 DEF SamdIn
<1>5. /\ f.which = z /\ f.count = i.count /\ f.pending = {} /\ f.ready = {} /\ f.current = z /\ f.flags = i.flags
  BY <1>1, <1>2 DEF SamdIn
<1>6. g + 0 = 0
  BY <1>1, BankIs DEF SamdLined, SamdIn
<1>7. SamdLined(f, g, 0)
  BY <1>5, <1>6 DEF SamdLined, Bytes
<1>8. SamdSends(f, g, 0) /\ f.count = 0 /\ f.ready = {} /\ f.flags = {}
  BY <1>1, <1>4, <1>5, <1>7 DEF SamdSends, SamdHolds
<1> QED
  BY <1>8 DEF f

LEMMA BytesJoin ==
  ASSUME NEW s \in Seq(Nat), NEW t \in Seq(Nat), NEW k \in Nat,
         Bytes(s, Len(s), k), Bytes(t, Len(t), k + Len(s))
  PROVE  s \o t \in Seq(Nat) /\ Len(s \o t) = Len(s) + Len(t) /\ Bytes(s \o t, Len(s \o t), k)
<1>1. /\ s \o t \in Seq(Nat) /\ Len(s \o t) = Len(s) + Len(t) /\ Len(s) \in Nat /\ Len(t) \in Nat
      /\ \A i \in 1..Len(s) + Len(t) : (s \o t)[i] = IF i <= Len(s) THEN s[i] ELSE t[i - Len(s)]
  BY ConcatProperties, LenProperties
<1>2. ASSUME NEW i \in 1..Len(s) + Len(t) PROVE (s \o t)[i] = k + i
  <2>1. CASE i <= Len(s)
    <3>1. i \in 1..Len(s)
      BY <1>1, <2>1
    <3> QED
      BY <1>1, <2>1, <3>1 DEF Bytes
  <2>2. CASE ~(i <= Len(s))
    <3>1. i - Len(s) \in 1..Len(t) /\ (k + Len(s)) + (i - Len(s)) = k + i
      BY <1>1, <2>2
    <3>2. t[i - Len(s)] = (k + Len(s)) + (i - Len(s))
      BY <3>1 DEF Bytes
    <3> QED
      BY <1>1, <2>2, <3>1, <3>2
  <2> QED
    BY <2>1, <2>2
<1> QED
  BY <1>1, <1>2 DEF Bytes

\* A device that is configured stays so until the bus is reset.
LEMMA StaysConfigured ==
  ASSUME NEW c \in Control
  PROVE  /\ \A r, from, n : c.configured => TakesControl(c, r, from, n).configured
         /\ GivesControl(c).configured = c.configured
         /\ \A r : Asks(c, r).configured = c.configured
<1>1. ASSUME NEW r, NEW from, NEW n, c.configured PROVE TakesControl(c, r, from, n).configured
  <2>1. CASE c.stage = "in"
    BY <1>1, <2>1 DEF TakesControl, Control
  <2>2. CASE c.stage # "in"
    BY <1>1, <2>2 DEF TakesControl, Control
  <2> QED
    BY <2>1, <2>2
<1>2. GivesControl(c).configured = c.configured
  BY DEF GivesControl, Control
<1>3. ASSUME NEW r PROVE Asks(c, r).configured = c.configured
  BY DEF Asks, Control
<1> QED
  BY <1>1, <1>2, <1>3

\* A configuration that is handled is the first since the bus was reset.
LEMMA SamdConfigures ==
  ASSUME SamdControl, "RXSTP" \in ep0.flags, ep0.bank0.request.name = "configuration"
  PROVE  ~control.configured /\ ~eorst /\ control.stage = "status_in" /\ control.request = SetConfiguration
<1>1. /\ control.request = ep0.bank0.request /\ control.stage = Opening(control.request) /\ ~eorst
      /\ control.request \in AllRequests
  BY DEF SamdControl, SamdFits, HostFits, Control
<1>2. control.request = SetConfiguration
  BY <1>1, ConfigurationIs
<1>3. control.stage = "status_in"
  BY <1>1, <1>2 DEF Opening, SetConfiguration, Request
<1> QED
  BY <1>1, <1>2, <1>3 DEF SamdControl, HostFits

\* The host's actions change no more than the control endpoint.
LEMMA SamdHostKeeps ==
  ASSUME SamdControl, Samd!Setup \/ Samd!ControlIn \/ Samd!ControlOut
  PROVE  /\ UNCHANGED <<got, delivered, sent, plan, resets, written, owed, read, abort, job,
                        in, out, fifo, dadd, eorst, running>>
         /\ control.configured => control'.configured
<1>1. control \in Control
  BY DEF SamdControl, HostFits
<1>2. control.configured => control'.configured
  <2>1. CASE Samd!Setup
    <3>1. PICK r \in Samd!Wanted(control) : control' = Samd!Asks(control, r)
      BY <2>1 DEF Samd!Setup
    <3>2. control' = Asks(control, r)
      BY <3>1, SameHost, Zenon
    <3> QED
      BY <1>1, <3>2, StaysConfigured
  <2>2. CASE Samd!ControlIn
    BY <1>1, <2>2, StaysConfigured, SameHost DEF Samd!ControlIn
  <2>3. CASE Samd!ControlOut
    BY <1>1, <2>3, StaysConfigured, SameHost DEF Samd!ControlOut
  <2> QED
    BY <2>1, <2>2, <2>3
<1> QED
  BY <1>2 DEF Samd!Setup, Samd!ControlIn, Samd!ControlOut, Samd!programVars

LEMMA JobIs ==
  ASSUME SamdSilent
  PROVE  /\ job # << >> => Tail(job) = << >> /\ Head(job) \in {"putc", "newline", "flush"}
         /\ ~Samd!Does("insert") /\ ~Samd!Does("send")
<1>1. job \in {<< >>, <<"putc">>, <<"newline">>, <<"flush">>}
  BY DEF SamdSilent
<1>2. Tail(<<"putc">>) = << >> /\ Tail(<<"newline">>) = << >> /\ Tail(<<"flush">>) = << >>
  <2>1. \A x : Tail(<<x>>) = << >>
    OBVIOUS
  <2> QED
    BY <2>1
<1>3. Head(<<"putc">>) = "putc" /\ Head(<<"newline">>) = "newline" /\ Head(<<"flush">>) = "flush"
  OBVIOUS
<1> QED
  BY <1>1, <1>2, <1>3 DEF Samd!Does

LEMMA SamdProgramPrints ==
  ASSUME SamdPrinted, resets = 0, Samd!Insert \/ Samd!Flush
  PROVE  SamdPrinted'
<1>1. /\ Put /\ ~eorst /\ SamdSends(in, Len(got), written) /\ Len(got) \in Nat /\ written \in Nat
      /\ ~running => SamdSilent
      /\ ~control.configured => ~running /\ out.flags = {}
  BY LenProperties DEF SamdPrinted, Put
<1>2. running
  BY <1>1, JobIs DEF Samd!Insert, Samd!Flush
<1>3. /\ UNCHANGED <<got, eorst, out, control, running, resets>>
  BY DEF Samd!Insert, Samd!Flush, Samd!hostVars
<1>4. written' \in Nat /\ SamdSends(in', Len(got), written')
  <2>1. CASE Samd!Insert
    <3> DEFINE j == [in EXCEPT !.flushed = FALSE, !.count = @ + 1, !.buffer[in.which][in.count + 1] = written + 1]
    <3>1. /\ in' = IF j.count = InSize THEN Samd!InSend(j) ELSE j
          /\ written' = written + 1 /\ in.which \notin in.pending
      BY <2>1 DEF Samd!Insert, Samd!Puts, Samd!InFree
    <3>2. /\ SamdHolds(j, Len(got), written + 1) /\ j.which \notin j.pending /\ j.count = in.count + 1
          /\ written + 1 \in Nat
      <4>1. SamdHolds(j, Len(got), written + 1) /\ j.which \notin j.pending /\ j.count = in.count + 1
        BY <1>1, <3>1, SamdPutIs, Zenon
      <4> QED
        BY <1>1, <4>1
    <3> HIDE DEF j
    <3>3. j.count <= InSize /\ InSize \in Nat
      BY <3>2, SizesAssumption DEF SamdHolds, SamdIn
    <3>4. SamdSends(Samd!InSend(j), Len(got), written + 1)
      BY <1>1, <3>2, SamdSendIs
    <3>5. j.count # InSize => SamdSends(j, Len(got), written + 1)
      <4>1. in.count \in Nat
        BY <1>1, SizesAssumption DEF SamdSends, SamdHolds, SamdIn
      <4>2. j.count \in Nat
        BY <3>2, <4>1
      <4> QED
        BY <3>2, <3>3, <4>2 DEF SamdSends
    <3> QED
      BY <3>1, <3>2, <3>4, <3>5
  <2>2. CASE Samd!Flush
    <3>1. /\ written' = written
          /\ in' = in \/ (in' = Samd!InSend(in) /\ in.which \notin in.pending)
      BY <2>2 DEF Samd!Flush, Samd!Flushed, Samd!InFree
    <3>2. SamdHolds(in, Len(got), written)
      BY <1>1 DEF SamdSends
    <3> QED
      BY <1>1, <3>1, <3>2, SamdSendIs
  <2> QED
    BY <2>1, <2>2
<1> QED
  BY <1>1, <1>2, <1>3, <1>4 DEF SamdPrinted, Put

LEMMA SamdCallsPrint ==
  ASSUME SamdPrinted, resets = 0,
         UNCHANGED <<got, eorst, out, control, running, resets, written, in>>,
         Samd!Begin \/ Samd!Enter(running)
  PROVE  SamdPrinted'
<1>1. ~running => SamdSilent
  BY DEF SamdPrinted
<1>2. ASSUME ~running PROVE SamdSilent'
  <2>1. CASE Samd!Begin
    BY <1>1, <1>2, <2>1 DEF Samd!Begin, SamdSilent
  <2>2. CASE Samd!Enter(running)
    <3>1. job # << >> /\ job' = << >> \o Tail(job)
      BY <1>2, <2>2 DEF Samd!Enter, Samd!Does
    <3>2. job' = << >>
      BY <1>1, <1>2, <3>1, JobIs
    <3> QED
      BY <1>1, <1>2, <3>2 DEF SamdSilent
  <2> QED
    BY <2>1, <2>2
<1> QED
  BY <1>2 DEF SamdPrinted, Put

LEMMA SamdPollPrints ==
  ASSUME SamdPrinted, resets = 0, Samd!Poll
  PROVE  SamdPrinted'
<1> DEFINE p == SubSeq(in.buffer[in.current], 1, in.length[in.current])
           f == [in EXCEPT !.ready = @ \ {in.current}, !.flags = @ \cup {in.current}, !.current = 1 - @]
<1>1. /\ Put /\ ~eorst /\ SamdSends(in, Len(got), written) /\ Len(got) \in Nat /\ written \in Nat
      /\ ~running => SamdSilent
      /\ ~control.configured => ~running /\ out.flags = {}
  BY LenProperties DEF SamdPrinted, Put
<1>2. /\ UNCHANGED <<control, resets, written, job, out, eorst, running>>
      /\ in.current \in in.ready /\ got' = got \o p /\ in' = f
  BY DEF Samd!Poll, Samd!Takes, Samd!programVars
<1>3. p \in Seq(Nat) /\ Bytes(p, Len(p), Len(got)) /\ SamdSends(f, Len(got) + Len(p), written)
  BY <1>1, <1>2, SamdPollIs
<1>4. running
  BY <1>1, <1>2 DEF SamdSilent
<1> HIDE DEF p, f
<1>5. got \in Seq(Nat) /\ Bytes(got, Len(got), 0) /\ 0 \in Nat /\ 0 + Len(got) = Len(got)
  BY <1>1 DEF Put
<1>6. got' \in Seq(Nat) /\ Len(got') = Len(got) + Len(p) /\ Bytes(got', Len(got'), 0)
  <2>1. Bytes(p, Len(p), 0 + Len(got))
    BY <1>3, <1>5
  <2> QED
    BY <1>2, <1>3, <1>5, <2>1, BytesJoin
<1> QED
  BY <1>1, <1>2, <1>3, <1>4, <1>6 DEF SamdPrinted, Put

LEMMA SamdIsrPrints ==
  ASSUME SamdControl, SamdPrinted, out \in SamdOut, resets = 0, Samd!Isr
  PROVE  SamdPrinted'
<1>1. /\ Put /\ ~eorst /\ SamdSends(in, Len(got), written) /\ Len(got) \in Nat /\ written \in Nat
      /\ ~running => SamdSilent
      /\ ~control.configured => ~running /\ out.flags = {}
  BY LenProperties DEF SamdPrinted, Put
<1>2. CASE Samd!IsrIn
  <2>1. /\ UNCHANGED <<got, resets, control, written, job, out, eorst, running>>
        /\ in' = [in EXCEPT !.pending = @ \ in.flags, !.flags = {}]
    BY <1>2 DEF Samd!IsrIn, Samd!hostVars, Samd!programVars
  <2>2. SamdSends(in', Len(got), written) /\ in'.count = in.count /\ in'.ready = in.ready /\ in'.flags = {}
    BY <1>1, <2>1, SamdSentIs
  <2> QED
    BY <1>1, <2>1, <2>2 DEF SamdPrinted, SamdSilent, Put
<1>3. CASE Samd!IsrOut
  <2>1. /\ UNCHANGED <<got, resets, control, written, job, in, eorst>> /\ out.flags # {} /\ running'
    BY <1>3 DEF Samd!IsrOut, Samd!hostVars
  <2> QED
    BY <1>1, <2>1 DEF SamdPrinted, Put
<1>4. CASE Samd!IsrControl
  <2> DEFINE configures == "RXSTP" \in ep0.flags /\ ep0.bank0.request.name = "configuration"
  <2>1. /\ UNCHANGED <<got, resets, control, written, job, eorst, running>>
        /\ in' = IF configures THEN Samd!Configured(in) ELSE in
        /\ out' = IF configures THEN Samd!Reopened(out) ELSE out
    BY <1>4 DEF Samd!IsrControl, Samd!hostVars, Samd!programVars
  <2>2. CASE configures
    <3>1. ~control.configured
      BY <2>2, SamdConfigures
    <3>2. SamdSilent /\ ~running /\ out.flags = {}
      BY <1>1, <3>1
    <3>3. /\ SamdSends(in', Len(got), written) /\ in'.count = 0 /\ in'.ready = {} /\ in'.flags = {}
      BY <1>1, <2>1, <2>2, <3>2, SamdConfigureIs DEF SamdSilent
    <3>4. out'.flags = {}
      BY <2>1, <2>2, <3>2 DEF Samd!Reopened, SamdOut
    <3> QED
      BY <1>1, <2>1, <3>2, <3>3, <3>4 DEF SamdPrinted, SamdSilent, Put
  <2>3. CASE ~configures
    BY <1>1, <2>1, <2>3 DEF SamdPrinted, SamdSilent, Put
  <2> QED
    BY <2>2, <2>3
<1>5. CASE Samd!IsrReset
  BY <1>1, <1>5 DEF Samd!IsrReset
<1> QED
  BY <1>2, <1>3, <1>4, <1>5 DEF Samd!Isr

LEMMA ResetsKept ==
  ASSUME Traffic
  PROVE  /\ Samd!Next => resets' = resets \/ Samd!Reset
         /\ Avr!Next => resets' = resets \/ Avr!Reset
         /\ Samd!Reset \/ Avr!Reset => resets' \in Nat /\ resets' # 0
<1>1. Samd!Next => resets' = resets \/ Samd!Reset
  BY DEF Samd!Next, Samd!Program, Samd!Insert, Samd!Flush, Samd!Begins, Samd!Getc, Samd!Host, Samd!Poll,
       Samd!Takes, Samd!Setup, Samd!ControlIn, Samd!ControlOut, Samd!Type, Samd!Gives, Samd!Isr, Samd!IsrIn,
       Samd!IsrOut, Samd!IsrControl, Samd!IsrReset, Samd!hostVars
<1>2. Avr!Next => resets' = resets \/ Avr!Reset
  BY DEF Avr!Next, Avr!Program, Avr!Insert, Avr!Flush, Avr!InWait, Avr!Enters, Avr!Begins, Avr!Getc,
       Avr!Check, Avr!CheckFull, Avr!CheckTakes, Avr!CheckLooks, Avr!CheckAcks, Avr!Host, Avr!Poll,
       Avr!Takes, Avr!Setup, Avr!ControlIn, Avr!ControlOut, Avr!Type, Avr!Gives, Avr!Isr, Avr!IsrIn,
       Avr!IsrOut, Avr!IsrControl, Avr!IsrReset, Avr!hostVars
<1>3. Samd!Reset \/ Avr!Reset => resets' \in Nat /\ resets' # 0
  BY DEF Traffic, Samd!Reset, Samd!HostResets, Avr!Reset, Avr!HostResets
<1> QED
  BY <1>1, <1>2, <1>3

LEMMA SamdPrintedKept ==
  ASSUME SamdControl, Traffic, SamdPrinted, out \in SamdOut, Samd!Next
  PROVE  SamdPrinted'
<1>1. CASE resets' # 0
  BY <1>1 DEF SamdPrinted
<1>2. CASE resets' = 0
  <2>1. resets = 0 /\ ~Samd!Reset
    BY <1>2, ResetsKept
  <2>2. CASE Samd!Insert \/ Samd!Flush
    BY <2>1, <2>2, SamdProgramPrints
  <2>3. CASE (Samd!Enter(running) /\ UNCHANGED <<Samd!hostVars, Samd!deviceVars>>) \/ Samd!Begins
    <3>1. UNCHANGED <<got, eorst, out, control, running, resets, in, written>>
      BY <2>3 DEF Samd!Begins, Samd!Begin, Samd!Enter, Samd!hostVars, Samd!deviceVars
    <3> QED
      BY <2>1, <2>3, <3>1, SamdCallsPrint DEF Samd!Begins
  <2>4. CASE Samd!Getc
    BY <2>1, <2>4 DEF Samd!Getc, Samd!hostVars, SamdPrinted, Put
  <2>5. CASE Samd!Poll
    BY <2>1, <2>5, SamdPollPrints
  <2>6. CASE Samd!Setup \/ Samd!ControlIn \/ Samd!ControlOut
    BY <2>1, <2>6, SamdHostKeeps DEF SamdPrinted, SamdSilent, Put
  <2>7. CASE Samd!Type
    BY <2>1, <2>7 DEF Samd!Type, Samd!Gives, Samd!programVars, SamdPrinted, SamdSilent, Put
  <2>8. CASE Samd!Isr
    BY <2>1, <2>8, SamdIsrPrints
  <2> QED
    BY <2>1, <2>2, <2>3, <2>4, <2>5, <2>6, <2>7, <2>8 DEF Samd!Next, Samd!Program, Samd!Host
<1> QED
  BY <1>1, <1>2

----------------------------------------------------------------------------
(***************************************************************************)
(* Sequences of bytes that are typed                                       *)
(***************************************************************************)
LEMMA OrderedGrows ==
  ASSUME NEW s \in Seq(Nat), NEW p \in Seq(Nat), NEW n \in Nat, NEW reset,
         Ordered(s, n, reset), Bytes(p, Len(p), n)
  PROVE  Ordered(s \o p, n + Len(p), reset)
<1> DEFINE t == s \o p
<1>1. /\ t \in Seq(Nat) /\ Len(t) = Len(s) + Len(p) /\ Len(s) \in Nat /\ Len(p) \in Nat
      /\ \A i \in 1..Len(s) + Len(p) : t[i] = IF i <= Len(s) THEN s[i] ELSE p[i - Len(s)]
  BY ConcatProperties, LenProperties
<1>2. \A i \in 1..Len(s) : s[i] \in Nat /\ s[i] <= n
  BY ElementOfSeq DEF Ordered
<1> HIDE DEF t
<1>3. ASSUME NEW i \in 1..Len(t)
      PROVE  /\ i <= Len(s) => i \in 1..Len(s) /\ t[i] = s[i]
             /\ ~(i <= Len(s)) => t[i] = n + (i - Len(s)) /\ i - Len(s) \in 1..Len(p)
  <2>1. i <= Len(s) => i \in 1..Len(s) /\ t[i] = s[i]
    BY <1>1
  <2>2. ~(i <= Len(s)) => i - Len(s) \in 1..Len(p) /\ t[i] = p[i - Len(s)]
    BY <1>1
  <2> QED
    BY <2>1, <2>2 DEF Bytes
<1>4. \A i \in 1..Len(t) : t[i] <= n + Len(p)
  <2> TAKE i \in 1..Len(t)
  <2>1. CASE i <= Len(s)
    <3>1. t[i] = s[i] /\ s[i] \in Nat /\ s[i] <= n
      BY <1>2, <1>3, <2>1
    <3> QED
      BY <1>1, <3>1
  <2>2. CASE ~(i <= Len(s))
    <3>1. t[i] = n + (i - Len(s)) /\ i - Len(s) \in 1..Len(p)
      BY <1>3, <2>2
    <3> QED
      BY <1>1, <3>1
  <2> QED
    BY <2>1, <2>2
<1>5. ASSUME NEW i \in 1..Len(t), NEW j \in 1..Len(t), i < j
      PROVE  t[i] < t[j]
  <2>1. CASE j <= Len(s)
    <3>1. i <= Len(s)
      BY <1>1, <1>5, <2>1
    <3> QED
      BY <1>3, <1>5, <2>1, <3>1 DEF Ordered
  <2>2. CASE ~(j <= Len(s)) /\ i <= Len(s)
    <3> DEFINE k == j - Len(s)
               x == s[i]
    <3>1. t[i] = x /\ x \in Nat /\ x <= n
      BY <1>2, <1>3, <2>2
    <3>2. t[j] = n + k /\ k \in 1..Len(p)
      BY <1>3, <2>2
    <3> HIDE DEF k, x
    <3>3. x < n + k
      BY <1>1, <3>1, <3>2
    <3> QED
      BY <3>1, <3>2, <3>3, Zenon
  <2>3. CASE ~(i <= Len(s))
    <3>1. ~(j <= Len(s))
      BY <1>1, <1>5, <2>3
    <3>2. t[i] = n + (i - Len(s)) /\ t[j] = n + (j - Len(s))
      BY <1>3, <2>3, <3>1
    <3> QED
      BY <1>1, <1>5, <3>2
  <2> QED
    BY <2>1, <2>2, <2>3
<1>6. ASSUME reset = 0 PROVE Len(t) = n + Len(p) /\ Bytes(t, n + Len(p), 0)
  <2>1. Len(s) = n /\ Bytes(s, n, 0)
    BY <1>6 DEF Ordered
  <2>2. Len(t) = n + Len(p)
    BY <1>1, <2>1
  <2>3. ASSUME NEW i \in 1..Len(t) PROVE t[i] = 0 + i
    <3>1. CASE i <= Len(s)
      BY <1>3, <2>1, <3>1 DEF Bytes
    <3>2. CASE ~(i <= Len(s))
      BY <1>1, <1>3, <2>1, <3>2
    <3> QED
      BY <3>1, <3>2
  <2> QED
    BY <2>2, <2>3 DEF Bytes
<1> QED
  BY <1>4, <1>5, <1>6 DEF Ordered, t

\* What is left when the end is lost, which happens after a reset, or when there is nothing
LEMMA OrderedPart ==
  ASSUME NEW s \in Seq(Nat), NEW p \in Seq(Nat), NEW n \in Nat, NEW reset,
         NEW later, Ordered(s \o p, n, reset), later # 0 \/ (later = reset /\ n = 0)
  PROVE  Ordered(s, n, later)
<1>1. /\ Len(s \o p) = Len(s) + Len(p) /\ Len(s) \in Nat /\ Len(p) \in Nat
      /\ \A i \in 1..Len(s) + Len(p) : (s \o p)[i] = IF i <= Len(s) THEN s[i] ELSE p[i - Len(s)]
  BY ConcatProperties, LenProperties
<1>2. \A i \in 1..Len(s) : i \in 1..Len(s \o p) /\ (s \o p)[i] = s[i]
  BY <1>1
<1>3. \A i \in 1..Len(s) : s[i] <= n
  BY <1>2 DEF Ordered
<1>4. \A i, j \in 1..Len(s) : i < j => s[i] < s[j]
  BY <1>2 DEF Ordered
<1>5. later = 0 => Len(s) = n /\ Bytes(s, n, 0)
  BY <1>1 DEF Ordered, Bytes
<1> QED
  BY <1>3, <1>4, <1>5 DEF Ordered

\* Bytes that move from what waits, w and f, to what has been read, r
LEMMA JoinsOn ==
  ASSUME NEW r1 \in Seq(Nat), NEW r2 \in Seq(Nat), NEW r3 \in Seq(Nat)
  PROVE  (r1 \o r2) \o r3 = r1 \o (r2 \o r3)
OBVIOUS

LEMMA MovesOn ==
  ASSUME NEW r \in Seq(Nat), NEW f \in Seq(Nat), f # << >>
  PROVE  /\ Append(r, Head(f)) \in Seq(Nat) /\ Tail(f) \in Seq(Nat) /\ Head(f) \in Nat
         /\ Append(r, Head(f)) \o Tail(f) = r \o f
<1> DEFINE h == Head(f)
           t == Tail(f)
<1>1. h \in Nat /\ t \in Seq(Nat) /\ f = <<h>> \o t
  <2>1. h \in Nat /\ t \in Seq(Nat) /\ Len(t) = Len(f) - 1 /\ h = f[1] /\ Len(f) \in Nat \ {0}
        /\ \A i \in 1..Len(t) : t[i] = f[i + 1]
    BY HeadTailProperties, EmptySeq
  <2> HIDE DEF h, t
  <2>2. <<h>> \in Seq(Nat) /\ Len(<<h>>) = 1 /\ <<h>>[1] = h
    BY <2>1
  <2>3. /\ <<h>> \o t \in Seq(Nat) /\ Len(<<h>> \o t) = 1 + Len(t)
        /\ \A i \in 1..1 + Len(t) : (<<h>> \o t)[i] = IF i <= 1 THEN <<h>>[i] ELSE t[i - 1]
    BY <2>1, <2>2, ConcatProperties
  <2>4. Len(f) = 1 + Len(t) /\ Len(t) \in Nat
    BY <2>1
  <2>5. ASSUME NEW i \in 1..Len(f) PROVE (<<h>> \o t)[i] = f[i]
    <3>1. CASE i = 1
      BY <2>1, <2>2, <2>3, <2>4, <3>1
    <3>2. CASE i # 1
      <4>1. i - 1 \in 1..Len(t) /\ ~(i <= 1) /\ (i - 1) + 1 = i
        BY <2>4, <3>2
      <4> QED
        BY <2>1, <2>3, <2>4, <4>1
    <3> QED
      BY <3>1, <3>2
  <2> QED
    BY <2>1, <2>3, <2>4, <2>5, SeqEqual
<1> HIDE DEF h, t
<1>2. Append(r, h) = r \o <<h>> /\ Append(r, h) \in Seq(Nat) /\ <<h>> \in Seq(Nat)
  BY <1>1, AppendIsConcat
<1>3. (r \o <<h>>) \o t = r \o (<<h>> \o t)
  BY <1>1, <1>2, ConcatAssociative
<1>4. Append(r, h) \in Seq(Nat) /\ t \in Seq(Nat) /\ h \in Nat /\ Append(r, h) \o t = r \o f
  BY <1>1, <1>2, <1>3
<1> QED
  BY <1>4 DEF h, t

----------------------------------------------------------------------------
(***************************************************************************)
(* The samd21: what is typed keeps its order                               *)
(***************************************************************************)
LEMMA SamdBanksAre ==
  ASSUME NEW o, SamdTakes(o)
  PROVE  /\ o.which \in Samd!Banks /\ Samd!Turn(o) \in Samd!Banks /\ Samd!Turn(o) # o.which
         /\ Samd!Turn(o) = 1 - o.which /\ 1 - Samd!Turn(o) = o.which
         /\ o.buffer[o.which] \in Seq(Nat) /\ o.buffer[Samd!Turn(o)] \in Seq(Nat)
         /\ First(o) \in Seq(Nat) /\ Second(o) \in Seq(Nat) /\ << >> \in Seq(Nat)
         /\ Held(o) \in SUBSET Samd!Banks /\ \A b \in Samd!Banks : b = o.which \/ b = Samd!Turn(o)
<1>1. o \in SamdOut /\ o.which \in Samd!Banks
  BY DEF SamdTakes, SamdOut
<1>2. /\ Samd!Turn(o) \in Samd!Banks /\ Samd!Turn(o) # o.which /\ 1 - Samd!Turn(o) = o.which
      /\ Samd!Turn(o) = 1 - o.which /\ \A b \in Samd!Banks : b = o.which \/ b = Samd!Turn(o)
  BY <1>1, BankIs DEF Samd!Turn
<1>3. o.buffer \in [Samd!Banks -> Seq(Nat)] /\ o.avail \in SUBSET Samd!Banks /\ o.flags \in SUBSET Samd!Banks
  BY <1>1 DEF SamdOut
<1>4. o.buffer[o.which] \in Seq(Nat) /\ o.buffer[Samd!Turn(o)] \in Seq(Nat) /\ << >> \in Seq(Nat)
  BY <1>1, <1>2, <1>3
<1> QED
  BY <1>1, <1>2, <1>3, <1>4 DEF First, Second, Held

\* ao_usb_fifo_check moves bytes, or it does nothing.
LEMMA SamdCheckIs ==
  ASSUME NEW o, SamdTakes(o), NEW f \in Seq(Nat)
  PROVE  LET c == Samd!Check(o, f)
             g == Samd!Filled(o, f)
         IN  /\ SamdTakes(c) /\ g \in Seq(Nat) /\ c.flags = o.flags
             /\ g \o (First(c) \o Second(c)) = f \o (First(o) \o Second(o))
             /\ Live(o) => Live(c)
<1> DEFINE c == Samd!Check(o, f)
           g == Samd!Filled(o, f)
           w == o.which
           t == Samd!Turn(o)
           ready == o.ready \ {t}
           avail == o.avail \ {t}
<1>1. /\ w \in Samd!Banks /\ t \in Samd!Banks /\ t # w /\ 1 - t = w /\ t = 1 - w
      /\ First(o) \in Seq(Nat) /\ Second(o) \in Seq(Nat) /\ << >> \in Seq(Nat)
      /\ o.buffer[t] \in Seq(Nat)
  BY SamdBanksAre
<1>2. CASE ~Samd!Fits(o, f)
  BY <1>2 DEF Samd!Check, Samd!Filled
<1>3. CASE Samd!Fits(o, f)
  <2>1. c = [o EXCEPT !.ready = ready, !.avail = avail, !.which = t] /\ g = f \o o.buffer[t] /\ t \in o.avail
    BY <1>3 DEF Samd!Check, Samd!Filled, Samd!Fits
  <2> HIDE DEF c, g
  <2>2. /\ o \in SamdOut /\ o.avail \cap o.flags = {}
        /\ o.avail \in SUBSET Samd!Banks /\ o.flags \in SUBSET Samd!Banks /\ o.ready \in SUBSET Samd!Banks
    BY DEF SamdTakes, SamdOut
  <2>3. ready \in SUBSET Samd!Banks /\ avail \in SUBSET Samd!Banks
    BY <2>2
  <2> HIDE DEF t, w, ready, avail
  <2>4. c \in SamdOut
    BY <1>1, <2>1, <2>2, <2>3 DEF SamdOut
  <2>5. /\ c.which = t /\ c.avail = avail /\ c.ready = ready /\ c.buffer = o.buffer /\ c.current = o.current
        /\ c.flags = o.flags
    BY <2>1, <2>2 DEF SamdOut
  <2>6. Samd!Turn(c) = w
    BY <1>1, <2>5 DEF Samd!Turn
  <2>7. t \notin Held(c) /\ t \in Held(o) /\ (w \in Held(c) <=> w \in Held(o)) /\ Held(c) = Held(o) \ {t}
    BY <1>1, <2>1, <2>2, <2>5 DEF Held, avail
  <2>8. First(c) = Second(o) /\ Second(c) = << >> /\ First(o) = o.buffer[t]
    BY <2>5, <2>6, <2>7 DEF First, Second, t, w
  <2>9. g \o (First(c) \o Second(c)) = f \o (First(o) \o Second(o)) /\ g \in Seq(Nat)
    <3> DEFINE x == o.buffer[t]
               y == Second(o)
    <3>1. x \in Seq(Nat) /\ y \in Seq(Nat)
      BY <1>1
    <3> HIDE DEF x, y
    <3>2. y \o << >> = y /\ (f \o x) \o y = f \o (x \o y) /\ f \o x \in Seq(Nat)
      <4>1. y \o << >> = y
        BY <3>1, ConcatEmptySeq
      <4>2. (f \o x) \o y = f \o (x \o y)
        BY <3>1, JoinsOn
      <4>3. f \o x \in Seq(Nat)
        BY <3>1, ConcatProperties
      <4> QED
        BY <4>1, <4>2, <4>3
    <3>3. g = f \o x /\ First(c) = y /\ Second(c) = << >> /\ First(o) = x /\ Second(o) = y
      BY <2>1, <2>8 DEF x, y
    <3> QED
      BY <3>2, <3>3
  <2>10. SamdTakes(c)
    BY <1>1, <2>1, <2>2, <2>4, <2>5, <2>6, <2>7 DEF SamdTakes, avail
  <2>11. Live(o) => Live(c)
    <3> SUFFICES ASSUME Live(o) PROVE Live(c)
      OBVIOUS
    <3>1. o.ready = Held(o) /\ o.current = IF t \in Held(o) /\ w \notin Held(o) THEN w ELSE t
      BY DEF Live, t, w
    <3>2. c.ready = Held(c)
      BY <2>5, <2>7, <3>1 DEF ready
    <3>3. c.current = IF w \in Held(c) /\ t \notin Held(c) THEN t ELSE w
      BY <2>5, <2>7, <3>1
    <3> QED
      BY <2>5, <2>6, <3>2, <3>3 DEF Live
  <2>12. /\ SamdTakes(c) /\ g \in Seq(Nat) /\ c.flags = o.flags
         /\ g \o (First(c) \o Second(c)) = f \o (First(o) \o Second(o))
         /\ Live(o) => Live(c)
    BY <2>5, <2>9, <2>10, <2>11
  <2> QED
    BY <2>12 DEF c, g
<1> QED
  BY <1>2, <1>3

\* A packet is stored behind what waits.
LEMMA SamdStoreIs ==
  ASSUME NEW o, SamdTakes(o), Live(o), o.current \notin o.ready, NEW p \in Seq(Nat)
  PROVE  LET f == [o EXCEPT !.buffer[o.current] = p, !.ready = @ \cup {o.current},
                            !.flags = @ \cup {o.current}, !.current = 1 - @]
         IN  SamdTakes(f) /\ Live(f) /\ First(f) \o Second(f) = (First(o) \o Second(o)) \o p
<1> DEFINE w == o.which
           t == Samd!Turn(o)
           c == o.current
           buffer == [o.buffer EXCEPT ![c] = p]
           ready == o.ready \cup {c}
           flags == o.flags \cup {c}
           next == 1 - c
           f == [o EXCEPT !.buffer[o.current] = p, !.ready = @ \cup {o.current},
                          !.flags = @ \cup {o.current}, !.current = 1 - @]
<1>1. /\ o \in SamdOut /\ o.avail \cap o.flags = {} /\ c \in Samd!Banks
      /\ w \in Held(o) => t \in Held(o)
      /\ w \in o.avail => t \in o.avail
      /\ o.avail \in SUBSET Samd!Banks /\ o.flags \in SUBSET Samd!Banks /\ o.ready \in SUBSET Samd!Banks
      /\ o.buffer \in [Samd!Banks -> Seq(Nat)]
      /\ o.ready = Held(o) /\ c = IF t \in Held(o) /\ w \notin Held(o) THEN w ELSE t
  BY DEF SamdTakes, SamdOut, Live
<1>2. /\ w \in Samd!Banks /\ t \in Samd!Banks /\ t # w /\ t = 1 - w /\ 1 - t = w
      /\ First(o) \in Seq(Nat) /\ Second(o) \in Seq(Nat) /\ << >> \in Seq(Nat)
  BY SamdBanksAre
<1>3. /\ f = [o EXCEPT !.buffer = buffer, !.ready = ready, !.flags = flags, !.current = next]
      /\ next \in Samd!Banks
  BY <1>1, BankIs DEF SamdOut
<1>4. /\ buffer \in [Samd!Banks -> Seq(Nat)] /\ ready \in SUBSET Samd!Banks /\ flags \in SUBSET Samd!Banks
      /\ buffer[c] = p /\ \A b \in Samd!Banks : b # c => buffer[b] = o.buffer[b]
  BY <1>1
<1> HIDE DEF f, buffer, ready, flags, next
<1>5. f \in SamdOut
  BY <1>1, <1>3, <1>4 DEF SamdOut
<1>6. /\ f.which = w /\ f.avail = o.avail /\ f.buffer = buffer /\ f.ready = ready /\ f.flags = flags
      /\ f.current = next
  BY <1>1, <1>3 DEF SamdOut
<1>7. Samd!Turn(f) = t
  BY <1>6 DEF Samd!Turn
<1> HIDE DEF w, t, c
<1>8. Held(f) = Held(o) \cup {c} /\ c \notin Held(o)
  BY <1>1, <1>6 DEF Held, flags, c
<1>9. First(f) = (IF t \in Held(f) THEN buffer[t] ELSE << >>) /\ Second(f) = (IF w \in Held(f) THEN buffer[w] ELSE << >>)
      /\ First(o) = (IF t \in Held(o) THEN o.buffer[t] ELSE << >>)
      /\ Second(o) = (IF w \in Held(o) THEN o.buffer[w] ELSE << >>)
  BY <1>6, <1>7 DEF First, Second, t, w
<1>10. CASE t \notin Held(o)
  <2>1. c = t /\ w \notin Held(o) /\ next = w
    BY <1>1, <1>2, <1>10 DEF next
  <2>2. First(f) = p /\ Second(f) = << >> /\ First(o) = << >> /\ Second(o) = << >>
    BY <1>2, <1>4, <1>8, <1>9, <1>10, <2>1
  <2>3. p \o << >> = (<< >> \o << >>) \o p
    BY <1>2, ConcatEmptySeq
  <2>4. SamdTakes(f)
    BY <1>1, <1>5, <1>6, <1>7, <1>8, <2>1 DEF SamdTakes, flags, Held, w
  <2>5. Live(f)
    BY <1>1, <1>2, <1>6, <1>7, <1>8, <1>10, <2>1 DEF Live, ready
  <2> QED
    BY <2>2, <2>3, <2>4, <2>5 DEF f
<1>11. CASE t \in Held(o)
  <2>1. c = w /\ w \notin Held(o) /\ next = t
    BY <1>1, <1>2, <1>8, <1>11 DEF next
  <2>2. First(f) = First(o) /\ Second(f) = p /\ Second(o) = << >>
    BY <1>2, <1>4, <1>8, <1>9, <1>11, <2>1
  <2>3. First(o) \o p = (First(o) \o << >>) \o p
    BY <1>2, ConcatEmptySeq
  <2>4. SamdTakes(f)
    BY <1>1, <1>5, <1>6, <1>7, <1>8, <1>11, <2>1 DEF SamdTakes, flags, Held, w
  <2>5. Live(f)
    BY <1>1, <1>2, <1>6, <1>7, <1>8, <1>11, <2>1 DEF Live, ready
  <2> QED
    BY <2>2, <2>3, <2>4, <2>5 DEF f
<1> QED
  BY <1>10, <1>11

\* What the handler does first
LEMMA SamdNoticeIs ==
  ASSUME NEW o, SamdTakes(o)
  PROVE  LET f == [o EXCEPT !.avail = @ \cup o.flags, !.flags = {}]
         IN  SamdTakes(f) /\ First(f) = First(o) /\ Second(f) = Second(o) /\ (Live(o) => Live(f)) /\ f.flags = {}
<1> DEFINE avail == o.avail \cup o.flags
           f == [o EXCEPT !.avail = @ \cup o.flags, !.flags = {}]
<1>1. o \in SamdOut /\ avail \in SUBSET Samd!Banks
  BY DEF SamdTakes, SamdOut
<1>2. f = [o EXCEPT !.avail = avail, !.flags = {}]
  OBVIOUS
<1> HIDE DEF f, avail
<1>3. f \in SamdOut
  BY <1>1, <1>2 DEF SamdOut
<1>4. /\ f.which = o.which /\ f.avail = avail /\ f.buffer = o.buffer /\ f.ready = o.ready /\ f.flags = {}
      /\ f.current = o.current
  BY <1>1, <1>2 DEF SamdOut
<1>5. Held(f) = Held(o) /\ Samd!Turn(f) = Samd!Turn(o)
  BY <1>4 DEF Held, Samd!Turn, avail
<1>6. SamdTakes(f)
  BY <1>3, <1>4, <1>5 DEF SamdTakes, Held
<1>7. First(f) = First(o) /\ Second(f) = Second(o) /\ (Live(o) => Live(f))
  BY <1>4, <1>5 DEF First, Second, Live
<1> QED
  BY <1>4, <1>6, <1>7 DEF f

\* The configuration and a reset
LEMMA SamdReopenIs ==
  ASSUME NEW o, SamdTakes(o), o.flags = {}
  PROVE  LET f == Samd!Reopened(o)
         IN  SamdTakes(f) /\ Live(f) /\ First(f) = << >> /\ Second(f) = << >> /\ f.flags = {}
<1> DEFINE f == Samd!Reopened(o)
           y == 1
           z == 0
<1>1. o \in SamdOut /\ y \in Samd!Banks /\ z \in Samd!Banks /\ 1 - y = z
  BY DEF SamdTakes, Samd!Banks
<1>2. f = [o EXCEPT !.which = y, !.avail = {}, !.ready = {}, !.current = z]
  BY DEF Samd!Reopened
<1> HIDE DEF f, y, z
<1>3. f \in SamdOut
  BY <1>1, <1>2 DEF SamdOut
<1>4. /\ f.which = y /\ f.avail = {} /\ f.ready = {} /\ f.flags = {} /\ f.current = z
  BY <1>1, <1>2 DEF SamdOut
<1>5. Held(f) = {} /\ Samd!Turn(f) = z
  BY <1>1, <1>4 DEF Held, Samd!Turn
<1>6. SamdTakes(f) /\ Live(f)
  BY <1>3, <1>4, <1>5 DEF SamdTakes, Live
<1> QED
  BY <1>4, <1>5, <1>6 DEF First, Second, f

LEMMA SamdForgetIs ==
  ASSUME NEW o, SamdTakes(o)
  PROVE  LET f == [o EXCEPT !.ready = {}, !.flags = {}, !.current = 0]
         IN  /\ SamdTakes(f) /\ f.flags = {}
             /\ \E t \in Seq(Nat) : First(o) \o Second(o) = (First(f) \o Second(f)) \o t
<1> DEFINE f == [o EXCEPT !.ready = {}, !.flags = {}, !.current = 0]
           z == 0
<1>1. /\ o \in SamdOut /\ z \in Samd!Banks
      /\ o.which \in o.avail => Samd!Turn(o) \in o.avail
  BY DEF SamdTakes, Samd!Banks
<1>2. f = [o EXCEPT !.ready = {}, !.flags = {}, !.current = z]
  OBVIOUS
<1> HIDE DEF f, z
<1>3. f \in SamdOut
  BY <1>1, <1>2 DEF SamdOut
<1>4. f.which = o.which /\ f.avail = o.avail /\ f.buffer = o.buffer /\ f.flags = {}
  BY <1>1, <1>2 DEF SamdOut
<1>5. Held(f) = o.avail /\ Samd!Turn(f) = Samd!Turn(o) /\ Held(f) \subseteq Held(o)
  BY <1>4 DEF Held, Samd!Turn
<1>6. SamdTakes(f)
  BY <1>1, <1>3, <1>4, <1>5 DEF SamdTakes
<1> DEFINE a == First(o)
           b == Second(o)
<1>7. a \in Seq(Nat) /\ b \in Seq(Nat) /\ << >> \in Seq(Nat)
  BY SamdBanksAre
<1>8. \/ First(f) = a /\ Second(f) = b
      \/ First(f) = a /\ Second(f) = << >>
      \/ First(f) = << >> /\ Second(f) = << >>
  BY <1>1, <1>4, <1>5 DEF First, Second
<1> HIDE DEF a, b
<1>9. /\ a \o b \in Seq(Nat) /\ (a \o b) \o << >> = a \o b /\ (a \o << >>) \o b = a \o b
      /\ (<< >> \o << >>) \o (a \o b) = a \o b
  BY <1>7, ConcatEmptySeq, ConcatProperties
<1>10. \E t \in Seq(Nat) : a \o b = (First(f) \o Second(f)) \o t
  BY <1>7, <1>8, <1>9
<1> QED
  BY <1>4, <1>6, <1>10 DEF f, a, b

\* Only the handler makes the banks live.
LEMMA SamdHostOpens ==
  ASSUME SamdControl, Samd!Setup \/ Samd!ControlIn \/ Samd!ControlOut, SamdOpened'
  PROVE  SamdOpened
<1>1. HostFits(control) /\ SamdFits(control, ep0, eorst) /\ control \in Control /\ ep0 \in SamdEp0
  BY DEF SamdControl, SamdFits, HostFits
<1>2. CASE Samd!Setup
  <2>1. /\ ep0' = [ep0 EXCEPT !.bank0 = ep0'.bank0, !.flags = @ \cup {"RXSTP"}]
        /\ \E r : control' = Asks(control, r)
    BY <1>1, <1>2, SameHost DEF Samd!Setup, SamdEp0
  <2>2. "RXSTP" \in ep0'.flags
    BY <1>1, <2>1 DEF SamdEp0
  <2>3. control'.configured
    BY <2>2 DEF SamdOpened
  <2> QED
    BY <1>1, <2>1, <2>3, StaysConfigured DEF SamdOpened
<1>3. CASE Samd!ControlIn
  <2> DEFINE p == ep0.bank1
  <2>1. /\ control.stage \in {"in", "status_in"} /\ p # Samd!NoPacket
        /\ control' = TakesControl(control, p.request, p.from, p.bytes)
    BY <1>3, SameHost DEF Samd!ControlIn
  <2>2. "RXSTP" \notin ep0.flags
    BY <1>1, <2>1 DEF SamdFits
  <2> HIDE DEF p
  <2>3. CASE control.stage = "in"
    <3>1. control'.stage # "status_in" /\ control'.configured = control.configured
      BY <1>1, <2>1, <2>3 DEF TakesControl, Control
    <3> QED
      BY <3>1 DEF SamdOpened
  <2>4. CASE control.stage = "status_in"
    <3>1. control'.stage = "idle" /\ control'.configured = (control.configured \/ control.request.name = "configuration")
      BY <1>1, <2>1, <2>4 DEF TakesControl, Control
    <3>2. control.request.name = "configuration" => control.request = SetConfiguration
      BY <1>1, ConfigurationIs DEF Control
    <3> QED
      BY <2>2, <2>4, <3>1, <3>2 DEF SamdOpened
  <2> QED
    BY <2>1, <2>3, <2>4
<1>4. CASE Samd!ControlOut
  <2>1. control' = GivesControl(control) /\ control.stage \in {"out", "status_out"}
    BY <1>4, SameHost DEF Samd!ControlOut
  <2>2. /\ control'.request = control.request /\ control'.configured = control.configured
        /\ control'.stage = IF control.stage = "out" THEN "status_in" ELSE "idle"
    BY <1>1, <2>1, GivesFits
  <2>3. control.stage = "out" => control.request # SetConfiguration
    BY <1>1 DEF HostFits, SetConfiguration, Request
  <2> QED
    BY <2>1, <2>2, <2>3 DEF SamdOpened
<1> QED
  BY <1>2, <1>3, <1>4


LEMMA SamdGetcTypes ==
  ASSUME SamdTyped, Samd!Getc
  PROVE  SamdTyped'
<1> DEFINE t == Tail(fifo)
           h == Head(fifo)
           v == First(out) \o Second(out)
           w == First(out') \o Second(out')
<1>1. /\ fifo # << >> /\ read' = Append(read, h) /\ out' = Samd!Check(out, t) /\ fifo' = Samd!Filled(out, t)
      /\ UNCHANGED <<sent, resets, control, ep0>>
  BY DEF Samd!Getc, Samd!hostVars
<1>2. /\ SamdTakes(out) /\ read \in Seq(Nat) /\ fifo \in Seq(Nat) /\ v \in Seq(Nat)
      /\ Ordered((read \o fifo) \o v, sent, resets)
  BY DEF SamdTyped, Typed
<1>3. read' \in Seq(Nat) /\ t \in Seq(Nat) /\ read' \o t = read \o fifo
  BY <1>1, <1>2, MovesOn
<1> HIDE DEF t, h
<1>4. /\ SamdTakes(out') /\ fifo' \in Seq(Nat) /\ out'.flags = out.flags
      /\ fifo' \o (First(out') \o Second(out')) = t \o (First(out) \o Second(out))
      /\ Live(out) => Live(out')
  BY <1>1, <1>2, <1>3, SamdCheckIs
<1>5. w \in Seq(Nat)
  <2>1. First(out') \in Seq(Nat) /\ Second(out') \in Seq(Nat)
    BY <1>4, SamdBanksAre
  <2> QED
    BY <2>1, ConcatProperties
<1>6. fifo' \o w = t \o v
  BY <1>4
<1> HIDE DEF v, w
<1>7. (read' \o fifo') \o w = (read \o fifo) \o v
  <2>0. read' \in Seq(Nat) /\ fifo' \in Seq(Nat) /\ t \in Seq(Nat) /\ v \in Seq(Nat)
    BY <1>2, <1>3, <1>4
  <2>1. (read' \o fifo') \o w = read' \o (fifo' \o w)
    BY <1>5, <2>0, SMTT(60)
  <2>2. (read' \o t) \o v = read' \o (t \o v)
    BY <2>0, SMTT(60)
  <2> QED
    BY <1>3, <1>6, <2>1, <2>2
<1>8. Ordered((read' \o fifo') \o w, sent', resets')
  BY <1>1, <1>2, <1>7
<1> QED
  BY <1>1, <1>3, <1>4, <1>5, <1>8 DEF SamdTyped, Typed, SamdOpened, w

LEMMA SamdOutTypes ==
  ASSUME SamdTyped, Samd!IsrOut
  PROVE  SamdTyped'
<1> DEFINE o == [out EXCEPT !.avail = @ \cup out.flags, !.flags = {}]
           v == First(out) \o Second(out)
           w == First(out') \o Second(out')
<1>1. /\ out' = Samd!Check(o, fifo) /\ fifo' = Samd!Filled(o, fifo)
      /\ UNCHANGED <<read, sent, resets, control, ep0>>
  BY DEF Samd!IsrOut, Samd!hostVars
<1>2. /\ SamdTakes(out) /\ read \in Seq(Nat) /\ fifo \in Seq(Nat) /\ v \in Seq(Nat)
      /\ Ordered((read \o fifo) \o v, sent, resets)
  BY DEF SamdTyped, Typed
<1>3. /\ SamdTakes(o) /\ First(o) = First(out) /\ Second(o) = Second(out) /\ (Live(out) => Live(o))
      /\ o.flags = {}
  BY <1>2, SamdNoticeIs
<1> HIDE DEF o
<1>4. /\ SamdTakes(out') /\ fifo' \in Seq(Nat) /\ out'.flags = o.flags
      /\ fifo' \o (First(out') \o Second(out')) = fifo \o (First(o) \o Second(o))
      /\ Live(o) => Live(out')
  BY <1>1, <1>2, <1>3, SamdCheckIs
<1>5. w \in Seq(Nat)
  <2>1. First(out') \in Seq(Nat) /\ Second(out') \in Seq(Nat)
    BY <1>4, SamdBanksAre
  <2> QED
    BY <2>1, ConcatProperties
<1>6. fifo' \o w = fifo \o v
  BY <1>3, <1>4
<1> HIDE DEF v, w
<1>7. (read \o fifo') \o w = (read \o fifo) \o v
  <2>0. read \in Seq(Nat) /\ fifo \in Seq(Nat) /\ fifo' \in Seq(Nat) /\ v \in Seq(Nat)
    BY <1>2, <1>4
  <2>1. (read \o fifo') \o w = read \o (fifo' \o w)
    BY <1>5, <2>0, SMTT(60)
  <2>2. (read \o fifo) \o v = read \o (fifo \o v)
    BY <2>0, SMTT(60)
  <2> QED
    BY <1>6, <2>1, <2>2
<1>8. Ordered((read' \o fifo') \o w, sent', resets')
  BY <1>1, <1>2, <1>7
<1> QED
  BY <1>1, <1>2, <1>3, <1>4, <1>5, <1>8 DEF SamdTyped, Typed, SamdOpened, w

\* What the host sends at a time
LEMMA PacketIs ==
  ASSUME sent \in Nat, plan \in Plans, NEW p \in Samd!Packets \cup Avr!Packets
  PROVE  p \in Seq(Nat) /\ Len(p) \in Nat /\ Bytes(p, Len(p), sent)
<1>1. plan.type \in Nat /\ OutSize \in Nat
  BY PlansAssumption, SizesAssumption
<1> DEFINE m == Least(OutSize, plan.type - sent)
<1>2. Samd!Min({OutSize, plan.type - sent}) = m /\ Avr!Min({OutSize, plan.type - sent}) = m
  <2>1. OutSize \in Int /\ plan.type - sent \in Int
    BY <1>1
  <2> QED
    BY <2>1, MinIs, Zenon
<1>3. m \in Int
  BY <1>1 DEF Least
<1>4. PICK n \in 1..m : p = [i \in 1..n |-> sent + i]
  BY <1>2 DEF Samd!Packets, Avr!Packets
<1>5. n \in Nat
  BY <1>3, <1>4
<1>6. \A i \in 1..n : sent + i \in Nat
  BY <1>5
<1>7. p \in [1..n -> Nat] /\ \A i \in 1..n : p[i] = sent + i
  BY <1>4, <1>6
<1>8. p \in Seq(Nat) /\ Len(p) = n
  BY <1>5, <1>7
<1> QED
  BY <1>5, <1>7, <1>8 DEF Bytes

LEMMA SamdTypeTypes ==
  ASSUME SamdControl, Traffic, plan \in Plans, SamdTyped, Samd!Type
  PROVE  SamdTyped' /\ Traffic'
<1>1. PICK p \in Samd!Packets :
        /\ out.current \notin out.ready /\ control.configured /\ sent' = sent + Len(p)
        /\ out' = [out EXCEPT !.buffer[out.current] = p, !.ready = @ \cup {out.current},
                              !.flags = @ \cup {out.current}, !.current = 1 - @]
  BY DEF Samd!Type, Samd!Gives
<1>2. UNCHANGED <<read, fifo, resets, control, ep0>>
  BY DEF Samd!Type, Samd!Gives, Samd!programVars
<1>3. sent \in Nat /\ p \in Seq(Nat) /\ Len(p) \in Nat /\ Bytes(p, Len(p), sent)
  BY PacketIs DEF Traffic
<1> DEFINE s == read \o fifo
           v == First(out) \o Second(out)
           w == First(out') \o Second(out')
<1>4. /\ SamdTakes(out) /\ Live(out) /\ read \in Seq(Nat) /\ fifo \in Seq(Nat) /\ v \in Seq(Nat)
      /\ Ordered(s \o v, sent, resets)
  BY <1>1 DEF SamdTyped, Typed, SamdOpened
<1>5. SamdTakes(out') /\ Live(out') /\ w = v \o p
  BY <1>1, <1>3, <1>4, SamdStoreIs
<1>6. s \in Seq(Nat) /\ w \in Seq(Nat) /\ s \o v \in Seq(Nat)
  BY <1>3, <1>4, <1>5, ConcatProperties
<1> HIDE DEF v, w, s
<1>7. s \o w = (s \o v) \o p
  <2>1. w = v \o p /\ v \in Seq(Nat)
    BY <1>4, <1>5
  <2>2. (s \o v) \o p = s \o (v \o p)
    <3>1. s \in Seq(Nat) /\ v \in Seq(Nat) /\ p \in Seq(Nat)
      BY <1>3, <1>6, <2>1
    <3> QED
      BY <3>1, JoinsOn
  <2> QED
    BY <2>1, <2>2
<1>8. Ordered(s \o w, sent', resets')
  <2>1. Ordered((s \o v) \o p, sent + Len(p), resets)
    BY <1>3, <1>4, <1>6, OrderedGrows
  <2> QED
    BY <1>1, <1>2, <1>7, <2>1
<1>9. s = s'
  BY <1>2 DEF s
<1>10. SamdTyped'
  BY <1>1, <1>2, <1>4, <1>5, <1>6, <1>8, <1>9 DEF SamdTyped, Typed, SamdOpened, w, s
<1>11. Traffic'
  BY <1>1, <1>2, <1>3 DEF Traffic
<1> QED
  BY <1>10, <1>11

LEMMA SamdConfigureTypes ==
  ASSUME SamdControl, Traffic, SamdTyped, Samd!IsrControl
  PROVE  SamdTyped'
<1> DEFINE configures == "RXSTP" \in ep0.flags /\ ep0.bank0.request.name = "configuration"
           s == read \o fifo
           v == First(out) \o Second(out)
<1>1. /\ UNCHANGED <<sent, resets, control, read, fifo>>
      /\ out' = IF configures THEN Samd!Reopened(out) ELSE out
  BY DEF Samd!IsrControl, Samd!hostVars, Samd!programVars
<1>2. /\ SamdTakes(out) /\ read \in Seq(Nat) /\ fifo \in Seq(Nat) /\ v \in Seq(Nat)
      /\ Ordered(s \o v, sent, resets) /\ (~control.configured => out.flags = {})
  BY DEF SamdTyped, Typed
<1>3. CASE configures
  <2>1. ~control.configured /\ out.flags = {}
    BY <1>2, <1>3, SamdConfigures
  <2>2. /\ SamdTakes(out') /\ Live(out') /\ First(out') = << >> /\ Second(out') = << >> /\ out'.flags = {}
    BY <1>1, <1>2, <1>3, <2>1, SamdReopenIs
  <2>3. s \in Seq(Nat) /\ << >> \in Seq(Nat) /\ << >> \o << >> = << >> /\ s \o << >> = s
    BY <1>2, ConcatProperties, ConcatEmptySeq, EmptySeq
  <2>4. Ordered(s, sent, resets)
    <3>1. resets # 0 \/ (resets = resets /\ sent = 0)
      BY <2>1 DEF Traffic
    <3> HIDE DEF s, v
    <3> QED
      BY <1>2, <2>3, <3>1, OrderedPart DEF Traffic
  <2> HIDE DEF v
  <2>5. Ordered((read' \o fifo') \o (First(out') \o Second(out')), sent', resets')
    BY <1>1, <2>2, <2>3, <2>4
  <2> QED
    BY <1>1, <1>2, <2>2, <2>3, <2>5 DEF SamdTyped, Typed
<1>4. CASE ~configures
  <2>1. SamdOpened' => SamdOpened
    <3>1. "RXSTP" \in ep0.flags => control.request = ep0.bank0.request
      BY DEF SamdControl, SamdFits
    <3>2. control.request = SetConfiguration => control.request.name = "configuration"
      BY DEF SetConfiguration, Request
    <3> QED
      BY <1>1, <1>4, <3>1, <3>2 DEF SamdOpened
  <2> QED
    BY <1>1, <1>4, <2>1 DEF SamdTyped, Typed
<1> QED
  BY <1>3, <1>4

LEMMA SamdResetTypes ==
  ASSUME SamdControl, Traffic, SamdTyped, Samd!Reset
  PROVE  SamdTyped' /\ Traffic'
<1> DEFINE s == read \o fifo
           v == First(out) \o Second(out)
           w == First(out') \o Second(out')
<1>1. /\ out' = [out EXCEPT !.ready = {}, !.flags = {}, !.current = 0]
      /\ UNCHANGED <<sent, read, fifo>> /\ control'.stage = "idle" /\ ~control'.configured
      /\ resets' \in Nat /\ resets' # 0
  <2>1. control' = [Start EXCEPT !.wrong = control.wrong, !.asked = control.asked]
    BY SameRequests DEF Samd!Reset, Samd!HostResets, Samd!Start, Start
  <2>2. control'.stage = "idle" /\ ~control'.configured
    BY <2>1 DEF Start
  <2> QED
    BY <2>2, ResetsKept DEF Samd!Reset, Samd!HostResets, Samd!programVars
<1>2. /\ SamdTakes(out) /\ read \in Seq(Nat) /\ fifo \in Seq(Nat) /\ v \in Seq(Nat)
      /\ Ordered(s \o v, sent, resets) /\ sent \in Nat
  BY DEF SamdTyped, Typed, Traffic
<1>3. /\ SamdTakes(out') /\ out'.flags = {}
      /\ \E t \in Seq(Nat) : v = (First(out') \o Second(out')) \o t
  BY <1>1, <1>2, SamdForgetIs
<1>4. PICK t \in Seq(Nat) : v = w \o t
  BY <1>3
<1>5. w \in Seq(Nat) /\ s \in Seq(Nat) /\ s \o w \in Seq(Nat)
  <2>1. First(out') \in Seq(Nat) /\ Second(out') \in Seq(Nat)
    BY <1>3, SamdBanksAre
  <2> QED
    BY <1>2, <2>1, ConcatProperties
<1> HIDE DEF s, v, w
<1>6. s \o v = (s \o w) \o t
  BY <1>4, <1>5, JoinsOn
<1>7. Ordered(s \o w, sent, resets')
  BY <1>1, <1>2, <1>4, <1>5, <1>6, OrderedPart
<1>8. s = s'
  BY <1>1 DEF s
<1>9. SamdTyped'
  BY <1>1, <1>2, <1>3, <1>5, <1>7, <1>8 DEF SamdTyped, Typed, SamdOpened, w, s
<1> QED
  BY <1>1, <1>2, <1>9 DEF Traffic

LEMMA SamdTypedKept ==
  ASSUME SamdControl, Traffic, plan \in Plans, SamdTyped, Samd!Next
  PROVE  SamdTyped' /\ Traffic'
<1>1. CASE UNCHANGED <<read, fifo, out, sent, resets, control, ep0>>
  BY <1>1 DEF SamdTyped, Typed, SamdOpened, Traffic
<1>2. CASE Samd!Program \/ Samd!Begins
  BY <1>1, <1>2 DEF Samd!Program, Samd!Insert, Samd!Flush, Samd!Puts, Samd!Flushed, Samd!Enter, Samd!Begins,
       Samd!Begin, Samd!hostVars, Samd!deviceVars
<1>3. CASE Samd!Poll \/ Samd!IsrIn
  BY <1>1, <1>3 DEF Samd!Poll, Samd!Takes, Samd!IsrIn, Samd!hostVars, Samd!programVars
<1>4. CASE Samd!IsrReset
  <2>1. UNCHANGED <<read, fifo, out, sent, resets, control>> /\ ep0'.flags = ep0.flags
    BY <1>4 DEF Samd!IsrReset, Samd!hostVars, Samd!programVars, SamdControl, SamdFits, SamdEp0
  <2> QED
    BY <2>1 DEF SamdTyped, Typed, SamdOpened, Traffic
<1>5. CASE Samd!Setup \/ Samd!ControlIn \/ Samd!ControlOut
  <2>1. /\ UNCHANGED <<read, fifo, out, sent, resets>> /\ (control.configured => control'.configured)
        /\ SamdOpened' => SamdOpened
    BY <1>5, SamdHostKeeps, SamdHostOpens
  <2> QED
    BY <2>1 DEF SamdTyped, Typed, Traffic
<1>6. CASE Samd!Getc
  BY <1>6, SamdGetcTypes DEF Traffic, Samd!Getc, Samd!hostVars
<1>7. CASE Samd!IsrOut
  BY <1>7, SamdOutTypes DEF Traffic, Samd!IsrOut, Samd!hostVars
<1>8. CASE Samd!IsrControl
  BY <1>8, SamdConfigureTypes DEF Traffic, Samd!IsrControl, Samd!hostVars
<1>9. CASE Samd!Type \/ Samd!Reset
  BY <1>9, SamdTypeTypes, SamdResetTypes
<1> QED
  BY <1>2, <1>3, <1>4, <1>5, <1>6, <1>7, <1>8, <1>9 DEF Samd!Next, Samd!Host, Samd!Isr

----------------------------------------------------------------------------
(***************************************************************************)
(* The ATmega32u4: what is printed keeps its order                         *)
(***************************************************************************)
LEMMA QueueIs ==
  ASSUME NEW q \in Seq(Seq(Nat)), NEW i \in 1..Len(q)
  PROVE  q[i] \in Seq(Nat) /\ Len(q[i]) \in Nat
<1>1. q[i] \in Seq(Nat)
  BY ElementOfSeq
<1> QED
  BY <1>1, LenProperties

LEMMA AvrPutIs ==
  ASSUME NEW b, NEW q, NEW g \in Nat, NEW n \in Nat, AvrLined(b, q, g, n)
  PROVE  AvrLined(Append(b, n + 1), q, g, n + 1)
<1> DEFINE c == Append(b, n + 1)
<1>1. b \in Seq(Nat) /\ q \in Seq(Seq(Nat)) /\ Len(b) \in Nat /\ n + 1 \in Nat
  BY LenProperties DEF AvrLined
<1>2. /\ c \in Seq(Nat) /\ Len(c) = Len(b) + 1 /\ c[Len(b) + 1] = n + 1
      /\ \A i \in 1..Len(b) : c[i] = b[i]
  BY <1>1, AppendProperties
<1> HIDE DEF c
<1>3. \A k \in Nat : Bytes(b, Len(b), k) /\ k + Len(b) = n => Bytes(c, Len(c), k) /\ k + Len(c) = n + 1
  <2> SUFFICES ASSUME NEW k \in Nat, Bytes(b, Len(b), k), k + Len(b) = n
               PROVE  Bytes(c, Len(c), k) /\ k + Len(c) = n + 1
    OBVIOUS
  <2>1. k + Len(c) = n + 1 /\ \A m \in 1..Len(c) : m \in 1..Len(b) \/ m = Len(b) + 1
    BY <1>1, <1>2
  <2>2. k + (Len(b) + 1) = n + 1
    <3>1. k + (Len(b) + 1) = (k + Len(b)) + 1
      BY <1>1
    <3> QED
      BY <3>1
  <2> QED
    BY <1>2, <2>1, <2>2 DEF Bytes
<1>4. CASE Len(q) = 0
  BY <1>1, <1>2, <1>3, <1>4 DEF AvrLined, c
<1>5. CASE Len(q) = 1
  <2>1. q[1] \in Seq(Nat) /\ Len(q[1]) \in Nat
    <3>1. 1 \in 1..Len(q)
      BY <1>5
    <3> QED
      BY <1>1, <3>1, QueueIs
  <2>2. /\ Bytes(q[1], Len(q[1]), g) /\ Bytes(b, Len(b), g + Len(q[1])) /\ g + Len(q[1]) \in Nat
        /\ (g + Len(q[1])) + Len(b) = n
    BY <1>5, <2>1 DEF AvrLined
  <2>3. Bytes(c, Len(c), g + Len(q[1])) /\ (g + Len(q[1])) + Len(c) = n + 1
    BY <1>3, <2>2
  <2> QED
    BY <1>1, <1>2, <1>5, <2>2, <2>3 DEF AvrLined, c
<1>6. CASE Len(q) = 2
  <2>1. q[1] \in Seq(Nat) /\ Len(q[1]) \in Nat /\ q[2] \in Seq(Nat) /\ Len(q[2]) \in Nat
    <3>1. 1 \in 1..Len(q) /\ 2 \in 1..Len(q)
      BY <1>6
    <3> QED
      BY <1>1, <3>1, QueueIs
  <2> DEFINE k == g + Len(q[1]) + Len(q[2])
  <2>2. /\ Bytes(q[1], Len(q[1]), g) /\ Bytes(q[2], Len(q[2]), g + Len(q[1])) /\ Bytes(b, Len(b), k)
        /\ k \in Nat /\ k + Len(b) = n
    BY <1>6, <2>1 DEF AvrLined
  <2> HIDE DEF k
  <2>3. Bytes(c, Len(c), k) /\ k + Len(c) = n + 1
    BY <1>3, <2>2
  <2> QED
    BY <1>1, <1>2, <1>6, <2>2, <2>3 DEF AvrLined, k, c
<1> QED
  BY <1>4, <1>5, <1>6 DEF AvrLined

\* The bank is handed over.
LEMMA AvrSendIs ==
  ASSUME NEW b, NEW q, NEW g \in Nat, NEW n \in Nat, AvrLined(b, q, g, n), Len(q) < 2
  PROVE  AvrLined(<< >>, Append(q, b), g, n)
<1> DEFINE r == Append(q, b)
<1>1. b \in Seq(Nat) /\ q \in Seq(Seq(Nat)) /\ Len(b) \in Nat /\ << >> \in Seq(Nat) /\ Len(<< >>) = 0
  BY LenProperties, EmptySeq DEF AvrLined
<1>2. r \in Seq(Seq(Nat)) /\ Len(r) = Len(q) + 1 /\ r[Len(q) + 1] = b /\ \A i \in 1..Len(q) : r[i] = q[i]
  BY <1>1, AppendProperties
<1> HIDE DEF r
<1>3. \A k : Bytes(<< >>, Len(<< >>), k)
  BY <1>1 DEF Bytes
<1>4. CASE Len(q) = 0
  <2>1. Len(r) = 1 /\ r[1] = b /\ Bytes(b, Len(b), g) /\ g + Len(b) + 0 = n
    BY <1>1, <1>2, <1>4 DEF AvrLined
  <2> QED
    BY <1>1, <1>2, <1>3, <2>1 DEF AvrLined, r
<1>5. CASE Len(q) = 1
  <2>1. Len(q[1]) \in Nat
    <3>1. 1 \in 1..Len(q)
      BY <1>5
    <3> QED
      BY <1>1, <3>1, QueueIs
  <2>2. /\ Len(r) = 2 /\ r[1] = q[1] /\ r[2] = b
        /\ Bytes(q[1], Len(q[1]), g) /\ Bytes(b, Len(b), g + Len(q[1])) /\ g + Len(q[1]) + Len(b) + 0 = n
    BY <1>1, <1>2, <1>5, <2>1 DEF AvrLined
  <2> QED
    BY <1>1, <1>2, <1>3, <2>2 DEF AvrLined, r
<1>6. Len(q) = 0 \/ Len(q) = 1
  <2>1. Len(q) \in Nat
    BY <1>1, LenProperties
  <2> DEFINE l == Len(q)
  <2>3. l \in Nat /\ l < 2
    BY <2>1
  <2> HIDE DEF l
  <2>4. l = 0 \/ l = 1
    BY <2>3
  <2> QED
    BY <2>4 DEF l
<1> QED
  BY <1>4, <1>5, <1>6

\* The host takes the first of those that wait.
LEMMA AvrTakeIs ==
  ASSUME NEW b, NEW q, NEW g \in Nat, NEW n \in Nat, AvrLined(b, q, g, n), q # << >>
  PROVE  LET p == Head(q)
         IN  p \in Seq(Nat) /\ Bytes(p, Len(p), g) /\ AvrLined(b, Tail(q), g + Len(p), n)
<1> DEFINE p == Head(q)
           r == Tail(q)
<1>1. b \in Seq(Nat) /\ q \in Seq(Seq(Nat)) /\ Len(b) \in Nat
  BY LenProperties DEF AvrLined
<1>2. /\ p \in Seq(Nat) /\ p = q[1] /\ r \in Seq(Seq(Nat)) /\ Len(r) = Len(q) - 1 /\ Len(q) \in Nat \ {0}
      /\ \A i \in 1..Len(r) : r[i] = q[i + 1]
  BY <1>1, HeadTailProperties, EmptySeq
<1> HIDE DEF p, r
<1>3. Len(p) \in Nat
  BY <1>2, LenProperties
<1>4. CASE Len(q) = 1
  <2>1. Len(r) = 0 /\ Bytes(p, Len(p), g) /\ Bytes(b, Len(b), g + Len(p)) /\ (g + Len(p)) + Len(b) = n
    BY <1>2, <1>4 DEF AvrLined
  <2> QED
    BY <1>1, <1>2, <2>1 DEF AvrLined, p, r
<1>5. CASE Len(q) = 2
  <2>1. Len(r) = 1 /\ r[1] = q[2]
    <3>1. Len(r) = 1 /\ 1 \in 1..Len(r) /\ 1 + 1 = 2
      BY <1>2, <1>5
    <3> QED
      BY <1>2, <3>1
  <2>2. /\ Bytes(p, Len(p), g) /\ Bytes(r[1], Len(r[1]), g + Len(p))
        /\ Bytes(b, Len(b), (g + Len(p)) + Len(r[1])) /\ (g + Len(p)) + Len(r[1]) + Len(b) = n
    BY <1>2, <1>5, <2>1 DEF AvrLined
  <2> QED
    BY <1>1, <1>2, <2>1, <2>2 DEF AvrLined, p, r
<1> QED
  BY <1>2, <1>4, <1>5 DEF AvrLined

\* The bank, the banks that wait and whether the endpoint is on decide what is printed.
LEMMA AvrInIs ==
  ASSUME NEW i \in AvrIn
  PROVE  /\ Avr!Awake(i) \in AvrIn /\ Avr!Awake(i).bank = i.bank /\ Avr!Awake(i).ready = i.ready
         /\ Avr!Awake(i).on = i.on
         /\ Avr!Configured(i) \in AvrIn /\ Avr!Configured(i).bank = << >> /\ Avr!Configured(i).ready = << >>
         /\ Avr!Configured(i).on
         /\ Avr!InSend(i) \in AvrIn /\ Avr!InSend(i).bank = << >> /\ Avr!InSend(i).ready = Append(i.ready, i.bank)
         /\ Avr!InSend(i).on = i.on
<1>1. << >> \in Seq(Nat) /\ << >> \in Seq(Seq(Nat)) /\ i.bank \in Seq(Nat) /\ i.ready \in Seq(Seq(Nat))
  BY EmptySeq DEF AvrIn
<1>2. Append(i.ready, i.bank) \in Seq(Seq(Nat))
  BY <1>1, AppendProperties
<1> DEFINE e == << >>
           r == Append(i.ready, i.bank)
           x == Len(i.ready) = 0
<1>3. Avr!Awake(i) \in AvrIn /\ Avr!Awake(i).bank = i.bank /\ Avr!Awake(i).ready = i.ready /\ Avr!Awake(i).on = i.on
  BY DEF Avr!Awake, AvrIn
<1>4. Avr!Configured(i) = [i EXCEPT !.bank = e, !.ready = e, !.on = TRUE, !.txini = TRUE]
      /\ Avr!InSend(i) = [i EXCEPT !.ready = r, !.bank = e, !.txini = x]
  BY DEF Avr!Configured, Avr!InSend
<1>5. e \in Seq(Nat) /\ e \in Seq(Seq(Nat)) /\ r \in Seq(Seq(Nat)) /\ x \in BOOLEAN
  BY <1>1, <1>2
<1> HIDE DEF e, r, x
<1> DEFINE c == Avr!Configured(i)
           s == Avr!InSend(i)
<1> HIDE DEF c, s
<1>6. c = [i EXCEPT !.bank = e, !.ready = e, !.on = TRUE, !.txini = TRUE]
  BY <1>4 DEF c
<1>7. s = [i EXCEPT !.ready = r, !.bank = e, !.txini = x]
  BY <1>4 DEF s
<1>8. c \in AvrIn /\ c.bank = e /\ c.ready = e /\ c.on
  BY <1>5, <1>6 DEF AvrIn
<1>9. s \in AvrIn /\ s.bank = e /\ s.ready = r /\ s.on = i.on
  BY <1>5, <1>7 DEF AvrIn
<1> QED
  BY <1>3, <1>8, <1>9 DEF c, s, e, r

LEMMA AvrQueuedIs ==
  ASSUME NEW i \in AvrIn, NEW g \in Nat, written \in Nat, AvrLined(i.bank, i.ready, g, written), Len(i.ready) < 2
  PROVE  LET f == Avr!Queued(i)
         IN  f \in AvrIn /\ f.on = i.on /\ AvrLined(f.bank, f.ready, g, written + 1)
<1> DEFINE b == Append(i.bank, written + 1)
           j == [i EXCEPT !.bank = b]
           k == IF Len(j.bank) = InSize THEN Avr!InSend(j) ELSE j
           f == [k EXCEPT !.flushed = FALSE]
<1>1. b \in Seq(Nat)
  <2>1. i.bank \in Seq(Nat) /\ written + 1 \in Nat
    BY DEF AvrIn
  <2> QED
    BY <2>1, AppendProperties
<1>2. AvrLined(b, i.ready, g, written + 1)
  BY AvrPutIs
<1>3. Avr!Queued(i) = f
  BY DEF Avr!Queued
<1> HIDE DEF b
<1>4. j \in AvrIn /\ j.bank = b /\ j.ready = i.ready /\ j.on = i.on
  BY <1>1 DEF AvrIn
<1> HIDE DEF j
<1>5. written + 1 \in Nat
  OBVIOUS
<1>6. k \in AvrIn /\ k.on = i.on /\ AvrLined(k.bank, k.ready, g, written + 1)
  <2>1. CASE Len(j.bank) = InSize
    <3>1. AvrLined(<< >>, Append(i.ready, b), g, written + 1)
      BY <1>2, <1>5, AvrSendIs
    <3>2. k = Avr!InSend(j)
      BY <2>1
    <3> HIDE DEF k
    <3>3. k \in AvrIn /\ k.bank = << >> /\ k.ready = Append(i.ready, b) /\ k.on = i.on
      BY <1>4, <3>2, AvrInIs
    <3> QED
      BY <3>1, <3>3, Zenon
  <2>2. CASE Len(j.bank) # InSize
    <3>1. k = j
      BY <2>2
    <3> HIDE DEF k
    <3> QED
      BY <1>2, <1>4, <3>1, Zenon
  <2> QED
    BY <2>1, <2>2
<1> HIDE DEF k
<1>7. f \in AvrIn /\ f.on = k.on /\ f.bank = k.bank /\ f.ready = k.ready
  BY <1>6 DEF AvrIn
<1> HIDE DEF f
<1> QED
  BY <1>3, <1>6, <1>7

\* What the device is given between its configuration and the next reset
LEMMA AvrConfigures ==
  ASSUME AvrControl, ep0.rxstpi, ep0.received.request = Avr!SetConfiguration
  PROVE  ~control.configured /\ control.stage = "status_in" /\ control.request = SetConfiguration
<1>1. control.request = SetConfiguration /\ control.stage = Opening(control.request)
  BY SameRequests DEF AvrControl, AvrFits
<1>2. control.stage = "status_in"
  BY <1>1 DEF Opening, SetConfiguration, Request
<1> QED
  BY <1>1, <1>2 DEF AvrControl, HostFits

LEMMA AvrHostKeeps ==
  ASSUME AvrControl, Avr!Setup \/ Avr!ControlIn \/ Avr!ControlOut
  PROVE  /\ UNCHANGED <<got, delivered, sent, plan, resets, written, owed, read, abort, job,
                        in, out, fifo, dadd, eorst, running>>
         /\ control.configured => control'.configured
         /\ AvrOpened => AvrOpened'
<1>1. HostFits(control) /\ AvrFits(control, ep0) /\ control \in Control /\ ep0 \in AvrEp0
  BY DEF AvrControl, AvrFits, HostFits
<1>2. CASE Avr!Setup
  <2>1. control.stage = "idle" /\ \E r : control' = Asks(control, r)
    BY <1>2, SameHost DEF Avr!Setup
  <2> QED
    BY <1>1, <1>2, <2>1, StaysConfigured DEF Avr!Setup, Avr!programVars, AvrOpened
<1>3. CASE Avr!ControlIn
  <2> DEFINE p == ep0.sending
  <2>1. /\ control.stage \in {"in", "status_in"}
        /\ control' = TakesControl(control, p.request, p.from, p.bytes)
    BY <1>3, SameHost DEF Avr!ControlIn
  <2> HIDE DEF p
  <2>2. control.configured => control'.configured
    BY <1>1, <2>1, StaysConfigured
  <2>3. control.stage = "status_in" => control'.configured = (control.configured \/ control.request.name = "configuration")
    BY <1>1, <2>1 DEF TakesControl, Control
  <2>4. SetConfiguration.name = "configuration"
    BY DEF SetConfiguration, Request
  <2> QED
    BY <1>3, <2>2, <2>3, <2>4 DEF Avr!ControlIn, Avr!programVars, AvrOpened
<1>4. CASE Avr!ControlOut
  <2>1. control' = GivesControl(control) /\ control.stage \in {"out", "status_out"}
    BY <1>4, SameHost DEF Avr!ControlOut
  <2> QED
    BY <1>1, <1>4, <2>1, StaysConfigured DEF Avr!ControlOut, Avr!programVars, AvrOpened
<1> QED
  BY <1>2, <1>3, <1>4

\* What leaves the bytes where they are
LEMMA AvrStays ==
  ASSUME AvrPrinted, NEW f, f \in AvrIn, f.bank = in.bank, f.ready = in.ready, f.on = in.on,
         in' = f, UNCHANGED <<resets, written, got>>, AvrOpened => AvrOpened'
  PROVE  AvrPrinted'
BY DEF AvrPrinted, Put

LEMMA AvrProgramPrints ==
  ASSUME AvrPrinted, resets = 0, Avr!Insert \/ Avr!Flush \/ Avr!InWait
  PROVE  AvrPrinted'
<1>1. /\ Put /\ written \in Nat /\ Len(got) \in Nat /\ in \in AvrIn
      /\ AvrLined(in.bank, in.ready, Len(got), written) /\ (in.on => AvrOpened)
  BY LenProperties DEF AvrPrinted, Put
<1>2. UNCHANGED <<got, resets, control, ep0>>
  BY DEF Avr!Insert, Avr!Flush, Avr!InWait, Avr!hostVars
<1>3. AvrOpened => AvrOpened'
  BY <1>2 DEF AvrOpened
<1>4. CASE Avr!Insert
  <2>1. in.on /\ Len(in.ready) < 2 /\ in' = Avr!Queued(in) /\ written' = written + 1
    BY <1>4 DEF Avr!Insert, Avr!RWAL, Avr!Puts
  <2>2. in' \in AvrIn /\ in'.on = in.on /\ AvrLined(in'.bank, in'.ready, Len(got), written + 1)
    BY <1>1, <2>1, AvrQueuedIs
  <2>3. written' \in Nat
    BY <1>1, <2>1
  <2> QED
    BY <1>1, <1>2, <1>3, <2>1, <2>2, <2>3 DEF AvrPrinted, Put
<1>5. CASE Avr!Flush
  <2> DEFINE s == Avr!InSend(in)
  <2>1. written' = written
    BY <1>5 DEF Avr!Flush, Avr!Flushed
  <2>2. CASE in' = in
    BY <1>1, <1>2, <1>3, <2>1, <2>2, AvrStays
  <2>3. CASE Avr!RWAL /\ in' = [s EXCEPT !.flushed = TRUE]
    <3>1. in.on /\ Len(in.ready) < 2
      BY <2>3 DEF Avr!RWAL
    <3>2. s \in AvrIn /\ s.bank = << >> /\ s.ready = Append(in.ready, in.bank) /\ s.on = in.on
      BY <1>1, AvrInIs
    <3> HIDE DEF s
    <3>3. in' \in AvrIn /\ in'.bank = s.bank /\ in'.ready = s.ready /\ in'.on = s.on
      BY <2>3, <3>2 DEF AvrIn
    <3>4. AvrLined(<< >>, Append(in.ready, in.bank), Len(got), written)
      BY <1>1, <3>1, AvrSendIs
    <3> QED
      BY <1>1, <1>2, <1>3, <2>1, <3>1, <3>2, <3>3, <3>4 DEF AvrPrinted, Put
  <2> QED
    BY <1>5, <2>2, <2>3 DEF Avr!Flush
<1>6. CASE Avr!InWait
  <2> DEFINE f == IF in.txini THEN [in EXCEPT !.txini = FALSE] ELSE [in EXCEPT !.txine = TRUE, !.asleep = TRUE]
  <2>1. in' = f /\ written' = written
    BY <1>6 DEF Avr!InWait, Avr!programVars
  <2>2. f \in AvrIn /\ f.bank = in.bank /\ f.ready = in.ready /\ f.on = in.on
    BY <1>1 DEF AvrIn
  <2> HIDE DEF f
  <2> QED
    BY <1>2, <1>3, <2>1, <2>2, AvrStays
<1> QED
  BY <1>4, <1>5, <1>6

LEMMA AvrPollPrints ==
  ASSUME AvrPrinted, resets = 0, Avr!Poll
  PROVE  AvrPrinted'
<1> DEFINE p == Head(in.ready)
           q == Tail(in.ready)
           x == in.txini \/ Len(in.ready) = 2
<1>1. /\ Put /\ written \in Nat /\ Len(got) \in Nat /\ in \in AvrIn
      /\ AvrLined(in.bank, in.ready, Len(got), written) /\ (in.on => AvrOpened)
      /\ ~in.on => in.ready = << >>
  BY LenProperties DEF AvrPrinted, Put
<1>2. /\ UNCHANGED <<resets, control, ep0, written>> /\ in.ready # << >> /\ got' = got \o p
      /\ in' = [in EXCEPT !.ready = q, !.txini = x]
  BY DEF Avr!Poll, Avr!Takes, Avr!programVars
<1>3. p \in Seq(Nat) /\ Bytes(p, Len(p), Len(got)) /\ AvrLined(in.bank, q, Len(got) + Len(p), written)
  BY <1>1, <1>2, AvrTakeIs
<1> HIDE DEF p, q
<1>4. q \in Seq(Seq(Nat)) /\ x \in BOOLEAN
  BY <1>1, <1>3 DEF AvrLined, AvrIn
<1> HIDE DEF x
<1>5. in' \in AvrIn /\ in'.bank = in.bank /\ in'.ready = q /\ in'.on = in.on
  BY <1>1, <1>2, <1>4 DEF AvrIn
<1>6. got' \in Seq(Nat) /\ Len(got') = Len(got) + Len(p) /\ Bytes(got', Len(got'), 0)
  <2>1. got \in Seq(Nat) /\ Bytes(got, Len(got), 0) /\ 0 \in Nat /\ 0 + Len(got) = Len(got)
    BY <1>1 DEF Put
  <2>2. Bytes(p, Len(p), 0 + Len(got))
    BY <1>3, <2>1
  <2> QED
    BY <1>2, <1>3, <2>1, <2>2, BytesJoin
<1>7. AvrOpened => AvrOpened'
  BY <1>2 DEF AvrOpened
<1> QED
  BY <1>1, <1>2, <1>3, <1>5, <1>6, <1>7 DEF AvrPrinted, Put

LEMMA AvrControlPrints ==
  ASSUME AvrControl, AvrPrinted, resets = 0, Avr!IsrControl
  PROVE  AvrPrinted'
<1> DEFINE configures == ep0.rxstpi /\ ep0.received.request = Avr!SetConfiguration
<1>1. /\ Put /\ written \in Nat /\ Len(got) \in Nat /\ in \in AvrIn
      /\ AvrLined(in.bank, in.ready, Len(got), written) /\ (in.on => AvrOpened)
      /\ ~in.on => written = 0 /\ in.bank = << >> /\ in.ready = << >>
  BY LenProperties DEF AvrPrinted, Put
<1>2. /\ UNCHANGED <<resets, control, written, got>> /\ ep0' = Avr!Ep0Handle(ep0)
      /\ in' = IF configures THEN Avr!Awake(Avr!Configured(in)) ELSE Avr!Awake(in)
  BY DEF Avr!IsrControl, Avr!hostVars, Avr!programVars
<1>3. ~ep0'.rxstpi
  BY <1>2, AvrHandles DEF AvrControl
<1>4. CASE configures
  <2>1. ~control.configured /\ control.stage = "status_in" /\ control.request = SetConfiguration
    BY <1>4, AvrConfigures
  <2>2. ~in.on
    BY <1>1, <1>4, <2>1 DEF AvrOpened
  <2> DEFINE c == Avr!Configured(in)
  <2>3. c \in AvrIn /\ c.bank = << >> /\ c.ready = << >> /\ c.on
    BY <1>1, AvrInIs
  <2> HIDE DEF c
  <2>4. in' = Avr!Awake(c)
    BY <1>2, <1>4 DEF c
  <2>5. in' \in AvrIn /\ in'.bank = << >> /\ in'.ready = << >> /\ in'.on
    BY <2>3, <2>4, AvrInIs
  <2>6. AvrOpened'
    BY <1>2, <1>3, <2>1 DEF AvrOpened
  <2> QED
    BY <1>1, <1>2, <2>2, <2>5, <2>6 DEF AvrPrinted, Put
<1>5. CASE ~configures
  <2>1. in' = Avr!Awake(in)
    BY <1>2, <1>5
  <2>2. in' \in AvrIn /\ in'.bank = in.bank /\ in'.ready = in.ready /\ in'.on = in.on
    BY <1>1, <2>1, AvrInIs
  <2>3. AvrOpened => AvrOpened'
    BY <1>2, <1>3 DEF AvrOpened
  <2> QED
    BY <1>1, <1>2, <2>2, <2>3 DEF AvrPrinted, Put
<1> QED
  BY <1>4, <1>5

LEMMA AvrPrintedKept ==
  ASSUME AvrControl, Traffic, AvrPrinted, Avr!Next
  PROVE  AvrPrinted'
<1>1. CASE resets' # 0
  BY <1>1 DEF AvrPrinted
<1>2. CASE resets' = 0
  <2>1. resets = 0 /\ ~Avr!Reset
    BY <1>2, ResetsKept
  <2>2. in \in AvrIn
    BY <2>1 DEF AvrPrinted
  <2>3. CASE UNCHANGED <<resets, control, ep0, written, got, in>>
    BY <2>3 DEF AvrPrinted, Put, AvrOpened
  <2>4. CASE Avr!Enters \/ Avr!Begins
    BY <2>3, <2>4 DEF Avr!Enters, Avr!Begins, Avr!Enter, Avr!Begin, Avr!hostVars, Avr!deviceVars
  <2>5. CASE Avr!Getc \/ Avr!Check
    BY <2>3, <2>5 DEF Avr!Getc, Avr!Check, Avr!CheckFull, Avr!CheckTakes, Avr!CheckLooks, Avr!CheckAcks,
         Avr!hostVars, Avr!programVars
  <2>6. CASE Avr!Insert \/ Avr!Flush \/ Avr!InWait
    BY <2>1, <2>6, AvrProgramPrints
  <2>7. CASE Avr!Poll
    BY <2>1, <2>7, AvrPollPrints
  <2>8. CASE Avr!Setup \/ Avr!ControlIn \/ Avr!ControlOut
    BY <2>1, <2>8, AvrHostKeeps DEF AvrPrinted, Put
  <2>9. CASE Avr!Type
    BY <2>3, <2>9 DEF Avr!Type, Avr!Gives, Avr!programVars
  <2>10. CASE Avr!IsrIn
    <3> DEFINE f == [in EXCEPT !.txine = FALSE, !.asleep = FALSE]
    <3>1. in' = f /\ UNCHANGED <<resets, control, ep0, written, got>>
      BY <2>10 DEF Avr!IsrIn, Avr!hostVars, Avr!programVars
    <3>2. f \in AvrIn /\ f.bank = in.bank /\ f.ready = in.ready /\ f.on = in.on
      BY <2>2 DEF AvrIn
    <3> HIDE DEF f
    <3>3. AvrOpened => AvrOpened'
      BY <3>1 DEF AvrOpened
    <3> QED
      BY <3>1, <3>2, <3>3, AvrStays
  <2>11. CASE Avr!IsrOut \/ Avr!IsrReset
    <3>1. in' = Avr!Awake(in) /\ UNCHANGED <<resets, control, written, got>> /\ ep0'.rxstpi = ep0.rxstpi
      BY <2>11 DEF Avr!IsrOut, Avr!IsrReset, Avr!hostVars, Avr!programVars, AvrControl, AvrFits, AvrEp0
    <3> DEFINE f == Avr!Awake(in)
    <3>2. f \in AvrIn /\ f.bank = in.bank /\ f.ready = in.ready /\ f.on = in.on
      BY <2>2, AvrInIs
    <3> HIDE DEF f
    <3>3. AvrOpened => AvrOpened'
      BY <3>1 DEF AvrOpened
    <3>4. in' = f
      BY <3>1 DEF f
    <3> QED
      BY <3>1, <3>2, <3>3, <3>4, AvrStays
  <2>12. CASE Avr!IsrControl
    BY <2>1, <2>12, AvrControlPrints
  <2> QED
    BY <2>1, <2>4, <2>5, <2>6, <2>7, <2>8, <2>9, <2>10, <2>11, <2>12 DEF Avr!Next, Avr!Program, Avr!Host, Avr!Isr
<1> QED
  BY <1>1, <1>2

----------------------------------------------------------------------------
(***************************************************************************)
(* The ATmega32u4: what is typed keeps its order                           *)
(***************************************************************************)
LEMMA AvrBanksAre ==
  ASSUME NEW o, o \in AvrOut, Len(o.banks) <= 2
  PROVE  /\ o.banks \in Seq(Seq(Nat)) /\ Len(o.banks) \in {0, 1, 2} /\ (o.banks = << >> <=> Len(o.banks) = 0)
         /\ \A i \in 1..Len(o.banks) : o.banks[i] \in Seq(Nat)
         /\ AvrWaiting(o) \in Seq(Nat)
         /\ Len(o.banks) # 0 => Head(o.banks) = o.banks[1]
<1> DEFINE q == o.banks
<1>1. q \in Seq(Seq(Nat))
  BY DEF AvrOut
<1>2. Len(q) \in {0, 1, 2}
  <2> DEFINE l == Len(q)
  <2>1. l \in Nat /\ l <= 2
    BY <1>1, LenProperties
  <2> HIDE DEF l
  <2>2. l \in {0, 1, 2}
    BY <2>1
  <2> QED
    BY <2>2 DEF l
<1>3. \A i \in 1..Len(q) : q[i] \in Seq(Nat)
  BY <1>1, ElementOfSeq
<1>4. AvrWaiting(o) \in Seq(Nat)
  <2>1. CASE Len(q) = 0
    BY <2>1, EmptySeq DEF AvrWaiting
  <2>2. CASE Len(q) = 1
    BY <1>3, <2>2 DEF AvrWaiting
  <2>3. CASE Len(q) = 2
    <3>1. q[1] \in Seq(Nat) /\ q[2] \in Seq(Nat)
      BY <1>3, <2>3
    <3>2. q[1] \o q[2] \in Seq(Nat)
      BY <3>1, ConcatProperties
    <3> QED
      BY <2>3, <3>2 DEF AvrWaiting
  <2> QED
    BY <1>2, <2>1, <2>2, <2>3
<1>5. (q = << >> <=> Len(q) = 0) /\ (Len(q) # 0 => Head(q) = q[1])
  BY <1>1, EmptySeq, HeadTailProperties
<1> QED
  BY <1>1, <1>2, <1>3, <1>4, <1>5

LEMMA AvrStoreIs ==
  ASSUME NEW o, o \in AvrOut, Len(o.banks) < 2, NEW p \in Seq(Nat), NEW f, f.banks = Append(o.banks, p)
  PROVE  /\ f.banks \in Seq(Seq(Nat)) /\ Len(f.banks) <= 2
         /\ AvrWaiting(f) = AvrWaiting(o) \o p
<1> DEFINE q == o.banks
           r == Append(q, p)
<1>1. q \in Seq(Seq(Nat)) /\ Len(q) \in {0, 1}
  <2>1. q \in Seq(Seq(Nat)) /\ Len(q) \in Nat
    BY LenProperties DEF AvrOut
  <2> DEFINE l == Len(q)
  <2>2. l \in Nat /\ l < 2
    BY <2>1
  <2> HIDE DEF l
  <2>3. l \in {0, 1}
    BY <2>2
  <2> QED
    BY <2>1, <2>3 DEF l
<1>2. r \in Seq(Seq(Nat)) /\ Len(r) = Len(q) + 1 /\ r[Len(q) + 1] = p /\ \A i \in 1..Len(q) : r[i] = q[i]
  BY <1>1, AppendProperties
<1>3. f.banks = r
  OBVIOUS
<1> HIDE DEF r
<1>4. CASE Len(q) = 0
  <2>1. Len(r) = 1 /\ r[1] = p
    BY <1>2, <1>4
  <2>2. AvrWaiting(f) = p /\ AvrWaiting(o) = << >> /\ << >> \o p = p
    BY <1>3, <1>4, <2>1, ConcatEmptySeq DEF AvrWaiting
  <2>3. Len(f.banks) <= 2 /\ f.banks \in Seq(Seq(Nat))
    <3>1. Len(r) <= 2
      BY <2>1
    <3> QED
      BY <1>2, <1>3, <3>1, Zenon
  <2> QED
    BY <2>2, <2>3, Zenon
<1>5. CASE Len(q) = 1
  <2>1. Len(r) = 2 /\ r[2] = p /\ r[1] = q[1]
    <3>1. 1 \in 1..Len(q) /\ 1 + 1 = 2
      BY <1>5
    <3> QED
      BY <1>2, <1>5, <3>1
  <2>2. AvrWaiting(f) = q[1] \o p /\ AvrWaiting(o) = q[1]
    BY <1>3, <1>5, <2>1 DEF AvrWaiting
  <2>3. Len(f.banks) <= 2 /\ f.banks \in Seq(Seq(Nat))
    <3>1. Len(r) <= 2
      BY <2>1
    <3> QED
      BY <1>2, <1>3, <3>1, Zenon
  <2>4. AvrWaiting(f) = AvrWaiting(o) \o p
    BY <2>2, Zenon
  <2> QED
    BY <2>3, <2>4, Zenon
<1> QED
  BY <1>1, <1>4, <1>5

\* A character goes from the bank to the fifo.
LEMMA AvrTakesIs ==
  ASSUME NEW o, o \in AvrOut, Len(o.banks) <= 2, o.banks # << >>, Head(o.banks) # << >>,
         NEW f, f.banks = [o.banks EXCEPT ![1] = Tail(@)], NEW s \in Seq(Nat)
  PROVE  LET h == Head(Head(o.banks))
         IN  /\ f.banks \in Seq(Seq(Nat)) /\ Len(f.banks) <= 2 /\ h \in Nat
             /\ Append(s, h) \in Seq(Nat)
             /\ Append(s, h) \o AvrWaiting(f) = s \o AvrWaiting(o)
<1> DEFINE q == o.banks
           x == q[1]
           t == Tail(x)
           r == [q EXCEPT ![1] = t]
           h == Head(x)
           a == Append(s, h)
<1>1. /\ q \in Seq(Seq(Nat)) /\ Len(q) \in {1, 2} /\ x \in Seq(Nat) /\ x # << >> /\ Head(q) = x
      /\ Len(q) = 2 => q[2] \in Seq(Nat)
  <2>1. /\ q \in Seq(Seq(Nat)) /\ Len(q) \in {1, 2} /\ Head(q) = x
        /\ \A i \in 1..Len(q) : q[i] \in Seq(Nat)
    BY AvrBanksAre
  <2> DEFINE l == Len(q)
  <2>2. l \in {1, 2}
    BY <2>1
  <2> HIDE DEF l
  <2>3. 1 \in 1..l /\ (l = 2 => 2 \in 1..l)
    BY <2>2
  <2> QED
    BY <2>1, <2>3 DEF l
<1>2. a \in Seq(Nat) /\ t \in Seq(Nat) /\ h \in Nat /\ a \o t = s \o x
  BY <1>1, MovesOn
<1> HIDE DEF t, h, a
<1>3. r \in Seq(Seq(Nat)) /\ Len(r) = Len(q) /\ r[1] = t /\ (Len(q) = 2 => r[2] = q[2])
  BY <1>1, <1>2
<1>4. f.banks = r
  BY DEF t
<1> HIDE DEF r
<1>5. a \o AvrWaiting(f) = s \o AvrWaiting(o)
  <2>1. CASE Len(q) = 1
    <3>1. Len(f.banks) = 1 /\ f.banks[1] = t /\ 1 # 0
      BY <1>3, <1>4, <2>1
    <3>2. AvrWaiting(f) = t
      BY <3>1, Zenon DEF AvrWaiting
    <3>3. AvrWaiting(o) = x
      BY <2>1, <3>1, Zenon DEF AvrWaiting
    <3> QED
      BY <1>2, <3>2, <3>3, Zenon
  <2>2. CASE Len(q) = 2
    <3> DEFINE y == q[2]
    <3>4. Len(f.banks) = 2 /\ f.banks[1] = t /\ f.banks[2] = y /\ 2 # 0 /\ 2 # 1
      BY <1>3, <1>4, <2>2
    <3>5. AvrWaiting(f) = t \o y
      BY <3>4, Zenon DEF AvrWaiting
    <3>6. AvrWaiting(o) = x \o y
      BY <2>2, <3>4, Zenon DEF AvrWaiting
    <3>1. AvrWaiting(f) = t \o y /\ AvrWaiting(o) = x \o y /\ y \in Seq(Nat)
      BY <1>1, <2>2, <3>5, <3>6
    <3> HIDE DEF x, y
    <3>2. a \o (t \o y) = (a \o t) \o y
      BY <1>2, <3>1, JoinsOn
    <3>3. s \o (x \o y) = (s \o x) \o y
      BY <1>1, <3>1, JoinsOn
    <3> QED
      BY <1>2, <3>1, <3>2, <3>3
  <2> QED
    BY <1>1, <2>1, <2>2
<1>6. f.banks \in Seq(Seq(Nat)) /\ Len(f.banks) <= 2
  BY <1>1, <1>3, <1>4
<1>7. Head(Head(o.banks)) = h
  BY <1>1 DEF h
<1> QED
  BY <1>2, <1>5, <1>6, <1>7 DEF a

\* A bank that has been read is given back.
LEMMA AvrDropsIs ==
  ASSUME NEW o, o \in AvrOut, Len(o.banks) <= 2, o.banks # << >>, Head(o.banks) = << >>,
         NEW f, f.banks = Tail(o.banks)
  PROVE  f.banks \in Seq(Seq(Nat)) /\ Len(f.banks) <= 2 /\ AvrWaiting(f) = AvrWaiting(o)
<1> DEFINE q == o.banks
           r == Tail(q)
<1>1. q \in Seq(Seq(Nat)) /\ Len(q) \in {1, 2} /\ q[1] = << >> /\ \A i \in 1..Len(q) : q[i] \in Seq(Nat)
  BY AvrBanksAre
<1>2. r \in Seq(Seq(Nat)) /\ Len(r) = Len(q) - 1 /\ \A i \in 1..Len(r) : r[i] = q[i + 1]
  BY <1>1, HeadTailProperties
<1>3. f.banks = r
  OBVIOUS
<1> HIDE DEF r
<1>4. CASE Len(q) = 1
  <2>1. Len(r) = 0
    BY <1>2, <1>4
  <2>2. AvrWaiting(f) = << >>
    BY <1>3, <2>1 DEF AvrWaiting
  <2>3. AvrWaiting(o) = << >>
    BY <1>1, <1>4 DEF AvrWaiting
  <2>4. f.banks \in Seq(Seq(Nat)) /\ Len(f.banks) <= 2
    <3>1. Len(r) <= 2
      BY <2>1
    <3> QED
      BY <1>2, <1>3, <3>1, Zenon
  <2> QED
    BY <2>2, <2>3, <2>4, Zenon
<1>5. CASE Len(q) = 2
  <2>1. Len(r) = 1 /\ r[1] = q[2] /\ q[2] \in Seq(Nat)
    <3>1. Len(r) = 1 /\ 1 \in 1..Len(r) /\ 1 + 1 = 2 /\ 2 \in 1..Len(q)
      BY <1>2, <1>5
    <3> QED
      BY <1>1, <1>2, <3>1
  <2>2. << >> \o q[2] = q[2]
    BY <2>1, ConcatEmptySeq
  <2>3. AvrWaiting(f) = q[2] /\ AvrWaiting(o) = << >> \o q[2]
    BY <1>1, <1>3, <1>5, <2>1 DEF AvrWaiting
  <2>4. f.banks \in Seq(Seq(Nat)) /\ Len(f.banks) <= 2
    <3>1. Len(r) <= 2
      BY <2>1
    <3> QED
      BY <1>2, <1>3, <3>1, Zenon
  <2>5. AvrWaiting(f) = AvrWaiting(o)
    BY <2>2, <2>3, Zenon
  <2> QED
    BY <2>4, <2>5, Zenon
<1> QED
  BY <1>1, <1>4, <1>5

\* What leaves the typed bytes where they are
LEMMA AvrHolds ==
  ASSUME Traffic, AvrTyped, out' \in AvrOut, Len(out'.banks) <= 2, AvrWaiting(out') = AvrWaiting(out),
         UNCHANGED <<read, fifo, sent, resets, control>>
  PROVE  AvrTyped' /\ Traffic'
<1>1. (AvrWaiting(out))' = AvrWaiting(out)
  <2>1. (AvrWaiting(out))' = AvrWaiting(out')
    BY DEF AvrWaiting
  <2> QED
    BY <2>1, Zenon
<1>2. Typed(AvrWaiting(out)) /\ (Typed(AvrWaiting(out)))'
  BY <1>1 DEF AvrTyped, Typed
<1> QED
  BY <1>2 DEF AvrTyped, Traffic

LEMMA AvrTypeTypes ==
  ASSUME Traffic, plan \in Plans, AvrTyped, Avr!Type
  PROVE  AvrTyped' /\ Traffic'
<1> DEFINE s == read \o fifo
           v == AvrWaiting(out)
           w == AvrWaiting(out')
<1>1. PICK p \in Avr!Packets :
        /\ Len(out.banks) < 2 /\ control.configured /\ sent' = sent + Len(p)
        /\ out' = [out EXCEPT !.banks = Append(@, p), !.rxouti = @ \/ out.banks = << >>]
  BY DEF Avr!Type, Avr!Gives
<1>2. UNCHANGED <<read, fifo, resets, control>>
  BY DEF Avr!Type, Avr!Gives, Avr!programVars
<1>3. sent \in Nat /\ p \in Seq(Nat) /\ Len(p) \in Nat /\ Bytes(p, Len(p), sent)
  BY PacketIs DEF Traffic
<1>4. /\ out \in AvrOut /\ Len(out.banks) <= 2 /\ read \in Seq(Nat) /\ fifo \in Seq(Nat) /\ v \in Seq(Nat)
      /\ Ordered(s \o v, sent, resets)
  BY DEF AvrTyped, Typed
<1> DEFINE q == Append(out.banks, p)
           x == out.rxouti \/ out.banks = << >>
<1>5. out' = [out EXCEPT !.banks = q, !.rxouti = x] /\ x \in BOOLEAN
  BY <1>1, <1>4 DEF AvrOut
<1>6. out'.banks = q
  BY <1>4, <1>5 DEF AvrOut
<1>7. q \in Seq(Seq(Nat)) /\ Len(out'.banks) <= 2 /\ w = v \o p
  <2> DEFINE o == out'
  <2>1. o.banks = Append(out.banks, p)
    BY <1>6
  <2> HIDE DEF o
  <2>2. o.banks \in Seq(Seq(Nat)) /\ Len(o.banks) <= 2 /\ AvrWaiting(o) = v \o p
    BY <1>1, <1>3, <1>4, <2>1, AvrStoreIs
  <2> HIDE DEF q, v
  <2> QED
    BY <1>6, <2>2 DEF o
<1> HIDE DEF q, x
<1>8. out' \in AvrOut
  BY <1>4, <1>5, <1>7 DEF AvrOut
<1>9. s \in Seq(Nat) /\ w \in Seq(Nat) /\ s \o v \in Seq(Nat)
  BY <1>3, <1>4, <1>7, ConcatProperties
<1> HIDE DEF v, w, s
<1>10. s \o w = (s \o v) \o p
  <2>1. s \in Seq(Nat) /\ v \in Seq(Nat) /\ p \in Seq(Nat)
    BY <1>3, <1>4, <1>9
  <2>2. (s \o v) \o p = s \o (v \o p)
    BY <2>1, JoinsOn
  <2> QED
    BY <1>7, <2>2
<1>11. Ordered((s \o v) \o p, sent + Len(p), resets)
  BY <1>3, <1>4, <1>9, OrderedGrows
<1>12. Ordered(s \o w, sent', resets')
  BY <1>1, <1>2, <1>10, <1>11
<1>13. s = s' /\ (AvrWaiting(out))' = w
  BY <1>2 DEF s, w, AvrWaiting
<1>14. AvrTyped'
  BY <1>2, <1>4, <1>7, <1>8, <1>9, <1>12, <1>13 DEF AvrTyped, Typed, s
<1>15. Traffic'
  BY <1>1, <1>2, <1>3 DEF Traffic
<1> QED
  BY <1>14, <1>15

LEMMA AvrGetcTypes ==
  ASSUME Traffic, AvrTyped, Avr!Getc
  PROVE  AvrTyped' /\ Traffic'
<1> DEFINE v == AvrWaiting(out)
           l == "look"
<1>1. /\ UNCHANGED <<sent, resets, control>> /\ fifo # << >>
      /\ read' = Append(read, Head(fifo)) /\ fifo' = Tail(fifo)
      /\ out' = [out EXCEPT !.check = l]
  BY DEF Avr!Getc, Avr!hostVars
<1>2. /\ out \in AvrOut /\ Len(out.banks) <= 2 /\ read \in Seq(Nat) /\ fifo \in Seq(Nat) /\ v \in Seq(Nat)
      /\ Ordered((read \o fifo) \o v, sent, resets)
  BY DEF AvrTyped, Typed
<1>3. read' \in Seq(Nat) /\ fifo' \in Seq(Nat) /\ read' \o fifo' = read \o fifo
  BY <1>1, <1>2, MovesOn
<1>4. l \in {"no", "look", "ack"}
  OBVIOUS
<1> HIDE DEF l
<1>5. out' \in AvrOut /\ out'.banks = out.banks
  BY <1>1, <1>2, <1>4 DEF AvrOut
<1>6. (AvrWaiting(out))' = v
  BY <1>5 DEF AvrWaiting
<1> HIDE DEF v
<1>7. Ordered((read' \o fifo') \o v, sent', resets')
  BY <1>1, <1>2, <1>3
<1> QED
  BY <1>1, <1>2, <1>3, <1>5, <1>6, <1>7 DEF AvrTyped, Typed, Traffic

LEMMA AvrMovesTypes ==
  ASSUME Traffic, AvrTyped, Avr!CheckTakes
  PROVE  AvrTyped' /\ Traffic'
<1> DEFINE v == AvrWaiting(out)
           w == AvrWaiting(out')
           q == [out.banks EXCEPT ![1] = Tail(@)]
<1>1. /\ UNCHANGED <<sent, resets, control, read>> /\ out.banks # << >> /\ Head(out.banks) # << >>
      /\ fifo' = Append(fifo, Head(Head(out.banks)))
      /\ out' = [out EXCEPT !.banks = q]
  BY DEF Avr!CheckTakes, Avr!Readable, Avr!hostVars
<1>2. /\ out \in AvrOut /\ Len(out.banks) <= 2 /\ read \in Seq(Nat) /\ fifo \in Seq(Nat) /\ v \in Seq(Nat)
      /\ Ordered((read \o fifo) \o v, sent, resets)
  BY DEF AvrTyped, Typed
<1>3. out'.banks = q
  BY <1>1, <1>2 DEF AvrOut
<1>4. /\ q \in Seq(Seq(Nat)) /\ Len(out'.banks) <= 2 /\ fifo' \in Seq(Nat) /\ fifo' \o w = fifo \o v
  <2> DEFINE o == out'
             h == Head(Head(out.banks))
  <2>1. o.banks = [out.banks EXCEPT ![1] = Tail(@)]
    BY <1>3
  <2> HIDE DEF o
  <2>2. /\ o.banks \in Seq(Seq(Nat)) /\ Len(o.banks) <= 2 /\ Append(fifo, h) \in Seq(Nat)
        /\ Append(fifo, h) \o AvrWaiting(o) = fifo \o AvrWaiting(out)
    BY <1>1, <1>2, <2>1, AvrTakesIs
  <2>3. fifo' = Append(fifo, h)
    BY <1>1
  <2> HIDE DEF q, v, h
  <2> QED
    BY <1>3, <2>2, <2>3 DEF o, v
<1> HIDE DEF q
<1>5. out' \in AvrOut
  BY <1>1, <1>2, <1>4 DEF AvrOut
<1>6. w \in Seq(Nat)
  BY <1>4, <1>5, AvrBanksAre
<1>7. (AvrWaiting(out))' = w
  BY DEF AvrWaiting
<1> HIDE DEF v, w
<1>8. (read \o fifo') \o w = (read \o fifo) \o v
  <2>0. read \in Seq(Nat) /\ fifo \in Seq(Nat) /\ fifo' \in Seq(Nat) /\ v \in Seq(Nat)
    BY <1>2, <1>4
  <2>1. (read \o fifo') \o w = read \o (fifo' \o w)
    BY <1>6, <2>0, SMTT(60)
  <2>2. (read \o fifo) \o v = read \o (fifo \o v)
    BY <2>0, SMTT(60)
  <2> QED
    BY <1>4, <2>1, <2>2
<1>9. Ordered((read' \o fifo') \o w, sent', resets')
  BY <1>1, <1>2, <1>8
<1> QED
  BY <1>1, <1>2, <1>4, <1>5, <1>6, <1>7, <1>9 DEF AvrTyped, Typed, Traffic

LEMMA AvrLooksTypes ==
  ASSUME Traffic, AvrTyped, Avr!CheckLooks
  PROVE  AvrTyped' /\ Traffic'
<1> DEFINE q == IF out.banks = << >> THEN out.banks ELSE Tail(out.banks)
           x == IF out.banks = << >> THEN out.rxouti ELSE Len(out.banks) = 2
           c == IF out.rxouti THEN "ack" ELSE "no"
           e == out.rxoute \/ ~out.rxouti
<1>1. /\ UNCHANGED <<sent, resets, control, read, fifo>> /\ (out.banks # << >> => Head(out.banks) = << >>)
      /\ out' = [out EXCEPT !.banks = q, !.rxouti = x, !.check = c, !.rxoute = e]
  BY DEF Avr!CheckLooks, Avr!Looked, Avr!Readable, Avr!hostVars, Avr!programVars
<1>2. out \in AvrOut /\ Len(out.banks) <= 2
  BY DEF AvrTyped
<1>3. x \in BOOLEAN /\ e \in BOOLEAN /\ c \in {"no", "look", "ack"}
  BY <1>2 DEF AvrOut
<1> HIDE DEF x, e, c
<1>4. out'.banks = q
  BY <1>1, <1>2 DEF AvrOut
<1>5. q \in Seq(Seq(Nat)) /\ Len(out'.banks) <= 2 /\ AvrWaiting(out') = AvrWaiting(out)
  <2>1. CASE out.banks = << >>
    <3>1. out'.banks = out.banks
      BY <1>4, <2>1
    <3>2. AvrWaiting(out') = AvrWaiting(out)
      BY <3>1, Zenon DEF AvrWaiting
    <3> QED
      BY <1>2, <1>4, <2>1, <3>1, <3>2 DEF AvrOut
  <2>2. CASE out.banks # << >>
    <3>1. out'.banks = Tail(out.banks) /\ Head(out.banks) = << >>
      BY <1>1, <1>4, <2>2
    <3>2. out'.banks \in Seq(Seq(Nat)) /\ Len(out'.banks) <= 2 /\ AvrWaiting(out') = AvrWaiting(out)
      BY <1>2, <2>2, <3>1, AvrDropsIs
    <3> HIDE DEF q
    <3> QED
      BY <1>4, <3>2
  <2> QED
    BY <2>1, <2>2
<1> HIDE DEF q
<1>6. out' \in AvrOut
  BY <1>1, <1>2, <1>3, <1>5 DEF AvrOut
<1> QED
  BY <1>1, <1>5, <1>6, AvrHolds

\* The other steps of the loop, and its beginning
LEMMA AvrCheckTypes ==
  ASSUME Traffic, AvrTyped, Avr!CheckFull \/ Avr!CheckAcks \/ Avr!IsrOut
  PROVE  AvrTyped' /\ Traffic'
<1>1. out \in AvrOut /\ Len(out.banks) <= 2
  BY DEF AvrTyped
<1>2. \E x, e \in BOOLEAN, c \in {"no", "look", "ack"} : out' = [out EXCEPT !.rxouti = x, !.rxoute = e, !.check = c]
  <2> DEFINE f(x, e, c) == [out EXCEPT !.rxouti = x, !.rxoute = e, !.check = c]
  <2>1. CASE Avr!CheckFull
    <3>1. out' = f(out.rxouti, out.rxoute, "no")
      BY <1>1, <2>1 DEF Avr!CheckFull, AvrOut
    <3> QED
      BY <1>1, <3>1 DEF AvrOut
  <2>2. CASE Avr!CheckAcks
    <3>1. out' = f(FALSE, out.rxoute, "look")
      BY <1>1, <2>2 DEF Avr!CheckAcks, Avr!Ack, AvrOut
    <3> QED
      BY <1>1, <3>1 DEF AvrOut
  <2>3. CASE Avr!IsrOut
    <3>1. out' = f(out.rxouti, FALSE, "look")
      BY <1>1, <2>3 DEF Avr!IsrOut, AvrOut
    <3> QED
      BY <1>1, <3>1 DEF AvrOut
  <2> QED
    BY <2>1, <2>2, <2>3
<1>3. PICK x, e \in BOOLEAN, c \in {"no", "look", "ack"} : out' = [out EXCEPT !.rxouti = x, !.rxoute = e, !.check = c]
  BY <1>2
<1>4. out' \in AvrOut /\ out'.banks = out.banks
  BY <1>1, <1>3 DEF AvrOut
<1>5. AvrWaiting(out') = AvrWaiting(out)
  BY <1>4, Zenon DEF AvrWaiting
<1>6. UNCHANGED <<read, fifo, sent, resets, control>>
  BY DEF Avr!CheckFull, Avr!CheckAcks, Avr!IsrOut, Avr!hostVars, Avr!programVars
<1>7. Len(out'.banks) <= 2
  BY <1>1, <1>4, Zenon
<1> QED
  BY <1>4, <1>5, <1>6, <1>7, AvrHolds

\* The configuration and a reset empty the banks.
LEMMA AvrEmptied ==
  ASSUME Traffic, AvrTyped, UNCHANGED <<read, fifo, sent>>, resets' \in Nat,
         resets' # 0 \/ (resets' = resets /\ ~control.configured /\ ~control'.configured),
         out' \in AvrOut, out'.banks = << >>
  PROVE  AvrTyped' /\ Traffic'
<1> DEFINE s == read \o fifo
           v == AvrWaiting(out)
           e == << >>
<1>1. /\ read \in Seq(Nat) /\ fifo \in Seq(Nat) /\ v \in Seq(Nat) /\ sent \in Nat
      /\ Ordered(s \o v, sent, resets) /\ s \in Seq(Nat)
  BY ConcatProperties DEF AvrTyped, Typed, Traffic
<1>2. e \in Seq(Nat) /\ s \o e = s /\ Len(e) = 0 /\ 0 <= 2
  BY <1>1, ConcatEmptySeq, EmptySeq
<1>3. resets' # 0 \/ (resets' = resets /\ sent = 0)
  BY DEF Traffic
<1>4. (AvrWaiting(out))' = e
  <2>1. (AvrWaiting(out))' = AvrWaiting(out') /\ out'.banks = e
    BY DEF AvrWaiting
  <2>2. Len(out'.banks) = 0
    BY <1>2, <2>1
  <2> QED
    BY <2>1, <2>2 DEF AvrWaiting
<1> HIDE DEF s, v
<1>5. Ordered(s, sent, resets')
  BY <1>1, <1>3, OrderedPart
<1>6. out'.banks = e
  OBVIOUS
<1> HIDE DEF e
<1>7. Len(out'.banks) <= 2
  BY <1>2, <1>6
<1>8. Ordered((read' \o fifo') \o e, sent', resets')
  BY <1>2, <1>5 DEF s
<1> QED
  BY <1>1, <1>2, <1>3, <1>4, <1>7, <1>8 DEF AvrTyped, Typed, Traffic

LEMMA AvrConfigureTypes ==
  ASSUME AvrControl, Traffic, AvrTyped, Avr!IsrControl
  PROVE  AvrTyped' /\ Traffic'
<1> DEFINE configures == ep0.rxstpi /\ ep0.received.request = Avr!SetConfiguration
<1>1. /\ UNCHANGED <<sent, resets, control, read, fifo>>
      /\ out' = IF configures THEN Avr!Reopened ELSE out
  BY DEF Avr!IsrControl, Avr!hostVars, Avr!programVars
<1>2. out \in AvrOut /\ Len(out.banks) <= 2
  BY DEF AvrTyped
<1>3. CASE configures
  <2>1. ~control.configured
    BY <1>3, AvrConfigures
  <2>2. out' \in AvrOut /\ out'.banks = << >>
    BY <1>1, <1>3, EmptySeq DEF Avr!Reopened, Avr!Closed, AvrOut
  <2> QED
    BY <1>1, <2>1, <2>2, AvrEmptied DEF Traffic
<1>4. CASE ~configures
  BY <1>1, <1>2, <1>4, AvrHolds
<1> QED
  BY <1>3, <1>4

LEMMA AvrResetTypes ==
  ASSUME AvrControl, Traffic, AvrTyped, Avr!Reset
  PROVE  AvrTyped' /\ Traffic'
<1>1. /\ out' = [Avr!Closed EXCEPT !.check = out.check] /\ UNCHANGED <<sent, read, fifo>>
      /\ resets' \in Nat /\ resets' # 0
  BY ResetsKept DEF Avr!Reset, Avr!HostResets, Avr!programVars
<1> DEFINE c == out.check
<1>2. c \in {"no", "look", "ack"}
  BY DEF AvrTyped, AvrOut
<1>3. out' = [Avr!Closed EXCEPT !.check = c]
  BY <1>1
<1> HIDE DEF c
<1>4. out' \in AvrOut /\ out'.banks = << >>
  BY <1>2, <1>3, EmptySeq DEF Avr!Closed, AvrOut
<1> QED
  BY <1>1, <1>4, AvrEmptied

LEMMA AvrTypedKept ==
  ASSUME AvrControl, Traffic, plan \in Plans, AvrTyped, Avr!Next
  PROVE  AvrTyped' /\ Traffic'
<1>1. CASE UNCHANGED <<read, fifo, out, sent, resets, control>>
  <2>1. (AvrWaiting(out))' = AvrWaiting(out)
    BY <1>1 DEF AvrWaiting
  <2> QED
    BY <1>1, <2>1 DEF AvrTyped, Typed, Traffic
<1>2. CASE Avr!Program \/ Avr!Begins
  <2>1. UNCHANGED <<read, fifo, out, sent, resets, control>>
    BY <1>2 DEF Avr!Program, Avr!Insert, Avr!Flush, Avr!InWait, Avr!Enters, Avr!Begins, Avr!Puts, Avr!Flushed,
         Avr!Enter, Avr!Begin, Avr!hostVars, Avr!programVars, Avr!deviceVars
  <2> QED
    BY <1>1, <2>1
<1>3. CASE Avr!Poll \/ Avr!IsrIn \/ Avr!IsrReset
  BY <1>1, <1>3 DEF Avr!Poll, Avr!Takes, Avr!IsrIn, Avr!IsrReset, Avr!hostVars, Avr!programVars
<1>4. CASE Avr!Setup \/ Avr!ControlIn \/ Avr!ControlOut
  <2>1. UNCHANGED <<read, fifo, out, sent, resets>> /\ (control.configured => control'.configured)
    BY <1>4, AvrHostKeeps
  <2>2. (AvrWaiting(out))' = AvrWaiting(out)
    BY <2>1 DEF AvrWaiting
  <2> QED
    BY <2>1, <2>2 DEF AvrTyped, Typed, Traffic
<1>5. CASE Avr!Check \/ Avr!IsrOut
  BY <1>5, AvrMovesTypes, AvrLooksTypes, AvrCheckTypes DEF Avr!Check
<1>6. CASE Avr!Getc \/ Avr!Type
  BY <1>6, AvrGetcTypes, AvrTypeTypes
<1>7. CASE Avr!IsrControl \/ Avr!Reset
  BY <1>7, AvrConfigureTypes, AvrResetTypes
<1> QED
  BY <1>2, <1>3, <1>4, <1>5, <1>6, <1>7 DEF Avr!Next, Avr!Host, Avr!Isr

----------------------------------------------------------------------------
(***************************************************************************)
(* Every byte is in its place                                              *)
(***************************************************************************)
LEMMA NothingTyped == << >> \in Seq(Nat) /\ << >> \o << >> = << >> /\ Ordered(<< >>, 0, 0)
<1>1. << >> \in Seq(Nat) /\ Len(<< >>) = 0
  BY EmptySeq
<1>2. << >> \o << >> = << >>
  BY <1>1, ConcatEmptySeq
<1> QED
  BY <1>1, <1>2 DEF Ordered, Bytes

LEMMA BytesBegin == Init => Inv
<1> SUFFICES ASSUME Init PROVE Inv
  OBVIOUS
<1>1. Samd!Start = Start /\ Avr!Start = Start
  BY SameRequests DEF Start, Samd!Start, Avr!Start
<1>2. /\ plan \in Plans /\ control = Start /\ got = << >> /\ sent = 0 /\ resets = 0 /\ written = 0
      /\ read = << >> /\ job = << >> /\ fifo = << >> /\ running = FALSE /\ eorst = FALSE
  BY <1>1 DEF Init, Samd!Init, Samd!HostInit, Samd!ProgramInit, Avr!Init, Avr!HostInit, Avr!ProgramInit
<1>3. ControlInv
  BY ControlBegins
<1>4. Traffic /\ ~control.configured /\ control.stage = "idle"
  BY <1>2, StartFits DEF Traffic
<1>5. << >> \in Seq(Nat) /\ Len(<< >>) = 0 /\ (\A n : Bytes(<< >>, 0, n)) /\ InSize \in Nat \ {0}
  BY EmptySeq, SizesAssumption DEF Bytes
<1>6. Put /\ Len(got) = 0
  BY <1>2, <1>5 DEF Put
<1>7. Typed(<< >>)
  BY <1>2, NothingTyped DEF Typed
<1>8. ASSUME plan.chip = "samd21" PROVE SamdPrinted
  <2> DEFINE z == 0
             f == [b \in Samd!Banks |-> [i \in 1..InSize |-> z]]
             l == [b \in Samd!Banks |-> z]
  <2>1. in = [which |-> z, count |-> z, flushed |-> FALSE, pending |-> {}, buffer |-> f, length |-> l,
              ready |-> {}, current |-> z, flags |-> {}]
    BY <1>8 DEF Init, Samd!Init, Avr!Init, Avr!Here
  <2>2. z \in Samd!Banks /\ z \in 0..InSize /\ z \in Nat /\ z < InSize /\ 1..z = {}
    BY <1>5 DEF Samd!Banks
  <2>3. f \in [Samd!Banks -> [1..InSize -> Nat]] /\ l \in [Samd!Banks -> 0..InSize]
    BY <2>2
  <2>4. z = 0 /\ Len(got) + z = written
    BY <1>2, <1>6
  <2> HIDE DEF z, f, l
  <2>5. in \in SamdIn
    BY <2>1, <2>2, <2>3 DEF SamdIn
  <2>6. /\ in.which = z /\ in.count = z /\ in.pending = {} /\ in.ready = {} /\ in.current = z /\ in.flags = {}
    BY <2>1
  <2>7. SamdLined(in, Len(got), written)
    BY <2>2, <2>4, <2>6 DEF SamdLined, Bytes
  <2>8. SamdSends(in, Len(got), written)
    BY <2>2, <2>5, <2>6, <2>7 DEF SamdSends, SamdHolds
  <2>9. out.flags = {}
    BY <1>8 DEF Init, Samd!Init, Avr!Init, Avr!Here
  <2>10. SamdSilent
    BY <1>2, <2>4, <2>6 DEF SamdSilent
  <2> QED
    BY <1>2, <1>6, <2>8, <2>9, <2>10 DEF SamdPrinted
<1>9. ASSUME plan.chip = "samd21" PROVE SamdTyped
  <2> DEFINE z == 0
             f == [b \in Samd!Banks |-> << >>]
  <2>1. out = [which |-> z, avail |-> {}, buffer |-> f, ready |-> {}, current |-> z, flags |-> {}]
    BY <1>9 DEF Init, Samd!Init, Avr!Init, Avr!Here
  <2>2. z \in Samd!Banks /\ f \in [Samd!Banks -> Seq(Nat)]
    BY <1>5 DEF Samd!Banks
  <2> HIDE DEF z, f
  <2>3. out \in SamdOut
    BY <2>1, <2>2 DEF SamdOut
  <2>4. out.avail = {} /\ out.flags = {}
    BY <2>1
  <2>5. Held(out) = {} /\ SamdTakes(out)
    BY <2>3, <2>4 DEF SamdTakes, Held
  <2>6. First(out) = << >> /\ Second(out) = << >>
    BY <2>5 DEF First, Second
  <2>7. Typed(First(out) \o Second(out))
    BY <1>7, <2>6, NothingTyped
  <2> QED
    BY <1>4, <2>4, <2>5, <2>7 DEF SamdTyped, SamdOpened
<1>10. ASSUME plan.chip = "avr" PROVE AvrPrinted
  <2> DEFINE e == << >>
  <2>1. in = [bank |-> e, ready |-> e, on |-> FALSE, txini |-> FALSE, txine |-> FALSE,
              flushed |-> FALSE, asleep |-> FALSE]
    BY <1>10 DEF Init, Avr!Init, Samd!Init, Samd!Here
  <2>2. e \in Seq(Nat) /\ e \in Seq(Seq(Nat)) /\ Len(e) = 0 /\ Bytes(e, Len(e), Len(got)) /\ Len(got) + Len(e) = written
        /\ e = << >>
    BY <1>2, <1>5, <1>6, EmptySeq
  <2> HIDE DEF e
  <2>3. in \in AvrIn /\ in.bank = e /\ in.ready = e /\ in.on = FALSE
    BY <2>1, <2>2 DEF AvrIn
  <2>4. AvrLined(in.bank, in.ready, Len(got), written)
    BY <2>2, <2>3 DEF AvrLined
  <2> QED
    BY <1>2, <1>6, <2>2, <2>3, <2>4 DEF AvrPrinted
<1>11. ASSUME plan.chip = "avr" PROVE AvrTyped
  <2> DEFINE e == << >>
  <2>1. out = [banks |-> e, rxouti |-> FALSE, rxoute |-> FALSE, check |-> "no"]
    BY <1>11 DEF Init, Avr!Init, Avr!Closed, Samd!Init, Samd!Here
  <2>2. e \in Seq(Nat) /\ e \in Seq(Seq(Nat)) /\ Len(e) = 0 /\ e = << >> /\ 0 <= 2
    BY <1>5, EmptySeq
  <2> HIDE DEF e
  <2>3. out \in AvrOut /\ out.banks = e
    BY <2>1, <2>2 DEF AvrOut
  <2>4. AvrWaiting(out) = << >> /\ Len(out.banks) <= 2
    BY <2>2, <2>3 DEF AvrWaiting
  <2> QED
    BY <1>7, <2>3, <2>4 DEF AvrTyped
<1> QED
  BY <1>2, <1>3, <1>4, <1>8, <1>9, <1>10, <1>11 DEF Inv

LEMMA BytesStutter == Inv /\ UNCHANGED vars => Inv'
<1> SUFFICES ASSUME Inv, UNCHANGED vars PROVE Inv'
  OBVIOUS
<1>1. /\ UNCHANGED <<got, sent, plan, control, resets, written, read, job>>
      /\ UNCHANGED <<fifo, in, out, ep0, eorst, running>>
  BY DEF vars, Samd!vars, Samd!hostVars, Samd!programVars, Samd!deviceVars
<1>2. ControlInv'
  BY ControlKept DEF Inv
<1>3. Traffic => Traffic'
  BY <1>1 DEF Traffic
<1>4. SamdPrinted => SamdPrinted'
  BY <1>1 DEF SamdPrinted, Put, SamdSilent
<1>5. SamdTyped => SamdTyped'
  BY <1>1 DEF SamdTyped, Typed, SamdOpened
<1>6. AvrPrinted => AvrPrinted'
  BY <1>1 DEF AvrPrinted, Put, AvrOpened
<1>7. AvrTyped => AvrTyped'
  <2>1. (AvrWaiting(out))' = AvrWaiting(out)
    BY <1>1 DEF AvrWaiting
  <2> QED
    BY <1>1, <2>1 DEF AvrTyped, Typed
<1> QED
  BY <1>1, <1>2, <1>3, <1>4, <1>5, <1>6, <1>7 DEF Inv

LEMMA BytesKept == Inv /\ [Next]_vars => Inv'
<1> SUFFICES ASSUME Inv, Next PROVE Inv'
  BY BytesStutter
<1>1. plan' = plan /\ ControlInv'
  BY PlanKept, ControlKept DEF Inv
<1>2. CASE Samd!Next
  <2>1. plan.chip = "samd21" /\ SamdControl /\ Traffic /\ SamdPrinted /\ SamdTyped /\ plan \in Plans
    BY <1>2 DEF Samd!Next, Samd!Here, Inv, ControlInv
  <2>2. SamdPrinted'
    BY <1>2, <2>1, SamdPrintedKept DEF SamdTyped, SamdTakes
  <2>3. SamdTyped' /\ Traffic'
    BY <1>2, <2>1, SamdTypedKept
  <2> QED
    BY <1>1, <2>1, <2>2, <2>3 DEF Inv
<1>3. CASE Avr!Next
  <2>1. plan.chip = "avr" /\ AvrControl /\ Traffic /\ AvrPrinted /\ AvrTyped /\ plan \in Plans
    BY <1>3 DEF Avr!Next, Avr!Here, Inv, ControlInv
  <2>2. AvrPrinted'
    BY <1>3, <2>1, AvrPrintedKept
  <2>3. AvrTyped' /\ Traffic'
    BY <1>3, <2>1, AvrTypedKept
  <2> QED
    BY <1>1, <2>1, <2>2, <2>3 DEF Inv
<1> QED
  BY <1>2, <1>3 DEF Next

\* What has gone is not more than what was put.
LEMMA PrintedInOrder ==
  ASSUME Inv, resets = 0
  PROVE  got = [i \in 1..Len(got) |-> i] /\ Len(got) <= written
<1>1. Put /\ ((SamdLined(in, Len(got), written) /\ in \in SamdIn) \/ AvrLined(in.bank, in.ready, Len(got), written))
  BY DEF Inv, ControlInv, SamdPrinted, AvrPrinted, SamdSends, SamdHolds
<1> DEFINE n == Len(got)
<1>2. got \in Seq(Nat) /\ n \in Nat /\ written \in Nat /\ \A i \in 1..n : got[i] = i
  BY <1>1, LenProperties DEF Put, Bytes
<1>3. got = [i \in 1..n |-> i]
  BY <1>2
<1>4. \E a, b, c \in Nat : n + a + b + c = written
  <2>1. CASE SamdLined(in, n, written) /\ in \in SamdIn
    <3> DEFINE w == in.length[in.which]
               o == in.length[1 - in.which]
               c == in.count
    <3>1. w \in Nat /\ o \in Nat /\ c \in Nat
      BY <2>1, BankIs, SizesAssumption DEF SamdIn, Samd!Banks
    <3>2. n + c = written \/ n + o + c = written \/ n + w + o = written
      BY <2>1 DEF SamdLined
    <3> HIDE DEF w, o, c, n
    <3>3. 0 \in Nat /\ (n + c = n + c + 0 + 0) /\ (n + o + c = n + o + c + 0) /\ (n + w + o = n + w + o + 0)
      BY <1>2, <3>1 DEF n
    <3> QED
      BY <3>1, <3>2, <3>3
  <2>2. CASE AvrLined(in.bank, in.ready, n, written)
    <3> DEFINE c == Len(in.bank)
               x == Len(in.ready[1])
               y == Len(in.ready[2])
    <3>1. c \in Nat /\ in.ready \in Seq(Seq(Nat))
      BY <2>2, LenProperties DEF AvrLined
    <3>2. \/ n + c = written
          \/ 1 \in 1..Len(in.ready) /\ n + x + c = written
          \/ 1 \in 1..Len(in.ready) /\ 2 \in 1..Len(in.ready) /\ n + x + y + c = written
      <4>1. \/ n + c = written
            \/ Len(in.ready) = 1 /\ n + x + c = written
            \/ Len(in.ready) = 2 /\ n + x + y + c = written
        BY <2>2, Zenon DEF AvrLined
      <4>2. /\ Len(in.ready) = 1 => 1 \in 1..Len(in.ready)
            /\ Len(in.ready) = 2 => 1 \in 1..Len(in.ready) /\ 2 \in 1..Len(in.ready)
        <5>1. 1 \in 1..1 /\ 1 \in 1..2 /\ 2 \in 1..2
          OBVIOUS
        <5> QED
          BY <5>1, Zenon
      <4> QED
        BY <4>1, <4>2, Zenon
    <3>3. (1 \in 1..Len(in.ready) => x \in Nat) /\ (2 \in 1..Len(in.ready) => y \in Nat)
      BY <3>1, QueueIs
    <3> HIDE DEF x, y, c, n
    <3>4. \/ n + c = written
          \/ x \in Nat /\ n + x + c = written
          \/ x \in Nat /\ y \in Nat /\ n + x + y + c = written
      BY <3>2, <3>3
    <3>5. 0 \in Nat /\ n + c = n + c + 0 + 0 /\ (x \in Nat => n + x + c = n + x + c + 0)
      BY <1>2, <3>1 DEF n
    <3> QED
      BY <3>1, <3>4, <3>5
  <2> QED
    BY <1>1, <2>1, <2>2
<1>5. n <= written
  <2>1. PICK a, b, c \in Nat : n + a + b + c = written
    BY <1>4
  <2> HIDE DEF n
  <2> QED
    BY <1>2, <2>1 DEF n
<1> QED
  BY <1>3, <1>5

\* What has been read is the beginning of what came.
LEMMA ReadInOrder ==
  ASSUME Inv
  PROVE  /\ \A i \in 2..Len(read) : read[i - 1] < read[i]
         /\ resets = 0 => read = [i \in 1..Len(read) |-> i]
<1>1. \E w : Typed(w)
  BY DEF Inv, ControlInv, SamdTyped, AvrTyped
<1>2. PICK w : Typed(w)
  BY <1>1
<1> DEFINE r == read
           t == fifo \o w
           s == (read \o fifo) \o w
<1>3. /\ r \in Seq(Nat) /\ t \in Seq(Nat) /\ s = r \o t /\ Ordered(s, sent, resets)
  <2>1. read \in Seq(Nat) /\ fifo \in Seq(Nat) /\ w \in Seq(Nat)
    BY <1>2 DEF Typed
  <2>2. s = read \o (fifo \o w)
    BY <2>1, JoinsOn
  <2> QED
    BY <1>2, <2>1, <2>2, ConcatProperties DEF Typed
<1> HIDE DEF t, s
<1>4. /\ Len(s) = Len(r) + Len(t) /\ Len(r) \in Nat /\ Len(t) \in Nat
      /\ \A i \in 1..Len(r) + Len(t) : s[i] = IF i <= Len(r) THEN r[i] ELSE t[i - Len(r)]
  BY <1>3, ConcatProperties, LenProperties
<1>5. \A i \in 1..Len(r) : i \in 1..Len(s) /\ s[i] = r[i]
  BY <1>4
<1>6. ASSUME NEW i \in 2..Len(r) PROVE r[i - 1] < r[i]
  <2>1. i - 1 \in 1..Len(r) /\ i \in 1..Len(r) /\ i - 1 < i
    BY <1>4
  <2> QED
    BY <1>3, <1>5, <2>1 DEF Ordered
<1>7. ASSUME resets = 0 PROVE r = [i \in 1..Len(r) |-> i]
  <2>1. \A i \in 1..Len(r) : r[i] = i
    BY <1>3, <1>5, <1>7 DEF Ordered, Bytes
  <2> QED
    BY <1>3, <1>4, <2>1
<1> QED
  BY <1>6, <1>7

\* However large the banks and the fifo are, and however program, handler,
\* controller and host take turns: what the host has got is what the program
\* printed, nothing missing, nothing twice, as long as nobody resets the bus;
\* what the program has read is what was typed, and after a reset still
\* nothing older than what it has (ao_usb_putc, ao_usb_flush, ao_usb_fifo_check,
\* _ao_usb_fifo_check).
THEOREM BytesInOrderHolds == Spec => []BytesInOrder
<1>1. Inv => BytesInOrder
  BY PrintedInOrder, ReadInOrder DEF BytesInOrder
<1> QED
  BY <1>1, BytesBegin, BytesKept, PTL DEF Spec
=============================================================================
