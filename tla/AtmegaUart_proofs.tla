------------------------- MODULE AtmegaUart_proofs -------------------------
(***************************************************************************)
(* Theorems about AtmegaUart for rings of any size, a line of any speed    *)
(* and a host that uses any of the control bytes.                          *)
(*                                                                         *)
(* Every step but those of the hardware and the host ends in               *)
(* _snek_uart_tx_start, at most; the lemmas say what that does, and each   *)
(* theorem has them and one step per action.                               *)
(***************************************************************************)
EXTENDS AtmegaUart, TLAPS

Flows     == {EMPTY, RUNNING, FULL, STOPPED}
Registers == Numbers \cup FlowBytes \cup {pong, Empty}
Queues    == {q \in Seq(Numbers) : Len(q) <= RingSize}

LEMMA Distinct ==
  /\ Empty \notin Numbers \cup FlowBytes \cup {pong} /\ pong \notin Numbers \cup FlowBytes
  /\ Numbers \cap FlowBytes = {} /\ xon # xoff
BY WrapAssumption DEF Empty, Numbers, FlowBytes, xon, xoff, pong

LEMMA AfterIsNumber == \A n \in Numbers : After(n) \in Numbers
BY WrapAssumption DEF Numbers, After

LEMMA NextFlowIs ==
  /\ next_flow(EMPTY) = RUNNING /\ next_flow(RUNNING) = FULL
  /\ next_flow(FULL) = STOPPED /\ next_flow(STOPPED) = EMPTY
BY DEF next_flow, EMPTY, RUNNING, FULL, STOPPED

\* A ring that loses its oldest byte is a ring.
LEMMA QueueTail ==
  ASSUME NEW q \in Queues, q # << >>
  PROVE  Tail(q) \in Queues /\ Head(q) \in Numbers
<1>1. q \in Seq(Numbers) /\ Len(q) \in Nat /\ Len(q) <= RingSize
  BY DEF Queues
<1>2. Tail(q) \in Seq(Numbers) /\ Head(q) \in Numbers /\ Len(Tail(q)) = Len(q) - 1
  BY <1>1
<1> QED
  BY <1>1, <1>2, RingAssumption DEF Queues

\* _snek_uart_xon and _snek_uart_xoff change who is to be told, not what was
\* said last.
LEMMA FlowChanges ==
  ASSUME NEW flow \in Flows
  PROVE  /\ Xon(flow) \in Flows /\ Xoff(flow) \in Flows
         /\ Xon(flow) \in {RUNNING, FULL} <=> flow \in {RUNNING, FULL}
         /\ Xoff(flow) \in {RUNNING, FULL} <=> flow \in {RUNNING, FULL}
BY DEF Flows, Xon, Xoff, next_flow, EMPTY, RUNNING, FULL, STOPPED

----------------------------------------------------------------------------
(***************************************************************************)
(* What tx_start may do, in the words of the properties                    *)
(***************************************************************************)
LEMMA TxStartTypes ==
  ASSUME TypeOK, NEW flow \in Flows, NEW queue \in Queues, NEW on \in BOOLEAN,
         tx_start(flow, queue, on)
  PROVE  rxFlow' \in Flows /\ tx' \in Queues /\ dre' \in BOOLEAN /\ udr' \in Registers
<1>1. CASE Quiet(flow, queue, on)
  BY <1>1 DEF Quiet, TypeOK, Registers
<1>2. CASE flow \in {EMPTY, FULL} /\ rxFlow' = next_flow(flow) /\ tx' = queue
           /\ Send(IF flow = EMPTY THEN xon ELSE xoff)
  BY <1>2, NextFlowIs DEF Send, Flows, Registers, FlowBytes
<1>3. CASE queue # << >> /\ Send(Head(queue)) /\ tx' = Tail(queue) /\ rxFlow' = flow
  BY <1>3, QueueTail DEF Send, Registers
<1> QED
  BY <1>1, <1>2, <1>3 DEF tx_start

LEMMA BecomeTypes ==
  ASSUME TypeOK, NEW flow \in Flows, Become(flow)
  PROVE  rxFlow' \in Flows /\ tx' \in Queues /\ dre' \in BOOLEAN /\ udr' \in Registers
<1>1. tx \in Queues /\ dre \in BOOLEAN
  BY DEF TypeOK, Queues
<1>2. CASE Quiet(flow, tx, dre)
  BY <1>1, <1>2 DEF Quiet, TypeOK, Registers
<1>3. CASE tx_start(flow, tx, dre)
  BY <1>1, <1>3, TxStartTypes
<1> QED
  BY <1>2, <1>3 DEF Become

\* The types of what the program and the interrupts share, and of the rest
DeviceOK ==
  /\ rx \in 0..RingSize /\ tx \in Queues /\ rxFlow \in Flows
  /\ txFlow \in BOOLEAN /\ dre \in BOOLEAN /\ pinging \in BOOLEAN /\ udr \in Registers

OthersOK ==
  /\ shift \in Registers
  /\ doing \in {"run", "get", "put"} /\ put \in Numbers
  /\ inbox \in {"char", "intr", "stop", "go", "ping", "none"}
  /\ heard \in FlowBytes /\ late \in 0..Lag /\ got \in Numbers

LEMMA TypeParts == TypeOK <=> DeviceOK /\ OthersOK
BY DEF TypeOK, DeviceOK, OthersOK, Queues, Registers, Flows

\* Neither ring overflows, the flow state stays one of the four, and the host
\* stays within the speed of the line.
THEOREM TypeCorrect == Spec => []TypeOK
<1>1. Init => TypeOK
  <2> SUFFICES ASSUME Init PROVE DeviceOK /\ OthersOK
    BY TypeParts
  <2>1. <<0>> \in Queues /\ 0 \in Numbers /\ 1 \in Numbers
    BY RingAssumption, WrapAssumption DEF Queues, Numbers
  <2>2. DeviceOK
    <3>1. rx \in 0..RingSize
      BY RingAssumption DEF Init
    <3>2. tx \in Queues
      BY <2>1, Zenon DEF Init
    <3>3. /\ rxFlow \in Flows /\ udr \in Registers
          /\ txFlow \in BOOLEAN /\ dre \in BOOLEAN /\ pinging \in BOOLEAN
      BY DEF Init, Flows, Registers, FlowBytes
    <3> QED
      BY <3>1, <3>2, <3>3 DEF DeviceOK
  <2>3. OthersOK
    BY <2>1, LagAssumption DEF Init, OthersOK, Registers, FlowBytes
  <2> QED
    BY <2>2, <2>3
<1>2. TypeOK /\ [Next]_vars => TypeOK'
  <2> SUFFICES ASSUME TypeOK, [Next]_vars PROVE DeviceOK' /\ OthersOK'
    BY DEF TypeOK, DeviceOK, OthersOK, Queues, Registers, Flows
  <2>0. DeviceOK /\ OthersOK
    BY TypeParts
  <2>1. CASE BeginGet \/ BeginPut
    BY <2>0, <2>1 DEF BeginGet, BeginPut, Begin, deviceVars, hostVars, DeviceOK, OthersOK
  <2>2. CASE Getch
    <3>1. Become(Xon(rxFlow)) /\ Xon(rxFlow) \in Flows
      BY <2>0, <2>2, FlowChanges DEF Getch, DeviceOK
    <3>2. rxFlow' \in Flows /\ tx' \in Queues /\ dre' \in BOOLEAN /\ udr' \in Registers
      BY <3>1, BecomeTypes
    <3>3. rx' \in 0..RingSize
      BY <2>0, <2>2, RingAssumption DEF Getch, DeviceOK
    <3> QED
      BY <2>0, <2>2, <3>2, <3>3 DEF Getch, hostVars, DeviceOK, OthersOK
  <2>3. CASE Putch
    <3>1. Append(tx, put) \in Queues
      BY <2>0, <2>3, RingAssumption DEF Putch, DeviceOK, OthersOK, Queues
    <3>2. rxFlow' \in Flows /\ tx' \in Queues /\ dre' \in BOOLEAN /\ udr' \in Registers
      BY <2>0, <2>3, <3>1, TxStartTypes DEF Putch, DeviceOK
    <3> QED
      BY <2>0, <2>3, <3>2, AfterIsNumber DEF Putch, hostVars, DeviceOK, OthersOK
  <2>4. CASE DataRegisterEmpty
    <3>1. rxFlow' \in Flows /\ tx' \in Queues /\ dre' \in BOOLEAN /\ udr' \in Registers
      BY <2>0, <2>4, FlowChanges, TxStartTypes DEF DataRegisterEmpty, DeviceOK
    <3> QED
      BY <2>0, <2>4, <3>1 DEF DataRegisterEmpty, programVars, hostVars, DeviceOK, OthersOK
  <2>5. CASE ReceiveChar \/ ReceiveIntr
    <3>1. Become(Xoff(rxFlow)) /\ Xoff(rxFlow) \in Flows
      BY <2>0, <2>5, FlowChanges DEF ReceiveChar, ReceiveIntr, DeviceOK
    <3>2. rxFlow' \in Flows /\ tx' \in Queues /\ dre' \in BOOLEAN /\ udr' \in Registers
      BY <3>1, BecomeTypes
    <3>3. rx' \in 0..RingSize
      BY <2>0, <2>5, RingAssumption
         DEF ReceiveChar, ReceiveIntr, ring_put, IntrCount, DeviceOK
    <3> QED
      BY <2>0, <2>5, <3>2, <3>3
         DEF ReceiveChar, ReceiveIntr, Receives, programVars, DeviceOK, OthersOK
  <2>6. CASE ReceiveStop \/ ReceivePing
    BY <2>0, <2>6 DEF ReceiveStop, ReceivePing, Receives, programVars, DeviceOK, OthersOK
  <2>7. CASE ReceiveGo
    <3>1. rxFlow' \in Flows /\ tx' \in Queues /\ dre' \in BOOLEAN /\ udr' \in Registers
      BY <2>0, <2>7, TxStartTypes DEF ReceiveGo, Restarted, DeviceOK
    <3> QED
      BY <2>0, <2>7, <3>1 DEF ReceiveGo, Receives, programVars, DeviceOK, OthersOK
  <2>8. CASE AnswerPing
    BY <2>0, <2>8 DEF AnswerPing, programVars, hostVars, DeviceOK, OthersOK, Registers
  <2>9. CASE Load
    BY <2>0, <2>9 DEF Load, programVars, hostVars, DeviceOK, OthersOK, Registers
  <2>10. CASE Deliver
    <3>1. shift' \in Registers /\ heard' \in FlowBytes /\ late' \in 0..Lag
      BY <2>0, <2>10, LagAssumption DEF Deliver, OthersOK, Registers
    <3>2. got' \in Numbers
      BY <2>0, <2>10, AfterIsNumber DEF Deliver, OthersOK
    <3> QED
      BY <2>0, <2>10, <3>1, <3>2 DEF Deliver, deviceVars, programVars, DeviceOK, OthersOK
  <2>11. CASE Host
    <3>1. late' \in 0..Lag
      BY <2>0, <2>11, LagAssumption DEF Host, SendChar, SendControl, SendPing, OthersOK
    <3>2. inbox' \in {"char", "intr", "stop", "go", "ping", "none"}
      BY <2>11, ControlsAssumption DEF Host, SendChar, SendControl, SendPing, Sends
    <3> QED
      BY <2>0, <2>11, <3>1, <3>2
         DEF Host, SendChar, SendControl, SendPing, Sends, deviceVars, programVars,
             DeviceOK, OthersOK
  <2>12. CASE UNCHANGED vars
    BY <2>0, <2>12 DEF vars, deviceVars, programVars, hostVars, DeviceOK, OthersOK
  <2> QED
    BY <2>1, <2>2, <2>3, <2>4, <2>5, <2>6, <2>7, <2>8, <2>9, <2>10, <2>11, <2>12
       DEF Next, Receive
<1> QED
  BY <1>1, <1>2, PTL DEF Spec

----------------------------------------------------------------------------
(***************************************************************************)
(* Who may send                                                            *)
(***************************************************************************)
\* FlowIsKnown, of a flow state that tx_start is called with
Known(flow) == LastFlow = IF flow \in {RUNNING, FULL} THEN xon ELSE xoff

\* A flow byte is sent exactly when the state says that it has been.
LEMMA TxStartKnown ==
  ASSUME TypeOK, NEW flow \in Flows, Known(flow), NEW queue \in Queues, NEW on,
         tx_start(flow, queue, on), UNCHANGED <<shift, heard>>
  PROVE  FlowIsKnown'
<1>1. CASE Quiet(flow, queue, on)
  BY <1>1 DEF Quiet, Known, FlowIsKnown, LastFlow
<1>2. CASE flow = EMPTY /\ rxFlow' = next_flow(flow) /\ Send(xon)
  BY <1>2, NextFlowIs DEF Send, FlowIsKnown, LastFlow, FlowBytes
<1>3. CASE flow = FULL /\ rxFlow' = next_flow(flow) /\ Send(xoff)
  <2>1. rxFlow' \notin {RUNNING, FULL}
    BY <1>3, NextFlowIs DEF RUNNING, FULL, STOPPED
  <2> QED
    BY <1>3, <2>1 DEF Send, FlowIsKnown, LastFlow, FlowBytes
<1>4. CASE TX_EMPTY /\ queue # << >> /\ Send(Head(queue)) /\ rxFlow' = flow
  <2>1. udr \notin FlowBytes /\ udr' \notin FlowBytes
    BY <1>4, QueueTail, Distinct DEF TX_EMPTY, Send
  <2> QED
    BY <1>4, <2>1 DEF Known, FlowIsKnown, LastFlow
<1>5. EMPTY # FULL
  BY DEF EMPTY, FULL
<1> QED
  BY <1>1, <1>2, <1>3, <1>4, <1>5 DEF tx_start

LEMMA BecomeKnown ==
  ASSUME TypeOK, NEW flow \in Flows, Known(flow), Become(flow), UNCHANGED <<shift, heard>>
  PROVE  FlowIsKnown'
<1>1. CASE Quiet(flow, tx, dre)
  BY <1>1 DEF Quiet, Known, FlowIsKnown, LastFlow
<1>2. CASE tx_start(flow, tx, dre)
  BY <1>2, TxStartKnown DEF TypeOK, Queues
<1> QED
  BY <1>1, <1>2 DEF Become

\* The device and the host agree on who may send, once the bytes on their way
\* have arrived, whatever the host sends and whenever it does.
THEOREM FlowIsKnownHolds == Spec => []FlowIsKnown
<1>1. Init => FlowIsKnown
  BY DEF Init, FlowIsKnown, LastFlow, FlowBytes
<1>2. TypeOK /\ FlowIsKnown /\ [Next]_vars => FlowIsKnown'
  <2> SUFFICES ASSUME TypeOK, FlowIsKnown, [Next]_vars PROVE FlowIsKnown'
    OBVIOUS
  <2>0. rxFlow \in Flows /\ tx \in Queues
    BY DEF TypeOK, Flows, Queues
  <2>1. Known(rxFlow) /\ Known(Xon(rxFlow)) /\ Known(Xoff(rxFlow))
    BY <2>0, FlowChanges DEF Known, FlowIsKnown
  <2>2. CASE UNCHANGED <<rxFlow, udr, shift, heard>>
    BY <2>2 DEF FlowIsKnown, LastFlow
  <2>3. CASE Getch
    BY <2>0, <2>1, <2>3, FlowChanges, BecomeKnown DEF Getch, hostVars
  <2>4. CASE Putch
    <3>1. Append(tx, put) \in Queues
      BY <2>0, <2>4, RingAssumption DEF Putch, TypeOK, Queues
    <3> QED
      BY <2>0, <2>1, <2>4, <3>1, TxStartKnown DEF Putch, hostVars
  <2>5. CASE DataRegisterEmpty
    BY <2>0, <2>1, <2>5, FlowChanges, TxStartKnown DEF DataRegisterEmpty, hostVars
  <2>6. CASE ReceiveChar \/ ReceiveIntr
    BY <2>0, <2>1, <2>6, FlowChanges, BecomeKnown DEF ReceiveChar, ReceiveIntr, Receives
  <2>7. CASE ReceiveGo
    BY <2>0, <2>1, <2>7, TxStartKnown DEF ReceiveGo, Receives, Restarted
  <2>8. CASE AnswerPing
    <3>1. udr \notin FlowBytes /\ udr' \notin FlowBytes
      BY <2>8, Distinct DEF AnswerPing, TX_EMPTY, FlowBytes, Empty, pong, xon, xoff
    <3> QED
      BY <2>8, <3>1 DEF AnswerPing, hostVars, FlowIsKnown, LastFlow
  <2>9. CASE Load
    <3>1. udr' \notin FlowBytes /\ shift \notin FlowBytes
      BY <2>9, Distinct DEF Load
    <3> QED
      BY <2>9, <3>1 DEF Load, hostVars, FlowIsKnown, LastFlow
  <2>10. CASE Deliver
    <3>1. shift' \notin FlowBytes
      BY <2>10, Distinct DEF Deliver
    <3> QED
      BY <2>10, <3>1 DEF Deliver, deviceVars, FlowIsKnown, LastFlow
  <2>11. ASSUME BeginGet \/ BeginPut \/ ReceiveStop \/ ReceivePing \/ Host \/ UNCHANGED vars
         PROVE  UNCHANGED <<rxFlow, udr, shift, heard>>
    BY <2>11 DEF BeginGet, BeginPut, Begin, ReceiveStop, ReceivePing, Receives, Host,
       SendChar, SendControl, SendPing, Sends, vars, deviceVars, programVars, hostVars
  <2> QED
    BY <2>2, <2>3, <2>4, <2>5, <2>6, <2>7, <2>8, <2>9, <2>10, <2>11 DEF Next, Receive
<1> QED
  BY <1>1, <1>2, TypeCorrect, PTL DEF Spec

----------------------------------------------------------------------------
(***************************************************************************)
(* Who sends                                                               *)
(***************************************************************************)
\* A full data register has its interrupt on: SomeoneSends is kept only with
\* this, which the answer to ^T breaks.
FullIsHeard == udr # Empty => dre

NoPing == ~pinging /\ inbox # "ping"

LEMMA TxStartHeard ==
  ASSUME TypeOK, FullIsHeard, NEW flow \in Flows, NEW queue \in Queues, NEW on,
         on = dre \/ TX_EMPTY,
         tx_start(flow, queue, on)
  PROVE  SomeoneSends' /\ FullIsHeard'
<1>1. CASE (~TX_EMPTY \/ txFlow') /\ Quiet(flow, queue, on)
  BY <1>1 DEF Quiet, FullIsHeard, SomeoneSends, TX_EMPTY
<1>2. CASE flow \in {RUNNING, STOPPED} /\ TX_EMPTY /\ queue = << >> /\ Quiet(flow, queue, on)
  BY <1>2 DEF Quiet, FullIsHeard, SomeoneSends, TX_EMPTY, RUNNING, STOPPED, EMPTY, FULL
<1>3. CASE dre' = TRUE
  BY <1>3 DEF FullIsHeard, SomeoneSends
<1> QED
  BY <1>1, <1>2, <1>3 DEF tx_start, Send

LEMMA BecomeHeard ==
  ASSUME TypeOK, FullIsHeard, SomeoneSends, NEW flow \in Flows, Become(flow),
         UNCHANGED txFlow
  PROVE  SomeoneSends' /\ FullIsHeard'
<1>1. CASE flow = rxFlow /\ Quiet(flow, tx, dre)
  BY <1>1 DEF Quiet, FullIsHeard, SomeoneSends
<1>2. CASE tx_start(flow, tx, dre)
  BY <1>2, TxStartHeard DEF TypeOK, Queues
<1> QED
  BY <1>1, <1>2 DEF Become

\* A host that does not use ^T leaves nobody waiting to answer it.
LEMMA NoPingKept ==
  ASSUME "ping" \notin Controls, NoPing, [Next]_vars
  PROVE  NoPing'
<1>1. CASE UNCHANGED <<pinging, inbox>>
  BY <1>1 DEF NoPing
<1>2. CASE Host
  BY <1>2 DEF NoPing, Host, SendChar, SendControl, SendPing, Sends, deviceVars
<1>3. CASE Receive
  BY <1>3 DEF NoPing, Receive, ReceiveChar, ReceiveIntr, ReceiveStop, ReceiveGo,
     ReceivePing, AnswerPing, Receives
<1>4. ASSUME ~Host, ~Receive PROVE UNCHANGED <<pinging, inbox>>
  BY <1>4 DEF Next, BeginGet, BeginPut, Begin, Getch, Putch, DataRegisterEmpty, Load,
     Deliver, vars, deviceVars, programVars, hostVars
<1> QED
  BY <1>1, <1>2, <1>3, <1>4

\* Without ^T no byte waits for an interrupt that is off: each disabling of it
\* is followed by a look at all there is to send, and each stop by ^Q.
THEOREM SomeoneSendsHolds == "ping" \notin Controls => (Spec => []SomeoneSends)
<1> SUFFICES ASSUME "ping" \notin Controls PROVE Spec => []SomeoneSends
  OBVIOUS
<1> DEFINE IInv == NoPing /\ FullIsHeard /\ SomeoneSends
<1>1. Init => IInv
  BY DEF Init, NoPing, FullIsHeard, SomeoneSends
<1>2. NoPing /\ [Next]_vars => NoPing'
  BY NoPingKept
<1>3. TypeOK /\ IInv /\ [Next]_vars => IInv'
  <2> SUFFICES ASSUME TypeOK, NoPing, FullIsHeard, SomeoneSends, [Next]_vars
               PROVE  FullIsHeard' /\ SomeoneSends'
    BY <1>2
  <2>0. rxFlow \in Flows /\ tx \in Queues /\ Xon(rxFlow) \in Flows /\ Xoff(rxFlow) \in Flows
    <3>1. rxFlow \in Flows /\ tx \in Queues
      BY DEF TypeOK, Flows, Queues
    <3> QED
      BY <3>1, FlowChanges
  <2>2. CASE UNCHANGED <<tx, rxFlow, txFlow, dre, udr>>
    BY <2>2 DEF FullIsHeard, SomeoneSends
  <2>3. CASE Getch
    BY <2>0, <2>3, BecomeHeard DEF Getch
  <2>4. CASE Putch
    <3>1. Append(tx, put) \in Queues
      BY <2>0, <2>4, RingAssumption DEF Putch, TypeOK, Queues
    <3> QED
      BY <2>0, <2>4, <3>1, TxStartHeard DEF Putch
  <2>5. CASE DataRegisterEmpty
    BY <2>0, <2>5, TxStartHeard DEF DataRegisterEmpty
  <2>6. CASE ReceiveChar \/ ReceiveIntr
    BY <2>0, <2>6, BecomeHeard DEF ReceiveChar, ReceiveIntr
  <2>7. CASE ReceiveStop
    BY <2>7 DEF ReceiveStop, FullIsHeard, SomeoneSends
  <2>8. CASE ReceiveGo
    BY <2>0, <2>8, TxStartHeard DEF ReceiveGo, Restarted
  <2>9. CASE ReceivePing \/ AnswerPing
    BY <2>9 DEF ReceivePing, AnswerPing, Receives, NoPing
  <2>10. CASE Load
    BY <2>10 DEF Load, FullIsHeard, SomeoneSends
  <2>11. ASSUME BeginGet \/ BeginPut \/ Deliver \/ Host \/ UNCHANGED vars
         PROVE  UNCHANGED <<tx, rxFlow, txFlow, dre, udr>>
    BY <2>11 DEF BeginGet, BeginPut, Begin, Deliver, Host, SendChar, SendControl, SendPing,
       Sends, vars, deviceVars
  <2> QED
    BY <2>2, <2>3, <2>4, <2>5, <2>6, <2>7, <2>8, <2>9, <2>10, <2>11 DEF Next, Receive
<1>4. IInv => SomeoneSends
  OBVIOUS
<1> QED
  BY <1>1, <1>3, <1>4, TypeCorrect, PTL DEF Spec

----------------------------------------------------------------------------
(***************************************************************************)
(* Room for what arrives.  A host that has not heard ^S yet goes on while  *)
(* the bytes before it, and ^S itself, are sent; what it may send in that  *)
(* time is its budget.                                                     *)
(***************************************************************************)
Half == RingSize \div 2
Arriving == IF inbox = "char" THEN 1 ELSE 0

\* While the device sends the byte in a register
During(register) == IF register = Empty THEN 0 ELSE Lag

\* Until the host has ^S; none when it has
Budget(flow) ==
  IF flow = FULL THEN During(shift) + During(udr) + Lag - late
  ELSE IF udr = xoff THEN During(shift) + Lag - late
  ELSE IF shift = xoff THEN Lag - late ELSE 0

\* n bytes in the ring, and as many as are on their way, leave room for the
\* budget.  ^Q is due when the ring is empty, perhaps before ^S has arrived, so
\* that the ring may hold a little more than nothing once it has been sent.
Room(flow, n, coming) ==
  /\ flow = RUNNING => n < Half \/ n <= 2 * Lag + 1
  /\ flow \in {FULL, STOPPED} => n + coming + Budget(flow) <= RingSize
  /\ flow = EMPTY => n + coming + Budget(flow) <= 2 * Lag + 1

RoomLeft == Room(rxFlow, rx, Arriving)

\* The ring for what the lag makes of half a ring.  TLC finds an overrun with one
\* place less than 5 * Lag + 2.
RoomForLag == Half + 3 * Lag <= RingSize /\ 5 * Lag + 2 <= RingSize

LEMMA BudgetBounds ==
  ASSUME TypeOK, NEW flow
  PROVE  /\ Budget(flow) \in 0..(3 * Lag)
         /\ flow # FULL => Budget(flow) <= 2 * Lag
BY LagAssumption DEF TypeOK, Budget, During

\* _snek_uart_tx_start sends ^S in the place that was reckoned for it.
LEMMA TxStartRoom ==
  ASSUME TypeOK, NEW flow \in Flows, NEW queue \in Queues, NEW on,
         tx_start(flow, queue, on), UNCHANGED <<shift, late>>,
         rx' \in Nat, Room(flow, rx', Arriving')
  PROVE  RoomLeft'
<1>1. CASE Quiet(flow, queue, on)
  BY <1>1 DEF Quiet, RoomLeft, Room, Budget, During
<1>2. CASE flow = EMPTY /\ rxFlow' = RUNNING
  <2>1. Budget(flow) >= 0 /\ Budget(flow) \in Int /\ Arriving' \in {0, 1}
    BY BudgetBounds DEF Arriving
  <2>2. rx' <= 2 * Lag + 1
    BY <1>2, <2>1, LagAssumption DEF Room, EMPTY, RUNNING, FULL, STOPPED
  <2> QED
    BY <1>2, <2>2 DEF RoomLeft, Room, EMPTY, RUNNING, FULL, STOPPED
<1>3. CASE flow = FULL /\ TX_EMPTY /\ udr' = xoff /\ rxFlow' = STOPPED
  <2>1. Budget(flow) = Budget(rxFlow)'
    BY <1>3, LagAssumption, Distinct
       DEF TypeOK, Budget, During, TX_EMPTY, FULL, STOPPED, FlowBytes
  <2> QED
    BY <1>3, <2>1 DEF RoomLeft, Room, EMPTY, RUNNING, FULL, STOPPED
<1>4. CASE /\ flow \in {RUNNING, STOPPED} /\ TX_EMPTY
           /\ queue # << >> /\ udr' = Head(queue) /\ rxFlow' = flow
  <2>1. udr # xoff /\ udr' # xoff
    BY <1>4, QueueTail, Distinct DEF TX_EMPTY, FlowBytes
  <2>2. flow = STOPPED => Budget(flow) = Budget(rxFlow)'
    BY <1>4, <2>1 DEF Budget, STOPPED, FULL
  <2> QED
    BY <1>4, <2>2 DEF RoomLeft, Room, EMPTY, RUNNING, FULL, STOPPED
<1>5. EMPTY # FULL
  BY DEF EMPTY, FULL
<1> QED
  BY <1>1, <1>2, <1>3, <1>4, <1>5, NextFlowIs DEF tx_start, Send

LEMMA BecomeRoom ==
  ASSUME TypeOK, NEW flow \in Flows, Become(flow), UNCHANGED <<shift, late>>,
         rx' \in Nat, Room(flow, rx', Arriving')
  PROVE  RoomLeft'
<1>1. CASE Quiet(flow, tx, dre)
  BY <1>1 DEF Quiet, RoomLeft, Room, Budget, During
<1>2. CASE tx_start(flow, tx, dre)
  BY <1>2, TxStartRoom DEF TypeOK, Queues
<1> QED
  BY <1>1, <1>2 DEF Become

\* Nothing that is taken out, or left in, uses room up.
LEMMA XonRoom ==
  ASSUME TypeOK, RoomLeft, rx' \in 0..rx, Arriving' \in 0..Arriving
  PROVE  Room(Xon(rxFlow), rx', Arriving')
<1>1. rx \in Nat /\ Arriving \in {0, 1} /\ Arriving' \in Nat /\ Arriving' <= Arriving
  BY RingAssumption DEF TypeOK, Arriving
<1>2. CASE rxFlow = STOPPED /\ rx' = 0
  <2>1. Budget(EMPTY) \in Nat /\ Budget(EMPTY) <= 2 * Lag
    BY BudgetBounds, LagAssumption DEF EMPTY, FULL
  <2> QED
    BY <1>1, <1>2, <2>1, NextFlowIs, LagAssumption DEF Xon, Room, EMPTY, RUNNING, FULL, STOPPED
<1>3. CASE ~(rxFlow = STOPPED /\ rx' = 0)
  <2>1. Budget(rxFlow) \in Int /\ Half \in Int
    BY BudgetBounds, RingAssumption, LagAssumption DEF Half
  <2> QED
    BY <1>1, <1>3, <2>1, RingAssumption, LagAssumption DEF Xon, RoomLeft, Room
<1> QED
  BY <1>2, <1>3

\* A byte that arrives had room reckoned for it; the one that fills half the
\* ring leaves room for all that can still come.
LEMMA XoffRoom ==
  ASSUME TypeOK, RoomLeft, RoomForLag,
         \/ inbox = "char" /\ rx' = ring_put
         \/ inbox = "intr" /\ rx' = IntrCount
  PROVE  Room(Xoff(rxFlow), rx', 0)
<1> DEFINE b == Budget(rxFlow)
<1>1. /\ rx \in Nat /\ rx <= RingSize /\ rx' \in Nat /\ RingSize \in Nat /\ Lag \in Nat
      /\ Half \in Nat /\ Half >= 1 /\ Half <= RingSize
      /\ b \in Nat /\ b <= 3 * Lag /\ (rxFlow # FULL => b <= 2 * Lag)
      /\ Budget(FULL) \in Nat /\ Budget(FULL) <= 3 * Lag
  BY BudgetBounds, RingAssumption, LagAssumption DEF TypeOK, Half, ring_put, IntrCount
<1>2. rx' <= rx + 1 \/ rx' = 1
  BY <1>1 DEF ring_put, IntrCount
<1>3. CASE rxFlow = RUNNING /\ rx' < Half
  <2>1. Xoff(rxFlow) = RUNNING
    BY <1>1, <1>3 DEF Xoff, ring_mostly_full, Half
  <2> QED
    BY <1>3, <2>1 DEF Room, EMPTY, RUNNING, FULL, STOPPED
<1>4. CASE rxFlow = RUNNING /\ rx' >= Half
  <2>1. Xoff(rxFlow) = FULL
    BY <1>1, <1>4, NextFlowIs DEF Xoff, ring_mostly_full, Half
  <2>2. rx' <= Half \/ rx' <= 2 * Lag + 2
    BY <1>1, <1>2, <1>4 DEF RoomLeft, Room
  <2>3. rx' + Budget(FULL) <= RingSize
    BY <1>1, <2>2 DEF RoomForLag
  <2> QED
    BY <1>1, <2>1, <2>3 DEF Room, EMPTY, RUNNING, FULL, STOPPED
<1>5. CASE rxFlow # RUNNING
  <2>1. Xoff(rxFlow) = rxFlow
    BY <1>5 DEF Xoff
  <2>2. CASE inbox = "char" /\ rx' = ring_put
    <3>1. Arriving = 1 /\ rx' <= rx + 1
      BY <1>1, <2>2 DEF Arriving, ring_put
    <3> QED
      BY <1>1, <1>5, <2>1, <3>1 DEF RoomLeft, Room
  <2>3. CASE rx' = 1
    BY <1>1, <1>5, <2>1, <2>3 DEF Room, RoomForLag, EMPTY, FULL
  <2> QED
    BY <2>2, <2>3 DEF IntrCount
<1> QED
  BY <1>1, <1>3, <1>4, <1>5

\* A host that obeys ^S when it has it, and does not use ^T, never sends a byte
\* that the ring has no room for: what it sends before it has ^S fits behind
\* half a ring, also when ^S was sent for bytes that are all read by then.
THEOREM NoOverrunHolds ==
  "ping" \notin Controls /\ RoomForLag => (Spec => []NoOverrun)
<1> SUFFICES ASSUME "ping" \notin Controls, RoomForLag PROVE Spec => []NoOverrun
  OBVIOUS
<1> DEFINE IInv == NoPing /\ RoomLeft
<1>1. Init => IInv
  BY RingAssumption, LagAssumption DEF Init, NoPing, RoomLeft, Room, EMPTY, RUNNING, FULL, STOPPED
<1>2. NoPing /\ [Next]_vars => NoPing'
  BY NoPingKept
<1>3. TypeOK /\ FlowIsKnown /\ IInv /\ [Next]_vars => IInv'
  <2> SUFFICES ASSUME TypeOK, FlowIsKnown, NoPing, RoomLeft, [Next]_vars
               PROVE  RoomLeft'
    BY <1>2
  <2>0. /\ rxFlow \in Flows /\ tx \in Queues /\ Xon(rxFlow) \in Flows /\ Xoff(rxFlow) \in Flows
        /\ rx \in Nat /\ late \in 0..Lag /\ Arriving \in {0, 1}
    <3>1. rxFlow \in Flows /\ tx \in Queues /\ rx \in Nat /\ late \in 0..Lag
      BY DEF TypeOK, Flows, Queues
    <3> QED
      BY <3>1, FlowChanges DEF Arriving
  <2>1. CASE Getch
    <3>1. Room(Xon(rxFlow), rx', Arriving')
      BY <2>0, <2>1, XonRoom DEF Getch, hostVars, Arriving
    <3> QED
      BY <2>0, <2>1, <3>1, BecomeRoom DEF Getch, hostVars
  <2>2. CASE Putch
    <3>1. Append(tx, put) \in Queues
      BY <2>0, <2>2, RingAssumption DEF Putch, TypeOK, Queues
    <3>2. Room(rxFlow, rx', Arriving')
      BY <2>2 DEF Putch, hostVars, Arriving, RoomLeft
    <3> QED
      BY <2>0, <2>2, <3>1, <3>2, TxStartRoom DEF Putch, hostVars
  <2>3. CASE DataRegisterEmpty
    <3>1. Room(Xon(rxFlow), rx', Arriving')
      BY <2>0, <2>3, XonRoom DEF DataRegisterEmpty, hostVars, Arriving
    <3> QED
      BY <2>0, <2>3, <3>1, TxStartRoom DEF DataRegisterEmpty, hostVars
  <2>4. CASE ReceiveChar \/ ReceiveIntr
    <3>1. Room(Xoff(rxFlow), rx', Arriving')
      BY <2>4, XoffRoom DEF ReceiveChar, ReceiveIntr, Receives, Arriving
    <3>2. rx' \in Nat
      BY <2>0, <2>4 DEF ReceiveChar, ReceiveIntr, ring_put, IntrCount
    <3> QED
      BY <2>0, <2>4, <3>1, <3>2, BecomeRoom DEF ReceiveChar, ReceiveIntr, Receives
  <2>5. CASE ReceiveStop
    BY <2>5 DEF ReceiveStop, Receives, Arriving, RoomLeft, Room, Budget, During
  <2>6. CASE ReceiveGo
    <3>1. Room(rxFlow, rx', Arriving')
      BY <2>6 DEF ReceiveGo, Receives, Arriving, RoomLeft
    <3> QED
      BY <2>0, <2>6, <3>1, TxStartRoom DEF ReceiveGo, Receives, Restarted
  <2>7. CASE ReceivePing \/ AnswerPing
    BY <2>7 DEF ReceivePing, AnswerPing, Receives, NoPing
  <2>8. CASE Load
    <3>1. Budget(rxFlow) = Budget(rxFlow)'
      BY <2>0, <2>8, Distinct, LagAssumption
         DEF Load, programVars, hostVars, Budget, During, FlowBytes
    <3> QED
      BY <2>8, <3>1 DEF Load, programVars, hostVars, RoomLeft, Room, Arriving
  <2>9. CASE Deliver
    <3>1. Budget(rxFlow)' <= Budget(rxFlow)
      BY <2>0, <2>9, Distinct, LagAssumption DEF Deliver, deviceVars, Budget, During, FlowBytes
    <3>2. Budget(rxFlow) \in Int /\ Budget(rxFlow)' \in Int
      <4>1. udr' = udr /\ shift' = Empty /\ late' = 0 /\ rxFlow' = rxFlow
        BY <2>9 DEF Deliver, deviceVars
      <4> QED
        BY <2>0, <4>1, LagAssumption DEF Budget, During
    <3> QED
      BY <2>0, <2>9, <3>1, <3>2, RingAssumption, LagAssumption
         DEF Deliver, deviceVars, RoomLeft, Room, Arriving
  <2>10. CASE SendChar
    <3>1. CASE rxFlow \in {FULL, STOPPED, EMPTY}
      <4>1. rxFlow = FULL \/ xoff \in {udr, shift}
        BY <2>0, <2>10, <3>1, Distinct DEF SendChar, FlowIsKnown, LastFlow, FULL, RUNNING,
           STOPPED, EMPTY, FlowBytes
      <4>2. Busy /\ late' = late + 1
        BY <2>10, <4>1, Distinct DEF SendChar, Busy, FlowBytes
      <4>3. Budget(rxFlow)' = Budget(rxFlow) - 1
        BY <2>0, <2>10, <4>1, <4>2, LagAssumption
           DEF SendChar, Sends, deviceVars, Budget, During
      <4>4. Budget(rxFlow) \in Int /\ Arriving = 0 /\ Arriving' = 1
        BY <2>10, BudgetBounds DEF SendChar, Sends, Arriving
      <4>5. UNCHANGED <<rx, rxFlow>>
        BY <2>10 DEF SendChar, Sends, deviceVars
      <4> QED
        BY <2>0, <3>1, <4>3, <4>4, <4>5 DEF RoomLeft, Room
    <3>2. CASE rxFlow = RUNNING
      BY <2>10, <3>2 DEF SendChar, Sends, deviceVars, RoomLeft, Room,
         EMPTY, RUNNING, FULL, STOPPED
    <3> QED
      BY <2>0, <3>1, <3>2 DEF Flows
  <2>11. CASE SendControl \/ SendPing
    BY <2>11, ControlsAssumption
       DEF SendControl, SendPing, Sends, deviceVars, RoomLeft, Room, Budget, During, Arriving
  <2>12. ASSUME BeginGet \/ BeginPut \/ UNCHANGED vars PROVE RoomLeft'
    BY <2>12 DEF BeginGet, BeginPut, Begin, vars, deviceVars, programVars, hostVars,
       RoomLeft, Room, Budget, During, Arriving
  <2> QED
    BY <2>1, <2>2, <2>3, <2>4, <2>5, <2>6, <2>7, <2>8, <2>9, <2>10, <2>11, <2>12
       DEF Next, Receive, Host
<1>4. TypeOK /\ IInv => NoOverrun
  <2> SUFFICES ASSUME TypeOK, RoomLeft, inbox = "char" PROVE rx < RingSize
    BY DEF NoOverrun
  <2>1. Budget(rxFlow) \in Nat /\ Arriving = 1 /\ rxFlow \in Flows /\ rx \in Nat
    BY BudgetBounds, LagAssumption DEF TypeOK, Flows, Arriving
  <2>2. Half \in Nat /\ Half < RingSize /\ RingSize \in Nat /\ Lag \in Nat
    BY RingAssumption, LagAssumption DEF Half
  <2> QED
    BY <2>1, <2>2 DEF RoomLeft, Room, RoomForLag, Flows
<1> QED
  BY <1>1, <1>3, <1>4, TypeCorrect, FlowIsKnownHolds, PTL DEF Spec

----------------------------------------------------------------------------
(***************************************************************************)
(* What is written arrives                                                 *)
(***************************************************************************)
\* WritesAreExact, of any bytes on their way: those from one number up to,
\* and without, another
Exact(way, from, to) ==
  /\ way = << >> => from = to
  /\ way # << >> => way[1] = from /\ After(way[Len(way)]) = to
  /\ \A i \in 1..(Len(way) - 1) : way[i + 1] = After(way[i])

\* The next number behind a register, which holds that number or none
Behind(from, register) == IF register \in Numbers THEN After(from) ELSE from
Holds(from, register) == register \in Numbers => register = from

\* WritesAreExact, register by register
ExactEach ==
  /\ Holds(got, shift) /\ Holds(Behind(got, shift), udr)
  /\ Exact(tx, Behind(Behind(got, shift), udr), put)

\* The oldest byte is the one expected, and the others follow it.
LEMMA ExactFirst ==
  ASSUME NEW way \in Seq(Numbers), NEW n \in Numbers, NEW from, NEW to
  PROVE  Exact(<<n>> \o way, from, to) <=> n = from /\ Exact(way, After(n), to)
<1> DEFINE w == <<n>> \o way
<1>1. /\ w \in Seq(Numbers) /\ Len(w) = Len(way) + 1 /\ Len(way) \in Nat
      /\ w # << >> /\ w[1] = n /\ \A i \in 1..Len(way) : w[i + 1] = way[i]
  OBVIOUS
<1>2. CASE way = << >>
  BY <1>1, <1>2 DEF Exact
<1>3. CASE way # << >>
  <2>1. Len(way) >= 1 /\ w[Len(w)] = way[Len(way)] /\ w[2] = way[1]
    BY <1>1, <1>3
  <2>2. ASSUME \A i \in 1..(Len(w) - 1) : w[i + 1] = After(w[i])
        PROVE  way[1] = After(n) /\ \A i \in 1..(Len(way) - 1) : way[i + 1] = After(way[i])
    <3>1. w[2] = After(w[1])
      BY <1>1, <2>1, <2>2
    <3>2. ASSUME NEW i \in 1..(Len(way) - 1) PROVE way[i + 1] = After(way[i])
      <4>1. i + 1 \in 1..(Len(w) - 1) /\ w[i + 1] = way[i] /\ w[(i + 1) + 1] = way[i + 1]
        BY <1>1
      <4> QED
        BY <2>2, <4>1
    <3> QED
      BY <1>1, <2>1, <3>1, <3>2
  <2>3. ASSUME way[1] = After(n), \A i \in 1..(Len(way) - 1) : way[i + 1] = After(way[i])
        PROVE  \A i \in 1..(Len(w) - 1) : w[i + 1] = After(w[i])
    <3> SUFFICES ASSUME NEW i \in 1..(Len(w) - 1) PROVE w[i + 1] = After(w[i])
      OBVIOUS
    <3>1. CASE i = 1
      BY <1>1, <2>1, <2>3, <3>1
    <3>2. CASE i # 1
      <4>1. i - 1 \in 1..(Len(way) - 1) /\ w[i] = way[i - 1] /\ w[i + 1] = way[i]
        <5>1. i - 1 \in 1..Len(way) /\ i \in 1..Len(way) /\ (i - 1) + 1 = i
          BY <1>1, <3>2
        <5> QED
          BY <1>1, <5>1
      <4> QED
        BY <2>3, <4>1
    <3> QED
      BY <3>1, <3>2
  <2> QED
    BY <1>1, <1>3, <2>1, <2>2, <2>3 DEF Exact
<1> QED
  BY <1>2, <1>3

\* What is put behind them is the next.
LEMMA ExactLast ==
  ASSUME NEW way \in Seq(Numbers), NEW from, NEW to \in Numbers, Exact(way, from, to)
  PROVE  Exact(Append(way, to), from, After(to))
<1> DEFINE w == Append(way, to)
<1>1. /\ Len(w) = Len(way) + 1 /\ Len(way) \in Nat /\ w # << >>
      /\ w[Len(w)] = to /\ \A i \in 1..Len(way) : w[i] = way[i]
  OBVIOUS
<1>2. w[1] = from
  BY <1>1 DEF Exact
<1>3. ASSUME NEW i \in 1..(Len(w) - 1) PROVE w[i + 1] = After(w[i])
  <2>1. CASE i = Len(way)
    BY <1>1, <2>1 DEF Exact
  <2>2. CASE i # Len(way)
    <3>1. i \in 1..(Len(way) - 1) /\ w[i] = way[i] /\ w[i + 1] = way[i + 1]
      BY <1>1, <2>2
    <3> QED
      BY <3>1 DEF Exact
  <2> QED
    BY <2>1, <2>2
<1> QED
  BY <1>1, <1>2, <1>3 DEF Exact

LEMMA ExactParts == TypeOK => (WritesAreExact <=> ExactEach)
<1> SUFFICES ASSUME TypeOK PROVE WritesAreExact <=> ExactEach
  OBVIOUS
<1> DEFINE second == Numbered(udr) \o tx
<1>1. tx \in Seq(Numbers) /\ second \in Seq(Numbers) /\ OnTheWay = Numbered(shift) \o second
  <2>1. /\ tx \in Seq(Numbers)
        /\ Numbered(shift) \in Seq(Numbers) /\ Numbered(udr) \in Seq(Numbers)
    BY DEF TypeOK, Numbered
  <2>2. \A p, q, r \in Seq(Numbers) : q \o r \in Seq(Numbers) /\ (p \o q) \o r = p \o (q \o r)
    OBVIOUS
  <2> QED
    BY <2>1, <2>2 DEF OnTheWay
<1>2. WritesAreExact <=> Exact(OnTheWay, got, put)
  BY DEF WritesAreExact, Exact
<1>3. ASSUME NEW way \in Seq(Numbers), NEW register, NEW from
      PROVE  Exact(Numbered(register) \o way, from, put)
               <=> Holds(from, register) /\ Exact(way, Behind(from, register), put)
  <2>1. CASE register \in Numbers
    BY <2>1, ExactFirst DEF Numbered, Holds, Behind
  <2>2. CASE register \notin Numbers
    BY <2>2 DEF Numbered, Holds, Behind
  <2> QED
    BY <2>1, <2>2
<1>4. Exact(OnTheWay, got, put) <=> Holds(got, shift) /\ Exact(second, Behind(got, shift), put)
  BY <1>1, <1>3
<1>5. Exact(second, Behind(got, shift), put)
        <=> /\ Holds(Behind(got, shift), udr)
            /\ Exact(tx, Behind(Behind(got, shift), udr), put)
  BY <1>1, <1>3
<1> QED
  BY <1>2, <1>4, <1>5 DEF ExactEach

\* A byte leaves tx_ring for the data register only when that is empty, and
\* nothing but a flow byte overtakes it there.
LEMMA TxStartExact ==
  ASSUME TypeOK, NEW flow \in Flows, NEW queue \in Queues, NEW on,
         tx_start(flow, queue, on), UNCHANGED <<shift, got>>,
         Holds(got, shift), Holds(Behind(got, shift), udr),
         Exact(queue, Behind(Behind(got, shift), udr), put')
  PROVE  ExactEach'
<1>1. CASE Quiet(flow, queue, on)
  BY <1>1 DEF Quiet, ExactEach, Holds, Behind
<1>2. CASE TX_EMPTY /\ udr' \in FlowBytes /\ tx' = queue
  <2>1. udr \notin Numbers /\ udr' \notin Numbers
    BY <1>2, Distinct DEF TX_EMPTY
  <2> QED
    BY <1>2, <2>1 DEF ExactEach, Holds, Behind
<1>3. CASE TX_EMPTY /\ queue # << >> /\ udr' = Head(queue) /\ tx' = Tail(queue)
  <2> DEFINE next == Behind(got, shift)
  <2>1. Behind(next, udr) = next
    BY <1>3, Distinct DEF TX_EMPTY, Behind
  <2>2. queue = <<Head(queue)>> \o Tail(queue) /\ Tail(queue) \in Seq(Numbers)
        /\ Head(queue) \in Numbers
    BY <1>3 DEF Queues
  <2>3. Head(queue) = next /\ Exact(Tail(queue), After(Head(queue)), put')
    <3>1. Exact(<<Head(queue)>> \o Tail(queue), next, put')
      BY <2>1, <2>2
    <3> QED
      BY <2>2, <3>1, ExactFirst
  <2> QED
    BY <1>3, <2>2, <2>3 DEF ExactEach, Holds, Behind
<1> QED
  BY <1>1, <1>2, <1>3 DEF tx_start, Send, FlowBytes

LEMMA BecomeExact ==
  ASSUME TypeOK, NEW flow \in Flows, Become(flow), UNCHANGED <<shift, got, put>>, ExactEach
  PROVE  ExactEach'
<1>1. CASE Quiet(flow, tx, dre)
  BY <1>1 DEF Quiet, ExactEach, Holds, Behind
<1>2. CASE tx_start(flow, tx, dre)
  BY <1>2, TxStartExact DEF TypeOK, Queues, ExactEach
<1> QED
  BY <1>1, <1>2 DEF Become

\* What the program writes reaches the host once and in order, whatever the
\* host sends meanwhile and whenever the interrupts come.
THEOREM WritesAreExactHolds == Spec => []WritesAreExact
<1>1. Init => ExactEach
  <2> SUFFICES ASSUME Init PROVE ExactEach
    OBVIOUS
  <2>1. shift \notin Numbers /\ udr \notin Numbers
    BY Distinct DEF Init, FlowBytes
  <2>2. Exact(tx, 0, 1)
    BY WrapAssumption DEF Init, Exact, After
  <2> QED
    BY <2>1, <2>2 DEF Init, ExactEach, Holds, Behind
<1>2. TypeOK /\ ExactEach /\ [Next]_vars => ExactEach'
  <2> SUFFICES ASSUME TypeOK, ExactEach, [Next]_vars PROVE ExactEach'
    OBVIOUS
  <2>0. rxFlow \in Flows /\ tx \in Queues /\ Xon(rxFlow) \in Flows /\ Xoff(rxFlow) \in Flows
    <3>1. rxFlow \in Flows /\ tx \in Queues
      BY DEF TypeOK, Flows, Queues
    <3> QED
      BY <3>1, FlowChanges
  <2>1. CASE Getch
    BY <2>0, <2>1, BecomeExact DEF Getch, hostVars
  <2>2. CASE Putch
    <3>1. Append(tx, put) \in Queues
      BY <2>0, <2>2, RingAssumption DEF Putch, TypeOK, Queues
    <3>2. Exact(Append(tx, put), Behind(Behind(got, shift), udr), put')
      BY <2>2, ExactLast DEF Putch, TypeOK, ExactEach
    <3> QED
      BY <2>0, <2>2, <3>1, <3>2, TxStartExact DEF Putch, hostVars, ExactEach
  <2>3. CASE DataRegisterEmpty
    BY <2>0, <2>3, TxStartExact DEF DataRegisterEmpty, programVars, hostVars, ExactEach
  <2>4. CASE ReceiveChar \/ ReceiveIntr
    BY <2>0, <2>4, BecomeExact DEF ReceiveChar, ReceiveIntr, Receives, programVars
  <2>5. CASE ReceiveGo
    BY <2>0, <2>5, TxStartExact DEF ReceiveGo, Receives, Restarted, programVars, ExactEach
  <2>6. CASE AnswerPing
    <3>1. udr \notin Numbers /\ udr' \notin Numbers
      BY <2>6, Distinct DEF AnswerPing, TX_EMPTY
    <3> QED
      BY <2>6, <3>1 DEF AnswerPing, programVars, hostVars, ExactEach, Holds, Behind
  <2>7. CASE Load
    <3>1. shift \notin Numbers /\ udr' \notin Numbers /\ shift' = udr
      BY <2>7, Distinct DEF Load
    <3> QED
      BY <2>7, <3>1 DEF Load, programVars, hostVars, ExactEach, Holds, Behind
  <2>8. CASE Deliver
    <3>1. shift' \notin Numbers /\ got' = Behind(got, shift)
      BY <2>8, Distinct DEF Deliver, Behind, ExactEach, Holds
    <3> QED
      BY <2>8, <3>1 DEF Deliver, deviceVars, programVars, ExactEach, Holds, Behind
  <2>9. ASSUME BeginGet \/ BeginPut \/ ReceiveStop \/ ReceivePing \/ Host \/ UNCHANGED vars
        PROVE  UNCHANGED <<tx, udr, shift, got, put>>
    BY <2>9 DEF BeginGet, BeginPut, Begin, ReceiveStop, ReceivePing, Receives, Host,
       SendChar, SendControl, SendPing, Sends, vars, deviceVars, programVars, hostVars
  <2>10. CASE UNCHANGED <<tx, udr, shift, got, put>>
    BY <2>10 DEF ExactEach, Holds, Behind
  <2> QED
    BY <2>1, <2>2, <2>3, <2>4, <2>5, <2>6, <2>7, <2>8, <2>9, <2>10 DEF Next, Receive
<1> QED
  BY <1>1, <1>2, ExactParts, TypeCorrect, PTL DEF Spec

=============================================================================
