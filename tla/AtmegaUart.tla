----------------------------- MODULE AtmegaUart -----------------------------
(***************************************************************************)
(* The serial port of the atmega boards                                    *)
(* (src/chips/atmega/snek-atmega-serial.c): the program, the data register *)
(* empty and receive interrupts, the transmitter, and a host that obeys    *)
(* and uses XON/XOFF.                                                      *)
(*                                                                         *)
(* The program and the interrupts share two rings and the flow states.     *)
(* The program touches them with interrupts off and an interrupt is not    *)
(* interrupted, so each section is a step; the interleaving is that of the *)
(* sections with the hardware, which moves bytes from the data register to *)
(* the shift register and on to the host at any time, and with the host.   *)
(*                                                                         *)
(* The rings are the bounded queues that UartRing implements.  The bytes   *)
(* the program writes are numbered; of the bytes it reads only the number  *)
(* matters.  The model starts with the first byte of the welcome message.  *)
(*                                                                         *)
(* An operator under `M: ...' is a faulty form of the definition below it. *)
(***************************************************************************)
EXTENDS Integers, Sequences, RingArray

CONSTANTS
  Wrap,       \* the bytes the program writes are numbered modulo Wrap
  Lag,        \* bytes the host can send in the time the device sends one
  Controls    \* the control bytes the host uses

ASSUME RingAssumption == RingSize \in Nat \ {0, 1}
ASSUME WrapAssumption == Wrap \in Nat \ {0, 1}
ASSUME LagAssumption == Lag \in Nat
ASSUME ControlsAssumption == Controls \subseteq {"intr", "stop", "go", "ping"}

VARIABLES
  rx,         \* rx_ring.count
  tx,         \* the contents of tx_ring
  rxFlow,     \* rx_flow
  txFlow,     \* tx_flow: the host has sent ^S
  dre,        \* the data register empty interrupt is on
  udr,        \* the transmit data register
  shift,      \* the byte the transmitter is sending
  pinging,    \* the receive interrupt waits to answer ^T
  doing,      \* the program: "run", or in snek_uart_getch, or in snek_uart_putch
  put,        \* the number of the next byte the program writes
  inbox,      \* the receive data register
  heard,      \* the host: the last of ^Q and ^S it has received
  late,       \* the host: bytes sent since the device sent one
  got         \* the host: the number of the next byte it expects

deviceVars  == <<rx, tx, rxFlow, txFlow, dre, udr, pinging>>
programVars == <<doing, put>>
hostVars    == <<inbox, heard, late, got>>
vars == <<deviceVars, shift, programVars, hostVars>>

----------------------------------------------------------------------------
Empty == -1                       \* of a register
xon   == -2                       \* ^Q
xoff  == -3                       \* ^S
pong  == -4                       \* the answer to ^T
FlowBytes == {xon, xoff}

EMPTY   == 0                      \* FLOW_EMPTY: ^Q is due
RUNNING == 1                      \* FLOW_RUNNING
FULL    == 2                      \* FLOW_FULL: ^S is due
STOPPED == 3                      \* FLOW_STOPPED

Numbers == 0..(Wrap - 1)
After(n) == (n + 1) % Wrap

Init ==
  /\ rx = 0 /\ tx = <<0>> /\ put = 1
  /\ rxFlow = RUNNING /\ udr = xon /\ dre = TRUE
  /\ txFlow = FALSE /\ pinging = FALSE
  /\ shift = Empty
  /\ doing = "run"
  /\ inbox = "none" /\ heard = xon /\ late = 0 /\ got = 0

----------------------------------------------------------------------------
(***************************************************************************)
(* What the sections do                                                    *)
(***************************************************************************)
TX_EMPTY == udr = Empty

next_flow(flow) == (flow + 1) % 4

ring_mostly_full(n) == n >= RingSize \div 2

\* Nothing is sent: the flow state, tx_ring and the interrupt are as given.
Quiet(flow, queue, on) ==
  rxFlow' = flow /\ tx' = queue /\ dre' = on /\ UNCHANGED udr

\* M: the interrupt left off
SendUnheard(byte) == udr' = byte /\ dre' = dre

Send(byte) == udr' = byte /\ dre' = TRUE

\* _snek_uart_tx_start, called with rx_flow = flow, tx_ring = queue, the
\* interrupt on or off, and tx_flow as the section has left it.
tx_start(flow, queue, on) ==
  \/ /\ ~TX_EMPTY \/ txFlow'
     /\ Quiet(flow, queue, on)
  \/ /\ TX_EMPTY /\ ~txFlow' /\ flow \in {EMPTY, FULL}
     /\ Send(IF flow = EMPTY THEN xon ELSE xoff)
     /\ rxFlow' = next_flow(flow) /\ tx' = queue
  \/ /\ TX_EMPTY /\ ~txFlow' /\ flow \in {RUNNING, STOPPED}
     /\ IF queue = << >> THEN Quiet(flow, queue, on)
        ELSE Send(Head(queue)) /\ tx' = Tail(queue) /\ rxFlow' = flow

\* M: ^Q never due
XonMissed(flow) == flow

\* The flow state after _snek_uart_xon, but for its _snek_uart_tx_start
Xon(flow) == IF flow = STOPPED /\ rx' = 0 THEN next_flow(flow) ELSE flow

\* M: ^S when the ring is full
XoffLate(flow) == IF flow = RUNNING /\ rx' = RingSize THEN next_flow(flow) ELSE flow

\* ... and after _snek_uart_xoff
Xoff(flow) == IF flow = RUNNING /\ ring_mostly_full(rx') THEN next_flow(flow) ELSE flow

\* A flow state that has changed is followed by _snek_uart_tx_start
\* (_snek_uart_flow_do).
Become(flow) ==
  IF flow = rxFlow THEN Quiet(flow, tx, dre) ELSE tx_start(flow, tx, dre)

----------------------------------------------------------------------------
(***************************************************************************)
(* The program.  It waits in snek_uart_getch and snek_uart_putch by trying *)
(* again, with the interrupts on in between.                               *)
(***************************************************************************)
Begin(what) ==
  /\ doing = "run" /\ doing' = what
  /\ UNCHANGED <<deviceVars, shift, put, hostVars>>

BeginGet == Begin("get")
BeginPut == Begin("put")

Getch ==
  /\ doing = "get" /\ ~pinging /\ rx > 0
  /\ rx' = rx - 1 /\ UNCHANGED txFlow
  /\ Become(Xon(rxFlow))
  /\ doing' = "run"
  /\ UNCHANGED <<pinging, shift, put, hostVars>>

Putch ==
  /\ doing = "put" /\ ~pinging /\ Len(tx) < RingSize
  /\ UNCHANGED txFlow
  /\ tx_start(rxFlow, Append(tx, put), dre)
  /\ put' = After(put)
  /\ doing' = "run"
  /\ UNCHANGED <<rx, pinging, shift, hostVars>>

----------------------------------------------------------------------------
(***************************************************************************)
(* The interrupts                                                          *)
(***************************************************************************)
\* UDRE_vect.  Its two calls of _snek_uart_tx_start are one: if the first
\* fills the data register the second does nothing, and should the byte have
\* gone to the shift register already, this interrupt comes again.
DataRegisterEmpty ==
  /\ dre /\ TX_EMPTY /\ ~pinging
  /\ UNCHANGED <<rx, txFlow>>
  /\ tx_start(Xon(rxFlow), tx, FALSE)
  /\ UNCHANGED <<pinging, shift, programVars, hostVars>>

\* RX_vect, by the byte received
Receives(byte) ==
  /\ inbox = byte /\ ~pinging
  /\ inbox' = "none"
  /\ UNCHANGED <<shift, programVars, heard, late, got>>

\* ^C empties the ring, and is queued itself.
IntrCount == 1

\* rx_ring.count after ring_put, which fails when the ring is full
ring_put == IF rx < RingSize THEN rx + 1 ELSE rx

ReceiveChar ==
  /\ Receives("char")
  /\ rx' = ring_put /\ UNCHANGED txFlow
  /\ Become(Xoff(rxFlow))
  /\ UNCHANGED pinging

ReceiveIntr ==
  /\ Receives("intr")
  /\ rx' = IntrCount /\ UNCHANGED txFlow
  /\ Become(Xoff(rxFlow))
  /\ UNCHANGED pinging

ReceiveStop ==
  /\ Receives("stop")
  /\ txFlow' = TRUE
  /\ UNCHANGED <<rx, tx, rxFlow, dre, udr, pinging>>

\* M: the transmitter not started again
NotRestarted == Quiet(rxFlow, tx, dre)

Restarted == tx_start(rxFlow, tx, dre)

ReceiveGo ==
  /\ Receives("go")
  /\ txFlow' = FALSE
  /\ Restarted
  /\ UNCHANGED <<rx, pinging>>

\* ^T is answered as soon as the data register is empty; until then the
\* interrupt waits and with it everything but the hardware and the host.
ReceivePing ==
  /\ Receives("ping")
  /\ pinging' = TRUE
  /\ UNCHANGED <<rx, tx, rxFlow, txFlow, dre, udr>>

\* M: without waiting
AnswerAtOnce ==
  /\ pinging
  /\ udr' = pong
  /\ pinging' = FALSE
  /\ UNCHANGED <<rx, tx, rxFlow, txFlow, dre, shift, programVars, hostVars>>

AnswerPing ==
  /\ pinging /\ TX_EMPTY
  /\ udr' = pong
  /\ pinging' = FALSE
  /\ UNCHANGED <<rx, tx, rxFlow, txFlow, dre, shift, programVars, hostVars>>

Receive == \/ ReceiveChar \/ ReceiveIntr \/ ReceiveStop \/ ReceiveGo
           \/ ReceivePing \/ AnswerPing

----------------------------------------------------------------------------
(***************************************************************************)
(* The transmitter and the host                                            *)
(***************************************************************************)
Load ==
  /\ shift = Empty /\ udr # Empty
  /\ shift' = udr /\ udr' = Empty
  /\ UNCHANGED <<rx, tx, rxFlow, txFlow, dre, pinging, programVars, hostVars>>

Deliver ==
  /\ shift # Empty
  /\ shift' = Empty
  /\ heard' = IF shift \in FlowBytes THEN shift ELSE heard
  /\ late' = 0
  /\ got' = IF shift \in Numbers THEN After(shift) ELSE got
  /\ UNCHANGED <<deviceVars, programVars, inbox>>

Sends(byte) ==
  /\ inbox = "none" /\ inbox' = byte
  /\ UNCHANGED <<deviceVars, shift, programVars, heard, got>>

\* The device has a byte to send.
Busy == shift # Empty \/ udr # Empty \/ rxFlow \in {EMPTY, FULL}

\* A host sends no characters after ^S in either direction.  The line is as
\* fast in both: while the device sends a byte the host sends no more than Lag.
SendChar ==
  /\ heard = xon /\ ~txFlow /\ (Busy => late < Lag)
  /\ Sends("char")
  /\ late' = IF Busy THEN late + 1 ELSE 0

SendControl == \E byte \in Controls \ {"ping"} : Sends(byte) /\ UNCHANGED late

\* A host that asks with ^T waits for the answer before it asks again.
SendPing ==
  /\ "ping" \in Controls /\ ~pinging /\ pong \notin {udr, shift}
  /\ Sends("ping") /\ UNCHANGED late

Host == SendChar \/ SendControl \/ SendPing

Next == BeginGet \/ BeginPut \/ Getch \/ Putch \/ DataRegisterEmpty \/ Receive
        \/ Load \/ Deliver \/ Host

Spec == Init /\ [][Next]_vars

\* An interrupt that is due happens, also among others, and the transmitter
\* works.  An interrupt takes less time than a byte, and a flow byte is sent at
\* most twice for every RingSize \div 2 bytes received: the data register empty
\* interrupt also happens when it is the turn of a byte of the program.
\* A program that waits for a byte, or for room for one, takes it when it is
\* there, and the program reads again and again (it is at its prompt, or will
\* be).  A host that uses ^S sends ^Q again and again.
Fairness ==
  /\ SF_vars(DataRegisterEmpty) /\ SF_vars(DataRegisterEmpty /\ tx' # tx)
  /\ WF_vars(Receive) /\ WF_vars(Load) /\ WF_vars(Deliver)
  /\ SF_vars(Getch) /\ SF_vars(Putch) /\ SF_vars(BeginGet) /\ SF_vars(SendControl /\ inbox' = "go")

LiveSpec == Spec /\ Fairness

----------------------------------------------------------------------------
(***************************************************************************)
(* Properties                                                              *)
(***************************************************************************)
TypeOK ==
  /\ rx \in 0..RingSize
  /\ tx \in Seq(Numbers) /\ Len(tx) <= RingSize
  /\ rxFlow \in {EMPTY, RUNNING, FULL, STOPPED}
  /\ txFlow \in BOOLEAN /\ dre \in BOOLEAN /\ pinging \in BOOLEAN
  /\ udr \in Numbers \cup FlowBytes \cup {pong, Empty}
  /\ shift \in Numbers \cup FlowBytes \cup {pong, Empty}
  /\ doing \in {"run", "get", "put"} /\ put \in Numbers
  /\ inbox \in {"char", "intr", "stop", "go", "ping", "none"}
  /\ heard \in FlowBytes /\ late \in 0..Lag /\ got \in Numbers

\* The bytes on their way from the program to the host, oldest first
Numbered(register) == IF register \in Numbers THEN <<register>> ELSE << >>
OnTheWay == Numbered(shift) \o Numbered(udr) \o tx

\* What the program writes reaches the host once and in order, whatever flow
\* control bytes and answers go in between: the bytes on their way are those
\* from the one the host expects next to the one the program wrote last.
WritesAreExact ==
  LET way == OnTheWay IN
  /\ way = << >> => got = put
  /\ way # << >> => way[1] = got /\ After(way[Len(way)]) = put
  /\ \A i \in 1..(Len(way) - 1) : way[i + 1] = After(way[i])

\* The newest flow byte that has been sent, received or not
LastFlow == IF udr \in FlowBytes THEN udr ELSE IF shift \in FlowBytes THEN shift ELSE heard

\* The device and the host agree on who may send, once the bytes on their way
\* have arrived: rx_flow remembers the last flow byte sent.
FlowIsKnown == LastFlow = IF rxFlow \in {RUNNING, FULL} THEN xon ELSE xoff

\* A host that obeys ^S in time loses nothing: the ring has room for every byte
\* that arrives.
NoOverrun == inbox = "char" => rx < RingSize

\* Whatever is to be sent, data or a flow byte, the transmit interrupt is on to
\* send it, unless the host has stopped the device.
SomeoneSends ==
  ~txFlow /\ (tx # << >> \/ rxFlow \in {EMPTY, FULL}) => dre

\* A host that was told to stop is told to go on.
HostResumes == heard = xoff ~> heard = xon

\* "Print writes all of its positional parameters to the console": as long as
\* bytes are on their way, the host gets one again and again, unless it stops
\* the device again and again.
WritesArrive ==
  []<>(OnTheWay = << >>) \/ []<>txFlow \/ []<><<got' # got>>_got
=============================================================================
