------------------------------- MODULE AvrUsb -------------------------------
(***************************************************************************)
(* The USB device of the ATmega32u4 boards (src/chips/avr/ao-usb-avr.c).   *)
(*                                                                         *)
(* Its controller has the banks and shows the one in use as a fifo.  Of    *)
(* the flags in UEINTX, RWAL and FIFOCON follow from what the bank holds;  *)
(* TXINI and RXOUTI are set by the controller and cleared by the device.   *)
(* An interrupt that is enabled comes as long as its flag is set.          *)
(*                                                                         *)
(* Characters are taken from the bank one by one, with interrupts blocked; *)
(* meanwhile the controller goes on, so `check' is what that loop does.    *)
(***************************************************************************)
EXTENDS UsbHost

VARIABLES
  in,        \* the endpoint to the host: flushed, the bank and those to send, TXINI, TXINE, asleep
  out,       \* the endpoint from the host: banks, RXOUTI, RXOUTE, check
  ep0,       \* the control endpoint
  dadd,      \* UDADDR
  eorst,     \* EORSTI
  running    \* ao_usb_running

deviceVars == <<fifo, in, out, ep0, dadd, eorst, running>>
vars == <<hostVars, programVars, deviceVars>>

NoPacket == [request |-> NoRequest, from |-> 0, bytes |-> -1]
Disabled(i) ==
  [i EXCEPT !.bank = << >>, !.ready = << >>, !.on = FALSE, !.txini = FALSE, !.txine = FALSE]
Closed == [banks |-> << >>, rxouti |-> FALSE, rxoute |-> FALSE, check |-> "no"]

\* The device is this one.
Here == plan.chip = "avr"

Init ==
  /\ HostInit /\ Here /\ ProgramInit
  /\ in = [bank |-> << >>, ready |-> << >>, on |-> FALSE, txini |-> FALSE, txine |-> FALSE,
           flushed |-> FALSE, asleep |-> FALSE]
  /\ out = Closed
  /\ ep0 = [request |-> NoRequest, from |-> 0, len |-> 0, outlen |-> 0, pending |-> FALSE,
            address |-> 0, received |-> NoPacket, sending |-> NoPacket,
            rxstpi |-> FALSE, rxouti |-> FALSE, txine |-> FALSE]
  /\ fifo = << >> /\ dadd = 0 /\ eorst = FALSE /\ running = FALSE

\* Interrupts are not blocked.
Open == out.check = "no"

Awake(i) == [i EXCEPT !.asleep = FALSE]

----------------------------------------------------------------------------
(***************************************************************************)
(* To the host                                                             *)
(***************************************************************************)
\* The bank can be written: RWAL.
RWAL == in.on /\ Len(in.ready) < 2 /\ Len(in.bank) < InSize

\* _ao_usb_in_send: FIFOCON is cleared, and the other bank is the one in use.
InSend(i) ==
  [i EXCEPT !.ready = Append(@, i.bank), !.bank = << >>, !.txini = Len(i.ready) = 0]

\* The program needs a bank and does not sleep.
Wants == (Does("insert") \/ (Does("send") /\ ~in.flushed)) /\ ~in.asleep /\ Open

\* _ao_usb_in_wait, one time around
InWait ==
  /\ Wants /\ ~RWAL
  /\ in' = IF in.txini THEN [in EXCEPT !.txini = FALSE]
           ELSE [in EXCEPT !.txine = TRUE, !.asleep = TRUE]
  /\ UNCHANGED <<hostVars, programVars, fifo, out, ep0, dadd, eorst, running>>

Queued(i) ==
  LET j == [i EXCEPT !.bank = Append(@, written + 1)]
  IN  [(IF Len(j.bank) = InSize THEN InSend(j) ELSE j) EXCEPT !.flushed = FALSE]

\* ao_usb_putc, with interrupts blocked
Insert ==
  /\ Does("insert") /\ Wants /\ RWAL
  /\ in' = Queued(in)
  /\ Puts
  /\ UNCHANGED <<hostVars, fifo, out, ep0, dadd, eorst, running>>

\* ao_usb_flush, with interrupts blocked
Flush ==
  /\ Does("send") /\ Open
  /\ \/ in.flushed /\ UNCHANGED in
     \/ Wants /\ RWAL /\ in' = [InSend(in) EXCEPT !.flushed = TRUE]
  /\ Flushed
  /\ UNCHANGED <<hostVars, fifo, out, ep0, dadd, eorst, running>>

\* The controller sends a bank, and the host takes it.
Poll ==
  /\ control.configured /\ in.ready # << >>
  /\ Takes(Head(in.ready))
  /\ in' = [in EXCEPT !.ready = Tail(@), !.txini = @ \/ Len(in.ready) = 2]
  /\ UNCHANGED <<programVars, fifo, out, ep0, dadd, eorst, running>>

\* USB_COM_vect, the endpoint to the host
IsrIn ==
  /\ Open /\ in.txini /\ in.txine
  /\ in' = [in EXCEPT !.txine = FALSE, !.asleep = FALSE]
  /\ UNCHANGED <<hostVars, programVars, fifo, out, ep0, dadd, eorst, running>>

----------------------------------------------------------------------------
(***************************************************************************)
(* From the host                                                           *)
(***************************************************************************)
\* The host sends a packet, and the controller stores it.
Type ==
  \E packet \in Packets :
    /\ Len(out.banks) < 2
    /\ Gives(packet)
    /\ out' = [out EXCEPT !.banks = Append(@, packet), !.rxouti = @ \/ out.banks = << >>]
    /\ UNCHANGED <<programVars, fifo, in, ep0, dadd, eorst, running>>

\* USB_COM_vect, the endpoint from the host: the loop begins.
IsrOut ==
  /\ Open /\ out.rxouti /\ out.rxoute
  /\ out' = [out EXCEPT !.rxoute = FALSE, !.check = "look"]
  /\ in' = Awake(in)
  /\ UNCHANGED <<hostVars, programVars, fifo, ep0, dadd, eorst, running>>

\* _ao_usb_pollchar, when there is something
Getc ==
  /\ job = << >> /\ Open /\ fifo # << >>
  /\ read' = Append(read, Head(fifo)) /\ fifo' = Tail(fifo)
  /\ out' = [out EXCEPT !.check = "look"]
  /\ UNCHANGED <<hostVars, written, owed, abort, job, in, ep0, dadd, eorst, running>>

CheckFull ==
  /\ out.check = "look" /\ Len(fifo) = FifoSize
  /\ out' = [out EXCEPT !.check = "no"]
  /\ UNCHANGED <<hostVars, programVars, fifo, in, ep0, dadd, eorst, running>>

\* RWAL: there is a character in the bank.
Readable == out.banks # << >> /\ Head(out.banks) # << >>

CheckTakes ==
  /\ out.check = "look" /\ Len(fifo) < FifoSize /\ Readable
  /\ LET c == Head(Head(out.banks))
     IN  fifo' = Append(fifo, c) /\ abort' = (abort \/ c = plan.intr)
  /\ out' = [out EXCEPT !.banks[1] = Tail(@)]
  /\ UNCHANGED <<hostVars, written, owed, read, job, in, ep0, dadd, eorst, running>>

\* M: the interrupt stays off
LookedOff(o) ==
  [o EXCEPT !.banks = IF o.banks = << >> THEN @ ELSE Tail(@), !.rxouti = Len(o.banks) = 2,
            !.check = IF o.rxouti THEN "ack" ELSE "no"]

\* The flags are read.  A bank that has been read is given back, and the flag
\* then tells of the next; the loop ends if the flag that was read is not set.
Looked(o) ==
  [o EXCEPT !.banks = IF o.banks = << >> THEN @ ELSE Tail(@),
            !.rxouti = IF o.banks = << >> THEN @ ELSE Len(o.banks) = 2,
            !.check = IF o.rxouti THEN "ack" ELSE "no",
            !.rxoute = @ \/ ~o.rxouti]

CheckLooks ==
  /\ out.check = "look" /\ Len(fifo) < FifoSize /\ ~Readable
  /\ out' = Looked(out)
  /\ UNCHANGED <<hostVars, programVars, fifo, in, ep0, dadd, eorst, running>>

\* RXOUTI is cleared, be it that of the next bank, and the loop looks again.
Ack(o) == [o EXCEPT !.rxouti = FALSE, !.check = "look"]

CheckAcks ==
  /\ out.check = "ack"
  /\ out' = Ack(out)
  /\ UNCHANGED <<hostVars, programVars, fifo, in, ep0, dadd, eorst, running>>

Check == CheckFull \/ CheckTakes \/ CheckLooks \/ CheckAcks

----------------------------------------------------------------------------
(***************************************************************************)
(* The control endpoint: one bank                                          *)
(***************************************************************************)
\* TXINI: nothing is being sent.
CanSend(e) == e.sending = NoPacket

\* _ao_usb_ep0_flush
Ep0Flush(e) ==
  IF ~CanSend(e) THEN e
  ELSE LET n == Min({e.len, ControlSize})
       IN  [e EXCEPT !.len = @ - n, !.from = @ + n,
                     !.pending = @ /\ ~(n = e.len /\ n # ControlSize),
                     !.sending = [request |-> e.request, from |-> e.from, bytes |-> n]]

\* _ao_usb_ep0_fill
Ep0Fill(e, n) ==
  [e EXCEPT !.outlen = @ - Min({@, n}), !.received = NoPacket, !.rxstpi = FALSE, !.rxouti = FALSE]

\* _ao_usb_ep0_setup
Ep0Setup(e) ==
  LET r == e.received.request
      answers == r.dir = "in" \/ r.length = 0
  IN  [Ep0Fill([e EXCEPT !.outlen = 8], 8)
         EXCEPT !.request = r, !.from = 0,
                !.len = IF answers THEN Answer(r) ELSE Available(r),
                !.pending = @ \/ answers,
                !.address = IF r.name = "address" THEN 1 ELSE @,
                !.outlen = IF r.name = "set_coding" THEN 7 ELSE @]

\* The data of a request, or the end of one
Ep0Data(e) ==
  [Ep0Fill(e, IF e.received = NoPacket THEN 0 ELSE e.received.bytes) EXCEPT !.pending = TRUE]

\* The address that was set counts when the packet that follows is gone.
AddressDue(e) == e.address # 0 /\ e.txine /\ CanSend(e)

\* _ao_usb_ep0_handle.  The flags are those that e has at the beginning.
Ep0Handle(e) ==
  LET e1 == IF e.rxstpi THEN Ep0Setup(e) ELSE e
      e2 == IF e.rxouti THEN Ep0Data(e1) ELSE e1
      e3 == IF AddressDue([e2 EXCEPT !.sending = e.sending]) THEN [e2 EXCEPT !.address = 0] ELSE e2
  IN  [(IF e3.pending THEN Ep0Flush(e3) ELSE e3) EXCEPT !.txine = e3.pending]

\* _ao_usb_set_configuration
Configured(i) == [i EXCEPT !.bank = << >>, !.ready = << >>, !.on = TRUE, !.txini = TRUE]
Reopened == [Closed EXCEPT !.rxoute = TRUE]

\* USB_COM_vect, the control endpoint
IsrControl ==
  /\ Open /\ (ep0.rxstpi \/ ep0.rxouti \/ (ep0.txine /\ CanSend(ep0)))
  /\ ep0' = Ep0Handle(ep0)
  /\ LET sets == ep0.rxstpi /\ ep0.received.request = SetAddress
         configures == ep0.rxstpi /\ ep0.received.request = SetConfiguration
     IN  /\ dadd' = IF AddressDue([ep0 EXCEPT !.address = IF sets THEN 1 ELSE @]) THEN 1 ELSE dadd
         /\ in' = IF configures THEN Awake(Configured(in)) ELSE Awake(in)
         /\ out' = IF configures THEN Reopened ELSE out
         /\ running' = (running \/ configures)
  /\ UNCHANGED <<hostVars, programVars, fifo, eorst>>

\* The host begins a request.  The controller forgets what is in the bank.
Setup ==
  /\ control.stage = "idle" /\ control.address = dadd /\ ~eorst
  /\ \E r \in Wanted(control) :
       /\ control' = Asks(control, r)
       /\ ep0' = [ep0 EXCEPT !.received = [request |-> r, from |-> 0, bytes |-> 8],
                             !.rxstpi = TRUE, !.sending = NoPacket]
  /\ UNCHANGED <<got, delivered, sent, plan, resets, programVars, fifo, in, out, dadd, eorst, running>>

ControlIn ==
  /\ control.stage \in {"in", "status_in"} /\ control.address = dadd
  /\ ep0.sending # NoPacket
  /\ control' = TakesControl(control, ep0.sending.request, ep0.sending.from, ep0.sending.bytes)
  /\ ep0' = [ep0 EXCEPT !.sending = NoPacket]
  /\ UNCHANGED <<got, delivered, sent, plan, resets, programVars, fifo, in, out, dadd, eorst, running>>

ControlOut ==
  /\ control.stage \in {"out", "status_out"} /\ control.address = dadd
  /\ ep0.received = NoPacket
  /\ control' = GivesControl(control)
  /\ ep0' = [ep0 EXCEPT !.rxouti = TRUE,
                        !.received = [request |-> control.request, from |-> control.total,
                                      bytes |-> GivesControl(control).total - control.total]]
  /\ UNCHANGED <<got, delivered, sent, plan, resets, programVars, fifo, in, out, dadd, eorst, running>>

----------------------------------------------------------------------------
(***************************************************************************)
(* Reset                                                                   *)
(***************************************************************************)
\* The controller forgets its endpoints and what is in them.
Reset ==
  /\ HostResets /\ ~eorst
  /\ in' = Disabled(in)
  /\ out' = [Closed EXCEPT !.check = out.check]
  /\ ep0' = [ep0 EXCEPT !.received = NoPacket, !.sending = NoPacket,
                        !.rxstpi = FALSE, !.rxouti = FALSE, !.txine = FALSE]
  /\ dadd' = 0 /\ eorst' = TRUE
  /\ UNCHANGED <<programVars, fifo, running>>

\* USB_GEN_vect: _ao_usb_set_ep0
IsrReset ==
  /\ Open /\ eorst /\ eorst' = FALSE
  /\ ep0' = [ep0 EXCEPT !.address = 0, !.pending = FALSE, !.txine = FALSE]
  /\ in' = Awake(in)
  /\ UNCHANGED <<hostVars, programVars, fifo, out, dadd, running>>

----------------------------------------------------------------------------
Enters == Open /\ Enter(running) /\ UNCHANGED <<hostVars, deviceVars>>
Begins == Open /\ Begin /\ UNCHANGED <<hostVars, deviceVars>>
Program == Insert \/ Flush \/ InWait \/ Enters
Host == Poll \/ Setup \/ ControlIn \/ ControlOut
Isr == IsrIn \/ IsrOut \/ IsrControl \/ IsrReset

Next == Here /\ (Program \/ Begins \/ Getc \/ Check \/ Host \/ Type \/ Reset \/ Isr)

\* Nobody has to print, to read, to type or to reset.
Fairness ==
  /\ SF_vars(Here /\ Program) /\ WF_vars(Here /\ Check)
  /\ WF_vars(Here /\ Poll) /\ WF_vars(Here /\ Setup) /\ WF_vars(Here /\ ControlIn) /\ WF_vars(Here /\ ControlOut)
  /\ SF_vars(Here /\ IsrIn) /\ SF_vars(Here /\ IsrOut) /\ SF_vars(Here /\ IsrControl) /\ SF_vars(Here /\ IsrReset)

Spec == Init /\ [][Next]_vars /\ Fairness
=============================================================================
