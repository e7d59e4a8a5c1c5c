------------------------------ MODULE SamdUsb ------------------------------
(***************************************************************************)
(* The USB device of the SAMD21 boards (src/chips/samd21/ao-usb-samd21.c), *)
(* built with the receive fifo and the hook for ^C as all ports of snek    *)
(* build it.                                                               *)
(*                                                                         *)
(* Three parties: the program, with interrupts blocked while it touches    *)
(* the buffers; the interrupt handler, one action per kind of event, in    *)
(* any order, since any of them may come alone; and the controller, which  *)
(* goes on by itself: it fills or sends the banks of a bulk endpoint in    *)
(* turn, a bank it may use being `ready', and raises a flag for each.      *)
(* Buffers keep what was in them.                                          *)
(***************************************************************************)
EXTENDS UsbHost

VARIABLES
  in,        \* the endpoint to the host: which, count, flushed, pending, and its banks
  out,       \* the endpoint from the host: which, avail, and its banks
  ep0,       \* the control endpoint
  dadd,      \* the device's address
  eorst,     \* the flag for the end of a reset
  running    \* ao_usb_running

deviceVars == <<fifo, in, out, ep0, dadd, eorst, running>>
vars == <<hostVars, programVars, deviceVars>>

Banks == {0, 1}
NoPacket == [request |-> NoRequest, from |-> 0, bytes |-> -1]

\* The device is this one.
Here == plan.chip = "samd21"

Init ==
  /\ HostInit /\ Here /\ ProgramInit
  /\ in = [which |-> 0, count |-> 0, flushed |-> FALSE, pending |-> {},
           buffer |-> [b \in Banks |-> [i \in 1..InSize |-> 0]], length |-> [b \in Banks |-> 0],
           ready |-> {}, current |-> 0, flags |-> {}]
  /\ out = [which |-> 0, avail |-> {}, buffer |-> [b \in Banks |-> << >>],
            ready |-> {}, current |-> 0, flags |-> {}]
  /\ ep0 = [state |-> "idle", request |-> NoRequest, from |-> 0, len |-> 0, outlen |-> 0,
            pending |-> FALSE, bank0 |-> NoPacket, bank1 |-> NoPacket, flags |-> {}]
  /\ fifo = << >> /\ dadd = 0 /\ eorst = FALSE /\ running = FALSE

----------------------------------------------------------------------------
(***************************************************************************)
(* To the host                                                             *)
(***************************************************************************)
\* M: a full packet is thought to end the transfer
SendAndForget(i) ==
  [i EXCEPT !.pending = @ \cup {i.which}, !.flushed = TRUE,
            !.length[i.which] = i.count, !.ready = @ \cup {i.which},
            !.which = 1 - @, !.count = 0]

\* _ao_usb_in_send: after a packet that is not full there is nothing to flush.
InSend(i) ==
  [i EXCEPT !.pending = @ \cup {i.which}, !.flushed = @ \/ i.count # InSize,
            !.length[i.which] = i.count, !.ready = @ \cup {i.which},
            !.which = 1 - @, !.count = 0]

\* M: does not wait
InFreeAlways(i) == TRUE

\* _ao_usb_in_wait is over.
InFree(i) == i.which \notin i.pending

\* ao_usb_putc, with interrupts blocked
Insert ==
  /\ Does("insert") /\ InFree(in)
  /\ LET i == [in EXCEPT !.flushed = FALSE, !.count = @ + 1,
                         !.buffer[in.which][in.count + 1] = written + 1]
     IN  in' = IF i.count = InSize THEN InSend(i) ELSE i
  /\ Puts
  /\ UNCHANGED <<hostVars, out, fifo, ep0, dadd, eorst, running>>

\* ao_usb_flush, with interrupts blocked
Flush ==
  /\ Does("send")
  /\ \/ in.flushed /\ UNCHANGED in
     \/ ~in.flushed /\ InFree(in) /\ in' = InSend(in)
  /\ Flushed
  /\ UNCHANGED <<hostVars, out, fifo, ep0, dadd, eorst, running>>

\* The controller sends a bank, and the host takes it.
Poll ==
  /\ control.configured /\ in.current \in in.ready
  /\ Takes(SubSeq(in.buffer[in.current], 1, in.length[in.current]))
  /\ in' = [in EXCEPT !.ready = @ \ {in.current}, !.flags = @ \cup {in.current}, !.current = 1 - @]
  /\ UNCHANGED <<programVars, out, fifo, ep0, dadd, eorst, running>>

\* samd21_usb_isr, the bulk endpoint to the host
IsrIn ==
  /\ in.flags # {}
  /\ in' = [in EXCEPT !.pending = @ \ in.flags, !.flags = {}]
  /\ UNCHANGED <<hostVars, programVars, out, fifo, ep0, dadd, eorst, running>>

----------------------------------------------------------------------------
(***************************************************************************)
(* From the host                                                           *)
(***************************************************************************)
\* The host sends a packet, and the controller stores it.
Type ==
  \E packet \in Packets :
    /\ out.current \notin out.ready
    /\ Gives(packet)
    /\ out' = [out EXCEPT !.buffer[out.current] = packet, !.ready = @ \cup {out.current},
                          !.flags = @ \cup {out.current}, !.current = 1 - @]
    /\ UNCHANGED <<programVars, in, fifo, ep0, dadd, eorst, running>>

\* The bank to read next
Turn(o) == 1 - o.which

Fits(o, f) == Turn(o) \in o.avail /\ Len(o.buffer[Turn(o)]) <= FifoSize - Len(f)

\* ao_usb_fifo_check: the next bank goes into the fifo if all of it fits.
Check(o, f) ==
  IF Fits(o, f)
  THEN [o EXCEPT !.ready = @ \ {Turn(o)}, !.avail = @ \ {Turn(o)}, !.which = Turn(o)]
  ELSE o

Filled(o, f) == IF Fits(o, f) THEN f \o o.buffer[Turn(o)] ELSE f

\* M: only a bank that fits is looked at
HookIfItFits(o, f) == Fits(o, f) /\ plan.intr \in ToSet(o.buffer[Turn(o)])

\* ao_usb_out_hook looks for ^C whether the bank fits or not.
Hook(o, f) == Turn(o) \in o.avail /\ plan.intr \in ToSet(o.buffer[Turn(o)])

\* samd21_usb_isr, the bulk endpoint from the host
IsrOut ==
  /\ out.flags # {}
  /\ LET o == [out EXCEPT !.avail = @ \cup out.flags, !.flags = {}]
     IN  /\ out' = Check(o, fifo) /\ fifo' = Filled(o, fifo)
         /\ abort' = (abort \/ Hook(o, fifo))
  /\ running' = TRUE
  /\ UNCHANGED <<hostVars, written, owed, read, job, in, ep0, dadd, eorst>>

\* ao_usb_getc, when there is something
Getc ==
  /\ job = << >> /\ running /\ fifo # << >>
  /\ read' = Append(read, Head(fifo))
  /\ out' = Check(out, Tail(fifo)) /\ fifo' = Filled(out, Tail(fifo))
  /\ abort' = (abort \/ Hook(out, Tail(fifo)))
  /\ UNCHANGED <<hostVars, written, owed, job, in, ep0, dadd, eorst, running>>

----------------------------------------------------------------------------
(***************************************************************************)
(* The control endpoint                                                    *)
(***************************************************************************)
\* M: the last packet does not end the answer
FlushOn(e) ==
  IF e.bank1 # NoPacket THEN e
  ELSE LET n == Min({e.len, ControlSize})
       IN  [e EXCEPT !.len = @ - n, !.from = @ + n,
                     !.bank1 = [request |-> e.request, from |-> e.from, bytes |-> n]]

\* ao_usb_ep0_flush: a packet of what is left, if the last one is gone.
Ep0Flush(e) ==
  IF e.bank1 # NoPacket THEN e
  ELSE LET n == Min({e.len, ControlSize})
       IN  [e EXCEPT !.state = IF n < ControlSize THEN "idle" ELSE @,
                     !.len = @ - n, !.from = @ + n,
                     !.bank1 = [request |-> e.request, from |-> e.from, bytes |-> n]]

\* ao_usb_ep0_fill
Ep0Fill(e) == [e EXCEPT !.outlen = @ - Min({@, e.bank0.bytes}), !.bank0 = NoPacket]

InStart(e, max) == Ep0Flush([e EXCEPT !.len = Min({@, max})])

\* ao_usb_ep0_setup
Ep0Setup(e) ==
  LET r == e.bank0.request
      f == [Ep0Fill([e EXCEPT !.outlen = 8])
              EXCEPT !.request = r, !.from = 0, !.len = Available(r),
                     !.state = IF r.dir = "in" \/ r.length = 0 THEN "data_in" ELSE "data_out",
                     !.pending = @ \/ r.name = "address",
                     !.outlen = IF r.name = "set_coding" THEN 7 ELSE @]
  IN  IF f.state = "data_in" THEN InStart(f, r.length) ELSE f

\* ao_usb_ep0_handle, when data came
Ep0Data(e) ==
  IF e.state # "data_out" THEN e
  ELSE LET f == Ep0Fill(e)
       IN  IF f.outlen = 0 THEN InStart([f EXCEPT !.state = "data_in"], 0) ELSE f

\* ... and when a packet was taken
Ep0Ack(e) ==
  [(IF e.state = "data_in" THEN Ep0Flush(e) ELSE e) EXCEPT !.pending = FALSE]

\* The address that was set counts from the next packet that is taken.
AddressDue(e) == e.pending /\ "TRCPT1" \in e.flags

\* ao_usb_set_configuration
Configured(i) == [i EXCEPT !.which = 0, !.flushed = TRUE, !.pending = {}, !.ready = {}, !.current = 0]
Reopened(o) == [o EXCEPT !.which = 1, !.avail = {}, !.ready = {}, !.current = 0]

\* samd21_usb_isr, the control endpoint
IsrControl ==
  /\ ep0.flags # {}
  /\ LET setup == "RXSTP" \in ep0.flags
         data == ~setup /\ "TRCPT0" \in ep0.flags
         e0 == [ep0 EXCEPT !.flags = {}]
         e1 == IF setup THEN Ep0Setup(e0) ELSE e0
         e2 == IF data THEN Ep0Data(e1) ELSE e1
         acked == "TRCPT1" \in ep0.flags
         configures == setup /\ ep0.bank0.request.name = "configuration"
     IN  /\ ep0' = IF acked THEN Ep0Ack(e2) ELSE e2
         /\ dadd' = IF AddressDue([e2 EXCEPT !.flags = ep0.flags]) THEN 1 ELSE dadd
         /\ in' = IF configures THEN Configured(in) ELSE in
         /\ out' = IF configures THEN Reopened(out) ELSE out
  /\ UNCHANGED <<hostVars, programVars, fifo, eorst, running>>

\* The host begins a request.  A setup packet is taken whatever is in the bank.
Setup ==
  /\ control.stage = "idle" /\ control.address = dadd /\ ~eorst
  /\ \E r \in Wanted(control) :
       /\ control' = Asks(control, r)
       /\ ep0' = [ep0 EXCEPT !.bank0 = [request |-> r, from |-> 0, bytes |-> 8],
                             !.flags = @ \cup {"RXSTP"}]
  /\ UNCHANGED <<got, delivered, sent, plan, resets, programVars, in, out, fifo, dadd, eorst, running>>

ControlIn ==
  /\ control.stage \in {"in", "status_in"} /\ control.address = dadd
  /\ ep0.bank1 # NoPacket
  /\ control' = TakesControl(control, ep0.bank1.request, ep0.bank1.from, ep0.bank1.bytes)
  /\ ep0' = [ep0 EXCEPT !.bank1 = NoPacket, !.flags = @ \cup {"TRCPT1"}]
  /\ UNCHANGED <<got, delivered, sent, plan, resets, programVars, in, out, fifo, dadd, eorst, running>>

ControlOut ==
  /\ control.stage \in {"out", "status_out"} /\ control.address = dadd
  /\ ep0.bank0 = NoPacket
  /\ control' = GivesControl(control)
  /\ ep0' = [ep0 EXCEPT !.flags = @ \cup {"TRCPT0"},
                        !.bank0 = [request |-> control.request, from |-> control.total,
                                   bytes |-> GivesControl(control).total - control.total]]
  /\ UNCHANGED <<got, delivered, sent, plan, resets, programVars, in, out, fifo, dadd, eorst, running>>

----------------------------------------------------------------------------
(***************************************************************************)
(* Reset                                                                   *)
(***************************************************************************)
\* The controller forgets its endpoints; the buffers stay.
Reset ==
  /\ HostResets /\ ~eorst
  /\ in' = [in EXCEPT !.ready = {}, !.flags = {}, !.current = 0]
  /\ out' = [out EXCEPT !.ready = {}, !.flags = {}, !.current = 0]
  /\ ep0' = [ep0 EXCEPT !.bank0 = NoPacket, !.bank1 = NoPacket, !.flags = {}]
  /\ dadd' = 0 /\ eorst' = TRUE
  /\ UNCHANGED <<programVars, fifo, running>>

\* samd21_usb_isr, the end of a reset: ao_usb_set_ep0
IsrReset ==
  /\ eorst /\ eorst' = FALSE
  /\ running' = FALSE
  /\ ep0' = [ep0 EXCEPT !.state = "idle", !.len = 0, !.outlen = 0,
                        !.bank0 = NoPacket, !.bank1 = NoPacket]
  /\ UNCHANGED <<hostVars, programVars, in, out, fifo, dadd>>

----------------------------------------------------------------------------
Program == Insert \/ Flush \/ (Enter(running) /\ UNCHANGED <<hostVars, deviceVars>>)
Begins == Begin /\ UNCHANGED <<hostVars, deviceVars>>
Host == Poll \/ Setup \/ ControlIn \/ ControlOut
Isr == IsrIn \/ IsrOut \/ IsrControl \/ IsrReset

Next == Here /\ (Program \/ Begins \/ Getc \/ Host \/ Type \/ Reset \/ Isr)

\* Nobody has to print, to read, to type or to reset.
Fairness ==
  /\ WF_vars(Here /\ Program)
  /\ WF_vars(Here /\ Poll) /\ WF_vars(Here /\ Setup) /\ WF_vars(Here /\ ControlIn) /\ WF_vars(Here /\ ControlOut)
  /\ WF_vars(Here /\ IsrIn) /\ WF_vars(Here /\ IsrOut) /\ WF_vars(Here /\ IsrControl) /\ WF_vars(Here /\ IsrReset)

Spec == Init /\ [][Next]_vars /\ Fairness
=============================================================================
