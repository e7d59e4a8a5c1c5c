------------------------------ MODULE UsbHost ------------------------------
(***************************************************************************)
(* What the two USB devices of snek have in common: the host at the other  *)
(* end of the wire, the program that prints and reads, and the sizes and   *)
(* requests of src/ao/ao-usb.h.  SamdUsb and AvrUsb are the devices.       *)
(*                                                                         *)
(* The host enumerates the device, then reads what the program prints,     *)
(* sends what a user types, and asks for descriptors and line settings in  *)
(* between.  A reader at the host gets bytes when a transfer ends, which   *)
(* it does with a packet that is not full.  Bytes of each direction are    *)
(* numbered; one that is typed may be ^C.                                  *)
(***************************************************************************)
EXTENDS Integers, Sequences, SequencesExt, FiniteSetsExt

CONSTANTS
  InSize,       \* AO_USB_IN_SIZE
  OutSize,      \* AO_USB_OUT_SIZE
  FifoSize,     \* AO_FIFO_SIZE
  Plans         \* which device it is, and how much happens, at most: the bounds of the model.  A plan has the number
                \* of bytes printed, bytes typed, requests after enumeration, resets of the
                \* bus, and says which of the typed bytes is ^C, if any.

ASSUME SizesAssumption ==
  InSize \in Nat \ {0} /\ OutSize \in Nat \ {0} /\ FifoSize \in Nat /\ FifoSize >= OutSize
ASSUME PlansAssumption ==
  Plans \subseteq [chip : {"samd21", "avr"}, print : Nat, type : Nat, ask : Nat, reset : Nat, intr : Nat]

VARIABLES
  got,        \* the bytes that reached the host
  delivered,  \* how many of them the reader at the host has
  sent,       \* how many bytes the host has sent
  plan,       \* what may happen
  control,    \* the host's side of the control endpoint
  resets,     \* resets of the bus since power was on
  written,    \* how many bytes the program has put
  owed,       \* how many of them it has flushed
  fifo,       \* ao_usb_rx_fifo
  read,       \* the bytes the program got
  abort,      \* snek_abort was set
  job         \* what the program is doing

hostVars == <<got, delivered, sent, plan, control, resets>>
programVars == <<written, owed, read, abort, job>>

----------------------------------------------------------------------------
(***************************************************************************)
(* Requests                                                                *)
(***************************************************************************)
\* AO_USB_CONTROL_SIZE
ControlSize == 32

Request(name, dir, length) == [name |-> name, dir |-> dir, length |-> length]

SetAddress == Request("address", "out", 0)
SetConfiguration == Request("configuration", "out", 0)

\* What a host asks once it has configured the device.  It never asks for just the packets that an answer fills.
Requests ==
  {Request("descriptor", "in", n) : n \in {9, 67, 255}} \cup
  {Request("status", "in", 2), Request("get_coding", "in", 7), Request("set_coding", "out", 7)}

\* The length of the configuration with all its descriptors
TOTAL_LENGTH == 9 + 35 + (9 + 7 + 7)

\* How long the answer to a request is.
Available(r) ==
  CASE r.name = "descriptor" -> TOTAL_LENGTH
    [] r.name = "status" -> 2
    [] r.name = "get_coding" -> 7
    [] OTHER -> 0

Answer(r) == Min({Available(r), r.length})

NoRequest == Request("none", "out", 0)

----------------------------------------------------------------------------
(***************************************************************************)
(* The host                                                                *)
(***************************************************************************)
Start ==
  [stage |-> "idle", request |-> NoRequest, total |-> 0, asked |-> 0, wrong |-> FALSE,
   address |-> 0, configured |-> FALSE]

HostInit ==
  /\ got = << >> /\ delivered = 0 /\ sent = 0 /\ resets = 0
  /\ plan \in Plans
  /\ control = Start

\* The request that comes next: address and configuration first
Wanted(c) ==
  IF c.address = 0 THEN {SetAddress}
  ELSE IF ~c.configured THEN {SetConfiguration}
  ELSE IF c.asked < plan.ask THEN Requests
  ELSE {}

Asks(c, r) ==
  [c EXCEPT !.request = r, !.total = 0,
            !.asked = IF c.configured THEN @ + 1 ELSE @,
            !.stage = IF r.length = 0 THEN "status_in" ELSE r.dir]

\* A packet comes of the control endpoint: n bytes of the answer to request r, from byte `from' on.
TakesControl(c, r, from, n) ==
  LET total == c.total + n
      ends == n < ControlSize \/ total = c.request.length
  IN  IF c.stage = "in"
      THEN [c EXCEPT !.total = total,
                     !.stage = IF ends THEN "status_out" ELSE @,
                     !.wrong = \/ @ \/ r # c.request \/ from # c.total
                               \/ ends /\ total # Answer(c.request)]
      ELSE [c EXCEPT !.stage = "idle", !.wrong = @ \/ n # 0,
                     !.address = IF c.request.name = "address" THEN 1 ELSE @,
                     !.configured = @ \/ c.request.name = "configuration"]

\* What it sends in the data stage of a request, or to end one
GivesControl(c) ==
  LET n == IF c.stage = "out" THEN Min({ControlSize, c.request.length - c.total}) ELSE 0
  IN  [c EXCEPT !.total = @ + n,
                !.stage = IF c.stage = "status_out" THEN "idle"
                          ELSE IF c.total + n = c.request.length THEN "status_in" ELSE @]

\* A packet comes of the bulk endpoint.
Takes(packet) ==
  /\ got' = got \o packet
  /\ delivered' = IF Len(packet) < InSize THEN Len(got') ELSE delivered
  /\ UNCHANGED <<sent, plan, control, resets>>

\* The packets it may send
Packets == {[i \in 1..n |-> sent + i] : n \in 1..Min({OutSize, plan.type - sent})}

Gives(packet) ==
  /\ control.configured
  /\ sent' = sent + Len(packet)
  /\ UNCHANGED <<got, delivered, plan, control, resets>>

\* The bus is reset: the device is at address 0 again.
HostResets ==
  /\ resets < plan.reset /\ control.configured
  /\ resets' = resets + 1
  /\ control' = [Start EXCEPT !.wrong = control.wrong, !.asked = control.asked]
  /\ UNCHANGED <<got, delivered, sent, plan>>

----------------------------------------------------------------------------
(***************************************************************************)
(* The program: it prints characters and newlines, or reads.  A newline is *)
(* two bytes and a flush.                                                  *)
(***************************************************************************)
ProgramInit == written = 0 /\ owed = 0 /\ read = << >> /\ abort = FALSE /\ job = << >>

Does(step) == job # << >> /\ Head(job) = step

\* A flush is over.
Flushed ==
  /\ job' = Tail(job) /\ owed' = written
  /\ UNCHANGED <<written, read, abort>>

Begin ==
  /\ job = << >>
  /\ \/ written < plan.print /\ job' = <<"putc">>
     \/ written + 1 < plan.print /\ job' = <<"newline">>
     \/ job' = <<"flush">>
  /\ UNCHANGED <<written, owed, read, abort>>

\* Each call looks first whether anybody listens.
Enter(running) ==
  /\ \E call \in {"putc", "newline", "flush"} :
       /\ Does(call)
       /\ job' = (IF ~running THEN << >>
                  ELSE CASE call = "putc" -> <<"insert">>
                         [] call = "newline" -> <<"putc", "insert", "flush">>
                         [] call = "flush" -> <<"send">>) \o Tail(job)
  /\ UNCHANGED <<written, owed, read, abort>>

Puts ==
  /\ job' = Tail(job) /\ written' = written + 1
  /\ UNCHANGED <<owed, read, abort>>

----------------------------------------------------------------------------
(***************************************************************************)
(* Properties                                                              *)
(***************************************************************************)
\* Every answer on the control endpoint is to the request that was made,
\* continues where the last packet ended and has the length it should have
\* (ao_usb_ep0_setup, ao_usb_ep0_flush, ao_usb_get_descriptor).
AnswersAreRight == ~control.wrong

\* The host gets what the program printed, in order and once, as long as
\* nobody resets the bus: two buffers are filled and sent in turn while
\* earlier ones are on their way (ao_usb_putc, ao_usb_flush).  The program reads
\* what was typed, in order and once, and after a reset nothing that is older
\* than what it has (ao_usb_fifo_check).
BytesInOrder ==
  /\ resets = 0 => got = [i \in 1..Len(got) |-> i] /\ Len(got) <= written
  /\ \A i \in 2..Len(read) : read[i - 1] < read[i]
  /\ resets = 0 => read = [i \in 1..Len(read) |-> i]

\* What the program has flushed gets to the reader at the host, without
\* anything more being printed, unless the bus is reset: a transfer that is a
\* multiple of the packet size needs an empty packet (ao_usb_flush).  And what
\* was typed does not stay in the controller when the program has read
\* everything else (ao_usb_fifo_check, _ao_usb_fifo_check).
BytesArrive ==
  /\ []<>(delivered >= owed \/ resets > 0)
  /\ []<>(Len(read) = sent \/ fifo # << >> \/ resets > 0)
=============================================================================
