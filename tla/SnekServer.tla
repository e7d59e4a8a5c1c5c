----------------------------- MODULE SnekServer -----------------------------
(***************************************************************************)
(* ports/ev3/snekserver.c: a loop over poll that passes one byte at a time *)
(* between a client's socket and the pipes of the snek it has started.     *)
(*                                                                         *)
(* What poll reports is used a step later, while clients and snek go on.   *)
(* Sockets, pipes, the clients and snek are external.  A plan bounds what  *)
(* they do: how many clients there are, one after the other, how much each *)
(* sends, what snek prints on each stream, who presses ^C, whether snek    *)
(* may exit.                                                               *)
(***************************************************************************)
EXTENDS Integers, Sequences, FiniteSets

CONSTANTS
  SocketSize,   \* bytes a socket holds, each way
  PipeSize,     \* bytes a pipe holds
  Clients,      \* clients at most
  Readers,      \* the clients that read what they are sent
  Plans

ASSUME BoundsAssumption ==
  /\ {SocketSize, PipeSize, Clients} \subseteq Nat \ {0}
  /\ Readers \subseteq 1..Clients

VARIABLES
  life,       \* of each client: what its socket is
  up, down,   \* bytes in the sockets, to and from the server
  typed,      \* the number of bytes each client has sent
  urgent,     \* clients with a ^C on its way, which is sent out of band
  seen,       \* what each client has read
  accepted,   \* the number of clients accepted: the last one is connected_socket,
  connected,  \* unless that is -1
  stdin_buf, stdout_buf,
  ready,      \* revents of poll, until they are acted on
  alive,      \* the server runs
  pipe,       \* stdin, stdout and stderr of snek
  running,    \* snek runs
  took,       \* what it has read
  printed,    \* how much it has printed on each stream
  interrupts, \* clients whose ^C has become a SIGINT
  plan

sockets == <<life, up, down, typed, urgent>>
server == <<accepted, connected, stdin_buf, stdout_buf, ready>>
snek == <<running, took, printed>>
vars == <<sockets, seen, server, alive, pipe, snek, interrupts, plan>>

All == 1..Clients
EOF == << >>
Outputs == {"stdout", "stderr"}

Init ==
  /\ life = [k \in All |-> "none"]
  /\ up = [k \in All |-> << >>] /\ down = [k \in All |-> << >>]
  /\ typed = [k \in All |-> 0] /\ urgent = {} /\ seen = [k \in All |-> << >>]
  /\ accepted = 0 /\ connected = FALSE
  /\ stdin_buf = EOF /\ stdout_buf = EOF
  /\ ready = {} /\ alive = TRUE
  /\ pipe = [s \in Outputs \cup {"stdin"} |-> << >>]
  /\ running = TRUE /\ took = << >> /\ printed = [s \in Outputs |-> 0]
  /\ interrupts = {}
  /\ plan \in Plans

----------------------------------------------------------------------------
(***************************************************************************)
(* Clients                                                                 *)
(***************************************************************************)
Here == {k \in All : life[k] # "none"}

\* The server has closed its socket.
Dropped(k) == k < accepted \/ (k = accepted /\ ~connected)

Connect ==
  /\ alive
  /\ \E k \in (1..plan.clients) \ Here :
       /\ \A j \in 1..(k - 1) : j \in Here
       /\ life' = [life EXCEPT ![k] = "open"]
  /\ UNCHANGED <<up, down, typed, urgent, seen, server, alive, pipe, snek, interrupts, plan>>

Type(k) ==
  /\ life[k] = "open" /\ ~Dropped(k) /\ Len(up[k]) < SocketSize /\ typed[k] < plan.types
  /\ typed' = [typed EXCEPT ![k] = @ + 1]
  /\ up' = [up EXCEPT ![k] = Append(@, <<k, typed'[k]>>)]
  /\ UNCHANGED <<life, down, urgent, seen, server, alive, pipe, snek, interrupts, plan>>

\* Each client sends one ^C at most: a second one could take the place of the first.
Interrupt(k) ==
  /\ life[k] = "open" /\ ~Dropped(k) /\ k \in plan.presses \ (urgent \cup interrupts)
  /\ urgent' = urgent \cup {k}
  /\ UNCHANGED <<life, up, down, typed, seen, server, alive, pipe, snek, interrupts, plan>>

Receive(k) ==
  /\ life[k] = "open" /\ down[k] # << >>
  /\ seen' = [seen EXCEPT ![k] = Append(@, Head(down[k]))]
  /\ down' = [down EXCEPT ![k] = Tail(@)]
  /\ UNCHANGED <<life, up, typed, urgent, server, alive, pipe, snek, interrupts, plan>>

\* A client closes its socket; what it is sent from then on, or has not read
\* yet, is answered with a reset.
Leave(k) ==
  /\ \/ life[k] = "open" /\ life' = [life EXCEPT ![k] = "closed"]
     \/ life[k] = "closed" /\ down[k] # << >> /\ life' = [life EXCEPT ![k] = "reset"]
  /\ UNCHANGED <<up, down, typed, urgent, seen, server, alive, pipe, snek, interrupts, plan>>

----------------------------------------------------------------------------
(***************************************************************************)
(* snek.  A program may read or not, and print or not; exit() ends it.     *)
(***************************************************************************)
Read ==
  /\ running /\ pipe["stdin"] # << >>
  /\ took' = Append(took, Head(pipe["stdin"]))
  /\ pipe' = [pipe EXCEPT !["stdin"] = Tail(@)]
  /\ UNCHANGED <<sockets, seen, server, alive, running, printed, interrupts, plan>>

Prints(s) ==
  /\ running /\ Len(pipe[s]) < PipeSize /\ printed[s] < plan.prints[s]
  /\ printed' = [printed EXCEPT ![s] = @ + 1]
  /\ pipe' = [pipe EXCEPT ![s] = Append(@, <<s, printed[s] + 1>>)]
  /\ UNCHANGED <<sockets, seen, server, alive, running, took, interrupts, plan>>

Exit ==
  /\ running /\ plan.exits /\ running' = FALSE
  /\ UNCHANGED <<sockets, seen, server, alive, pipe, took, printed, interrupts, plan>>

----------------------------------------------------------------------------
(***************************************************************************)
(* The server                                                              *)
(***************************************************************************)
\* M: not while a byte for snek waits
UrgentInTurn == connected /\ stdin_buf = EOF /\ accepted \in urgent
\* ^C is waited for whatever else waits.
Urgent == connected /\ accepted \in urgent

\* A byte that waits to go one way is what keeps the next from being read.
Readable(s) == pipe[s] # << >> /\ (stdout_buf = EOF \/ ~connected)

\* What poll is asked for and has to report; hang-ups it always reports.
Reports ==
  LET k == accepted
  IN  [hup    |-> connected /\ life[k] = "reset",
       listen |-> Here # 1..k,
       pri    |-> Urgent,
       in     |-> connected /\ stdin_buf = EOF /\ (up[k] # << >> \/ life[k] # "open"),
       stdin  |-> stdin_buf # EOF /\ (Len(pipe["stdin"]) < PipeSize \/ ~running),
       out    |-> connected /\ stdout_buf # EOF /\ Len(down[k]) < SocketSize,
       stderr |-> Readable("stderr"),
       stdout |-> Readable("stdout"),
       gone   |-> ~running]

Revents == {e \in DOMAIN Reports : Reports[e]}

Poll ==
  /\ alive /\ ready = {} /\ Revents # {}
  /\ ready' = Revents
  /\ UNCHANGED <<sockets, seen, accepted, connected, stdin_buf, stdout_buf, alive, pipe, snek, interrupts, plan>>

\* Of all that is reported one thing is done, the first of these.
Order == <<"hup", "listen", "pri", "in", "stdin", "out", "stderr", "stdout", "gone">>
First(event) ==
  /\ alive /\ ready' = {}
  /\ \E i \in DOMAIN Order :
       /\ Order[i] = event /\ event \in ready
       /\ \A j \in 1..(i - 1) : Order[j] \notin ready

\* M: what was to be printed is kept for the next client
ForgetInput == stdin_buf' = EOF /\ stdout_buf' = stdout_buf
\* What waited for a client, or came from it, goes with it.
Forget == stdin_buf' = EOF /\ stdout_buf' = EOF

Disconnect == connected' = FALSE /\ Forget

HangUp ==
  /\ First("hup") /\ Disconnect
  /\ UNCHANGED <<sockets, seen, accepted, alive, pipe, snek, interrupts, plan>>

\* The last client, if there is one, is dropped for the new one.
Accept ==
  /\ First("listen")
  /\ accepted' = accepted + 1 /\ connected' = TRUE /\ Forget
  /\ UNCHANGED <<sockets, seen, alive, pipe, snek, interrupts, plan>>

OutOfBand ==
  /\ First("pri")
  /\ urgent' = urgent \ {accepted}
  /\ interrupts' = interrupts \cup {accepted}
  /\ UNCHANGED <<life, up, down, typed, seen, accepted, connected, stdin_buf, stdout_buf, alive, pipe, snek, plan>>

Receiving ==
  /\ First("in")
  /\ IF life[accepted] = "reset"
     THEN UNCHANGED <<up, connected, stdin_buf, stdout_buf>>
     ELSE IF up[accepted] = << >>
     THEN Disconnect /\ UNCHANGED up
     ELSE /\ stdin_buf' = Head(up[accepted])
          /\ up' = [up EXCEPT ![accepted] = Tail(@)]
          /\ UNCHANGED <<connected, stdout_buf>>
  /\ UNCHANGED <<life, down, typed, urgent, seen, accepted, alive, pipe, snek, interrupts, plan>>

\* A pipe that nobody reads any more ends the server with SIGPIPE.
ToSnek ==
  /\ First("stdin")
  /\ IF running
     THEN /\ pipe' = [pipe EXCEPT !["stdin"] = Append(@, stdin_buf)]
          /\ stdin_buf' = EOF
          /\ UNCHANGED alive
     ELSE alive' = FALSE /\ UNCHANGED <<pipe, stdin_buf>>
  /\ UNCHANGED <<sockets, seen, accepted, connected, stdout_buf, snek, interrupts, plan>>

\* A socket that was closed and then reset does so too, or is an error.
ToClient ==
  /\ First("out")
  /\ IF life[accepted] = "reset"
     THEN alive' \in BOOLEAN /\ UNCHANGED <<down, stdout_buf>>
     ELSE /\ down' = [down EXCEPT ![accepted] = Append(@, stdout_buf)]
          /\ stdout_buf' = EOF
          /\ UNCHANGED alive
  /\ UNCHANGED <<life, up, typed, urgent, seen, accepted, connected, stdin_buf, pipe, snek, interrupts, plan>>

\* Without a client it is discarded, as on a serial port.
FromSnek(s) ==
  /\ First(s)
  /\ stdout_buf' = IF connected THEN Head(pipe[s]) ELSE stdout_buf
  /\ pipe' = [pipe EXCEPT ![s] = Tail(@)]
  /\ UNCHANGED <<sockets, seen, accepted, connected, stdin_buf, alive, snek, interrupts, plan>>

SnekExited ==
  /\ First("gone") /\ alive' = FALSE
  /\ UNCHANGED <<sockets, seen, accepted, connected, stdin_buf, stdout_buf, pipe, snek, interrupts, plan>>

Handle ==
  \/ HangUp \/ Accept \/ OutOfBand \/ Receiving \/ ToSnek \/ ToClient
  \/ FromSnek("stdout") \/ FromSnek("stderr") \/ SnekExited

Next ==
  \/ Poll \/ Handle
  \/ Connect \/ Read \/ Exit
  \/ \E k \in All : Type(k) \/ Interrupt(k) \/ Receive(k) \/ Leave(k)
  \/ \E s \in Outputs : Prints(s)

\* The server goes on, and clients that read do.  Nothing is assumed of snek.
Fairness ==
  /\ WF_vars(Poll \/ Handle)
  /\ \A k \in Readers : WF_vars(Receive(k))

Spec == Init /\ [][Next]_vars /\ Fairness

----------------------------------------------------------------------------
(***************************************************************************)
(* Properties                                                              *)
(***************************************************************************)
\* A byte and the next that snek reads: of the same client, or the first of a
\* later one
Continues(a, b) == (b[1] = a[1] /\ b[2] = a[2] + 1) \/ (b[1] > a[1] /\ b[2] = 1)

\* Of the bytes of a stream each is the one after the last.
InTurn(bytes, s) ==
  \A i, j \in DOMAIN bytes :
    /\ i < j /\ bytes[i][1] = s /\ bytes[j][1] = s
    /\ \A m \in (i + 1)..(j - 1) : bytes[m][1] # s
    => bytes[j][2] = bytes[i][2] + 1

\* Every byte of the stream in the one comes before every such byte in the other.
Before(earlier, later, s) ==
  \A i \in DOMAIN earlier, j \in DOMAIN later :
    earlier[i][1] = s /\ later[j][1] = s => earlier[i][2] < later[j][2]

\* snek reads the bytes of a client as they were sent, with none left out
\* before another, and none of an earlier client after them.  A client sees
\* what snek prints from some byte on, each stream in its order, nothing left
\* out and nothing of what another client has seen.
InOrder ==
  /\ took # << >> => took[1][2] = 1
  /\ \A i \in 1..(Len(took) - 1) : Continues(took[i], took[i + 1])
  /\ \A k \in All, s \in Outputs :
       InTurn(seen[k], s) /\ \A j \in 1..(k - 1) : Before(seen[j], seen[k], s)

Over(k) == Dropped(k) \/ ~alive

\* ^C interrupts a program that reads nothing and prints what nobody reads.
Interrupts == \A k \in All : k \in urgent ~> k \in interrupts \/ Over(k)

Has(bytes, b) == \E i \in DOMAIN bytes : bytes[i] = b

\* The bytes that snek prints
AllOutput == UNION {{s} \X (1..p.prints[s]) : p \in Plans, s \in Outputs}

\* Each byte that is in a pipe while a client is there that reads is seen by it,
\* once it has sent what it sends; with nobody there a program can print on.
Shows ==
  /\ \A k \in Readers, b \in AllOutput :
       (connected /\ k = accepted /\ Has(pipe[b[1]], b))
         ~> (Over(k) \/ life[k] # "open" \/ Has(seen[k], b))
  /\ \A s \in Outputs :
       (alive /\ ~connected /\ Len(pipe[s]) = PipeSize)
         ~> (~alive \/ connected \/ Len(pipe[s]) < PipeSize)

\* What a client types gets into snek's pipe as long as there is room.
Takes ==
  \A k \in All :
    (k = accepted /\ up[k] # << >>) ~> (Over(k) \/ up[k] = << >> \/ Len(pipe["stdin"]) = PipeSize)

GetsThrough == Interrupts /\ Shows /\ Takes

----------------------------------------------------------------------------
(***************************************************************************)
(* What may happen                                                         *)
(***************************************************************************)
Plan(clients, types, out, err, presses, exits) ==
  [clients |-> clients, types |-> types, prints |-> [stdout |-> out, stderr |-> err],
   presses |-> presses, exits |-> exits]

\* Input with a client replaced by another, output likewise, both at once, ^C
\* while both ways are full, and a snek that exits.
EachAlone ==
  { Plan(2, 3, 0, 0, {}, FALSE), Plan(2, 0, 4, 0, {}, FALSE), Plan(2, 0, 2, 1, {}, FALSE),
    Plan(2, 1, 2, 0, {}, FALSE), Plan(1, 3, 2, 0, {1}, FALSE), Plan(2, 1, 0, 0, {1, 2}, FALSE),
    Plan(1, 1, 2, 1, {}, TRUE) }
=============================================================================
