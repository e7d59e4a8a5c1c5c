------------------------------- MODULE Snekde -------------------------------
(***************************************************************************)
(* Snekde (snekde/snekde.py) at work with a board: the user's keys, the    *)
(* thread that writes what they queue and the thread that reads what the   *)
(* board sends.  All three take snek_lock, so that a key is one step, and  *)
(* so is each of the writer's looks at the queue and each byte the reader  *)
(* takes.                                                                  *)
(*                                                                         *)
(* On a device without flow control the writer follows every Limit bytes   *)
(* with ENQ, and waits for ACK or for a second.  A behaviour starts with   *)
(* the device open and its speed found.                                    *)
(***************************************************************************)
EXTENDS Console, EditWin

CONSTANTS
  Limit,      \* synchronous_limit
  Plans       \* the situations to look at

ASSUME LimitAssumption == Limit \in Nat \ {0}

VARIABLES
  plan,       \* [kind, sync, patient, holds, keys, edits]
  at,         \* how many of the keys have been pressed
  edits,      \* how many keys have gone to the editor pane
  edit,       \* snek_edit_win
  asked,      \* prev_get
  getting,    \* getting_text
  queue,      \* write_queue
  intr,       \* interrupt_pending
  writer,     \* "wait", "check", "intr", "send", "sync" or "ack"
  data,       \* send_data
  sent,       \* sent
  late,       \* an ACK has not come within the second
  origin      \* the text without the edits, in a set, empty once the undo list
              \* no longer belongs to the text

pane == <<edit, asked, origin>>
host == <<edits, pane, getting, queue, intr, writer, data, sent, late>>
vars == <<board, plan, at, host>>

Init ==
  /\ plan \in Plans
  /\ kind = plan.kind /\ rom = Rom(plan.holds)
  /\ doing = IF "loop" \in ToSet(plan.holds) THEN "run" ELSE "read"
  /\ down = << >> /\ up = << >> /\ ring = << >> /\ typed = << >> /\ kept = << >>
  /\ abort = FALSE /\ addr = 0 /\ lost = FALSE
  /\ at = 0 /\ edits = 0 /\ edit = NewWindow /\ asked = FALSE /\ origin = {<< >>}
  /\ getting = FALSE /\ queue = << >> /\ intr = FALSE
  /\ writer = "wait" /\ data = << >> /\ sent = 0 /\ late = FALSE

----------------------------------------------------------------------------
(***************************************************************************)
(* The user's keys.  A patient one waits until nothing moves.              *)
(***************************************************************************)
Idle == writer = "wait" /\ queue = << >> /\ ~intr
Quiet ==
  /\ Idle /\ down = << >>
  /\ \/ doing = "read" /\ ring = << >> /\ up = << >>
     \/ doing = "run" /\ ~abort

Key == plan.keys[at + 1]
Pressed(key) ==
  /\ at < Len(plan.keys) /\ Key.key = key
  /\ plan.patient => Quiet
  /\ at' = at + 1
  /\ UNCHANGED <<board, plan, edits, getting, data, sent, late>>

\* M: cv.notify() forgotten
Asleep == writer

\* cv.notify()
Woken == IF writer = "wait" THEN "check" ELSE writer

Writes(bytes) ==
  queue' = queue \o bytes /\ writer' = Woken /\ UNCHANGED intr

Interrupt ==
  /\ Pressed("intr")
  /\ intr' = TRUE /\ writer' = Woken /\ asked' = FALSE
  /\ UNCHANGED <<edit, origin, queue>>

\* set_text, which keeps what there is to be undone in the text before
Replaced(text) ==
  /\ edit' = SetText(edit, text) /\ asked' = FALSE
  /\ origin' = IF edit.undo = << >> THEN {text} ELSE {}

\* M: what is there stays
Uncleared == edit.text

\* snek_edit_win.set_text("")
Cleared == << >>

\* Changes are given up when it is pressed again.
Get ==
  /\ Pressed("get")
  /\ IF edit.changed /\ ~asked
     THEN asked' = TRUE /\ UNCHANGED <<edit, origin, queue, intr, writer>>
     ELSE Replaced(Cleared) /\ Writes(<<"^N", "^C", "show", "nl">>)

\* M: ^D forgotten
Unended == <<"^N", "^C", "write", "nl">> \o edit.text \o <<"^N", "reset", "nl">>

PutBytes == <<"^N", "^C", "write", "nl">> \o edit.text \o <<"^D", "^N", "reset", "nl">>

Blank == ToSet(edit.text) \subseteq {"sp", "nl"}

Put ==
  /\ Pressed("put")
  /\ IF Blank THEN UNCHANGED <<edit, queue, intr, writer>>
     ELSE Writes(PutBytes) /\ edit' = [edit EXCEPT !.changed = FALSE]
  /\ asked' = FALSE /\ UNCHANGED origin

\* A file loaded
Load ==
  /\ Pressed("load")
  /\ Replaced(Key.text)
  /\ UNCHANGED <<queue, intr, writer>>

\* ENTER in the console pane
Enter ==
  /\ Pressed("enter")
  /\ Writes(<<"^N">> \o Key.text \o <<"nl">>)
  /\ asked' = FALSE /\ UNCHANGED <<edit, origin>>

\* Any key in the editor pane, also while a text is on its way from the board
Edit ==
  /\ edits < plan.edits
  /\ edits' = edits + 1
  /\ \E key \in EditingKeys \cup {"x", "nl"} : edit' = Dispatch(edit, key)
  /\ asked' = FALSE
  /\ UNCHANGED <<board, plan, at, origin, getting, queue, intr, writer, data, sent, late>>

----------------------------------------------------------------------------
(***************************************************************************)
(* SnekDevice.writer                                                       *)
(***************************************************************************)
Check ==
  /\ writer = "check"
  /\ IF queue = << >> /\ ~intr
     THEN writer' = "wait" /\ UNCHANGED <<data, queue, intr>>
     ELSE /\ data' = queue /\ queue' = << >> /\ intr' = FALSE
          /\ writer' = IF intr THEN "intr" ELSE "send"
  /\ UNCHANGED <<board, plan, at, edits, pane, getting, sent, late>>

\* reset_output_buffer() drops what has not left the host yet.  The three
\* bytes are not counted in sent.
SendIntr ==
  /\ writer = "intr"
  /\ \E left \in 0..Len(down) :
       down' = SubSeq(down, 1, left) \o <<"^O", "^C", "^N">>
  /\ writer' = "send"
  /\ UNCHANGED <<kind, console, lost, plan, at, edits, pane, getting, queue, intr, data, sent, late>>

\* M: everything at once
Everything == Len(data)

Amount == IF plan.sync /\ Limit - sent < Len(data) THEN Limit - sent ELSE Len(data)

Send ==
  /\ writer = "send"
  /\ IF data = << >> THEN writer' = "check" /\ UNCHANGED <<down, data, sent>>
     ELSE /\ down' = down \o SubSeq(data, 1, Amount)
          /\ data' = SubSeq(data, Amount + 1, Len(data))
          /\ sent' = IF plan.sync THEN sent + Amount ELSE sent
          /\ writer' = IF sent' >= Limit THEN "sync" ELSE "send"
  /\ UNCHANGED <<kind, console, lost, plan, at, edits, pane, getting, queue, intr, late>>

\* sync
Sync ==
  /\ writer = "sync"
  /\ down' = Append(down, ENQ) /\ writer' = "ack"
  /\ UNCHANGED <<kind, console, lost, plan, at, edits, pane, getting, queue, intr, data, sent, late>>

\* The second is over.  What is on the line arrives within it, and a board that
\* is going to answer does so within it; one that runs a program may not.
Timeout ==
  /\ writer = "ack"
  /\ down = << >> /\ ACK \notin ToSet(up)
  /\ ENQ \in ToSet(ring) => doing = "run" /\ ~abort
  /\ writer' = "send" /\ sent' = 0 /\ late' = TRUE
  /\ UNCHANGED <<board, plan, at, edits, pane, getting, queue, intr, data>>

----------------------------------------------------------------------------
(***************************************************************************)
(* SnekMonitor.receive: one byte.  Control characters but newline are      *)
(* dropped; "tab" stands for those a program may hold.                     *)
(***************************************************************************)
Arrives ==
  /\ up # << >>
  /\ up' = Tail(up)
  /\ UNCHANGED <<kind, down, ring, abort, doing, typed, kept, rom, addr, lost,
                 plan, at, edits, asked, queue, intr, data, late>>

ReceiveAck ==
  /\ Arrives /\ Head(up) = ACK
  /\ IF writer = "ack" THEN writer' = "send" /\ sent' = 0 ELSE UNCHANGED <<writer, sent>>
  /\ UNCHANGED <<edit, origin, getting>>

ReceiveMark ==
  /\ Arrives /\ Head(up) \in {STX, ETX}
  /\ getting' = (Head(up) = STX)
  /\ UNCHANGED <<edit, origin, writer, sent>>

ReceiveText ==
  /\ Arrives /\ Head(up) \notin {ACK, STX, ETX}
  /\ IF getting /\ Head(up) # "tab"
     THEN /\ edit' = [edit EXCEPT !.text = Append(@, Head(up))]
          /\ origin' = {Append(t, Head(up)) : t \in origin}
     ELSE UNCHANGED <<edit, origin>>
  /\ UNCHANGED <<getting, writer, sent>>

----------------------------------------------------------------------------
User   == Interrupt \/ Get \/ Put \/ Load \/ Enter \/ Edit
Writer == Check \/ SendIntr \/ Send \/ Sync
Reader == ReceiveAck \/ ReceiveMark \/ ReceiveText
Line   == Receive \/ ReceiveUsb
Works  == Answer \/ Read \/ Store \/ Burn \/ Show \/ Boot \/ RunStops
Apart  == UNCHANGED <<plan, at, host>>

Next == User \/ Writer \/ Timeout \/ Reader \/ ((Line \/ Works \/ RunPrints) /\ Apart)

\* Bytes arrive, the three threads and the board get to run, a second passes;
\* a user may stop pressing keys.
Spec ==
  /\ Init /\ [][Next]_vars
  /\ WF_vars(Writer) /\ WF_vars(Timeout) /\ WF_vars(Reader)
  /\ WF_vars(Line /\ Apart) /\ WF_vars(Works /\ Apart)

----------------------------------------------------------------------------
(***************************************************************************)
(* What the user counts on                                                 *)
(***************************************************************************)
\* After Get or Put (snekde_get_text, snekde_put_text) the editor pane and the
\* board hold the same program, whatever the board was doing before and
\* however its buffer and the writer's pauses fell, unless the editor pane is
\* marked as changed since; the user waits for each command to end.
FilesAgree ==
  plan.patient /\ Quiet /\ ~edit.changed /\ at > 0 /\ plan.keys[at].key \in {"get", "put"}
    => edit.text = Program

\* Undoing all edits gives back the text without them, with what has come from
\* the board meanwhile (EditWin.pop_undo); point and mark do not leave the text;
\* and what is cut can be pasted where it was.  Left out is a text loaded or
\* fetched over one with edits: they are then undone in the new one.
EditsCanBeUndone ==
  /\ origin # {} =>
       /\ origin = {Undone(edit).text}
       /\ edit.point \in 0..Len(edit.text) /\ edit.mark <= Len(edit.text)
  /\ Selects(edit) => Paste(Cut(edit)).text = edit.text

\* The writer's pauses (SnekDevice.writer, sync) keep the bytes a board has
\* not read within its buffer: none is dropped before an ACK has been given up
\* on.  The three bytes of ^C come on top, so that ^C typed ahead is left out.
NoOverrun ==
  lost => \/ late
          \/ (~plan.patient /\ \E i \in 1..at : plan.keys[i].key = "intr")

\* Every command of a patient user comes to an end: the writer does not wait
\* for ever for a wakeup or an ACK, and the board is back at its prompt or
\* runs a program.
Settles == plan.patient => []<>Quiet

\* ^C stops a program that runs, also one with unread input and while the
\* writer waits for an ACK.  Put is left out: the board stores a ^C that falls
\* into it.
InterruptStops ==
  (\A i \in DOMAIN plan.keys : plan.keys[i].key # "put")
    => (intr /\ doing = "run" ~> doing = "read")
=============================================================================
