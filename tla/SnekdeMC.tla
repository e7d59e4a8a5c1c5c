----------------------------- MODULE SnekdeMC ------------------------------
(***************************************************************************)
(* Situations for Snekde: each kind of board, with or without flow         *)
(* control, programs that end and one that does not, a program that fills  *)
(* the eeprom, and keys pressed by a patient and by a hurried user.        *)
(***************************************************************************)
EXTENDS Snekde

Intr        == [key |-> "intr"]
GetKey      == [key |-> "get"]
PutKey      == [key |-> "put"]
File(text)  == [key |-> "load", text |-> text]
Type(words) == [key |-> "enter", text |-> words]

Short  == <<"a">>
Full   == <<"a", "b", "nl", "c", "nl">>
Endless == <<"loop", "nl">>

Waiting ==
  { <<GetKey>>,
    <<File(Full), PutKey, GetKey>>,
    <<Type(<<"loop">>), Type(<<"x", "y", "z", "x", "y">>), GetKey>>,
    <<Type(<<"loop">>), Type(<<"x">>), File(Short), PutKey, Intr, Type(<<"x">>)>>,
    <<File(Endless), PutKey, File(Full), PutKey, GetKey>> }

\* With a program running from the start
Running ==
  { <<GetKey>>,
    <<File(Short), PutKey, GetKey>>,
    <<Type(<<"x", "y", "z", "x", "y">>), Intr, GetKey>> }

Hurrying ==
  { <<Type(<<"loop">>), Intr, Intr, GetKey>>,
    <<Type(<<"x">>), Type(<<"loop">>), Type(<<"x", "y">>), Intr>>,
    <<GetKey, GetKey, Type(<<"loop">>), Intr>>,
    <<File(Full), PutKey, Intr>> }

Boards == {<<"uart", TRUE>>, <<"usb", TRUE>>, <<"usb", FALSE>>}

Situations(held, patience, sequences) ==
  { [kind |-> b[1], sync |-> b[2], patient |-> patience, holds |-> h, keys |-> s, edits |-> 0] :
      b \in Boards, h \in held, s \in sequences }

\* Edits of a text, before it is put, and while and after one is fetched
Indented == <<":", "nl", "sp", "sp", "x", "y">>
Editing(held, sequence, n) ==
  [kind |-> "uart", sync |-> TRUE, patient |-> TRUE, holds |-> held, keys |-> sequence, edits |-> n]

AllPlans ==
  { Editing(<< >>, <<File(Indented)>>, 4), Editing(Short, <<GetKey, GetKey>>, 2),
    Editing(<< >>, <<File(Short), PutKey>>, 2) } \cup
  Situations({<< >>, Full}, TRUE, Waiting)
    \cup Situations({Endless}, TRUE, Running)
    \cup Situations({Short, Endless}, FALSE, Hurrying)
=============================================================================
