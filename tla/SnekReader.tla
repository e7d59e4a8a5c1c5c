----------------------------- MODULE SnekReader -----------------------------
(***************************************************************************)
(* What the user of a board counts on when lines are read: what is typed   *)
(* runs, whole and in order, and an error does not last.                   *)
(***************************************************************************)
EXTENDS SnekRead, FiniteSetsExt

----------------------------------------------------------------------------
(***************************************************************************)
(* What the lines mean, by their kinds                                     *)
(***************************************************************************)
Heads == {"if", "iffail", "else", "def"}
Comments == {"note", "cutnote", "noted", "nonote"}
Names(i) ==
  LET l == LineLetters[i]
      k == typed[i].kind
  IN  CASE k \in {"plain", "if", "def", "open", "close", "noted"} -> <<<<l>>>>
        [] k = "isnot" -> <<<<l>>, <<l>>>>
        [] k = "isno" -> <<<<l>>, <<"n", "o", l>>>>
        [] k = "not" -> <<<<"i", l>>>>
        [] k \in {"fail", "iffail"} -> <<<<l>>, <<"x", l>>>>
        [] OTHER -> << >>

Console(i) == \E j \in 1..(i - 1) : typed[j].kind \in Ends

\* The last line before i that is not a comment or a blank one
Before0(i) == Max({0} \cup {j \in 1..(i - 1) : typed[j].kind \notin {"note", "blank"}})

\* A line that is in the parentheses another one has opened
Inside(i) == Before0(i) > 0 /\ typed[Before0(i)].kind = "open" /\ typed[i].kind # "intr"

\* Comments are no lines; blank lines are, at the console, and end a block.
IsLine(i) ==
  /\ typed[i].kind # "note" /\ ~Inside(i)
  /\ typed[i].kind = "blank" => Console(i)

Counted == {i \in DOMAIN typed : IsLine(i)}
Following(i) == {j \in Counted : j > i}
NextLine(i) == Min(Following(i))
Indent(i) == typed[i].indent
Kind(i) == typed[i].kind

\* i is a line of the suite that j is in, or of the command that is j.
Sibling(j, i) ==
  j < i /\ Indent(j) = Indent(i) /\ \A k \in Counted : k \in j..i => Indent(k) >= Indent(i)

\* The line i may come after those before it.
MayFollow(i) ==
  LET earlier == {j \in Counted : j < i}
      j == Max(earlier)
  IN  CASE Kind(i) = "intr" -> TRUE
        [] earlier = {} \/ Kind(j) \in {"intr", "end"} -> Indent(i) = 0 /\ Kind(i) # "else"
        [] Kind(j) \in Heads -> Indent(i) > Indent(j) /\ Kind(i) # "else"
        [] Kind(i) = "else" ->
             \E k \in earlier :
               /\ Kind(k) \in {"if", "iffail"} /\ Indent(k) = Indent(i)
               /\ \A m \in Counted : m \in (k + 1)..(i - 1) => Indent(m) > Indent(i)
        [] OTHER -> \E k \in earlier : Sibling(k, i)

\* Commands begin with lines that are not indented.
Starts(i) == i \in Counted /\ Indent(i) = 0 /\ Kind(i) # "else"
Of(i) ==
  {j \in DOMAIN typed :
     /\ j >= i
     /\ \A k \in Counted : k \in (i + 1)..j => Kind(i) \in Heads /\ ~Starts(k)}

\* Lines without an error, in an order without one.  A command that fails must
\* not be one whose end is seen by the next word that is typed (see Run).
WellFormed ==
  /\ \A i \in DOMAIN typed :
       /\ Kind(i) \in {"plain", "if", "else", "def", "blank", "note", "noted", "open", "close",
                       "isnot", "isno", "not", "fail", "iffail", "intr", "end"}
       /\ Kind(i) = "def" => Indent(i) = 0
       /\ Inside(i) => Kind(i) \in {"close", "note", "blank"}
       /\ Kind(i) = "close" => Inside(i)
  /\ \A i \in Counted : MayFollow(i)
  /\ \A i \in Counted :
       Starts(i) /\ Kind(i) \in {"if", "iffail"} /\ (\E j \in Of(i) : Kind(j) \in {"fail", "iffail"})
         => \A j \in Following(i) : Starts(j) /\ (\A k \in Following(i) : k < j => ~Starts(k))
              => Kind(j) \in {"blank", "end", "intr"}

\* A command is there when its last line is known to be the last.
Complete(i) ==
  LET lines == Of(i)
      after == {j \in Counted : j > Max(lines)}
      open == \E j \in lines : Kind(j) = "open" /\ \A k \in lines : k > j => Kind(k) # "close"
  IN  /\ ~open
      /\ IF Kind(i) \in Heads THEN after # {} /\ Kind(Min(after)) # "intr" ELSE TRUE

Whole(i) == FoldLeft(LAMBDA all, j : all \o Names(j), << >>, SetToSortSeq(Of(i), <))

Expected ==
  LET first == {i \in Counted : Starts(i) /\ Complete(i) /\ Whole(i) # << >>}
  IN  [n \in 1..Cardinality(first) |-> Whole(SetToSortSeq(first, <)[n])]

----------------------------------------------------------------------------
(***************************************************************************)
(* Properties                                                              *)
(***************************************************************************)
\* Without an error each command that is typed or stored runs, once, in order,
\* and as it is written: whatever blank lines, comments, parentheses and
\* interruptions come in between, and wherever the blocks end.  What is given
\* back on the way fits into ungetbuf, which has five characters and no check.
RunsWhatIsTyped ==
  /\ Waiting /\ WellFormed => ran = Expected
  /\ lex.unread <= 5

\* The lines a name is from
LinesOf(command) ==
  {i \in DOMAIN typed : \E w \in ToSet(command) : w # << >> /\ Last(w) = LineLetters[i]}

\* Whatever was typed, no part of a command is run: at the console a command is
\* one that begins with a line that is not indented, and has all its lines.
\* Left out are comments, of which an error makes only the first character one
\* (see Comment), a block that fails, and lines in a parenthesis, the first of
\* which an error may have taken with it.
WholeCommands ==
  (\A i \in DOMAIN typed : Kind(i) \notin Comments /\ Kind(i) # "iffail") =>
    \A n \in DOMAIN ran :
      LET i == Min(LinesOf(ran[n])) IN
      Console(i) /\ ~Inside(i) => Starts(i) /\ ran[n] = Whole(i)

\* Whatever was stored or typed, a line or two that are right and not indented
\* are enough to get back: the next such line is run.  One more is lost to a
\* parenthesis left open, one more to a comment that the stored program ends in
\* without a newline.
FindsBack ==
  Waiting =>
    \A i \in DOMAIN typed :
      LET lost == 1 + Cardinality({"open", "cutnote"} \cap {Kind(j) : j \in 1..i})
      IN  i > lost /\ (\A j \in (i - lost)..i : typed[j] = [indent |-> 0, kind |-> "plain"])
            => <<<<LineLetters[i]>>>> \in ToSet(ran)

----------------------------------------------------------------------------
(***************************************************************************)
(* Bounds                                                                  *)
(***************************************************************************)
\* The end of the stored program and four lines of the usual kinds, or fewer with
\* others among them; indented by two in blocks of blocks.  Five lines at the
\* console if the first one opens a block.
Usual == {"plain", "if", "else", "blank"}
Indented == Usual \cup {"note", "two", "fail"}
Others == Kinds \ (Usual \cup Ends \cup {"open"})

Short(lines) ==
  LET number(kinds) == Cardinality({i \in DOMAIN lines : lines[i].kind \in kinds})
  IN  2 * number(Others) + number(Usual \cup {"open"}) <= 4

Nested(lines) ==
  /\ Len(lines) <= 6
  /\ \A i \in DOMAIN lines :
       lines[i].kind \in CASE i = 1 -> {"end"} [] i = 2 -> {"if"} [] OTHER -> {"if", "else", "plain"}

FewLines(lines) ==
  /\ Short(lines) \/ Nested(lines)
  /\ \A i \in DOMAIN lines :
       /\ lines[i].indent = 1 => lines[i].kind \in Indented
       /\ lines[i].indent = 2 => lines[i].kind = "plain" /\ i > 1 /\ lines[i - 1].indent >= 1
=============================================================================
