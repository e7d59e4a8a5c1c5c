------------------------------- MODULE EditWin -------------------------------
(***************************************************************************)
(* EditWin of snekde/snekde.py: a text, where the point and the mark are   *)
(* in it, what was cut, and what there is to be undone.  A window is a     *)
(* record, a key a function on windows.  Places count from 0.  Painting    *)
(* and scrolling are left out.                                             *)
(***************************************************************************)
EXTENDS Integers, SequencesExt

CONSTANTS
  TabWidth,    \* tab_width
  PageLines    \* lines

ASSUME WindowAssumption == {TabWidth, PageLines} \subseteq Nat \ {0}

NoMark == -1
NewWindow == [text |-> << >>, point |-> 0, mark |-> NoMark, cut |-> << >>, undo |-> << >>, changed |-> FALSE]

\* What could be undone in the text before stays.
SetText(w, text) == [w EXCEPT !.text = text, !.point = 0, !.mark = NoMark, !.changed = FALSE]

----------------------------------------------------------------------------
(***************************************************************************)
(* Slices, and places as lines and columns                                 *)
(***************************************************************************)
Least(a, b) == IF a < b THEN a ELSE b
Most(a, b) == IF a < b THEN b ELSE a

Before(t, p) == SubSeq(t, 1, Least(p, Len(t)))
After(t, p) == SubSeq(t, p + 1, Len(t))
Between(t, p, q) == SubSeq(t, p + 1, Least(q, Len(t)))

\* Where each line begins
Begins(t) == SetToSortSeq({0} \cup {i \in DOMAIN t : t[i] = "nl"}, <)
LastLine(t) == Len(Begins(t)) - 1
Bol(t, line) == Begins(t)[line + 1]
Eol(t, line) == IF line = LastLine(t) THEN Len(t) ELSE Bol(t, line + 1) - 1

\* point_to_cursor
LineOf(t, p) == LastLine(Before(t, p))
ColOf(t, p) == Len(Before(t, p)) - Bol(t, LineOf(t, p))

\* cursor_to_point
Place(t, col, line) ==
  LET l == Most(0, Least(line, LastLine(t)))
  IN  Least(Bol(t, l) + col, Eol(t, l))

Indent(t, p) == CHOOSE n \in 0..(Len(t) - p) :
                  /\ \A i \in 1..n : t[p + i] = "sp"
                  /\ p + n = Len(t) \/ t[p + n + 1] # "sp"
IndentAt(t, line) == Indent(t, Bol(t, line))

\* The last of a line that is no space.  It may belong to a line before it, and
\* for an empty first line it is the last of the text, at index -1.
LastCh(t, line) ==
  LET e == Eol(t, line) - 1
  IN  IF e < 0 THEN t[Len(t)]
      ELSE t[1 + CHOOSE i \in 0..e :
                   /\ i = 0 \/ t[i + 1] # "sp"
                   /\ \A j \in (i + 1)..e : t[j + 1] = "sp"]

InIndent(w) ==
  LET col == ColOf(w.text, w.point)
  IN  col > 0 /\ IndentAt(w.text, LineOf(w.text, w.point)) >= col

----------------------------------------------------------------------------
(***************************************************************************)
(* Changes                                                                 *)
(***************************************************************************)
\* An operation is the text deleted, or the length of what was inserted.
Pushed(w, place, op) ==
  Append(w.undo, [place |-> place, op |-> op, point |-> w.point, mark |-> w.mark])

Deletion(text) == [text |-> text, length |-> 0]
Insertion(length) == [text |-> << >>, length |-> length]

PopUndo(w) ==
  IF w.undo = << >> THEN w
  ELSE LET u == Last(w.undo)
       IN  [w EXCEPT !.text = Before(w.text, u.place) \o u.op.text
                                 \o After(w.text, u.place + u.op.length),
                     !.point = u.point, !.mark = u.mark,
                     !.undo = Front(w.undo), !.changed = TRUE]

Insert(w, place, text) ==
  [w EXCEPT !.undo = Pushed(w, place, Insertion(Len(text))),
            !.text = Before(w.text, place) \o text \o After(w.text, place),
            !.point = IF place < @ THEN @ + Len(text) ELSE @,
            !.mark = IF place < @ THEN @ + Len(text) ELSE @,
            !.changed = TRUE]

InsertAtPoint(w, text) ==
  LET v == Insert(w, w.point, text) IN [v EXCEPT !.point = @ + Len(text)]

\* M: noted when it is gone
TooLate(w, place, count) ==
  Between(Before(w.text, place) \o After(w.text, place + count), place, place + count)

Deleted(w, place, count) == Between(w.text, place, place + count)

\* _adjust_delete_position
Adjust(place, count, moving, inside) ==
  IF place <= moving /\ moving < place + count THEN inside
  ELSE IF place + count <= moving THEN moving - count
  ELSE moving

Delete(w, place, count) ==
  [w EXCEPT !.undo = Pushed(w, place, Deletion(Deleted(w, place, count))),
            !.text = Before(w.text, place) \o After(w.text, place + count),
            !.point = Adjust(place, count, @, place),
            !.mark = IF @ >= 0 THEN Adjust(place, count, @, NoMark) ELSE @,
            !.changed = TRUE]

DeleteAtPoint(w, count) == Delete(w, w.point, count)

----------------------------------------------------------------------------
(***************************************************************************)
(* Keys                                                                    *)
(***************************************************************************)
To(w, place) == [w EXCEPT !.point = place]
LineAt(w) == LineOf(w.text, w.point)
ColAt(w) == ColOf(w.text, w.point)

Left(w) == IF w.point > 0 THEN To(w, w.point - 1) ELSE w
Right(w) == IF w.point < Len(w.text) THEN To(w, w.point + 1) ELSE w

ToBol(w) == To(w, Bol(w.text, LineAt(w)))
ToEol(w) == To(w, Eol(w.text, LineAt(w)))

Up(w) ==
  LET p == Place(w.text, ColAt(w), LineAt(w) - 1)
  IN  IF p = w.point THEN ToBol(w) ELSE To(w, p)
Down(w) ==
  LET p == Place(w.text, ColAt(w), LineAt(w) + 1)
  IN  IF p = w.point THEN ToEol(w) ELSE To(w, p)

PrevPage(w) == To(w, Place(w.text, ColAt(w), LineAt(w) - PageLines - 1))
NextPage(w) == To(w, Place(w.text, ColAt(w), LineAt(w) + PageLines - 1))

ToggleMark(w) == [w EXCEPT !.mark = IF @ >= 0 THEN NoMark ELSE w.point]

Selects(w) == w.mark >= 0
Start(w) == Least(w.mark, w.point)
End(w) == Most(w.mark, w.point)

Copy(w) ==
  IF ~Selects(w) THEN w
  ELSE [w EXCEPT !.cut = Between(w.text, Start(w), End(w)), !.mark = NoMark]
Cut(w) ==
  IF ~Selects(w) THEN w
  ELSE [Delete([w EXCEPT !.cut = Between(w.text, Start(w), End(w))], Start(w), End(w) - Start(w))
          EXCEPT !.mark = NoMark]

Paste(w) == IF w.cut = << >> THEN w ELSE InsertAtPoint(w, w.cut)

\* Only called behind the beginning of a line
Backtab(w) ==
  LET over == ColAt(w) % TabWidth
      count == IF over = 0 THEN TabWidth ELSE over
  IN  DeleteAtPoint(To(w, w.point - count), count)

Backspace(w) ==
  IF Selects(w)
  THEN [Delete(w, Start(w), End(w) - Start(w)) EXCEPT !.mark = NoMark]
  ELSE IF w.point = 0 THEN w
  ELSE IF InIndent(w) THEN Backtab(w)
  ELSE DeleteAtPoint(Left(w), 1)

ToIndent(w, want) ==
  LET have == IndentAt(w.text, LineAt(w))
      v == To(w, Bol(w.text, LineAt(w)) + have)
  IN  IF have < want THEN InsertAtPoint(v, [i \in 1..(want - have) |-> "sp"])
      ELSE IF have > want THEN DeleteAtPoint(v, have - want)
      ELSE v

AutoIndent(w) ==
  LET l == LineAt(w)
      more == IF LastCh(w.text, l - 1) = ":" THEN TabWidth ELSE 0
  IN  ToIndent(w, IF l = 0 THEN 0 ELSE IndentAt(w.text, l - 1) + more)

DeleteToEol(w) ==
  LET e == Eol(w.text, LineAt(w))
  IN  DeleteAtPoint(w, IF w.point = e THEN 1 ELSE e - w.point)

Typed(w, c) == IF c = "nl" THEN AutoIndent(InsertAtPoint(w, <<c>>)) ELSE InsertAtPoint(w, <<c>>)

\* dispatch, and run for a newline
EditingKeys ==
  {"left", "right", "up", "down", "home", "end", "ppage", "npage", "mark", "copy", "cut",
   "paste", "kill", "undo", "tab", "backspace"}

Dispatch(w, key) ==
  CASE key = "left"  -> Left(w)       [] key = "right" -> Right(w)
    [] key = "up"    -> Up(w)         [] key = "down"  -> Down(w)
    [] key = "home"  -> ToBol(w)      [] key = "end"   -> ToEol(w)
    [] key = "ppage" -> PrevPage(w)   [] key = "npage" -> NextPage(w)
    [] key = "mark"  -> ToggleMark(w) [] key = "copy"  -> Copy(w)
    [] key = "cut"   -> Cut(w)        [] key = "paste" -> Paste(w)
    [] key = "kill"  -> DeleteToEol(w) [] key = "undo" -> PopUndo(w)
    [] key = "tab"   -> AutoIndent(w) [] key = "backspace" -> Backspace(w)
    [] OTHER         -> Typed(w, key)

\* Everything undone
RECURSIVE Undone(_)
Undone(w) == IF w.undo = << >> THEN w ELSE Undone(PopUndo(w))
=============================================================================
