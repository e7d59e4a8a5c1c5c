------------------------------- MODULE SnekLex -------------------------------
(***************************************************************************)
(* The lexer (src/snek-lex.c) on the characters of a stored program, and   *)
(* of the lines typed at the console after it.                             *)
(*                                                                         *)
(* A lexer is a record s: its variables, and what is left to read.         *)
(* s.input has first the s.unread characters of ungetbuf and then those    *)
(* which getc is still to return.  "EOF" there is the end of the stored    *)
(* program, where getc goes over to the console, and "^C" what the user    *)
(* types to interrupt: both are read as SNEK_EOF.  An operator gives the   *)
(* lexer after a part of snek_lex.  Its token is "none" while there is     *)
(* none to return, and "wait" if more has to be typed.                     *)
(*                                                                         *)
(* Words are made of letters and the strings are not kept; numbers and     *)
(* operators, which are one or two characters of their own, are left out.  *)
(*                                                                         *)
(* An operator under `M: ...' is a faulty form of the definition below it. *)
(***************************************************************************)
EXTENDS Naturals, Sequences, SequencesExt

SNEK_EOF == "0"
Space == " "
NewLine == "\n"

\* The lexer's variables at the beginning
Lexer ==
  [input |-> << >>, unread |-> 0, token |-> "none",
   current |-> 0,              \* snek_current_indent
   lexIndent |-> 0,            \* snek_lex_indent
   ignoreNl |-> 0,             \* snek_ignore_nl
   midline |-> FALSE,          \* snek_lex_midline
   exdent |-> FALSE,           \* snek_lex_exdent
   indent |-> 0,               \* snek_token_val.indent
   word |-> << >>,             \* snek_lex_text, of a name
   interactive |-> FALSE,      \* snek_interactive
   abort |-> FALSE]            \* snek_abort

Token(s, name) == [s EXCEPT !.token = name]

Letters == {"a", "b", "c", "d", "e", "f", "g", "h", "i", "l", "n", "o", "s", "t", "x"}

Keywords ==
  (<<"i", "f">> :> "IF") @@ (<<"e", "l", "s", "e">> :> "ELSE") @@
  (<<"d", "e", "f">> :> "DEF") @@ (<<"i", "s">> :> "CMPOP") @@
  (<<"i", "n">> :> "CMPOP") @@ (<<"n", "o", "t">> :> "NOT")

\* What may come after a keyword and makes it another operator
Seconds == (<<"i", "s">> :> <<"n", "o", "t">>) @@ (<<"n", "o", "t">> :> <<"i", "n">>)

----------------------------------------------------------------------------
(***************************************************************************)
(* Characters                                                              *)
(***************************************************************************)
Less(n, k) == IF n > k THEN n - k ELSE 0

\* lexchar, k times
Skip(s, k) ==
  [s EXCEPT !.input = SubSeq(@, k + 1, Len(@)),
            !.unread = Less(@, k),
            !.interactive = @ \/ "EOF" \in ToSet(SubSeq(s.input, 1, k)),
            !.abort = @ \/ "^C" \in ToSet(SubSeq(s.input, 1, k))]

\* What lexchar returns after n characters
Char(s, n) == IF s.input[n + 1] \in {"EOF", "^C"} THEN SNEK_EOF ELSE s.input[n + 1]

\* unlexchar, for each of the characters, the last one first
Back(s, chars) ==
  [s EXCEPT !.input = chars \o @, !.unread = @ + Len(chars)]

\* How many characters of a set come first; what ends them has to be there.
Leading(s, chars) ==
  LET at == SelectInSeq(s.input, LAMBDA c : c \notin chars)
  IN  IF at = 0 THEN Len(s.input) ELSE at - 1

----------------------------------------------------------------------------
(***************************************************************************)
(* Comments, strings and words                                             *)
(***************************************************************************)
\* comment, after the # sign.  c is what the comparison with the newline gives,
\* so that the end of the input is not seen; snek_abort ends the loop, after one
\* character.
Comment(s) ==
  LET n == SelectInSeq(s.input, LAMBDA c : s.abort \/ c \in {NewLine, "^C"})
  IN  IF n = 0 THEN Token(s, "wait") ELSE Skip(s, n)

\* string, after the quote.  A newline ends it as an error; the end of the input
\* is a character like others.
String(s) ==
  LET n == SelectInSeq(s.input, LAMBDA c : c \in {NewLine, "'"})
  IN  CASE n = 0 -> Token(s, "wait")
        [] n > 0 /\ s.input[n] = "'" -> Token(Skip(s, n), "STRING")
        [] OTHER -> Token(Back(Skip(s, n), <<NewLine>>), "INVALID")

\* M: only the character that did not match
BackLast(s, spaces, chars) == Back(s, <<Last(chars)>>)

\* What did not match, after one space for all
BackWord(s, spaces, chars) == Back(s, IF spaces > 0 THEN <<Space>> \o chars ELSE chars)

\* trailing_name: a second word of an operator, if it is there after n spaces.
\* Only its letters are looked at, not what comes after them.
Trailing(s, n, word, without) ==
  LET same == Len(LongestCommonPrefix({SubSeq(s.input, n + 1, Len(s.input)), word}))
  IN  CASE same = Len(word) -> Token(Skip(s, n + same), "CMPOP")
        [] same # Len(word) /\ n + same = Len(s.input) -> Token(s, "wait")
        [] OTHER -> Token(BackWord(Skip(s, n + same + 1), n,
                                   Append(SubSeq(word, 1, same), Char(s, n + same))), without)

\* The name or keyword word has been read.
Named(s, word) ==
  CASE word \notin DOMAIN Keywords -> [s EXCEPT !.token = "NAME", !.word = word]
    [] word \in DOMAIN Seconds -> Trailing(s, Leading(s, {Space}), Seconds[word], Keywords[word])
    [] OTHER -> Token(s, Keywords[word])

\* The end of snek_lex: a word of n letters.  unlextoken takes a letter off the
\* token also for the end of the input, which lextoken did not add.
Word(s, n) ==
  IF n = Len(s.input) THEN Token(s, "wait")
  ELSE Named(Back(Skip(s, n + 1), <<Char(s, n)>>),
             SubSeq(s.input, 1, IF Char(s, n) = SNEK_EOF THEN n - 1 ELSE n))

----------------------------------------------------------------------------
(***************************************************************************)
(* Lines and tokens                                                        *)
(***************************************************************************)
\* snek_lex_close
Close(n) == Less(n, 1)

\* A line begins, with n spaces.  Comments are no lines, and in a file blank
\* lines are none.  The first character of the line is given back.
BeginLine(s, n) ==
  CASE n = Len(s.input) -> Token(s, "wait")
    [] n < Len(s.input) /\ s.input[n + 1] = "#" -> Comment(Skip(s, n + 1))
    [] n < Len(s.input) /\ s.input[n + 1] = NewLine /\ ~s.interactive -> Skip(s, n + 1)
    [] OTHER -> [Back(Skip(s, n + 1), <<Char(s, n)>>) EXCEPT
                   !.lexIndent = IF Char(s, n) = SNEK_EOF THEN 0 ELSE n,
                   !.midline = TRUE]

\* What the indentation of a line that has just begun says, if it counts
Indents(s) ==
  IF s.lexIndent > s.current
  THEN [s EXCEPT !.indent = s.current, !.current = s.lexIndent, !.token = "INDENT"]
  ELSE [s EXCEPT !.exdent = @ \/ s.lexIndent < s.current]

\* Blocks end until the indentation is no bigger than that of the line.
Exdents(s) == s.exdent /\ s.ignoreNl = 0 /\ s.lexIndent < s.current
Exdent(s) == [s EXCEPT !.indent = s.lexIndent, !.token = "EXDENT"]

\* The token that is the character c; "none" if it is to be passed over
Sign(s, c) ==
  CASE c = SNEK_EOF -> Token(s, "END")
    [] c = NewLine -> [s EXCEPT !.midline = FALSE, !.token = IF s.ignoreNl > 0 THEN "none" ELSE "NL"]
    [] c = ":" -> Token(s, "COLON")
    [] c = "(" -> [s EXCEPT !.ignoreNl = @ + 1, !.token = "OP"]
    [] c = ")" -> [s EXCEPT !.ignoreNl = Close(@), !.token = "CP"]
    [] c = Space -> s
    [] OTHER -> Token(s, "INVALID")

\* The comment at the end of a line; its newline is given back.
EndNote(s) == IF s.token = "wait" THEN s ELSE Back(s, <<NewLine>>)

\* The token that begins with the next character
InLine(s) ==
  CASE s.input = << >> -> Token(s, "wait")
    [] s.input # << >> /\ Head(s.input) = "#" -> EndNote(Comment(Skip(s, 1)))
    [] s.input # << >> /\ Head(s.input) = "'" -> String(Skip(s, 1))
    [] s.input # << >> /\ Head(s.input) \in Letters -> Word(s, Leading(s, Letters))
    [] OTHER -> Sign(Skip(s, 1), Char(s, 0))
=============================================================================
