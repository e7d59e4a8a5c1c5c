------------------------------ MODULE SnekRead ------------------------------
(***************************************************************************)
(* From lines to commands: snek_parse (src/snek-parse.c) with the part of  *)
(* the grammar (src/snek-gram.ll) that lines and blocks belong to, on the  *)
(* lexer, when a board starts.  It reads the program it has stored and     *)
(* then its console, and runs each command as soon as it has read it.      *)
(*                                                                         *)
(* A line is typed when the lexer needs one.  Its kind says what is in it, *)
(* and its letter, which its names have and those of no other line, which  *)
(* line it is.                                                             *)
(*                                                                         *)
(* The parser itself is made by lola, which is not in the repository: it   *)
(* keeps a stack of symbols, asks for a token only when a symbol that is   *)
(* not an action needs it, expands a nonterminal by that token, and then   *)
(* expects the token it has.                                               *)
(*                                                                         *)
(* An operator under `M: ...' is a faulty form of the definition below it. *)
(***************************************************************************)
EXTENDS SnekLex

CONSTANTS
  MaxIndent,    \* spaces before a line
  Allowed(_)    \* a bound on the lines that are typed

VARIABLES
  typed,      \* the lines so far: an indentation and a kind each
  lex,        \* the lexer, with the token that the parser has not used
  stack,      \* the parser's symbols, the next one first
  indents,    \* the indentations on the parser's value stack
  names,      \* the names in the command that is being read
  skipping,   \* snek_parse looks for the end of a command with an error
  ran         \* the names in each command that was run

vars == <<typed, lex, stack, indents, names, skipping, ran>>

----------------------------------------------------------------------------
(***************************************************************************)
(* Lines                                                                   *)
(***************************************************************************)
LineLetters == <<"a", "b", "c", "d", "g", "h">>

\* The characters of a line of each kind with the letter l
Text(l) ==
  [plain  |-> <<l, NewLine>>,
   if     |-> <<"i", "f", " ", l, ":", NewLine>>,
   else   |-> <<"e", "l", "s", "e", ":", NewLine>>,
   def    |-> <<"d", "e", "f", " ", l, "(", ")", ":", NewLine>>,
   blank  |-> <<NewLine>>,
   note   |-> <<"#", " ", l, NewLine>>,
   noted  |-> <<l, " ", "#", " ", l, "s", NewLine>>,
   open   |-> <<"(", l, " ", "i", "n", NewLine>>,
   close  |-> <<l, ")", NewLine>>,
   isnot  |-> <<l, " ", "i", "s", " ", " ", "n", "o", "t", " ", l, NewLine>>,
   isno   |-> <<l, " ", "i", "s", " ", " ", " ", "n", "o", l, NewLine>>,
   not    |-> <<"n", "o", "t", " ", "i", l, " ", "i", "s", " ", "'", "#", "'", NewLine>>,
   fail   |-> <<l, " ", "i", "n", " ", "x", l, NewLine>>,
   iffail |-> <<"i", "f", " ", l, " ", "i", "n", " ", "x", l, ":", NewLine>>,
   two    |-> <<l, " ", l, " ", l, NewLine>>,
   nonote |-> <<l, " ", l, " ", "#", " ", l, "s", NewLine>>,
   bare   |-> <<"i", "f", " ", l, NewLine>>,
   quote  |-> <<"'", l, NewLine>>,
   intr   |-> <<"^C">>,
   end    |-> <<"EOF">>,
   cut    |-> <<l, "EOF">>,
   cutnote |-> <<"#", l, "EOF">>]

Kinds == DOMAIN Text("a")
Ends == {"end", "cut", "cutnote"}

Flat == {"blank", "intr"} \cup Ends    \* Kinds that are not indented here

Lines == {line \in [indent : 0..MaxIndent, kind : Kinds] : line.kind \in Flat => line.indent = 0}

Stored == \A i \in DOMAIN typed : typed[i].kind \notin Ends

----------------------------------------------------------------------------
(***************************************************************************)
(* The grammar: what a symbol may become before which tokens.  The symbols *)
(* of Actions are done, those with no rule are tokens.                     *)
(***************************************************************************)
Actions == {"run", "define", "push_indent", "pop_indent"}

Terms == {"NAME", "STRING", "OP"}
Exprs == Terms \cup {"NOT"}
Stats == Exprs \cup {"IF", "NL"}

Rules ==
  {<<"start", Stats, <<"stat", "run", "start">>>>,
   <<"start", {"DEF"}, <<"DEF", "NAME", "OP", "CP", "COLON", "suite", "define", "start">>>>,
   <<"start", {"END"}, << >>>>,
   <<"stat", Exprs, <<"expr", "NL">>>>,
   <<"stat", {"IF"}, <<"IF", "expr", "COLON", "suite", "elif_stats">>>>,
   <<"stat", {"NL"}, <<"NL">>>>,
   <<"elif_stats", {"ELSE"}, <<"ELSE", "COLON", "suite">>>>,
   <<"elif_stats", Stats \cup {"DEF", "EXDENT", "END"}, << >>>>,
   <<"suite", Exprs, <<"expr", "NL">>>>,
   <<"suite", {"NL"}, <<"NL", "INDENT", "push_indent", "stat", "opt_stats", "EXDENT", "pop_indent">>>>,
   <<"opt_stats", Stats, <<"stat", "opt_stats">>>>,
   <<"opt_stats", {"EXDENT"}, << >>>>,
   <<"expr", {"NOT"}, <<"NOT", "expr">>>>,
   <<"expr", {"NAME", "STRING"}, <<"PRIM", "cmp_p">>>>,
   <<"expr", {"OP"}, <<"OP", "expr", "CP", "cmp_p">>>>,
   <<"cmp_p", {"CMPOP"}, <<"CMPOP", "prim", "cmp_p">>>>,
   <<"cmp_p", {"NL", "COLON", "CP"}, << >>>>,
   <<"prim", {"NAME", "STRING"}, <<"PRIM">>>>,
   <<"prim", {"OP"}, <<"OP", "expr", "CP">>>>}

RulesFor(symbol, token) == {rule \in Rules : rule[1] = symbol /\ token \in rule[2]}

\* The token is the symbol, or one of the two that PRIM stands for.
Fits(symbol, token) == symbol = token \/ (symbol = "PRIM" /\ token \in {"NAME", "STRING"})

----------------------------------------------------------------------------
(***************************************************************************)
(* snek_parse                                                              *)
(***************************************************************************)
Init ==
  /\ typed = << >> /\ lex = Lexer
  /\ stack = <<"start">> /\ indents = << >> /\ names = << >>
  /\ skipping = FALSE /\ ran = << >>

\* M: parentheses stay open
ResetNotNl(s) ==
  [s EXCEPT !.current = 0, !.lexIndent = 0, !.midline = FALSE, !.exdent = FALSE,
            !.abort = FALSE, !.token = "none"]

ResetLex(s) ==
  [s EXCEPT !.current = 0, !.lexIndent = 0, !.ignoreNl = 0, !.midline = FALSE,
            !.exdent = FALSE, !.abort = FALSE, !.token = "none"]

\* The loop of snek_parse begins again: after an error that needs no skipping,
\* and, as a board calls snek_parse for ever, after the end of the input.
Again ==
  /\ lex' = ResetLex(lex)
  /\ stack' = <<"start">> /\ indents' = << >> /\ names' = << >>
  /\ skipping' = FALSE

\* M: nothing is skipped
FaultAgain(s) == Again

\* parse_return_syntax.  The skipping of the rest of a command with an error
\* forgets its parentheses before each token.
Fault(s) ==
  IF s.interactive
  THEN /\ lex' = [s EXCEPT !.abort = TRUE, !.ignoreNl = 0, !.token = "none"]
       /\ stack' = << >> /\ indents' = << >> /\ names' = << >>
       /\ skipping' = TRUE
  ELSE Again

Acting == stack # << >> /\ Head(stack) \in Actions

\* snek_lex, once around its loop.  A token that is not all there is left for
\* when more has been typed.
Fetch ==
  /\ lex.token = "none" /\ ~Acting
  /\ \E s \in {IF ~lex.midline THEN BeginLine(lex, Leading(lex, {Space}))
               ELSE IF Exdents(lex) THEN Exdent(lex)
               ELSE InLine([lex EXCEPT !.exdent = @ /\ lex.ignoreNl > 0])} :
       lex' = CASE s.token = "wait" -> [lex EXCEPT !.token = "wait"]
                [] ~lex.midline /\ s.midline /\ s.ignoreNl = 0 -> Indents(s)
                [] OTHER -> s
  /\ UNCHANGED <<typed, stack, indents, names, skipping, ran>>

Fetched == lex.token \notin {"none", "wait"} /\ ~skipping /\ ~Acting

\* The macro lex: the user has interrupted.
Interrupted ==
  /\ Fetched /\ lex.abort
  /\ Again
  /\ UNCHANGED <<typed, ran>>

\* A symbol becomes others.
Expand ==
  /\ Fetched /\ ~lex.abort /\ stack # << >>
  /\ \E rule \in RulesFor(Head(stack), lex.token) : stack' = rule[3] \o Tail(stack)
  /\ UNCHANGED <<typed, lex, indents, names, skipping, ran>>

\* The token is the one that is expected.
Accept ==
  /\ Fetched /\ ~lex.abort /\ stack # << >> /\ Fits(Head(stack), lex.token)
  /\ stack' = Tail(stack)
  /\ names' = IF lex.token = "NAME" THEN Append(names, lex.word) ELSE names
  /\ lex' = [lex EXCEPT !.token = "none"]
  /\ UNCHANGED <<typed, indents, skipping, ran>>

\* The end of the input is a command of its own, or an error.
End ==
  /\ Fetched /\ ~lex.abort /\ lex.token = "END"
  /\ stack # << >> => RulesFor(Head(stack), "END") = {}
  /\ Again
  /\ UNCHANGED <<typed, ran>>

SyntaxError ==
  /\ Fetched /\ ~lex.abort /\ lex.token # "END"
  /\ ~Fits(Head(stack), lex.token) /\ RulesFor(Head(stack), lex.token) = {}
  /\ Fault(lex)
  /\ UNCHANGED <<typed, ran>>

\* A name that nobody has defined, here one that begins with x, ends the
\* command that uses it.
Fails == \E name \in ToSet(names) : name # << >> /\ Head(name) = "x"

\* The action at the end of a command, which runs it.  If it fails, a token that
\* was read to see where it ends is gone.
Run ==
  /\ Acting /\ Head(stack) = "run"
  /\ ran' = IF names = << >> THEN ran ELSE Append(ran, names)
  /\ IF Fails THEN Again
     ELSE /\ stack' = Tail(stack) /\ names' = << >>
          /\ UNCHANGED <<lex, indents, skipping>>
  /\ UNCHANGED typed

Define ==
  /\ Acting /\ Head(stack) = "define"
  /\ ran' = Append(ran, names)
  /\ stack' = Tail(stack) /\ names' = << >>
  /\ UNCHANGED <<typed, lex, indents, skipping>>

PushIndent ==
  /\ Acting /\ Head(stack) = "push_indent"
  /\ indents' = Append(indents, lex.indent)
  /\ stack' = Tail(stack)
  /\ UNCHANGED <<typed, lex, names, skipping, ran>>

\* The end of a suite: the line that ends it has to be as far out as the one it
\* belongs to.
PopIndent ==
  /\ Acting /\ Head(stack) = "pop_indent"
  /\ IF lex.indent > Last(indents) THEN Fault([lex EXCEPT !.current = Last(indents)])
     ELSE /\ lex' = [lex EXCEPT !.current = Last(indents)]
          /\ stack' = Tail(stack) /\ indents' = Front(indents)
          /\ UNCHANGED <<names, skipping>>
  /\ UNCHANGED <<typed, ran>>

\* The end of a line that is not indented ends the skipping.
Skipped(s) == s.token = "NL" /\ s.current = 0

\* The rest of a command with an error is skipped.
SkipToken ==
  /\ skipping /\ lex.token \notin {"none", "wait"}
  /\ IF lex.token = "END" \/ Skipped(lex) THEN Again
     ELSE /\ lex' = [lex EXCEPT !.current = IF lex.token = "EXDENT" THEN lex.indent ELSE @,
                                !.ignoreNl = 0, !.token = "none"]
          /\ UNCHANGED <<stack, indents, names, skipping>>
  /\ UNCHANGED <<typed, ran>>

Waiting == lex.token = "wait"

\* The next line of the stored program or of the console
Type ==
  /\ Waiting
  /\ \E line \in Lines :
       /\ line.kind \in Ends => Stored
       /\ line.kind = "intr" => ~Stored
       /\ Allowed(Append(typed, line))
       /\ typed' = Append(typed, line)
       /\ lex' = [lex EXCEPT !.input = @ \o [i \in 1..line.indent |-> Space]
                                         \o Text(LineLetters[Len(typed) + 1])[line.kind],
                             !.token = "none"]
  /\ UNCHANGED <<stack, indents, names, skipping, ran>>

Next ==
  \/ Fetch \/ Interrupted \/ Expand \/ Accept \/ End \/ SyntaxError
  \/ Run \/ Define \/ PushIndent \/ PopIndent \/ SkipToken \/ Type

Spec == Init /\ [][Next]_vars
=============================================================================
