------------------------------ MODULE SnekGram ------------------------------
(***************************************************************************)
(* The actions of the grammar (src/snek-gram.ll, and the helpers at the    *)
(* end of src/snek-parse.c), which compile while they parse.               *)
(*                                                                         *)
(* What is parsed is a tree here; the table-driven parser calls the        *)
(* actions in the order of the text, which is a walk through the tree.     *)
(* Walk below is the sequence of calls, and Act what a call does to the    *)
(* buffer c.  Parentheses leave nothing.                                   *)
(*                                                                         *)
(*   expressions  <<"num", n>>, <<"str", char>>, <<"name", id>>,           *)
(*                <<"or" | "and", e, e>>, <<"not" | "uminus", e>>,         *)
(*                <<"compare", e, <<<<op, e>>, ...>>>>, <<op, e, e>>,      *)
(*                <<"array", e, e>>, <<"call", e, actuals>>,               *)
(*                <<"slice", e, first, end, stride>>, each an e or << >>,  *)
(*                <<"list" | "tuple" | "dict", actuals>>;                  *)
(*                an actual is <<"", e>> or <<"named", id, e>>             *)
(*   statements   <<"expr", e>>, <<"assign", op, e, e>>, <<"del", e>>,     *)
(*                <<"return", e>>, <<"return">>, <<"break">>,              *)
(*                <<"continue">>, <<"pass">>, <<"global", id>>,            *)
(*                <<"assert", e>>, <<"if", e, suite, tail>>,               *)
(*                <<"while", e, suite, else>>,                             *)
(*                <<"range", id, actuals, suite, else>>,                   *)
(*                <<"for", id, e, suite, else>>;                           *)
(*                a tail is << >>, <<"else", suite>> or                    *)
(*                <<"elif", e, suite, tail>>, an else << >> or a suite     *)
(*   commands     <<"stat", statement>>, <<"def", id, formals, suite>>;    *)
(*                a formal is <<id>> or <<id, e>>                          *)
(*                                                                         *)
(* An operator under `M: ...' is a faulty form of the definition below it. *)
(***************************************************************************)
EXTENDS SnekCode

NoId == 0                   \* SNEK_ID_NONE
AddLine(c) == AddOpWord(c, "line", 1)
PushPrev(c) == SetPush(c, c.prev)

----------------------------------------------------------------------------
(***************************************************************************)
(* Expressions                                                             *)
(***************************************************************************)
\* binop_first, binop_second and unop_second
BinopFirst(c, op) == PushVal(PushPrev(c), Number[op])
OpSecond(c) == AddOp(PopVal(c), OpOf(TopVal(c)))

\* bool_branch, and short_second, whose nop is there to carry a push
BoolBranch(c, op) == LET d == AddOpWord(c, op, 0) IN PushVal(d, d.prev)

\* M: the branch is left as it is
ShortSecondUnpatched(c) == AddOp(PopVal(c), "nop")

ShortSecond(c) == AddOp(PatchBranch(PopVal(c), TopVal(c), Current(c)), "nop")

\* The beginning of expr-cmp-p: from the second comparison on, the one before
\* becomes a chain operation that goes on to the end if it is false.  The value
\* stack has where the chain begins, or 0 before the first.
NextCompare(c, op) ==
  IF TopVal(c) = 0 THEN BinopFirst(PushVal(PopVal(c), c.prev), op)
  ELSE BinopFirst(AddForwardOp(DeletePrev(c), "cmp", c.code[c.prev + 1] + Number["chain_eq"]), op)

\* M: the beginning of the chain stays
EndCompareKept(c) ==
  LET first == TopVal(c)
  IN  IF first = 0 THEN PopVal(c)
      ELSE AddOp(PatchForward(c, first, Current(c), "cmp", Current(c)), "nop")

EndCompare(c) ==
  LET first == TopVal(c)
      d == PopVal(c)
  IN  IF first = 0 THEN d ELSE AddOp(PatchForward(d, first, Current(d), "cmp", Current(d)), "nop")

\* actual-p.  The value stack has the number of actuals, those by name times 256.
ActualName(c, id) == PushPrev(AddNumber(DeletePrev(AddOpWord(c, "id", id)), id))
Count(c, n) == PushPrev(PushVal(PopVal(c), TopVal(c) + n))
Actual(c) == IF TopVal(c) >= 256 THEN SyntaxError(c) ELSE Count(c, 1)

\* The end of a list, a tuple, a dictionary or a call; only a call has actuals
\* by name.
Compose(c, op) ==
  IF TopVal(c) >= 256 /\ op = "list" THEN SyntaxError(c)
  ELSE AddOpWord(PopVal(c), op, TopVal(c))

\* opt-tuple-p: the count is of what follows the first element.
TupleSize(c) ==
  IF TopVal(c) >= 256 THEN SyntaxError(c) ELSE PushVal(PopVal(c), TopVal(c) + 1)

\* The end of array-index: the value stack has whether it is a slice, and below
\* which of the three parts are there.
ArrayIndex(c) ==
  LET stride == PopVal(c)   end == PopVal(stride)   start == PopVal(end)
      bits == TopVal(start) + 2 * TopVal(end) + 4 * TopVal(stride)
  IN  IF TopVal(c) = 0 THEN AddOp(PopVal(c), "array")
      ELSE Extend(AddOp(PushPrev(PopVal(start)), "slice"), <<bits>>)

----------------------------------------------------------------------------
(***************************************************************************)
(* Statements                                                              *)
(***************************************************************************)
\* extract_lvalue: what is assigned to is what the last instruction loads.
Lvalue(c, op) ==
  LET last  == OpOf(c.code[c.prev + 1])
      id    == IF last = "id" THEN Word(c.code, c.prev + 1) ELSE NoId
      index == IF last = "array" /\ op # "del" THEN SetPush(c, c.prevPrev) ELSE c
  IN  IF last \notin {"id", "array"} THEN SyntaxError(c)
      ELSE DeletePrev(PushVal(PushVal(index, id), Number[op]))

AddOpLvalue(c) == AddOpWord(PopVal(PopVal(c)), OpOf(TopVal(c)), TopVal(PopVal(c)))

IfExpr(c) == LET d == AddOpWord(c, "branch_false", 0) IN PushVal(d, d.prev)

ElseBranch(c) == LET d == AddForward(c, "if") IN PushVal(d, Current(d))

\* The value stack has where the alternatives begin, and the branch to there.
PatchIf(c) == PatchBranch(PopVal(PopVal(c)), TopVal(PopVal(c)), TopVal(c))
EndIf(c) == PatchForward(PatchIf(c), TopVal(PopVal(c)), Current(c), "if", Current(c))

\* The branch back at the end of a loop; for and while leave where the loop
\* begins and where it is left.
LoopEnd(c) ==
  LET d == AddOpWord(c, "branch", 0) IN PushVal(PushVal(d, d.prev), Current(d))

\* M: the alternative is executed after a break
PatchLoopElse(c) ==
  LET elseAt == TopVal(c)
      c1 == PopVal(c)   end  == TopVal(c1)
      c2 == PopVal(c1)  loop == TopVal(c2)
      c3 == PopVal(c2)  top  == TopVal(c3)
      branches == PatchBranch(PatchBranch(PopVal(c3), loop, elseAt), end, top)
  IN  PatchForward(PatchForward(branches, loop, end, "continue", top),
                   loop, end, "break", elseAt)

\* patch_loop: break and continue are those of the loop's own suite.
PatchLoop(c) ==
  LET elseAt == TopVal(c)
      c1 == PopVal(c)   end  == TopVal(c1)
      c2 == PopVal(c1)  loop == TopVal(c2)
      c3 == PopVal(c2)  top  == TopVal(c3)
      branches == PatchBranch(PatchBranch(PopVal(c3), loop, elseAt), end, top)
  IN  PatchForward(PatchForward(branches, loop, end, "continue", top),
                   loop, end, "break", Current(c))

\* for_push_prevs: a for loop begins with its step, and is left there as well.
ForPrevs(c) == [PushVal(PushVal(c, c.prev), c.prev) EXCEPT !.depth = @ + 1]

ForRange(c) ==
  LET num == TopVal(c)   d == PopVal(c)
  IN  IF num >= 256 THEN SyntaxError(c) ELSE ForPrevs(AddInRange(PopVal(d), TopVal(d), num))

ForIn(c) == ForPrevs(AddInEnum(PopVal(c), TopVal(c)))
ForEnd(c) == [LoopEnd(c) EXCEPT !.depth = @ - 1]

\* A return at the end of the suite is left out.  So is one at the end of the
\* last alternative of an if; the branches around it then lead beyond the code.
EndDef(c) == IF OpOf(c.code[c.prev + 1]) = "return" THEN DeletePrev(c) ELSE AddOp(c, "null")

\* One call of an action
Act(c, act) ==
  CASE act[1] = "line" -> AddLine(c)
    [] act[1] = "push" -> PushVal(c, act[2])
    [] act[1] = "pop" -> PopVal(c)
    [] act[1] = "here" -> PushVal(c, Current(c))
    [] act[1] = "set_push" -> PushPrev(c)
    [] act[1] = "op" -> AddOp(c, act[2])
    [] act[1] = "word" -> AddOpWord(c, act[2], act[3])
    [] act[1] = "number" -> AddNumber(c, act[2])
    [] act[1] = "forward" -> AddForward(c, act[2])
    [] act[1] = "first" -> BinopFirst(c, act[2])
    [] act[1] = "second" -> OpSecond(c)
    [] act[1] = "short_first" -> BoolBranch(c, act[2])
    [] act[1] = "short_second" -> ShortSecond(c)
    [] act[1] = "compare" -> NextCompare(c, act[2])
    [] act[1] = "compared" -> EndCompare(c)
    [] act[1] = "actual_name" -> ActualName(c, act[2])
    [] act[1] = "count" -> Count(c, act[2])
    [] act[1] = "actual" -> Actual(c)
    [] act[1] = "compose" -> Compose(c, act[2])
    [] act[1] = "tuple_size" -> TupleSize(c)
    [] act[1] = "array_index" -> ArrayIndex(c)
    [] act[1] = "lvalue" -> Lvalue(c, act[2])
    [] act[1] = "op_lvalue" -> AddOpLvalue(c)
    [] act[1] = "if_expr" -> IfExpr(c)
    [] act[1] = "else" -> ElseBranch(c)
    [] act[1] = "patch_if" -> PatchIf(c)
    [] act[1] = "end_if" -> EndIf(c)
    [] act[1] = "loop_end" -> LoopEnd(c)
    [] act[1] = "patch_loop" -> PatchLoop(c)
    [] act[1] = "for_range" -> ForRange(c)
    [] act[1] = "for_in" -> ForIn(c)
    [] act[1] = "for_end" -> ForEnd(c)
    [] act[1] = "end_def" -> EndDef(c)
    [] act[1] = "syntax" -> SyntaxError(c)

----------------------------------------------------------------------------
(***************************************************************************)
(* The order of the calls: of expressions,                                 *)
(***************************************************************************)
\* A(x) for each x of s
WalkAll(A(_), s) == FoldLeft(LAMBDA walked, x : walked \o A(x), << >>, s)

RECURSIVE Expr(_)

ActualActs(actual) ==
  IF actual[1] = "named"
  THEN <<<<"actual_name", actual[2]>>>> \o Expr(actual[3]) \o <<<<"count", 256>>>>
  ELSE Expr(actual[2]) \o <<<<"actual">>>>

Actuals(es) == <<<<"push", 0>>>> \o WalkAll(ActualActs, es)

OptExpr(e) ==
  IF e = << >> THEN <<<<"push", 0>>>> ELSE <<<<"push", 1>>, <<"set_push">>>> \o Expr(e)

\* A part that stands before the first colon is counted after it is compiled.
Slice(start, end, stride) ==
  (IF start = << >> THEN <<<<"push", 0>>>> ELSE Expr(start) \o <<<<"push", 1>>>>)
    \o OptExpr(end) \o OptExpr(stride) \o <<<<"push", 1>>>>

Expr(e) ==
  CASE e[1] = "num" -> <<<<"number", e[2]>>>>
    [] e[1] = "str" -> <<<<"word", "string", e[2]>>>>
    [] e[1] = "name" -> <<<<"word", "id", e[2]>>>>
    [] e[1] \in {"not", "uminus"} ->
         <<<<"push", Number[e[1]]>>>> \o Expr(e[2]) \o <<<<"second">>>>
    [] e[1] \in {"or", "and"} ->
         Expr(e[2]) \o <<<<"short_first", IF e[1] = "or" THEN "branch_true" ELSE "branch_false">>>>
           \o Expr(e[3]) \o <<<<"short_second">>>>
    [] e[1] = "compare" ->
         Expr(e[2]) \o <<<<"push", 0>>>>
           \o WalkAll(LAMBDA x : <<<<"compare", x[1]>>>> \o Expr(x[2]) \o <<<<"second">>>>, e[3])
           \o <<<<"compared">>>>
    [] e[1] = "array" ->
         Expr(e[2]) \o <<<<"set_push">>>> \o Expr(e[3]) \o <<<<"push", 0>>, <<"array_index">>>>
    [] e[1] = "slice" ->
         Expr(e[2]) \o <<<<"set_push">>>> \o Slice(e[3], e[4], e[5]) \o <<<<"array_index">>>>
    [] e[1] = "call" ->
         Expr(e[2]) \o <<<<"set_push">>>> \o Actuals(e[3]) \o <<<<"compose", "call">>>>
    [] e[1] = "list" -> Actuals(e[2]) \o <<<<"compose", "list">>>>
    [] e = <<"tuple", << >>>> -> <<<<"push", 0>>, <<"compose", "tuple">>>>
    [] e[1] = "tuple" /\ e[2] # << >> ->
         Expr(e[2][1][2]) \o <<<<"set_push">>>> \o Actuals(Tail(e[2]))
           \o <<<<"tuple_size">>, <<"compose", "tuple">>>>
    [] e[1] = "dict" ->
         <<<<"push", 0>>>> \o WalkAll(LAMBDA x : Expr(x[2]) \o <<<<"count", 1>>>>, e[2])
           \o <<<<"compose", "dict">>>>
    [] OTHER -> Expr(e[2]) \o <<<<"first", e[1]>>>> \o Expr(e[3]) \o <<<<"second">>>>

----------------------------------------------------------------------------
(***************************************************************************)
(* of statements,                                                          *)
(***************************************************************************)
SmallStat(s) ==
  CASE s[1] = "expr" -> Expr(s[2])
    [] s[1] = "assign" ->
         Expr(s[3]) \o <<<<"lvalue", s[2]>>>> \o Expr(s[4]) \o <<<<"op_lvalue">>>>
    [] s[1] = "del" -> Expr(s[2]) \o <<<<"lvalue", "del">>, <<"op_lvalue">>>>
    [] s = <<"return">> -> <<<<"op", "null">>, <<"op", "return">>>>
    [] s[1] = "return" /\ Len(s) = 2 -> Expr(s[2]) \o <<<<"op", "return">>>>
    [] s[1] \in {"break", "continue"} -> <<<<"forward", s[1]>>>>
    [] s[1] = "pass" -> << >>
    [] s[1] = "global" -> <<<<"word", "global", s[2]>>>>
    [] s[1] = "assert" -> Expr(s[2]) \o <<<<"op", "assert">>>>

RECURSIVE Stat(_)

\* A suite on lines of its own: the indentation is kept on the value stack.
Suite(stats) == <<<<"push", 1>>>> \o WalkAll(Stat, stats) \o <<<<"pop">>>>

\* A loop without an alternative has no suite there.
ElseStat(stats) == IF stats = << >> THEN << >> ELSE Suite(stats)

RECURSIVE ElifStats(_)
ElifStats(tail) ==
  CASE tail = << >> -> <<<<"here">>>>
    [] tail # << >> /\ tail[1] = "else" -> <<<<"else">>>> \o Suite(tail[2])
    [] tail # << >> /\ tail[1] = "elif" ->
         <<<<"line">>, <<"else">>>> \o Expr(tail[2]) \o <<<<"if_expr">>>> \o Suite(tail[3])
           \o ElifStats(tail[4]) \o <<<<"patch_if">>>>

IfStat(s) ==
  Expr(s[2]) \o <<<<"if_expr">>>> \o Suite(s[3]) \o ElifStats(s[4]) \o <<<<"end_if">>>>

WhileStat(s) ==
  <<<<"here">>>> \o Expr(s[2]) \o <<<<"if_expr">>>> \o Suite(s[3]) \o <<<<"loop_end">>>>
    \o ElseStat(s[4]) \o <<<<"patch_loop">>>>

ForStat(s) ==
  <<<<"push", s[2]>>>>
    \o (IF s[1] = "range" THEN Actuals(s[3]) \o <<<<"for_range">>>>
        ELSE Expr(s[3]) \o <<<<"for_in">>>>)
    \o Suite(s[4]) \o <<<<"for_end">>>> \o ElseStat(s[5]) \o <<<<"patch_loop">>>>

Stat(s) ==
  <<<<"line">>>> \o (CASE s[1] = "if" -> IfStat(s)
                       [] s[1] = "while" -> WhileStat(s)
                       [] s[1] \in {"range", "for"} -> ForStat(s)
                       [] OTHER -> SmallStat(s))

----------------------------------------------------------------------------
(***************************************************************************)
(* and of commands                                                         *)
(***************************************************************************)
\* Formals with defaults come last.
FormalActs(formals, i) ==
  IF Len(formals[i]) = 2
  THEN Expr(formals[i][2]) \o <<<<"word", "assign_named", formals[i][1]>>>>
  ELSE IF \E j \in 1..i : Len(formals[j]) = 2 THEN <<<<"syntax">>>> ELSE << >>

\* A def leaves its name on the value stack.
Walk(cmd) ==
  IF cmd[1] = "stat" THEN Stat(cmd[2])
  ELSE <<<<"push", cmd[2]>>>> \o WalkAll(LAMBDA i : FormalActs(cmd[3], i), [i \in DOMAIN cmd[3] |-> i])
         \o Suite(cmd[4]) \o <<<<"end_def">>>>
=============================================================================
