------------------------------ MODULE Meaning ------------------------------
(***************************************************************************)
(* What a program of SnekGram's trees means, said without bytecode: an     *)
(* expression has a value, a statement a state and the way it ends.  This  *)
(* is what the compiler and the interpreter are to agree with.             *)
(*                                                                         *)
(* A state s has the globals G, the locals L of the calls in progress, the *)
(* heap H, the log, the value v of the last expression, whether there was  *)
(* an error, after which nothing more happens, and how the last statement  *)
(* ended: "next", "break", "continue" or "return".                         *)
(*                                                                         *)
(* All recursion is by Does(s, x): the state after x, where x is an        *)
(* expression, a statement, or a part that stands for the rest of one.     *)
(***************************************************************************)
EXTENDS SnekValues, FiniteSetsExt

CONSTANTS
  BuiltinPrint, BuiltinAbs, BuiltinNone, Underscore, \* as in SnekExec
  Enhanced        \* what an enhanced assignment applies: "assign_plus" :> "plus", ...

RECURSIVE Shown(_, _)
Shown(H, v) ==
  IF IsList(v)
  THEN <<H[v[2]].type, [i \in DOMAIN H[v[2]].data |-> Shown(H, H[v[2]].data[i])]>>
  ELSE v

Start == [G |-> << >>, L |-> << >>, H |-> << >>, log |-> << >>, v |-> Null, vs |-> << >>,
          err |-> FALSE, end |-> "next"]

Fails(s) == [s EXCEPT !.err = TRUE]
Gives(s, v) == [s EXCEPT !.v = v]
Took(s, result) == With(result, LAMBDA r : [s EXCEPT !.v = r.v, !.H = r.H, !.err = @ \/ r.err])

\* Names
Local(s) == IF s.L = << >> THEN << >> ELSE Last(s.L)
IsGlobal(s, id) == s.L = << >> \/ id \in Local(s).marked
Has(s, id) == IF s.L = << >> THEN FALSE ELSE id \in DOMAIN Local(s).vars
Put(f, id, v) == (id :> v) @@ f

Assigned(s, id, v) ==
  IF IsGlobal(s, id) THEN [s EXCEPT !.G = Put(@, id, v)]
  ELSE [s EXCEPT !.L[Len(s.L)].vars = Put(@, id, v)]

Lookup(s, id) ==
  CASE Has(s, id) -> Gives(s, Local(s).vars[id])
    [] ~Has(s, id) /\ id \in DOMAIN s.G -> Gives(s, s.G[id])
    [] ~Has(s, id) /\ id \notin DOMAIN s.G /\ id = BuiltinNone -> Gives(s, Null)
    [] ~Has(s, id) /\ id \notin DOMAIN s.G /\ id \in {BuiltinPrint, BuiltinAbs} ->
         Gives(s, Builtin(id))
    [] OTHER -> Fails(s)

----------------------------------------------------------------------------
\* The elements of data that a slice takes: from start by stride, as long as
\* they are before the end and there is an element.  A part is << >> if not given.
Slice(data, parts) ==
  LET n == Len(data)
      stride == IF parts[3] = << >> THEN 1 ELSE parts[3][1]
      At(p) == IF p < 0 THEN p + n ELSE p
      low   == IF parts[1] = << >> \/ At(parts[1][1]) < 0 THEN 0 ELSE At(parts[1][1])
      high  == IF parts[1] = << >> \/ At(parts[1][1]) >= n THEN n - 1 ELSE At(parts[1][1])
      start == IF stride > 0 THEN low ELSE high
      Before(p) == \/ parts[2] = << >>
                   \/ IF stride > 0 THEN p < At(parts[2][1]) ELSE p > At(parts[2][1])
      taken == {p \in 0..(n - 1) : Before(p) /\ \E k \in 0..n : p = start + k * stride}
      order == SetToSortSeq(taken, LAMBDA p, q : IF stride > 0 THEN p < q ELSE p > q)
  IN  [i \in DOMAIN order |-> data[order[i] + 1]]

----------------------------------------------------------------------------
(***************************************************************************)
(* Expressions                                                             *)
(***************************************************************************)
RECURSIVE Does(_, _)

Eval(s, e) == Does(s, e)
Suite(s, stats) == Does(s, <<"suite", stats>>)

\* All of es, in order: the values are s.vs.
EvalAll(s, es) == Does([s EXCEPT !.vs = << >>], <<"all", es>>)

Rest(s, es) ==
  IF es = << >> THEN s
  ELSE With(Eval(s, Head(es)), LAMBDA r :
         Does([r EXCEPT !.vs = Append(s.vs, r.v)], <<"all", Tail(es)>>))

\* a < b < c is a < b and b < c, but b is evaluated once.  A value that is false
\* ends it.
Comparisons(s, rest) ==
  With(Eval(s, rest[1][2]), LAMBDA r :
    IF r.err THEN r
    ELSE With(Took(r, Binary(r.H, s.v, rest[1][1], r.v, FALSE)), LAMBDA t :
           IF t.err \/ Len(rest) = 1 \/ ~True(t.H, t.v) THEN t
           ELSE Does(Gives(t, r.v), <<"comparisons", Tail(rest)>>)))

\* The default of a formal is evaluated at each call, whether it is needed or not.
Default(s, formal) ==
  IF Len(formal) = 1 THEN s
  ELSE With(Eval(s, formal[2]), LAMBDA r :
         IF r.err \/ Has(r, formal[1]) THEN r ELSE Assigned(r, formal[1], r.v))

Defaults(s, formals) ==
  IF formals = << >> THEN s
  ELSE With(Default(s, Head(formals)), LAMBDA t : Does(t, <<"defaults", Tail(formals)>>))

\* A call of f with the values given for ids
CallFunc(s, f, ids, given) ==
  LET bound == [id \in ToSet(ids) |-> given[CHOOSE i \in DOMAIN given : ids[i] = id]]
      Left(t) == [t EXCEPT !.L = Front(@), !.end = "next"]
  IN  With(Does([s EXCEPT !.L = Append(@, [vars |-> bound, marked |-> {}])],
                <<"defaults", f.formals>>),
           LAMBDA enter : With(Suite(enter, f.suite), LAMBDA t :
             CASE t.err \/ t.end \in {"break", "continue"} -> Fails(t)
               [] ~t.err /\ t.end = "return" -> Left(t)
               [] ~t.err /\ t.end = "next" -> Gives(Left(t), Null)))

\* A call of f; n of the values in t.vs are by position, those for named by name.
Apply(t, f, n, named) ==
  LET all   == n + Len(named)
      x     == t.vs[1]
      names == f[2].formals
      ids   == [i \in 1..n |-> names[i][1]] \o [i \in DOMAIN named |-> named[i][2]]
      least == Cardinality({i \in DOMAIN names : Len(names[i]) = 1})
  IN  CASE t.err -> t
        [] ~t.err /\ f = Builtin(BuiltinPrint) ->
             [t EXCEPT !.v = Null, !.log = Append(@, [i \in 1..n |-> Shown(t.H, t.vs[i])])]
        [] ~t.err /\ f = Builtin(BuiltinAbs) ->
             IF all = 1 /\ n = 1 /\ TypeOf(x) = "float"
             THEN Gives(t, Float(IF x[2] < 0 THEN -x[2] ELSE x[2])) ELSE Fails(t)
        [] ~t.err /\ TypeOf(f) = "func" ->
             IF /\ n <= Len(names) /\ all >= least /\ IsInjective(ids)
                /\ ToSet(ids) \subseteq {names[i][1] : i \in DOMAIN names}
             THEN CallFunc(t, f[2], ids, t.vs) ELSE Fails(t)
        [] OTHER -> Fails(t)

Call(s, e) ==
  LET named == SelectSeq(e[3], LAMBDA x : x[1] = "named")
      plain == SelectSeq(e[3], LAMBDA x : x[1] # "named")
      all   == plain \o named
  IN  With(Eval(s, e[2]), LAMBDA f :
        With(EvalAll(f, [i \in DOMAIN all |-> Last(all[i])]), LAMBDA t :
          Apply(t, f.v, Len(plain), named)))

SliceOf(s, e) ==
  LET parts == SelectSeq(<<e[3], e[4], e[5]>>, LAMBDA p : p # << >>)
      At(t, i) == LET k == Cardinality({j \in 3..i : e[j] # << >>})
                  IN  IF e[i] = << >> THEN << >> ELSE <<t.vs[k + 1][2]>>
      Taken(t, v, all) ==
        CASE all[3] = <<0>> -> Fails(t)
          [] all[3] # <<0>> /\ TypeOf(v) = "string" -> Gives(t, Text(Slice(v[2], all)))
          [] all[3] # <<0>> /\ IsList(v) ->
               Took(t, NewList(t.H, t.H[v[2]].type, Slice(t.H[v[2]].data, all)))
          [] OTHER -> Gives(t, v)
  IN  With(EvalAll(s, <<e[2]>> \o parts), LAMBDA t :
        IF t.err \/ (\E i \in 2..Len(t.vs) : TypeOf(t.vs[i]) # "float") THEN Fails(t)
        ELSE Taken(t, t.vs[1], <<At(t, 3), At(t, 4), At(t, 5)>>))

\* An operator of one operand
One(s, e) ==
  With(Eval(s, e[2]), LAMBDA l :
    CASE l.err -> l
      [] ~l.err /\ e[1] = "not" -> Gives(l, Bool(~True(l.H, l.v)))
      [] ~l.err /\ e[1] = "uminus" ->
           IF TypeOf(l.v) # "float" THEN Fails(l) ELSE Gives(l, Float(-l.v[2]))
      [] ~l.err /\ e[1] = "or" -> IF True(l.H, l.v) THEN l ELSE Eval(l, e[3])
      [] ~l.err /\ e[1] = "and" -> IF True(l.H, l.v) THEN Eval(l, e[3]) ELSE l
      [] ~l.err /\ e[1] = "compare" -> Does(l, <<"comparisons", e[3]>>))

----------------------------------------------------------------------------
(***************************************************************************)
(* Statements                                                              *)
(***************************************************************************)
Ends(s, how) == [s EXCEPT !.end = how]

\* An operator that fails leaves None.
AssignName(s, op, name, e) ==
  With(Eval(s, e), LAMBDA t :
    IF t.err THEN t
    ELSE IF op = "assign" THEN Assigned(t, name, t.v)
    ELSE IF \/ t.L # << >> /\ ~Has(t, name) /\ name \notin Local(t).marked
            \/ ~(Has(t, name) \/ name \in DOMAIN t.G)
         THEN Fails(t)
    ELSE With(Binary(t.H, Lookup(t, name).v, Enhanced[op], t.v, TRUE), LAMBDA sum :
           Assigned(Took(t, sum), name, sum.v)))

\* A new key of a dictionary is there before the operator is applied.
StoreElement(t, op, l, key, v) ==
  With(ListRef(t.H, l[2], key, TRUE), LAMBDA r :
    IF t.H[l[2]].type = "tuple" \/ r.place = 0 THEN Fails(t)
    ELSE With(IF op = "assign" THEN Result(v, r.H)
              ELSE Binary(r.H, r.H[l[2]].data[r.place], Enhanced[op], v, TRUE), LAMBDA new :
           Took(t, [new EXCEPT !.H[l[2]].data[r.place] = new.v])))

AssignElement(s, op, target, e) ==
  With(EvalAll(s, <<target[2], target[3], e>>), LAMBDA t :
    IF t.err \/ ~IsList(t.vs[1]) THEN Fails(t)
    ELSE StoreElement(t, op, t.vs[1], t.vs[2], t.vs[3]))

DeleteElement(s, target) ==
  With(EvalAll(s, <<target[2], target[3]>>), LAMBDA t :
    IF t.err \/ ~IsList(t.vs[1]) THEN Fails(t) ELSE Took(t, ListDel(t.H, t.vs[1][2], t.vs[2])))

\* Whether a loop goes on with iteration k, and the state it then begins with.
\* In a range the name gets the step added, from one step before the first; of
\* a list, the elements count that are there when their turn comes.
Again(s, loop, k) ==
  LET i     == Lookup(s, loop.id)
      value == i.v[2] + loop.step
      of    == s.H[loop.of[2]]
      data  == IF ~IsList(loop.of) THEN [j \in DOMAIN loop.of[2] |-> Text(<<loop.of[2][j]>>)]
               ELSE [j \in 1..PolyLen(s.H, loop.of) |->
                       of.data[IF of.type = "dict" THEN 2 * j - 1 ELSE j]]
  IN  CASE loop.type = "while" ->
             With(Eval(s, loop.test), LAMBDA t : [s |-> t, goes |-> True(t.H, t.v)])
        [] loop.type = "range" /\ i.err -> [s |-> s, goes |-> FALSE]
        [] loop.type = "range" /\ ~i.err ->
             IF TypeOf(i.v) # "float" THEN [s |-> Fails(s), goes |-> FALSE]
             ELSE [s |-> Assigned(s, loop.id, Float(value)),
                   goes |-> IF loop.step > 0 THEN value < loop.limit ELSE value > loop.limit]
        [] loop.type = "for" ->
             IF k > Len(data) THEN [s |-> s, goes |-> FALSE]
             ELSE [s |-> Assigned(s, loop.id, data[k]), goes |-> TRUE]

\* The alternative is for a loop that was not left by break.
Loop(s, loop, k) ==
  With(Again(s, loop, k), LAMBDA t :
    IF t.s.err THEN t.s
    ELSE IF ~t.goes THEN Suite(t.s, loop.else)
    ELSE With(Suite(t.s, loop.suite), LAMBDA u :
           CASE u.err \/ u.end = "return" -> u
             [] ~u.err /\ u.end = "break" -> Ends(u, "next")
             [] ~u.err /\ u.end \in {"next", "continue"} ->
                  With(Ends(u, "next"), LAMBDA v : Does(v, <<"loop", loop, k + 1>>))))

\* The values t.vs of a range are where it ends, or where it begins, where it ends
\* and its step.
RangeLoop(s, st) ==
  LET n == Len(st[3])
      First(t) == IF n = 1 THEN 0 ELSE t.vs[1][2]
      Step(t)  == IF n = 3 THEN t.vs[3][2] ELSE 1
      Limit(t) == t.vs[IF n = 1 THEN 1 ELSE 2][2]
  IN  With(EvalAll(s, [i \in 1..n |-> st[3][i][2]]), LAMBDA t :
        IF t.err \/ n \notin 1..3 \/ (\E i \in 1..n : TypeOf(t.vs[i]) # "float") THEN Fails(t)
        ELSE IF Step(t) = 0 THEN Fails(t)
        ELSE With(Assigned(t, st[2], Float(First(t) - Step(t))), LAMBDA u :
               Does(u, <<"loop", [type |-> "range", id |-> st[2], step |-> Step(t),
                                  limit |-> Limit(t), suite |-> st[4], else |-> st[5]], 1>>)))

ForLoop(s, st) ==
  With(Eval(s, st[3]), LAMBDA t :
    IF t.err \/ TypeOf(t.v) \notin {"list", "string"} THEN Fails(t)
    ELSE Does(t, <<"loop", [type |-> "for", id |-> st[2], of |-> t.v,
                            suite |-> st[4], else |-> st[5]], 1>>))

WhileLoop(s, st) ==
  Does(s, <<"loop", [type |-> "while", test |-> st[2], suite |-> st[3], else |-> st[4]], 1>>)

If(s, e, suite, tail) ==
  With(Eval(s, e), LAMBDA t :
    CASE t.err \/ (~True(t.H, t.v) /\ tail = << >>) -> t
      [] ~t.err /\ True(t.H, t.v) -> Suite(t, suite)
      [] OTHER -> Does(t, tail))

Global(s, id) ==
  IF s.L = << >> THEN s
  ELSE [s EXCEPT !.L[Len(s.L)] =
          [vars |-> [x \in DOMAIN @.vars \ {id} |-> @.vars[x]], marked |-> @.marked \cup {id}]]

Assertion(s, e) ==
  With(Eval(s, e), LAMBDA t : IF t.err \/ ~True(t.H, t.v) THEN Fails(t) ELSE Gives(t, Null))

Statements(s, stats) ==
  IF stats = << >> \/ s.end # "next" THEN s
  ELSE With(Does(s, Head(stats)), LAMBDA t : Suite(t, Tail(stats)))

DoesNext(s, x) ==
  CASE x[1] = "num" -> Gives(s, Float(x[2]))
    [] x[1] = "str" -> Gives(s, Text(<<x[2]>>))
    [] x[1] = "name" -> Lookup(s, x[2])
    [] x[1] \in {"not", "uminus", "or", "and", "compare"} -> One(s, x)
    [] x[1] = "call" -> Call(s, x)
    [] x[1] = "slice" -> SliceOf(s, x)
    [] x[1] \in {"list", "tuple", "dict"} ->
         With(EvalAll(s, [i \in DOMAIN x[2] |-> x[2][i][2]]), LAMBDA t :
           IF t.err THEN t ELSE Took(t, ListImm(t.H, x[1], t.vs)))
    [] x[1] = "all" -> Rest(s, x[2])
    [] x[1] = "comparisons" -> Comparisons(s, x[2])
    [] x[1] = "defaults" -> Defaults(s, x[2])
    [] x[1] = "expr" -> Eval(s, x[2])
    [] x[1] = "assign" ->
         IF x[3][1] = "array" THEN AssignElement(s, x[2], x[3], x[4])
         ELSE AssignName(s, x[2], x[3][2], x[4])
    [] x[1] = "del" ->
         IF x[2][1] = "array" THEN DeleteElement(s, x[2])
         ELSE [s EXCEPT !.G = [id \in DOMAIN @ \ {x[2][2]} |-> @[id]]]
    [] x[1] = "return" -> Ends(IF Len(x) = 1 THEN Gives(s, Null) ELSE Eval(s, x[2]), "return")
    [] x[1] \in {"break", "continue"} -> Ends(s, x[1])
    [] x[1] = "pass" -> s
    [] x[1] = "global" -> Global(s, x[2])
    [] x[1] = "assert" -> Assertion(s, x[2])
    [] x[1] \in {"if", "elif"} -> If(s, x[2], x[3], x[4])
    [] x[1] \in {"else", "suite"} -> Statements(s, x[2])
    [] x[1] = "while" -> WhileLoop(s, x)
    [] x[1] = "range" -> RangeLoop(s, x)
    [] x[1] = "for" -> ForLoop(s, x)
    [] x[1] = "loop" -> Loop(s, x[2], x[3])
    [] OTHER ->
         With(EvalAll(s, <<x[2], x[3]>>), LAMBDA t :
           IF t.err THEN t ELSE Took(t, Binary(t.H, t.vs[1], x[1], t.vs[2], FALSE)))

Does(s, x) == With(s, LAMBDA t : IF t.err THEN t ELSE DoesNext(t, x))

----------------------------------------------------------------------------
(***************************************************************************)
(* Commands                                                                *)
(***************************************************************************)
ERROR == <<"error">>

\* Statements whose value is shown, when it is not None
Shows(st) == st[1] \in {"expr", "return"}

\* An error, or a break or continue outside of loops, ends a command, and calls
\* in progress with it.  So does a return.
Statement(s, st) ==
  With(Does(Gives(s, Null), st), LAMBDA t :
    LET ok == ~t.err /\ t.end \in {"next", "return"}
        shown == ok /\ Shows(st) /\ t.v # Null
        entry == IF shown THEN <<<<"value", Shown(t.H, t.v)>>>>
                 ELSE IF ok THEN << >> ELSE <<ERROR>>
    IN  [t EXCEPT !.log = @ \o entry, !.err = FALSE, !.end = "next", !.L = << >>,
                  !.G = IF shown THEN Put(@, Underscore, t.v) ELSE @])

Definition(s, id, formals, suite) ==
  IF \E i, j \in DOMAIN formals : i < j /\ Len(formals[i]) = 2 /\ Len(formals[j]) = 1
  THEN [s EXCEPT !.log = Append(@, ERROR)]
  ELSE [s EXCEPT !.G = Put(@, id, <<"func", [formals |-> formals, suite |-> suite]>>)]

RECURSIVE Commands(_, _)
Commands(s, cmds) ==
  IF cmds = << >> THEN s
  ELSE With(IF cmds[1][1] = "stat" THEN Statement(s, cmds[1][2])
            ELSE Definition(s, cmds[1][2], cmds[1][3], cmds[1][4]), LAMBDA t :
         Commands(t, Tail(cmds)))

\* What a program shows
Log(program) == Commands(Start, program).log
=============================================================================
