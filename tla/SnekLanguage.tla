---------------------------- MODULE SnekLanguage ----------------------------
(***************************************************************************)
(* Programs for SnekExec, and what must be true of their execution: the    *)
(* bytecode that is executed does what the program means (Meaning), leaves *)
(* nothing on the stacks and comes to its end.                             *)
(***************************************************************************)
EXTENDS SnekExec

Means == INSTANCE Meaning
           WITH Enhanced <- [op \in EnhancedOps |-> Plain(op)]

----------------------------------------------------------------------------
(***************************************************************************)
(* Programs                                                                *)
(***************************************************************************)
\* Names that are no builtins
X == 11  Y == 12  F == 13  L == 14

Num(n) == <<"num", n>>
Var(id) == <<"name", id>>
Given(es) == [i \in DOMAIN es |-> <<"", es[i]>>]
CallOf(id, es) == <<"call", Var(id), Given(es)>>
Show(es) == <<"expr", CallOf(BuiltinPrint, es)>>
Assign(id, e) == <<"assign", "assign", Var(id), e>>
ListOf(es) == <<"list", Given(es)>>
Is(id, n) == <<"compare", Var(id), <<<<"eq", Num(n)>>>>>>
Below(id) == <<"compare", Var(id), <<<<"lt", Num(2)>>>>>>
Increase(id, n) == <<"assign", "assign_plus", Var(id), Num(n)>>
If1(e, suite) == <<"if", e, suite, << >>>>

Each(stats) == [i \in DOMAIN stats |-> <<"stat", stats[i]>>]

\* def f(x): print(x); return x.  What is called and in which order shows.
Tell == <<"def", F, <<<<X>>>>, <<Show(<<Var(X)>>), <<"return", Var(X)>>>>>>
Told(n) == CallOf(F, <<Num(n)>>)

\* Loops over 0, 1, 2 in each form; a while counts up at its beginning.
Loop(kind, id, suite, else) ==
  CASE kind = "range" -> <<"range", id, Given(<<Num(3)>>), suite, else>>
    [] kind = "for" -> <<"for", id, ListOf(<<Num(0), Num(1), Num(2)>>), suite, else>>
    [] kind = "while" ->
         <<"while", Below(id), <<Increase(id, 1)>> \o suite, else>>

Kinds == {"range", "for", "while"}
Elses == {<< >>, <<Show(<<Num(9)>>)>>}

\* Suites of loops over id
Bodies(id) ==
  {<<s, Show(<<Var(id)>>)>> : s \in {<<"pass">>, <<"break">>, <<"continue">>}
                                      \cup {If1(Is(id, 1), <<t>>) : t \in {<<"break">>, <<"continue">>}}
                                      \cup {<<"if", Is(id, 1), <<<<"break">>>>, <<"else", <<<<"continue">>>>>>>>}}

LoopPrograms ==
  {Each(<<Assign(X, Num(0)), Loop(k, X, b, e), Show(<<Var(X)>>)>>) :
     k \in Kinds, b \in Bodies(X), e \in Elses}
  \cup
  {Each(<<Assign(X, Num(0)),
           Loop(k, X, <<Assign(Y, Num(0)), Loop(j, Y, b, e), s, Show(<<Var(X), Var(Y)>>)>>, e)>>) :
     k \in Kinds, j \in Kinds, b \in Bodies(Y), e \in Elses,
     s \in {<<"pass">>, If1(Is(X, 1), <<<<"break">>>>), If1(Is(Y, 0), <<<<"continue">>>>)}}

\* Loops with two conditions
WhilePrograms ==
  {Each(<<Assign(X, Num(0)), Assign(Y, Num(0)),
          <<"while", <<op, Below(X), Below(Y)>>, <<Increase(X, 1), s, Increase(Y, 1)>>, e>>,
          Show(<<Var(X), Var(Y)>>)>>) :
     op \in {"and", "or"}, e \in Elses,
     s \in {If1(Is(X, 1), <<<<"continue">>>>), If1(Is(Y, 1), <<<<"break">>>>),
            <<"del", Var(Y)>>}}

\* Loops that a return leaves, called within an expression
ReturnPrograms ==
  {<< <<"def", F, <<<<L>>>>,
        <<Assign(X, Num(-1)),
          Loop(k, X, <<If1(Is(X, 1), <<r>>), Show(<<Var(X)>>)>>, e),
          Show(<<Var(L)>>)>>>>,
      <<"stat", Show(<<<<"plus", ListOf(<<CallOf(F, <<Num(7)>>)>>), ListOf(<<Num(8)>>)>>>>)>> >> :
     k \in Kinds, e \in Elses, r \in {<<"return">>, <<"return", Var(L)>>}}

\* Conditions, with what they evaluate
Order == {"eq", "ne", "gt", "lt", "ge", "le"}
Chain2 == {<<"compare", Told(0), <<<<op, Told(1)>>, <<op2, Told(n)>>>>>> :
             op \in Order, op2 \in Order, n \in {0, 1}}
Chain3 == {<<"compare", Told(0), <<<<"lt", Told(1)>>, <<op, Told(1)>>, <<"ne", Told(0)>>>>>> :
             op \in Order}
Logic == {<<a1, <<a2, Told(i), Told(j)>>, Told(k)>> :
            a1 \in {"and", "or"}, a2 \in {"and", "or"}, i \in 0..1, j \in 0..1, k \in 0..1}
         \cup {<<"not", <<a1, Told(i), <<"not", Told(j)>>>>>> :
                 a1 \in {"and", "or"}, i \in 0..1, j \in 0..1}

Uses(e) == {<<"expr", e>>, Show(<<<<"plus", Num(1), e>>>>), If1(e, <<Show(<<Num(5)>>)>>)}

ConditionPrograms ==
  {<<Tell, <<"stat", s>>>> : s \in UNION {Uses(e) : e \in Chain2 \cup Chain3 \cup Logic}}
  \cup
  {<<Tell, <<"stat", <<"if", Told(i), <<Show(<<Num(1)>>)>>,
                       <<"elif", Told(j), <<Show(<<Num(2)>>)>>,
                         <<"elif", Told(k), <<Show(<<Num(3)>>)>>, e>>>>>>>>>> :
     i \in 0..1, j \in 0..1, k \in 0..1, e \in {<< >>, <<"else", <<Show(<<Num(4)>>)>>>>}}

\* Slices of a list, a tuple and a string.  Long numbers are floats.
SlicePrograms ==
  {Each(<<Assign(L, l), <<"expr", <<"slice", Var(L), p, q, r>>>>>>) :
     l \in {ListOf(<<Num(5), Num(6), Num(200)>>), <<"plus", <<"str", 65>>, <<"str", 66>>>>},
     p \in {<< >>} \cup {Num(n) : n \in {-4, -3, -1, 0, 1, 3}},
     q \in {<< >>} \cup {Num(n) : n \in {-4, -2, 0, 2, 4}},
     r \in {<< >>} \cup {Num(n) : n \in -2..2}}

\* Changes to a list, a tuple and a dictionary that also has another name
Element(n) == <<"array", Var(L), n>>
Entries(es) == <<"dict", Given(es)>>
Containers == {ListOf(<<Num(1), Num(2)>>), <<"tuple", Given(<<Num(1), Num(2)>>)>>,
               Entries(<<Num(1), Num(5), Num(0), Num(6)>>), Entries(<< >>)}

Changes ==
  {<<"assign", op, Element(i), v>> :
     op \in {"assign", "assign_plus", "assign_times"}, i \in {Num(-1), Num(1), <<"str", 65>>},
     v \in {Num(3), ListOf(<<Num(4)>>)}}
  \cup {<<"del", Element(i)>> : i \in {Num(-3), Num(0), Num(1)}}
  \cup {<<"assign", op, Var(L), v>> :
          op \in {"assign", "assign_plus", "assign_minus"}, v \in {ListOf(<<Num(4)>>), Var(L)}}
  \cup {<<"for", X, Var(L), <<Show(<<Var(X)>>), s>>, << >>>> :
          s \in {<<"pass">>, <<"assign", "assign", Element(Var(X)), Num(0)>>, <<"del", Element(Var(X))>>}}
  \cup {Show(<<<<"compare", Num(1), <<<<op, Var(L)>>>>>>>>) : op \in {"in", "not_in"}}

ChangePrograms ==
  {Each(<<Assign(L, l), Assign(Y, Var(L)), s, t, Show(<<Var(L), Var(Y)>>)>>) :
     l \in Containers, s \in Changes, t \in {<<"pass">>, <<"del", Element(Num(1))>>}}

\* Calls with actuals by position and by name, and formals with defaults; with
\* global names and errors
CallPrograms ==
  {<< <<"def", F, formals, <<g, <<"assign", op, Var(Y), Num(4)>>, Show(<<Var(X), Var(Y)>>)>>>>,
      <<"stat", Assign(Y, Num(1))>>,
      <<"stat", <<"expr", <<"call", Var(F), actuals>>>>>>,
      <<"stat", Show(<<Var(Y)>>)>> >> :
     formals \in {<<<<X>>, <<Y>>>>, <<<<X>>, <<Y, <<"plus", Var(X), Num(1)>>>>>>,
                  <<<<X, Var(Y)>>>>, <<<<X, Num(1)>>, <<Y>>>>},
     g \in {<<"pass">>, <<"global", Y>>, <<"break">>, <<"assert", Is(X, 7)>>},
     op \in {"assign", "assign_plus"},
     actuals \in {<< >>, Given(<<Num(7)>>), Given(<<Num(7), Num(8)>>),
                  <<<<"", Num(7)>>, <<"named", Y, Num(8)>>>>,
                  <<<<"named", Y, Num(8)>>, <<"named", X, Num(7)>>>>,
                  <<<<"named", X, Told(1)>>>>}}

\* Recursion, and calls where a value is expected
NestedPrograms ==
  {<< <<"def", F, <<<<X>>>>,
        <<If1(<<"compare", Var(X), <<<<"le", Num(0)>>>>>>, <<<<"return", ListOf(<< >>)>>>>),
          <<"return", <<"plus", CallOf(F, <<<<"minus", Var(X), Num(1)>>>>), ListOf(<<e>>)>>>>>>>>,
      <<"stat", <<"expr", CallOf(F, <<n>>)>>>>,
      <<"stat", <<"expr", <<"not", <<"array", CallOf(F, <<Num(2)>>), Num(i)>>>>>>>> >> :
     n \in {Num(0), Num(3), <<"uminus", CallOf(BuiltinAbs, <<Num(-1)>>)>>, ListOf(<< >>)},
     e \in {Var(X), <<"tuple", Given(<<Var(X)>>)>>, Var(Y), <<"uminus", Var(X)>>}, i \in -3..2}

AllPrograms ==
  LoopPrograms \cup WhilePrograms \cup ReturnPrograms \cup ConditionPrograms \cup SlicePrograms
    \cup ChangePrograms \cup CallPrograms \cup NestedPrograms

----------------------------------------------------------------------------
(***************************************************************************)
(* Properties                                                              *)
(***************************************************************************)
\* Numbers of what code reads from the stack, but for its own operation
Needs ==
  CASE Op \in BinaryOps \cup ChainOps -> 1
    [] Op \in {"list", "tuple", "dict", "range_start"} -> Operand
    [] Op = "slice" -> 1 + (code[ip + 2] \div 4) + ((code[ip + 2] % 4) \div 2) + (code[ip + 2] % 2)
    [] Op \in {"assign"} \cup EnhancedOps -> IF Operand = NoId THEN 2 ELSE 0
    [] Op = "del" -> IF Operand = NoId THEN 1 ELSE 0
    [] Op = "call" -> 1 + Positional + 2 * Named
    [] OTHER -> 0

Base == IF frames = << >> THEN 0 ELSE Last(frames).base

\* An instruction takes no more from the stack than the block it belongs to has
\* pushed; where a statement begins, and where a block ends, everything the
\* block pushed is taken.  (snek_stack_pick and snek_stack_drop look at nothing
\* unless SNEK_DEBUG is defined; break and return leave loops by plain branches.)
StackDiscipline ==
  code # << >> =>
    IF ip < Len(code)
    THEN /\ Needs <= Len(stack) - Base
         /\ Op = "line" => Len(stack) = Base
    ELSE Len(stack) = Base

\* What is executed is where the scan of the code finds an instruction: the scan
\* patches forward branches and finds the strings that the code keeps, by a
\* table of sizes that the interpreter does not use.
OnInstruction ==
  code # << >> => ip \in ScanFrom(code, 0, Len(code)) \cup {Len(code)}

\* The parser's value stack has nothing left of a command, but for the name of
\* a function, and every for loop was left: otherwise the next command runs into
\* the end of the stack, where pushes are lost.
ParserStackKept ==
  acts = END /\ ~compile.bad =>
    /\ compile.depth = 0
    /\ Len(compile.vals) = (IF Head(todo)[1] = "def" THEN 1 ELSE 0)

\* When a program has come to its end it has shown what it means.
Agreement == Idle => log = Means!Log(program)

\* Every program comes to its end: each of its loops does, and the branches
\* that are compiled for them lead out.
Ends == <>Idle
=============================================================================
