------------------------------ MODULE SnekExec ------------------------------
(***************************************************************************)
(* The interpreter (src/snek-exec.c): commands are compiled and executed   *)
(* one by one, as the parser comes to them.                                *)
(*                                                                         *)
(* A step calls one action of the grammar or executes one instruction.  The variables of a frame are a        *)
(* function on ids here, and a call binds its actuals at once; how frames  *)
(* and calls do this is the subject of SnekFrame.  What the program shows  *)
(* is kept in log.  Snek is interactive: an error ends the command only.   *)
(*                                                                         *)
(* An operator under `M: ...' is a faulty form of the definition below it. *)
(***************************************************************************)
EXTENDS SnekGram, SnekValues

CONSTANTS
  StackSize,      \* SNEK_STACK
  Omitted,        \* SNEK_SOFFSET_NONE
  Programs,       \* sequences of commands, as SnekGram has them
  BuiltinPrint,   \* ids of builtins: print,
  BuiltinAbs,     \* ... abs, which takes one number,
  BuiltinNone,    \* ... and the value None
  Underscore      \* SNEK_BUILTIN__

ASSUME StackAssumption == StackSize \in Nat

VARIABLES
  program,   \* all commands
  todo,      \* those that are still to be read, the one in progress first
  acts,      \* what is still to call for it, << >> if none is in progress
  compile,   \* snek_compile, the code buffer, and the parser's value stack
  shows,     \* snek_print_val
  code,      \* the code in snek_code, << >> between commands
  ip,        \* the offset of the next instruction
  a,         \* snek_a
  stack,     \* snek_stack, up to snek_stackp
  abort,     \* snek_abort, when it was set after the check for it
  frames,    \* snek_frame, the innermost last
  globals,   \* snek_globals
  heap,      \* lists
  log        \* what was printed, and the errors

vars == <<program, todo, acts, compile, shows, code, ip, a, stack, abort, frames, globals, heap, log>>

Sliced == INSTANCE SnekSlice

\* SNEK_GLOBAL
GLOBAL == Builtin(1001)
Func(c, formals, required) ==
  <<"func", [code |-> c, formals |-> formals, required |-> required]>>

\* A value as it is printed: lists with what is in them
RECURSIVE Shown(_, _)
Shown(H, v) ==
  IF IsList(v)
  THEN <<H[v[2]].type, [i \in DOMAIN H[v[2]].data |-> Shown(H, H[v[2]].data[i])]>>
  ELSE v

ERROR == <<"error">>

Init ==
  /\ program \in Programs
  /\ todo = program /\ acts = << >> /\ compile = Empty
  /\ shows = FALSE
  /\ code = << >> /\ ip = 0 /\ a = Null /\ stack = << >> /\ abort = FALSE
  /\ frames = << >> /\ globals = << >> /\ heap = << >> /\ log = << >>

----------------------------------------------------------------------------
(***************************************************************************)
(* Variables                                                               *)
(***************************************************************************)
\* snek_id_is_local
IsLocal(F, id) == IF F = << >> THEN FALSE ELSE id \in DOMAIN Last(F).vars

FoundLocal(F, id) == IF IsLocal(F, id) THEN Last(F).vars[id] # GLOBAL ELSE FALSE

Known(F, G, id) == FoundLocal(F, id) \/ id \in DOMAIN G
Value(F, G, id) == IF FoundLocal(F, id) THEN Last(F).vars[id] ELSE G[id]

Bind(f, id, v) == (id :> v) @@ f
BindLocal(F, id, v) == [F EXCEPT ![Len(F)].vars = Bind(@, id, v)]

\* snek_id_store, in the state m of the machine
Store(machine, id, v) == With(machine, LAMBDA m :
  IF m.frames # << >> /\ (FoundLocal(m.frames, id) \/ ~IsLocal(m.frames, id))
  THEN [m EXCEPT !.frames = BindLocal(@, id, v)]
  ELSE [m EXCEPT !.globals = Bind(@, id, v)])

----------------------------------------------------------------------------
(***************************************************************************)
(* Commands                                                                *)
(***************************************************************************)
\* Assignments and compound statements show no value.
Shows(s) == s[1] \notin {"assign", "del", "if", "while", "range", "for"}

END == <<<<"end">>>>

Read ==
  /\ code = << >> /\ acts = << >> /\ todo # << >>
  /\ acts' = Walk(Head(todo)) \o END
  /\ UNCHANGED <<program, todo, compile, shows, code, ip, a, stack, abort, frames, globals, heap, log>>

Compile ==
  /\ acts # << >> /\ acts # END /\ ~compile.bad
  /\ compile' = Act(compile, Head(acts)) /\ acts' = Tail(acts)
  /\ UNCHANGED <<program, todo, shows, code, ip, a, stack, abort, frames, globals, heap, log>>

\* A statement is executed when it is compiled, and a def done with; a syntax
\* error ends the command.
Perform ==
  /\ acts = END \/ compile.bad
  /\ acts' = << >> /\ compile' = Empty /\ todo' = Tail(todo)
  /\ LET cmd == Head(todo)
         formals == [i \in DOMAIN cmd[3] |-> cmd[3][i][1]]
         required == Cardinality({i \in DOMAIN cmd[3] : Len(cmd[3][i]) = 1})
     IN  \/ /\ ~compile.bad /\ cmd[1] = "stat"
            /\ code' = compile.code /\ shows' = Shows(cmd[2])
            /\ UNCHANGED <<globals, log>>
         \/ /\ ~compile.bad /\ cmd[1] = "def"
            /\ globals' = Bind(globals, TopVal(compile), Func(compile.code, formals, required))
            /\ UNCHANGED <<code, shows, log>>
         \/ /\ compile.bad
            /\ log' = Append(log, ERROR)
            /\ UNCHANGED <<code, shows, globals>>
  /\ UNCHANGED <<program, ip, a, stack, abort, frames, heap>>

Byte == code[ip + 1]
Op == OpOf(Byte)
Operand == Word(code, ip + 1)

State ==
  [code |-> code, ip |-> ip, push |-> FALSE, abort |-> abort, a |-> a, stack |-> stack,
   frames |-> frames, globals |-> globals, heap |-> heap, log |-> log]

\* The state after the next instruction, if that does nothing
Machine == [State EXCEPT !.ip = ip + 1 + OperandsRead(Op), !.push = Pushes(Byte)]

Become(next) ==
  /\ \E m \in {next} :
       /\ code' = m.code /\ ip' = m.ip /\ a' = m.a /\ stack' = m.stack /\ abort' = m.abort
       /\ frames' = m.frames /\ globals' = m.globals /\ heap' = m.heap /\ log' = m.log
  /\ UNCHANGED <<program, todo, acts, compile, shows>>

\* The end of snek_exec; the stack was empty when the command began.
Ended(m) ==
  [m EXCEPT !.code = << >>, !.ip = 0, !.a = Null, !.stack = << >>, !.frames = << >>,
            !.abort = FALSE]

\* snek_error: only the first of a command is told.
Fail(m) == IF m.abort THEN m ELSE [m EXCEPT !.abort = TRUE, !.log = Append(@, ERROR)]

\* snek_stack_push; the error is noticed after the next instruction.
Push(m, v) ==
  IF Len(m.stack) = StackSize THEN Fail(m) ELSE [m EXCEPT !.stack = Append(@, v)]

\* The end of an instruction: the command ends if there was an error.
Done(m, err) ==
  Become(IF err \/ abort THEN Ended(Fail(m)) ELSE IF m.push THEN Push(m, m.a) ELSE m)

\* snek_stack_pick and snek_stack_drop; below the stack is what is there.
Pick(n) == IF n < Len(stack) THEN stack[Len(stack) - n] ELSE Null
Top(n) == [i \in 1..n |-> Pick(n - i)]

\* M: one value too few
DropLess(n) == SubSeq(stack, 1, Len(stack) - (IF n > 1 THEN n - 1 ELSE n))

Drop(n) == SubSeq(stack, 1, Len(stack) - n)

\* The result r goes to the accumulator.
Accumulate(m, result) ==
  \E r \in {result} : Done([m EXCEPT !.a = r.v, !.heap = r.H], r.err)

Executing(ops) == IF code # << >> /\ ip < Len(code) THEN Op \in ops ELSE FALSE

----------------------------------------------------------------------------
(***************************************************************************)
(* Values and operators                                                    *)
(***************************************************************************)
Int8(byte) == IF byte >= 128 THEN byte - 256 ELSE byte

Constant ==
  /\ Executing({"num", "int", "string", "null", "line", "nop"})
  /\ Done([Machine EXCEPT !.a =
             CASE Op = "num" -> Float(code[ip + 2])
               [] Op = "int" -> Float(Int8(code[ip + 2]))
               [] Op = "string" -> Text(<<Operand>>)
               [] Op = "null" -> Null
               [] OTHER -> a], FALSE)

LoadName ==
  /\ Executing({"id"})
  /\ LET known == Known(frames, globals, Operand)
     IN  Done([Machine EXCEPT !.a =
                 IF known THEN Value(frames, globals, Operand)
                 ELSE IF Operand = BuiltinNone THEN Null
                 ELSE IF Operand \in {BuiltinPrint, BuiltinAbs} THEN Builtin(Operand)
                 ELSE a],
              ~known /\ Operand \notin {BuiltinPrint, BuiltinAbs, BuiltinNone})

Operator ==
  /\ Executing(BinaryOps)
  /\ Accumulate([Machine EXCEPT !.stack = Drop(1)], Binary(heap, Pick(0), Op, a, FALSE))

Unary ==
  /\ Executing({"not", "uminus"})
  /\ IF Op = "not" THEN Done([Machine EXCEPT !.a = Bool(~True(heap, a))], FALSE)
     ELSE IF TypeOf(a) = "float" THEN Done([Machine EXCEPT !.a = Float(-a[2])], FALSE)
     ELSE Done(Machine, TRUE)

\* A comparison in a chain.  If it is false it ends the chain; the nop there
\* pushes, if that is called for.
Chain ==
  /\ Executing(ChainOps)
  /\ LET r == Binary(heap, Pick(0), Ops[(Byte % PUSH) - 5], a, FALSE)
         m == [Machine EXCEPT !.stack = Drop(1)]
     IN  Done(IF True(heap, r.v) THEN m
              ELSE [m EXCEPT !.a = r.v, !.ip = Operand, !.push = FALSE], r.err)

Compound ==
  /\ Executing({"list", "tuple", "dict"})
  /\ Accumulate([Machine EXCEPT !.stack = Drop(Operand)], ListImm(heap, Op, Top(Operand)))

\* snek_slice, but for its arithmetic.  Of a value that has no elements, it is
\* the value itself.
TakeSlice ==
  /\ Executing({"slice"})
  /\ LET bits   == code[ip + 2]
         third  == bits >= 4   second == bits % 4 >= 2   first == bits % 2 = 1
         n      == (bits \div 4) + ((bits % 4) \div 2) + (bits % 2)
         Given(i) == Pick(i)[2]
         stride == IF third THEN Given(0) ELSE 1
         end    == IF second THEN Given(n - 1 - (bits % 2)) ELSE Omitted
         start  == IF first THEN Given(n - 1) ELSE Omitted
         v      == Pick(n)
         m      == [Machine EXCEPT !.stack = Drop(n + 1)]
         at     == Sliced!Positions(PolyLen(heap, v), start, end, stride)
         Taken(s) == [i \in DOMAIN at |-> s[at[i] + 1]]
     IN  IF (\E i \in 0..(n - 1) : TypeOf(Pick(i)) # "float") \/ stride = 0
         THEN Done(m, TRUE)
         ELSE Accumulate(m,
                CASE TypeOf(v) = "string" -> Result(Text(Taken(v[2])), heap)
                  [] IsList(v) ->
                       IF heap[v[2]].type = "tuple"
                       THEN NewList(heap, "tuple", Taken(heap[v[2]].data))
                       ELSE NewList(heap, "list", Taken(heap[v[2]].data))
                  [] OTHER -> Result(v, heap))

----------------------------------------------------------------------------
(***************************************************************************)
(* Assignment                                                              *)
(***************************************************************************)
\* assign_plus is plus, and so on.
Plain(op) == Ops[Number[op] - 11]

\* The value is stored even when the operator reports an error; it is then Null.
StoreResult(m, id, result) ==
  \E r \in {result} : Done(Store([m EXCEPT !.a = r.v, !.heap = r.H], id, r.v), r.err)

AssignName ==
  /\ Executing({"assign", "assign_named"} \cup EnhancedOps) /\ Operand # NoId
  /\ IF Op = "assign" THEN Done(Store(Machine, Operand, a), FALSE)
     ELSE IF Op = "assign_named"
     THEN Done(IF IsLocal(frames, Operand) THEN Machine ELSE Store(Machine, Operand, a), FALSE)
     ELSE IF (frames # << >> /\ ~IsLocal(frames, Operand)) \/ ~Known(frames, globals, Operand)
     THEN Done(Machine, TRUE)
     ELSE StoreResult(Machine, Operand,
            Binary(heap, Value(frames, globals, Operand), Plain(Op), a, TRUE))

\* An element is found, or a key added, before the operator is applied.
AssignElement ==
  /\ Executing({"assign"} \cup EnhancedOps) /\ Operand = NoId
  /\ LET l == Pick(1)
         m == [Machine EXCEPT !.stack = Drop(2)]
         r == ListRef(heap, l[2], Pick(0), TRUE)
         s == IF Op = "assign" THEN Result(a, r.H)
              ELSE Binary(r.H, r.H[l[2]].data[r.place], Plain(Op), a, TRUE)
     IN  IF ~IsList(l) THEN Done(m, TRUE)
         ELSE IF heap[l[2]].type = "tuple" \/ r.place = 0 THEN Done(m, TRUE)
         ELSE Accumulate(m, [s EXCEPT !.H[l[2]].data[r.place] = s.v])

MarkGlobal ==
  /\ Executing({"global"})
  /\ Done(IF frames = << >> THEN Machine
          ELSE [Machine EXCEPT !.frames = BindLocal(@, Operand, GLOBAL)], FALSE)

Unbind(f, id) == [x \in DOMAIN f \ {id} |-> f[x]]

\* A name is deleted from the globals only.
Delete ==
  /\ Executing({"del"})
  /\ LET l == Pick(0)
         m == [Machine EXCEPT !.stack = Drop(1)]
     IN  IF Operand # NoId THEN Done([Machine EXCEPT !.globals = Unbind(@, Operand)], FALSE)
         ELSE IF IsList(l) THEN Accumulate(m, ListDel(heap, l[2], a))
         ELSE Done(m, TRUE)

----------------------------------------------------------------------------
(***************************************************************************)
(* Control                                                                 *)
(***************************************************************************)
Goto(target) == [Machine EXCEPT !.ip = target]

Branch ==
  /\ Executing({"branch", "branch_true", "branch_false"})
  /\ Done(IF Op = "branch" \/ (Op = "branch_true" <=> True(heap, a))
          THEN Goto(Operand) ELSE Machine, FALSE)

\* A break or continue outside of loops
Stray == Executing({"forward"}) /\ Done(Machine, TRUE)

AssertStat ==
  /\ Executing({"assert"})
  /\ Done([Machine EXCEPT !.a = Null], ~True(heap, a))

Depth == code[ip + 4]
LoopId == Word(code, ip + 4)

\* snek_range_start.  The name is one step back until the first iteration.
\* Without numbers this reports an error, but assigns as well.
RangeStart ==
  /\ Executing({"range_start"})
  /\ LET n == Operand
         m == [Machine EXCEPT !.stack = Drop(n)]
         numbers == \A i \in 0..(n - 1) : TypeOf(Pick(i)) = "float"
         Num(i)  == IF TypeOf(Pick(i)) = "float" THEN Pick(i)[2] ELSE 0
         step    == IF n = 3 THEN Num(0) ELSE 1
         limit   == IF n = 3 THEN Num(1) ELSE Num(0)
         current == IF n = 1 THEN 0 ELSE Num(n - 1)
     IN  IF n \notin 1..3 THEN Done(m, TRUE)
         ELSE IF step = 0 THEN Done(m, TRUE)
         ELSE Done(Store(Store(Store(m, LoopId, Float(current - step)),
                               TmpId(Depth, 0), Float(limit)),
                         TmpId(Depth, 1), Float(step)), ~numbers)

Beyond(value, step, limit) == IF step > 0 THEN value >= limit ELSE value <= limit

\* snek_range_step
RangeStep ==
  /\ Executing({"range_step"})
  /\ LET known == Known(frames, globals, LoopId)
         i     == Value(frames, globals, LoopId)
         limit == Value(frames, globals, TmpId(Depth, 0))[2]
         step  == Value(frames, globals, TmpId(Depth, 1))[2]
         value == (IF TypeOf(i) = "float" THEN i[2] ELSE 0) + step
         m     == IF Beyond(value, step, limit) THEN Goto(Operand) ELSE Machine
     IN  IF ~known THEN Done(Goto(Operand), FALSE)
         ELSE Done(Store(m, LoopId, Float(value)), TypeOf(i) # "float")

\* snek_in_step.  It takes the value Null for the end.
InStep ==
  /\ Executing({"in_step"})
  /\ LET i == Value(frames, globals, TmpId(Depth, 1))[2]
         v == Value(frames, globals, TmpId(Depth, 0))
         m == Store(Machine, TmpId(Depth, 1), Float(i + 1))
         o == IF IsList(v) THEN (IF heap[v[2]].type = "dict" THEN 2 * i ELSE i) + 1 ELSE i + 1
         data == IF IsList(v) THEN heap[v[2]].data
                 ELSE [k \in DOMAIN v[2] |-> Text(<<v[2][k]>>)]
     IN  IF ~IsList(v) /\ TypeOf(v) # "string" THEN Done(m, TRUE)
         ELSE IF o > Len(data) THEN Done([m EXCEPT !.ip = Operand], FALSE)
         ELSE IF data[o] = Null THEN Done([m EXCEPT !.ip = Operand], FALSE)
         ELSE Done(Store(m, LoopId, data[o]), FALSE)

----------------------------------------------------------------------------
(***************************************************************************)
(* Calls                                                                   *)
(***************************************************************************)
Positional == Low(Operand)
Named == High(Operand)
Passed == Top(Positional + 2 * Named)
Callee == Pick(Positional + 2 * Named)

\* The ids the actuals are for, or none for a call that snek_func_push refuses.
\* (A call with too few actuals may pass its check; see SnekFrame.)
Bound(f) ==
  LET ids == [i \in 1..Positional |-> f.formals[i]] \o
             [i \in 1..Named |-> Passed[Positional + 2 * i - 1][2]]
  IN  IF /\ Positional <= Len(f.formals)
         /\ ToSet(ids) \subseteq ToSet(f.formals) /\ IsInjective(ids)
         /\ Len(ids) >= f.required
      THEN <<ids>> ELSE << >>

\* The frame also keeps, for a property, how high the stack is then.
Call ==
  /\ Executing({"call"}) /\ TypeOf(Callee) = "func"
  /\ LET f == Callee[2]
         given == [i \in 1..(Positional + Named) |->
                     Passed[IF i <= Positional THEN i ELSE Positional + 2 * (i - Positional)]]
         below == Drop(Len(Passed) + 1)
         bound == Bound(f)
     IN  IF bound = << >> THEN Done(Machine, TRUE)
         ELSE Done([Machine EXCEPT
                      !.a = Callee, !.code = f.code, !.ip = 0, !.push = FALSE, !.stack = below,
                      !.frames = Append(@,
                        [code |-> code, ip |-> ip, base |-> Len(below),
                         vars |-> [id \in ToSet(bound[1]) |->
                                     given[CHOOSE i \in DOMAIN given : bound[1][i] = id]]])],
                   FALSE)

\* snek_call_builtin
CallBuiltin ==
  /\ Executing({"call"}) /\ TypeOf(Callee) # "func"
  /\ LET m == [Machine EXCEPT !.stack = Drop(Len(Passed) + 1), !.a = Null]
         one == Positional = 1 /\ Named = 0
     IN  CASE Callee = Builtin(BuiltinPrint) ->
                Done([m EXCEPT !.log = Append(@, [i \in 1..Positional |-> Shown(heap, Passed[i])])],
                     FALSE)
           [] Callee = Builtin(BuiltinAbs) /\ one ->
                IF TypeOf(Passed[1]) = "float"
                THEN Done([m EXCEPT !.a =
                             Float(IF Passed[1][2] < 0 THEN -Passed[1][2] ELSE Passed[1][2])], FALSE)
                ELSE Done(m, TRUE)
           [] OTHER -> Done(m, TRUE)

ReturnOp == Executing({"return"}) /\ Done(Goto(Len(code)), FALSE)

\* The end of a block: snek_frame_pop, and the push that the call asked for,
\* after which there is no look at snek_abort; or the end of the command.
EndBlock ==
  /\ code # << >> /\ ip >= Len(code)
  /\ IF frames = << >>
     THEN LET show == shows /\ a # Null /\ ~abort
          IN  Become([Ended(State) EXCEPT
                        !.globals = IF show THEN Bind(@, Underscore, a) ELSE @,
                        !.log = IF show THEN Append(@, <<"value", Shown(heap, a)>>) ELSE @])
     ELSE LET f == Last(frames)
              m == [State EXCEPT !.code = f.code, !.ip = f.ip + 3, !.frames = Front(@)]
          IN  Become(IF Pushes(f.code[f.ip + 1]) THEN Push(m, a) ELSE m)

Idle == code = << >> /\ todo = << >>
Finished == Idle /\ UNCHANGED vars

Next ==
  \/ Read \/ Compile \/ Perform \/ Constant \/ LoadName \/ Operator \/ Unary \/ Chain \/ Compound \/ TakeSlice
  \/ AssignName \/ AssignElement \/ MarkGlobal \/ Delete
  \/ Branch \/ Stray \/ AssertStat \/ RangeStart \/ RangeStep \/ InStep
  \/ Call \/ CallBuiltin \/ ReturnOp \/ EndBlock \/ Finished

\* The interpreter goes on as long as there is something to do.  This is
\* WF_vars(Next), since there is a step unless the program is done.
GoesOn == []<>Idle \/ []<><<TRUE>>_vars

Spec == Init /\ [][Next]_vars /\ GoesOn
=============================================================================
