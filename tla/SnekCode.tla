------------------------------ MODULE SnekCode ------------------------------
(***************************************************************************)
(* Bytecode and the buffer it is compiled into (src/snek-code.c).          *)
(*                                                                         *)
(* Code is a sequence of bytes; the byte at offset o is code[o + 1].  An   *)
(* instruction is the number of its operation, with 128 added when what it *)
(* leaves in the accumulator is pushed, and its operands; a word is two    *)
(* bytes, the low one first.  The buffer c also knows where the last two   *)
(* instructions begin, and has the parser's value stack, its count of      *)
(* nested for loops, and whether it met a syntax error.  Memory never      *)
(* fails here, and a string's offset is the code of its only character.    *)
(*                                                                         *)
(* An operator under `M: ...' is a faulty form of the definition below it. *)
(***************************************************************************)
EXTENDS Integers, Sequences, SequencesExt, Once

CONSTANT ValueStackSize     \* VALUE_STACK_SIZE

ASSUME ValueStackAssumption == ValueStackSize \in Nat

\* snek_op_t, from 0
Ops == <<"eq", "ne", "gt", "lt", "ge", "le",
         "chain_eq", "chain_ne", "chain_gt", "chain_lt", "chain_ge", "chain_le",
         "is", "is_not", "in", "not_in", "array",
         "plus", "minus", "times", "divide", "div", "mod", "pow",
         "land", "lor", "lxor", "lshift", "rshift",
         "assign_plus", "assign_minus", "assign_times", "assign_divide", "assign_div",
         "assign_mod", "assign_pow", "assign_land", "assign_lor", "assign_lxor",
         "assign_lshift", "assign_rshift", "assign", "assign_named",
         "num", "int", "string", "list", "tuple", "dict", "id",
         "not", "uminus", "lnot", "call", "slice", "global", "del", "assert",
         "branch", "branch_true", "branch_false", "forward",
         "range_start", "range_step", "in_step", "return", "line", "null", "nop">>

Number == [op \in ToSet(Ops) |-> CHOOSE i \in 0..(Len(Ops) - 1) : Ops[i + 1] = op]
PUSH == 128

OpOf(byte) == IF byte % PUSH < Len(Ops) THEN Ops[(byte % PUSH) + 1] ELSE "none"
Pushes(byte) == byte >= PUSH

\* snek_forward_t, in the low byte of the operand of a forward
Forward == ("break" :> 0) @@ ("continue" :> 1) @@ ("if" :> 2) @@ ("cmp" :> 3)

BinaryOps == {Ops[i] : i \in 1..6} \cup {Ops[i] : i \in 13..29}
ChainOps == {Ops[i] : i \in 7..12}
EnhancedOps == {Ops[i] : i \in 30..41}
LoopOps == {"range_start", "range_step", "in_step"}

Low(w) == w % 256
High(w) == w \div 256
Word(code, o) == code[o + 1] + 256 * code[o + 2]

\* snek_op_operand_size; there is no dict.
OperandSize(op) ==
  CASE op = "num" -> 4
    [] op \in {"int", "slice"} -> 1
    [] op \in {"string", "list", "tuple", "id", "del", "global", "assign", "assign_named",
               "call", "branch", "branch_true", "branch_false", "forward", "line"}
              \cup EnhancedOps \cup ChainOps -> 2
    [] op \in LoopOps -> 5
    [] OTHER -> 0

\* The operands that snek_exec steps over
OperandsRead(op) == IF op = "dict" THEN 2 ELSE OperandSize(op)

----------------------------------------------------------------------------
(***************************************************************************)
(* Adding instructions                                                     *)
(***************************************************************************)
\* snek_code_reset, and the parser's state at the beginning of a command.
\* (prev is left as it was, but no command looks back beyond its beginning.)
Empty == [code |-> << >>, prev |-> 0, prevPrev |-> 0, vals |-> << >>, depth |-> 0, bad |-> FALSE]

Current(c) == Len(c.code)

\* compile_extend
Extend(c, bytes) == [c EXCEPT !.code = @ \o bytes]

AddOp(c, op) ==
  Extend([c EXCEPT !.prevPrev = c.prev, !.prev = Current(c)], <<Number[op]>>)

AddOpWord(c, op, w) == Extend(AddOp(c, op), <<Low(w), High(w)>>)

\* snek_code_add_number: a float is its value and three more bytes.
AddNumber(c, n) ==
  IF n \in -128..127 THEN Extend(AddOp(c, "int"), <<Low(n)>>)
  ELSE Extend(AddOp(c, "num"), <<n, 0, 0, 0>>)

AddForwardOp(c, kind, op) == AddOpWord(c, "forward", Forward[kind] + 256 * op)
AddForward(c, kind) == AddForwardOp(c, kind, Number["branch"])

\* snek_for_tmp: names that no program has
TmpId(depth, i) == 65532 - 1 - (2 * depth + i)

LoopOperands(depth, id) == <<depth, Low(id), High(id)>>

AddInRange(c, id, n) ==
  LET d == Extend(AddOpWord(c, "range_start", n), LoopOperands(c.depth, id))
  IN  Extend(AddOpWord(d, "range_step", 0), LoopOperands(c.depth, id))

AddInEnum(c, id) ==
  LET list == AddOpWord(c, "assign", TmpId(c.depth, 0))
      i    == AddOpWord(AddNumber(list, 0), "assign", TmpId(c.depth, 1))
  IN  Extend(AddOpWord(i, "in_step", 0), LoopOperands(c.depth, id))

\* snek_code_delete_prev.  Afterwards prevPrev is no longer right.
DeletePrev(c) == [c EXCEPT !.code = SubSeq(@, 1, c.prev), !.prev = c.prevPrev]

SetPush(c, o) == [c EXCEPT !.code[o + 1] = (@ % PUSH) + PUSH]

\* M: one byte short of the target
PatchBranchShort(c, branch, target) ==
  [c EXCEPT !.code[branch + 2] = Low(target - 1), !.code[branch + 3] = High(target - 1)]

PatchBranch(c, branch, target) ==
  [c EXCEPT !.code[branch + 2] = Low(target), !.code[branch + 3] = High(target)]

\* The offsets where a scan from o meets what it takes for instructions
ScanFrom(code, o, stop) ==
  LET scan[at \in Nat] ==
        IF at >= stop THEN {}
        ELSE {at} \cup scan[at + 1 + OperandSize(OpOf(code[at + 1]))]
  IN  scan[o]

\* snek_code_patch_forward: what is still to go forward becomes a branch.
PatchForward(c, start, stop, kind, target) ==
  With(c, LAMBDA d :
    LET mine == {o \in ScanFrom(d.code, start, stop) :
                   OpOf(d.code[o + 1]) = "forward" /\ d.code[o + 2] = Forward[kind]}
        patched == [i \in DOMAIN d.code |->
                      CASE i - 1 \in mine -> d.code[i + 2] + (IF Pushes(d.code[i]) THEN PUSH ELSE 0)
                        [] i - 2 \in mine -> Low(target)
                        [] i - 3 \in mine -> High(target)
                        [] OTHER -> d.code[i]]
    IN  IF mine = {} THEN d ELSE [d EXCEPT !.code = patched])

\* code_mark and code_move: the strings that the code keeps
Strings(code) ==
  {Word(code, o + 1) : o \in {x \in ScanFrom(code, 0, Len(code)) : OpOf(code[x + 1]) = "string"}}

----------------------------------------------------------------------------
(***************************************************************************)
(* The parser's value stack (src/snek-parse.c)                             *)
(***************************************************************************)
\* A push on a full stack is lost, which no caller notices.
PushVal(c, v) == IF Len(c.vals) >= ValueStackSize THEN c ELSE [c EXCEPT !.vals = Append(@, v)]

\* value_pop.  Below its bottom is whatever lies there; here it is 0.
TopVal(c) == IF c.vals = << >> THEN 0 ELSE Last(c.vals)
PopVal(c) == IF c.vals = << >> THEN c ELSE [c EXCEPT !.vals = Front(@)]

SyntaxError(c) == [c EXCEPT !.bad = TRUE]
=============================================================================
