----------------------------- MODULE SnekValues -----------------------------
(***************************************************************************)
(* Values and the operators on them (src/snek-poly.c, src/snek-list.c,     *)
(* src/snek-string.c, and snek_binary of src/snek-exec.c).                 *)
(*                                                                         *)
(* A value is <<type, content>>: a number (an integer here), the codes of  *)
(* the characters of a string, or an index.  Lists, tuples and             *)
(* dictionaries are indices into a heap of lists, the argument H below: a  *)
(* sequence of records [type, data].  A dictionary keeps its keys in order *)
(* and each value behind its key.  Memory never fails here.                *)
(***************************************************************************)
EXTENDS Integers, Sequences, SequencesExt, Once

Float(n) == <<"float", n>>
Text(s) == <<"string", s>>
Ref(i) == <<"list", i>>
Builtin(id) == <<"builtin", id>>

Null == Builtin(1000)       \* SNEK_NULL; above every builtin
Bool(b) == Float(IF b THEN 1 ELSE 0)

TypeOf(v) == v[1]
IsList(v) == TypeOf(v) = "list"

\* snek_type_t and snek_list_type_t
TypeNumber == [builtin |-> 0, list |-> 1, string |-> 2, func |-> 3, float |-> 4]
KindNumber == [list |-> 0, tuple |-> 1, dict |-> 2]

\* What an operation gives: a value, the heap, and whether it reports an error
Result(v, H) == [v |-> v, H |-> H, err |-> FALSE]
Error(H) == [v |-> Null, H |-> H, err |-> TRUE]

NewList(H, type, data) == Result(Ref(Len(H) + 1), Append(H, [type |-> type, data |-> data]))

----------------------------------------------------------------------------
(***************************************************************************)
(* Comparison                                                              *)
(***************************************************************************)
Sign(x, y) == IF y < x THEN 1 ELSE IF x < y THEN -1 ELSE 0

\* The first place, from 1, where P holds among n, or n + 1
FirstPlace(n, P(_)) ==
  CHOOSE i \in 1..(n + 1) : (i = n + 1 \/ P(i)) /\ \A j \in 1..(i - 1) : ~P(j)

\* strcmp
StringCmp(s, t) ==
  LET i == FirstPlace(Len(s), LAMBDA j : j > Len(t) \/ s[j] # t[j])
  IN  IF i > Len(s) THEN (IF Len(t) > Len(s) THEN -1 ELSE 0)
      ELSE IF i > Len(t) THEN 1 ELSE Sign(s[i], t[i])

RECURSIVE PolyCmp(_, _, _, _)

\* snek_list_cmp.  A list and a longer one that begins with it are each
\* greater than the other.
ListCmp(H, x, y) ==
  LET Cmp(o) == PolyCmp(H, x.data[o], y.data[o], FALSE)
      i == FirstPlace(Len(x.data), LAMBDA o : o > Len(y.data) \/ Cmp(o) # 0)
  IN  IF x.type # y.type THEN KindNumber[x.type] - KindNumber[y.type]
      ELSE IF i > Len(x.data) THEN (IF Len(y.data) > Len(x.data) THEN 1 ELSE 0)
      ELSE IF i > Len(y.data) THEN 1 ELSE Cmp(i)

PolyCmp(H, a, b, is) ==
  IF TypeOf(a) # TypeOf(b) THEN TypeNumber[TypeOf(a)] - TypeNumber[TypeOf(b)]
  ELSE IF TypeOf(a) = "string" THEN StringCmp(a[2], b[2])
  ELSE IF IsList(a) /\ ~is THEN ListCmp(H, H[a[2]], H[b[2]])
  ELSE Sign(a[2], b[2])

\* snek_poly_true
True(H, v) ==
  CASE TypeOf(v) = "float" -> v[2] # 0
    [] TypeOf(v) = "list" -> H[v[2]].data # << >>
    [] TypeOf(v) = "string" -> v[2] # << >>
    [] OTHER -> FALSE

\* snek_poly_len
PolyLen(H, v) ==
  CASE TypeOf(v) = "string" -> Len(v[2])
    [] TypeOf(v) = "list" -> Len(H[v[2]].data) \div (IF H[v[2]].type = "dict" THEN 2 ELSE 1)
    [] OTHER -> 0

----------------------------------------------------------------------------
(***************************************************************************)
(* Elements                                                                *)
(***************************************************************************)
\* Where the key p is, or belongs, in the data of a dictionary, from 0
RECURSIVE Search(_, _, _, _, _)
Search(H, data, p, l, r) ==
  LET o == 2 * ((l + r) \div 4)
  IN  IF l >= r THEN l
      ELSE IF PolyCmp(H, data[o + 1], p, FALSE) < 0 THEN Search(H, data, p, o + 2, r)
      ELSE Search(H, data, p, l, o)

RECURSIVE Mutable(_, _)
Mutable(H, v) ==
  /\ IsList(v)
  /\ \/ H[v[2]].type # "tuple"
     \/ \E i \in DOMAIN H[v[2]].data : Mutable(H, H[v[2]].data[i])

\* _snek_list_ref: the place of element p of list x in its data, from 1, and
\* the heap, where a new key may have been added; no place is an error.
ListRef(H, x, p, add) ==
  LET data == H[x].data
      o    == Search(H, data, p, 0, Len(data))
      new  == o >= Len(data) \/ PolyCmp(H, p, data[o + 1], FALSE) # 0
      with == SubSeq(data, 1, o) \o <<p, Null>> \o SubSeq(data, o + 1, Len(data))
      at   == IF p[2] < 0 THEN Len(data) + p[2] ELSE p[2]
  IN  IF H[x].type = "dict"
      THEN IF ~new THEN [place |-> o + 2, H |-> H]
           ELSE IF add /\ ~Mutable(H, p)
                THEN [place |-> o + 2, H |-> [H EXCEPT ![x].data = with]]
                ELSE [place |-> 0, H |-> H]
      ELSE IF TypeOf(p) = "float" /\ at \in 0..(Len(data) - 1)
           THEN [place |-> at + 1, H |-> H] ELSE [place |-> 0, H |-> H]

\* snek_list_get and snek_string_get
Get(H, a, p) ==
  LET r == ListRef(H, a[2], p, FALSE)
      at == IF p[2] < 0 THEN Len(a[2]) + p[2] ELSE p[2]
  IN  CASE IsList(a) ->
             IF r.place = 0 THEN Error(H) ELSE Result(H[a[2]].data[r.place], H)
        [] TypeOf(a) = "string" ->
             IF TypeOf(p) = "float" /\ at \in 0..(Len(a[2]) - 1)
             THEN Result(Text(<<a[2][at + 1]>>), H) ELSE Error(H)
        [] OTHER -> Error(H)

\* snek_list_del.  A missing key is added first, and then deleted.
ListDel(H, x, p) ==
  LET r == ListRef(H, x, p, TRUE)
      n == IF H[x].type = "dict" THEN 2 ELSE 1
      data == r.H[x].data
  IN  IF r.place = 0 \/ H[x].type = "tuple" THEN Error(r.H)
      ELSE Result(Null, [r.H EXCEPT ![x].data =
             SubSeq(data, 1, r.place - n) \o SubSeq(data, r.place + 1, Len(data))])

\* One entry of a dictionary, by snek_list_imm
AddEntry(H, x, items, i) ==
  LET r == ListRef(H, x, items[i], TRUE)
  IN  IF r.place = 0 THEN Error(H)
      ELSE Result(Null, [r.H EXCEPT ![x].data[r.place] = items[i + 1]])

\* snek_list_imm, given the elements from the stack.  There is one empty tuple
\* only, but nothing else tells it from another.
ListImm(H, type, items) ==
  LET dict == Append(H, [type |-> "dict", data |-> << >>])
      All  == FoldLeft(LAMBDA r, i :
                         LET s == AddEntry(r.H, Len(dict), items, i)
                         IN  [s EXCEPT !.err = @ \/ r.err],
                       Result(Null, dict), [k \in 1..(Len(items) \div 2) |-> 2 * k - 1])
  IN  IF type = "dict" THEN [All EXCEPT !.v = Ref(Len(dict))]
      ELSE NewList(H, type, items)

----------------------------------------------------------------------------
(***************************************************************************)
(* Operators                                                               *)
(***************************************************************************)
Repeat(s, n) == FlattenSeq([i \in 1..n |-> s])

CompareOps == {"eq", "ne", "gt", "lt", "ge", "le", "is", "is_not"}

Compare(op, c) ==
  CASE op \in {"eq", "is"} -> c = 0
    [] op \in {"ne", "is_not"} -> c # 0
    [] op = "gt" -> c > 0
    [] op = "lt" -> c < 0
    [] op = "ge" -> c >= 0
    [] op = "le" -> c <= 0

\* Two numbers.  Division by zero, fractions and the bitwise operators are
\* left out.
Arithmetic(op, x, y) ==
  CASE op = "plus" -> x + y
    [] op = "minus" -> x - y
    [] op = "times" -> x * y
    [] op = "div" -> x \div y
    [] op = "mod" -> x - (x \div y) * y
    [] OTHER -> x

\* in and not in
IsIn(H, a, b) ==
  LET data == H[b[2]].data
      keys == IF H[b[2]].type = "dict" THEN {i \in DOMAIN data : i % 2 = 1} ELSE DOMAIN data
  IN  IF IsList(b) THEN \E i \in keys : PolyCmp(H, a, data[i], FALSE) = 0
      ELSE \E i \in 0..(Len(b[2]) - Len(a[2])) : SubSeq(b[2], i + 1, i + Len(a[2])) = a[2]

\* snek_list_append changes a list that += is applied to; a tuple is made anew.
Plus(H, a, b, inplace) ==
  LET x == H[a[2]]
      y == H[b[2]]
  IN  CASE TypeOf(a) = "string" /\ TypeOf(b) = "string" -> Result(Text(a[2] \o b[2]), H)
        [] IsList(a) /\ IsList(b) ->
             IF x.type # y.type \/ x.type = "dict" THEN Error(H)
             ELSE IF inplace /\ x.type = "list"
             THEN Result(a, [H EXCEPT ![a[2]].data = @ \o y.data])
             ELSE NewList(H, x.type, x.data \o y.data)
        [] OTHER -> Error(H)

\* A value and a number; a negative number gives no value at all.
Times(H, a, n) ==
  CASE n < 0 -> Result(Null, H)
    [] n >= 0 /\ TypeOf(a) = "string" -> Result(Text(Repeat(a[2], n)), H)
    [] n >= 0 /\ IsList(a) ->
         IF H[a[2]].type = "dict" THEN Error(H)
         ELSE NewList(H, H[a[2]].type, Repeat(H[a[2]].data, n))
    [] OTHER -> Error(H)

\* snek_binary
Binary(H, a, op, b, inplace) ==
  LET Both(t) == TypeOf(a) = t /\ TypeOf(b) = t
  IN  CASE op \in CompareOps ->
             Result(Bool(Compare(op, PolyCmp(H, a, b, op \in {"is", "is_not"}))), H)
        [] op = "array" -> Get(H, a, b)
        [] op \in {"in", "not_in"} ->
             IF IsList(b) \/ Both("string")
             THEN Result(Bool(IsIn(H, a, b) <=> op = "in"), H)
             ELSE IF Both("float") THEN Result(a, H) ELSE Error(H)
        [] op \notin CompareOps \cup {"array", "in", "not_in"} /\ Both("float") ->
             Result(Float(Arithmetic(op, a[2], b[2])), H)
        [] op = "plus" /\ ~Both("float") -> Plus(H, a, b, inplace)
        [] op = "times" /\ ~Both("float") ->
             CASE TypeOf(b) = "float" -> Times(H, a, b[2])
               [] TypeOf(a) = "float" -> Times(H, b, a[2])
               [] OTHER -> Error(H)
        [] OTHER -> Error(H)
=============================================================================
