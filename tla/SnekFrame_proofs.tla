-------------------------- MODULE SnekFrame_proofs --------------------------
(***************************************************************************)
(* Theorems about SnekFrame for any names and values, functions of any     *)
(* number of formals, calls of any depth and any number of globals.        *)
(*                                                                         *)
(* A frame changes in three ways only: it is filled by a call, one value   *)
(* is set, or a variable is inserted whose name it has not.  The lemmas    *)
(* say what these do, to the frame and to what it binds; the theorems have *)
(* one step per action.  The last is that frames implement Scopes.         *)
(***************************************************************************)
EXTENDS SnekFrame, WellFoundedInduction, FiniteSetTheorems, TLAPS

Slot     == Value \cup {GLOBAL}
Record(I, V) == [id : I, value : V]
Locals   == Seq(Record(Name, Slot))
GlobalIds == Name \cup {NoId}
Globals  == Seq(Record(GlobalIds, Value))
Calls    == Seq([pending : Names, vars : Locals])

\* Sequences are functions.
LEMMA ElementIs ==
  ASSUME NEW S, NEW s \in Seq(S)
  PROVE  s \in [1..Len(s) -> S] /\ Len(s) \in Nat
OBVIOUS

LEMMA SequenceIs ==
  ASSUME NEW S, NEW k \in Nat, NEW f \in [1..k -> S]
  PROVE  f \in Seq(S) /\ Len(f) = k
OBVIOUS

LEMMA ConcatenationIs ==
  ASSUME NEW S, NEW s \in Seq(S), NEW t \in Seq(S)
  PROVE  /\ s \o t \in Seq(S) /\ Len(s \o t) = Len(s) + Len(t)
         /\ \A i \in 1..Len(s) : (s \o t)[i] = s[i]
         /\ \A i \in (Len(s) + 1)..(Len(s) + Len(t)) : (s \o t)[i] = t[i - Len(s)]
OBVIOUS

LEMMA AllButLast ==
  ASSUME NEW S, NEW s \in Seq(S), s # << >>
  PROVE  /\ SubSeq(s, 1, Len(s) - 1) \in Seq(S)
         /\ Len(SubSeq(s, 1, Len(s) - 1)) = Len(s) - 1
         /\ \A k \in 1..(Len(s) - 1) : SubSeq(s, 1, Len(s) - 1)[k] = s[k]
<1> DEFINE m == Len(s) - 1
<1>1. m \in Nat /\ m <= Len(s)
  OBVIOUS
<1> HIDE DEF m
<1>2. /\ SubSeq(s, 1, m) \in Seq(S) /\ Len(SubSeq(s, 1, m)) = m
      /\ \A k \in 1..m : SubSeq(s, 1, m)[k] = s[k]
  BY <1>1
<1> QED
  BY <1>2 DEF m

\* A name that is in a frame has a first place in it.
LEMMA AtFirst ==
  ASSUME NEW R, NEW frame \in Seq(R), NEW n, Has(frame, n)
  PROVE  At(frame, n) \in 1..Len(frame) /\ frame[At(frame, n)].id = n
<1> DEFINE T == {i \in 1..Len(frame) : frame[i].id = n}
<1>1. T \subseteq Nat /\ T # {}
  BY DEF Has
<1>2. PICK i \in T : \A j \in T : <<j, i>> \notin OpToRel(<, Nat)
  BY <1>1, NatLessThanWellFounded, WFMin
<1>3. \A j \in T : ~(j < i)
  BY <1>1, <1>2 DEF OpToRel
<1>4. i \in 1..Len(frame) /\ frame[i].id = n /\ \A j \in 1..(i - 1) : frame[j].id # n
  BY <1>3
<1> QED
  BY <1>4 DEF At

\* What is found has the type of what is stored.
LEMMA ValueFound ==
  ASSUME NEW I, NEW V, NEW frame \in Seq(Record(I, V)), NEW n, Has(frame, n)
  PROVE  ValueIn(frame, n) \in V
<1>1. At(frame, n) \in 1..Len(frame)
  BY AtFirst
<1>2. frame[At(frame, n)] \in Record(I, V)
  BY <1>1, ElementIs
<1> QED
  BY <1>2 DEF ValueIn, Record

\* Setting a value changes no id.
LEMMA SetKeepsIds ==
  ASSUME NEW I, NEW V, NEW frame \in Seq(Record(I, V)), NEW n, NEW v \in V
  PROVE  /\ Set(frame, n, v) \in Seq(Record(I, V))
         /\ Len(Set(frame, n, v)) = Len(frame)
         /\ Once(frame) => Once(Set(frame, n, v))
<1> DEFINE R   == Record(I, V)
           at  == At(frame, n)
           new == [frame EXCEPT ![at].value = v]
<1>1. Len(frame) \in Nat /\ \A i \in 1..Len(frame) : frame[i] \in R
  BY ElementIs
<1>2. \A e \in R : [e EXCEPT !.value = v] \in R /\ [e EXCEPT !.value = v].id = e.id
  BY DEF Record
<1>3. new = Set(frame, n, v)
  BY DEF Set
<1> HIDE DEF R, at
<1>4. /\ new = [i \in 1..Len(frame) |-> new[i]]
      /\ \A i \in 1..Len(frame) :
           new[i] = IF i = at THEN [frame[i] EXCEPT !.value = v] ELSE frame[i]
  <2>1. DOMAIN frame = 1..Len(frame)
    OBVIOUS
  <2> QED
    BY <2>1
<1> HIDE DEF new
<1>5. new \in [1..Len(frame) -> R] /\ \A i \in 1..Len(frame) : new[i].id = frame[i].id
  BY <1>1, <1>2, <1>4
<1>6. new \in Seq(R) /\ Len(new) = Len(frame)
  BY <1>1, <1>5, SequenceIs
<1> QED
  BY <1>3, <1>5, <1>6 DEF Once, R

\* An insertion that is needed keeps names apart.
LEMMA InsertKeepsOnce ==
  ASSUME NEW I, NEW V, NEW frame \in Seq(Record(I, V)), NEW n \in I, NEW v \in V,
         ~Has(frame, n)
  PROVE  /\ Insert(frame, n, v) \in Seq(Record(I, V))
         /\ Len(Insert(frame, n, v)) = Len(frame) + 1
         /\ Once(frame) => Once(Insert(frame, n, v))
<1> DEFINE new == Insert(frame, n, v)
<1>1. /\ new \in Seq(Record(I, V))
      /\ Len(new) = Len(frame) + 1
      /\ \A i \in 1..Len(frame) : new[i] = frame[i]
      /\ new[Len(frame) + 1].id = n
  <2>1. [id |-> n, value |-> v] \in Record(I, V)
    BY DEF Record
  <2> QED
    BY <2>1 DEF Insert
<1>2. \A i \in 1..Len(frame) : frame[i].id # n
  BY DEF Has
<1>3. ASSUME Once(frame), NEW i \in 1..Len(new), NEW j \in 1..Len(new),
             new[i].id = new[j].id, new[i].id # NoId
      PROVE  i = j
  <2>1. CASE i \in 1..Len(frame) /\ j \in 1..Len(frame)
    BY <1>1, <1>3, <2>1 DEF Once
  <2>2. CASE i = Len(frame) + 1 \/ j = Len(frame) + 1
    BY <1>1, <1>2, <1>3, <2>2
  <2> QED
    BY <1>1, <2>1, <2>2
<1> QED
  BY <1>1, <1>3 DEF Once

----------------------------------------------------------------------------
(***************************************************************************)
(* The invariant, in parts                                                 *)
(***************************************************************************)
CallRecord == [pending : Names, vars : Locals]

GlobalsOK(g) == g \in Globals /\ Len(g) <= MaxGlobals /\ Once(g)
FrameOK(f)   == f \in Locals /\ Once(f)
CallsOK(c)   == c \in Seq(CallRecord) /\ \A k \in 1..Len(c) : Once(c[k].vars)
OperandsOK(o) == o \in Operands \cup {NoCall}

IInv == GlobalsOK(globals) /\ CallsOK(frames) /\ OperandsOK(operands) /\ a \in Value

LEMMA IInvIs == IInv <=> TypeOK /\ NamesOnce
BY DEF IInv, GlobalsOK, CallsOK, OperandsOK, TypeOK, NamesOnce, Globals, GlobalIds, CallRecord, Locals, Slot, Record

\* Names is the set of short sequences of names.
LEMMA NamesAre ==
  ASSUME NEW s
  PROVE  s \in Names <=> s \in Seq(Name) /\ Len(s) <= MaxFormals
<1>1. ASSUME s \in Names
      PROVE  s \in Seq(Name) /\ Len(s) <= MaxFormals
  <2>1. PICK k \in 0..MaxFormals : s \in [1..k -> Name]
    BY <1>1 DEF Names
  <2> QED
    BY <2>1, SequenceIs, BoundAssumption
<1>2. ASSUME s \in Seq(Name), Len(s) <= MaxFormals
      PROVE  s \in Names
  <2>1. s \in [1..Len(s) -> Name] /\ Len(s) \in 0..MaxFormals
    BY <1>2, ElementIs, BoundAssumption
  <2> QED
    BY <2>1 DEF Names
<1> QED
  BY <1>1, <1>2

\* The current call
LEMMA CurrentIs ==
  ASSUME IInv, frames # << >>
  PROVE  /\ Len(frames) \in 1..Len(frames)
         /\ frames[Len(frames)] \in CallRecord
         /\ FrameOK(Frame) /\ Pending \in Names
<1>1. frames \in Seq(CallRecord) /\ Len(frames) \in 1..Len(frames)
  BY DEF IInv, CallsOK
<1>2. frames[Len(frames)] \in CallRecord
  BY <1>1, ElementIs
<1> QED
  BY <1>1, <1>2 DEF IInv, CallsOK, FrameOK, Frame, Pending, CallRecord

\* Another record in its place
LEMMA ReplaceLast ==
  ASSUME NEW c, CallsOK(c), c # << >>,
         NEW r \in CallRecord, Once(r.vars)
  PROVE  CallsOK([c EXCEPT ![Len(c)] = r])
<1>1. c \in Seq(CallRecord)
  BY DEF CallsOK
<1> DEFINE new == [c EXCEPT ![Len(c)] = r]
<1>2. /\ new \in Seq(CallRecord) /\ Len(new) = Len(c)
      /\ \A k \in 1..Len(c) : new[k] = IF k = Len(c) THEN r ELSE c[k]
  BY <1>1
<1> HIDE DEF new
<1>3. CallsOK(new)
  BY <1>2 DEF CallsOK
<1> QED
  BY <1>3 DEF new

LEMMA ReframeKeeps ==
  ASSUME IInv, frames # << >>, NEW f, FrameOK(f), Reframe(f)
  PROVE  CallsOK(frames')
<1> DEFINE r == [frames[Len(frames)] EXCEPT !.vars = f]
<1>1. r \in CallRecord /\ r.vars = f
  BY CurrentIs DEF CallRecord, FrameOK
<1>2. frames' = [frames EXCEPT ![Len(frames)] = r]
  BY DEF Reframe
<1> HIDE DEF r
<1> QED
  BY <1>1, <1>2, ReplaceLast DEF IInv, FrameOK

\* Both kinds of change of the current frame
LEMMA FrameChanges ==
  ASSUME IInv, frames # << >>, NEW n \in Name, NEW v \in Slot
  PROVE  /\ FrameOK(Set(Frame, n, v))
         /\ ~IsLocal(n) => FrameOK(Insert(Frame, n, v))
BY CurrentIs, SetKeepsIds, InsertKeepsOnce DEF FrameOK, Locals, IsLocal

\* ... and of the globals
LEMMA GlobalsChange ==
  ASSUME NEW g, GlobalsOK(g), NEW n \in Name, NEW v \in Value
  PROVE  /\ GlobalsOK(Set(g, n, v))
         /\ ~Has(g, n) /\ Len(g) < MaxGlobals => GlobalsOK(Insert(g, n, v))
<1>1. g \in Seq(Record(GlobalIds, Value)) /\ n \in GlobalIds
  BY DEF GlobalsOK, Globals, GlobalIds
<1>2. /\ Set(g, n, v) \in Seq(Record(GlobalIds, Value))
      /\ Len(Set(g, n, v)) = Len(g)
      /\ Once(g) => Once(Set(g, n, v))
  BY <1>1, SetKeepsIds
<1>3. ASSUME ~Has(g, n)
      PROVE  /\ Insert(g, n, v) \in Seq(Record(GlobalIds, Value))
             /\ Len(Insert(g, n, v)) = Len(g) + 1
             /\ Once(g) => Once(Insert(g, n, v))
  BY <1>1, <1>3, InsertKeepsOnce
<1>4. Len(g) \in Nat
  BY <1>1, ElementIs
<1> QED
  BY <1>2, <1>3, <1>4, BoundAssumption DEF GlobalsOK, Globals, GlobalIds

LEMMA AbortKeeps ==
  ASSUME IInv, Abort, GlobalsOK(globals')
  PROVE  IInv'
BY ValueAssumption DEF IInv, Abort, CallsOK, OperandsOK

LEMMA StoreKeeps ==
  ASSUME IInv, NEW n \in Name, NEW v \in Value, Store(n, v)
  PROVE  GlobalsOK(globals') /\ CallsOK(frames')
<1>1. v \in Slot
  BY DEF Slot
<1>2. CASE FoundLocal(n) /\ Reframe(Set(Frame, n, v)) /\ UNCHANGED globals
  <2>1. frames # << >>
    BY <1>2 DEF FoundLocal, IsLocal
  <2> QED
    BY <1>1, <1>2, <2>1, FrameChanges, ReframeKeeps DEF IInv
<1>3. CASE ~IsLocal(n) /\ ~IsOuter(n) /\ Reframe(Insert(Frame, n, v)) /\ UNCHANGED globals
  <2>1. frames # << >>
    BY <1>3 DEF IsOuter
  <2> QED
    BY <1>1, <1>3, <2>1, FrameChanges, ReframeKeeps DEF IInv
<1>4. CASE IsOuter(n) /\ Has(globals, n) /\ globals' = Set(globals, n, v) /\ UNCHANGED frames
  BY <1>4, GlobalsChange DEF IInv
<1>5. CASE /\ IsOuter(n) /\ ~Has(globals, n) /\ Len(globals) < MaxGlobals
           /\ globals' = Insert(globals, n, v) /\ UNCHANGED frames
  BY <1>5, GlobalsChange DEF IInv
<1> QED
  BY <1>2, <1>3, <1>4, <1>5 DEF Store

LEMMA StoreFailsKeeps ==
  ASSUME IInv, NEW n \in Name, NEW v \in Value, StoreFails(n, v)
  PROVE  IInv'
<1>1. GlobalsOK(globals')
  BY GlobalsChange DEF StoreFails, IInv
<1> QED
  BY <1>1, AbortKeeps DEF StoreFails

\* Deletion moves up what is behind, or loses it.
LEMMA WithoutKeeps ==
  ASSUME IInv, NEW n \in Name, Has(globals, n)
  PROVE  /\ GlobalsOK(Without(n))
         /\ \A i \in 1..Len(Without(n)) : Without(n)[i].id # NoId =>
              \E k \in 1..Len(globals) : k # At(globals, n) /\ Without(n)[i] = globals[k]
<1> DEFINE R     == Record(GlobalIds, Value)
           at    == At(globals, n)
           left  == SubSeq(globals, 1, at - 1)
           right == SubSeq(globals, at + 1, Len(globals))
           rest  == Rest(right)
<1>1. /\ globals \in Seq(R) /\ Once(globals)
      /\ Len(globals) \in Nat /\ Len(globals) <= MaxGlobals
  BY ElementIs DEF IInv, GlobalsOK, Globals
<1>2. at \in 1..Len(globals)
  BY <1>1, AtFirst
<1>3. [id |-> NoId, value |-> Null] \in R
  BY ValueAssumption DEF GlobalIds, Record
<1> HIDE DEF R, at
<1>4. /\ left \in Seq(R) /\ Len(left) = at - 1
      /\ \A i \in 1..(at - 1) : left[i] = globals[i]
  BY <1>1, <1>2
<1>5. /\ right \in Seq(R) /\ Len(right) = Len(globals) - at
      /\ \A i \in 1..(Len(globals) - at) : right[i] = globals[at + i]
  BY <1>1, <1>2
<1> HIDE DEF left, right
<1>6. /\ rest \in [1..(Len(globals) - at) -> R]
      /\ \A i \in 1..(Len(globals) - at) : rest[i].id \in {globals[at + i].id, NoId}
      /\ \A i \in 1..(Len(globals) - at) : rest[i].id # NoId => rest[i] = globals[at + i]
  <2>1. rest = [j \in 1..(Len(globals) - at) |->
                  IF (j - 1) * VarBytes + IdEnd <= Len(globals) - at
                  THEN right[j] ELSE [id |-> NoId, value |-> Null]]
    BY <1>5 DEF Rest
  <2>2. \A i \in 1..(Len(globals) - at) : right[i] \in R
    BY <1>5, ElementIs
  <2>3. \A i \in 1..(Len(globals) - at) :
          rest[i] = right[i] \/ rest[i] = [id |-> NoId, value |-> Null]
    BY <2>1
  <2> HIDE DEF rest
  <2> QED
    BY <1>3, <1>5, <2>1, <2>2, <2>3
<1> HIDE DEF rest
<1>7. rest \in Seq(R) /\ Len(rest) = Len(globals) - at
  BY <1>1, <1>2, <1>6, SequenceIs
<1>8. Without(n) = left \o rest
  BY DEF Without, left, right, rest, at
<1>9. /\ Without(n) \in Seq(R) /\ Len(Without(n)) = Len(globals) - 1
      /\ \A i \in 1..(at - 1) : Without(n)[i] = globals[i]
      /\ \A i \in at..(Len(globals) - 1) : Without(n)[i] = rest[i - at + 1]
  <2>1. /\ Without(n) \in Seq(R) /\ Len(Without(n)) = Len(left) + Len(rest)
        /\ \A i \in 1..Len(left) : Without(n)[i] = left[i]
        /\ \A i \in (Len(left) + 1)..(Len(left) + Len(rest)) :
             Without(n)[i] = rest[i - Len(left)]
    <3>1. /\ left \o rest \in Seq(R) /\ Len(left \o rest) = Len(left) + Len(rest)
          /\ \A i \in 1..Len(left) : (left \o rest)[i] = left[i]
          /\ \A i \in (Len(left) + 1)..(Len(left) + Len(rest)) :
               (left \o rest)[i] = rest[i - Len(left)]
      BY <1>4, <1>7, ConcatenationIs, Zenon
    <3> QED
      BY <1>8, <3>1, Zenon
  <2>2. /\ Len(left) = at - 1 /\ Len(rest) = Len(globals) - at
        /\ Len(left) + Len(rest) = Len(globals) - 1 /\ Len(left) + 1 = at
    BY <1>1, <1>2, <1>4, <1>7
  <2>3. \A i \in at..(Len(globals) - 1) : i - (at - 1) = i - at + 1
    BY <1>1, <1>2
  <2> QED
    BY <1>4, <2>1, <2>2, <2>3
<1>10. \A i \in 1..(Len(globals) - 1) :
         \/ i < at /\ Without(n)[i].id = globals[i].id
         \/ i >= at /\ Without(n)[i].id \in {globals[i + 1].id, NoId}
  <2> SUFFICES ASSUME NEW i \in at..(Len(globals) - 1)
               PROVE  Without(n)[i].id \in {globals[i + 1].id, NoId}
    BY <1>1, <1>2, <1>9
  <2>1. i - at + 1 \in 1..(Len(globals) - at) /\ at + (i - at + 1) = i + 1
    BY <1>1, <1>2
  <2> QED
    BY <1>6, <1>9, <2>1
<1>11. Once(Without(n))
  <2> SUFFICES ASSUME NEW i \in 1..(Len(globals) - 1), NEW j \in 1..(Len(globals) - 1),
                      Without(n)[i].id = Without(n)[j].id, Without(n)[i].id # NoId
               PROVE  i = j
    BY <1>9 DEF Once
  <2>1. PICK k \in {i, i + 1} : /\ Without(n)[i].id = globals[k].id
                                /\ k = IF i < at THEN i ELSE i + 1
    BY <1>1, <1>2, <1>10
  <2>2. PICK l \in {j, j + 1} : /\ Without(n)[j].id = globals[l].id
                                /\ l = IF j < at THEN j ELSE j + 1
    BY <1>1, <1>2, <1>10
  <2>3. k \in 1..Len(globals) /\ l \in 1..Len(globals)
    BY <1>1, <2>1, <2>2
  <2>4. k = l
    BY <1>1, <2>1, <2>2, <2>3 DEF Once
  <2> QED
    BY <1>1, <1>2, <2>1, <2>2, <2>4
<1>12. ASSUME NEW i \in 1..(Len(globals) - 1), Without(n)[i].id # NoId
       PROVE  \E k \in 1..Len(globals) : k # at /\ Without(n)[i] = globals[k]
  <2>1. CASE i < at
    <3>1. i \in 1..(at - 1) /\ i \in 1..Len(globals) /\ i # at
      BY <1>1, <1>2, <2>1
    <3> QED
      BY <1>9, <3>1
  <2>2. CASE i >= at
    <3>1. /\ i \in at..(Len(globals) - 1) /\ i - at + 1 \in 1..(Len(globals) - at)
          /\ at + (i - at + 1) = i + 1 /\ i + 1 \in 1..Len(globals) /\ i + 1 # at
      BY <1>1, <1>2, <2>2
    <3>2. Without(n)[i] = rest[i - at + 1]
      BY <1>9, <3>1
    <3>3. Without(n)[i] = globals[i + 1]
      BY <1>6, <1>12, <3>1, <3>2
    <3> QED
      BY <3>1, <3>3
  <2> QED
    BY <1>1, <1>2, <2>1, <2>2
<1>13. GlobalsOK(Without(n)) /\ Len(Without(n)) = Len(globals) - 1
  BY <1>1, <1>9, <1>11, BoundAssumption DEF GlobalsOK, Globals, R
<1> QED
  BY <1>12, <1>13 DEF at

----------------------------------------------------------------------------
(***************************************************************************)
(* Calls                                                                   *)
(***************************************************************************)
\* What is pushed for a call
LEMMA OperandsAre ==
  ASSUME NEW o \in Operands
  PROVE  /\ o.func.named \in Names
         /\ Formals(o.func) \in Seq(Name)
         /\ o.given \in Seq(Value)
         /\ o.byName \in Seq([id : Name, value : Value])
<1>1. /\ o.func \in [required : Names, named : Names]
      /\ o.given \in Values /\ o.byName \in Named
  BY DEF Operands, Func
<1>2. o.func.required \in Seq(Name) /\ o.func.named \in Seq(Name)
  BY <1>1, NamesAre
<1>3. PICK k \in 0..MaxFormals : o.given \in [1..k -> Value]
  BY <1>1 DEF Values
<1>4. PICK l \in 0..MaxFormals : o.byName \in [1..l -> [id : Name, value : Value]]
  BY <1>1 DEF Named
<1>5. k \in Nat /\ l \in Nat
  BY BoundAssumption
<1>6. Formals(o.func) \in Seq(Name)
  BY <1>2 DEF Formals
<1>7. o.given \in Seq(Value)
  BY <1>3, <1>5, SequenceIs
<1>8. o.byName \in Seq([id : Name, value : Value])
  BY <1>4, <1>5, SequenceIs
<1> QED
  BY <1>1, <1>6, <1>7, <1>8

\* The actuals that fit, paired with their formals
LEMMA ActualsAre ==
  ASSUME NEW o \in Operands, Fits(o)
  PROVE  /\ FormalsGiven(o) \in Seq(Name) /\ ActualsGiven(o) \in Seq(Value)
         /\ Len(FormalsGiven(o)) = Len(ActualsGiven(o))
<1>1. /\ Formals(o.func) \in Seq(Name) /\ o.given \in Seq(Value)
      /\ o.byName \in Seq([id : Name, value : Value])
      /\ Len(o.given) \in Nat /\ Len(o.byName) \in Nat
  BY OperandsAre, ElementIs
<1>2. \A i \in 1..Len(o.byName) : o.byName[i] \in [id : Name, value : Value]
  BY <1>1, ElementIs
<1> DEFINE positions == [i \in 1..Len(o.given) |-> Formals(o.func)[i]]
           ids       == [i \in 1..Len(o.byName) |-> o.byName[i].id]
           values    == [i \in 1..Len(o.byName) |-> o.byName[i].value]
<1>3. positions \in [1..Len(o.given) -> Name]
  BY <1>1 DEF Fits
<1>4. ids \in [1..Len(o.byName) -> Name] /\ values \in [1..Len(o.byName) -> Value]
  BY <1>2
<1> HIDE DEF positions, ids, values
<1>5. /\ positions \in Seq(Name) /\ Len(positions) = Len(o.given)
      /\ ids \in Seq(Name) /\ Len(ids) = Len(o.byName)
      /\ values \in Seq(Value) /\ Len(values) = Len(o.byName)
  BY <1>1, <1>3, <1>4, SequenceIs
<1>6. FormalsGiven(o) = positions \o ids /\ ActualsGiven(o) = o.given \o values
  BY DEF FormalsGiven, ActualsGiven, positions, ids, values
<1>7. FormalsGiven(o) \in Seq(Name) /\ Len(FormalsGiven(o)) = Len(o.given) + Len(o.byName)
  <2>1. positions \o ids \in Seq(Name) /\ Len(positions \o ids) = Len(positions) + Len(ids)
    BY <1>5, ConcatenationIs, Zenon
  <2> QED
    BY <1>5, <1>6, <2>1
<1>8. ActualsGiven(o) \in Seq(Value) /\ Len(ActualsGiven(o)) = Len(o.given) + Len(o.byName)
  <2>1. o.given \o values \in Seq(Value) /\ Len(o.given \o values) = Len(o.given) + Len(values)
    BY <1>1, <1>5, ConcatenationIs, Zenon
  <2> QED
    BY <1>5, <1>6, <2>1
<1> QED
  BY <1>7, <1>8

\* A call fills its frame with different names.
LEMMA CallKeeps ==
  ASSUME IInv, Call
  PROVE  CallsOK(frames')
<1> DEFINE ids    == FormalsGiven(operands)
           values == ActualsGiven(operands)
           vars1  == [i \in 1..Len(ids) |-> [id |-> ids[i], value |-> values[i]]]
           r      == [pending |-> operands.func.named, vars |-> vars1]
<1>1. operands \in Operands /\ Fits(operands) /\ Distinct(ids)
  BY DEF Call, IInv, OperandsOK
<1>2. /\ ids \in Seq(Name) /\ values \in Seq(Value) /\ Len(ids) = Len(values)
      /\ Len(ids) \in Nat
  BY <1>1, ActualsAre, ElementIs
<1>3. frames' = Append(frames, r)
  BY DEF Call
<1> HIDE DEF ids, values
<1>4. vars1 \in [1..Len(ids) -> Record(Name, Slot)]
  <2>1. \A i \in 1..Len(ids) : ids[i] \in Name /\ values[i] \in Slot
    BY <1>2, ElementIs DEF Slot
  <2> QED
    BY <2>1 DEF Record
<1>5. \A i \in 1..Len(ids) : vars1[i].id = ids[i]
  OBVIOUS
<1> HIDE DEF vars1
<1>6. vars1 \in Locals /\ Len(vars1) = Len(ids)
  BY <1>2, <1>4, SequenceIs DEF Locals
<1>7. Once(vars1)
  BY <1>1, <1>5, <1>6 DEF Once, Distinct
<1>8. r \in CallRecord /\ r.vars = vars1
  BY <1>1, <1>6, OperandsAre DEF CallRecord
<1> HIDE DEF r
<1>9. frames \in Seq(CallRecord) /\ \A k \in 1..Len(frames) : Once(frames[k].vars)
  BY DEF IInv, CallsOK
<1>10. /\ frames' \in Seq(CallRecord) /\ Len(frames') = Len(frames) + 1
       /\ frames'[Len(frames) + 1] = r
       /\ \A k \in 1..Len(frames) : frames'[k] = frames[k]
  BY <1>3, <1>8, <1>9
<1> QED
  BY <1>7, <1>8, <1>9, <1>10 DEF CallsOK

----------------------------------------------------------------------------
(***************************************************************************)
(* The theorems                                                            *)
(***************************************************************************)
LEMMA InitIInv == Init => IInv
BY ValueAssumption, BoundAssumption
   DEF Init, IInv, GlobalsOK, CallsOK, OperandsOK, Globals, Once

\* Every step leaves the frames in order.
LEMMA NextKeepsIInv == IInv /\ [Next]_vars => IInv'
<1> SUFFICES ASSUME IInv, [Next]_vars
             PROVE  IInv'
  OBVIOUS
<1>1. CASE Evaluate
  BY <1>1 DEF Evaluate, IInv
<1>2. CASE EvaluateFails
  BY <1>2, AbortKeeps DEF EvaluateFails, IInv
<1>3. CASE Prepare
  BY <1>3 DEF Prepare, IInv, OperandsOK
<1>4. CASE Call
  BY <1>4, CallKeeps DEF Call, IInv, OperandsOK
<1>5. CASE CallFails
  BY <1>5, AbortKeeps DEF CallFails, IInv
<1>6. CASE AssignDefault
  <2> DEFINE n   == Head(Pending)
             new == IF Given(n) THEN Frame
                    ELSE IF IsLocal(n) THEN Set(Frame, n, Default)
                    ELSE Insert(Frame, n, Default)
             r   == [pending |-> Tail(Pending), vars |-> new]
  <2>1. frames # << >>
    BY <1>6 DEF AssignDefault, Pending
  <2>2. Pending \in Seq(Name) /\ Len(Pending) <= MaxFormals /\ Pending # << >>
    BY <1>6, <2>1, CurrentIs, NamesAre DEF AssignDefault
  <2>3. n \in Name /\ Tail(Pending) \in Seq(Name) /\ Len(Tail(Pending)) <= MaxFormals
    BY <2>2, BoundAssumption
  <2>4. Tail(Pending) \in Names
    BY <2>3, NamesAre
  <2> HIDE DEF n
  <2>5. Default \in Slot
    BY ValueAssumption DEF Slot
  <2>6. FrameOK(new)
    BY <2>1, <2>3, <2>5, CurrentIs, FrameChanges
  <2>7. frames' = [frames EXCEPT ![Len(frames)] = r]
    BY <1>6 DEF AssignDefault, n
  <2> HIDE DEF new
  <2>8. r \in CallRecord /\ r.vars = new
    BY <2>4, <2>6 DEF CallRecord, FrameOK
  <2> HIDE DEF r
  <2>9. CallsOK(frames')
    BY <2>1, <2>6, <2>7, <2>8, ReplaceLast DEF IInv, FrameOK
  <2> QED
    BY <1>6, <2>9, ValueAssumption DEF AssignDefault, IInv
<1>7. CASE DefaultFails
  <2>1. frames # << >>
    BY <1>7 DEF DefaultFails, Pending
  <2>2. Pending \in Seq(Name) /\ Pending # << >>
    BY <1>7, <2>1, CurrentIs, NamesAre DEF DefaultFails
  <2>3. Head(Pending) \in Name /\ Default \in Value
    BY <2>2, ValueAssumption
  <2> QED
    BY <1>7, <2>3, StoreFailsKeeps DEF DefaultFails
<1>8. CASE Return
  <2>1. frames \in Seq(CallRecord) /\ Len(frames) \in Nat /\ frames # << >>
    BY <1>8, ElementIs DEF Return, IInv, CallsOK
  <2>2. /\ frames' \in Seq(CallRecord) /\ Len(frames') = Len(frames) - 1
        /\ \A k \in 1..(Len(frames) - 1) : frames'[k] = frames[k]
    BY <1>8, <2>1, AllButLast, Zenon DEF Return
  <2>3. CallsOK(frames')
    BY <2>1, <2>2 DEF IInv, CallsOK
  <2> QED
    BY <1>8, <2>3 DEF Return, IInv
<1>9. CASE Finish
  BY <1>9, ValueAssumption DEF Finish, IInv
<1>10. ASSUME NEW n \in Name, Load(n)
       PROVE  IInv'
  <2>1. CASE FoundLocal(n) /\ a' = ValueIn(Frame, n)
    <3>1. frames # << >> /\ Has(Frame, n) /\ ValueIn(Frame, n) # GLOBAL
      BY <2>1 DEF FoundLocal, IsLocal
    <3>2. ValueIn(Frame, n) \in Slot
      BY <3>1, CurrentIs, ValueFound DEF FrameOK, Locals
    <3> QED
      BY <1>10, <2>1, <3>1, <3>2 DEF Load, IInv, Slot
  <2>2. CASE Has(globals, n) /\ a' = ValueIn(globals, n)
    <3>1. ValueIn(globals, n) \in Value
      BY <2>2, ValueFound DEF IInv, GlobalsOK, Globals
    <3> QED
      BY <1>10, <2>2, <3>1 DEF Load, IInv
  <2> QED
    BY <1>10, <2>1, <2>2 DEF Load
<1>11. ASSUME NEW n \in Name, LoadFails(n) \/ EnhanceFails(n) \/ DeclareFails(n)
       PROVE  IInv'
  BY <1>11, AbortKeeps DEF LoadFails, EnhanceFails, DeclareFails, IInv
<1>12. ASSUME NEW n \in Name, Assign(n)
       PROVE  IInv'
  BY <1>12, StoreKeeps DEF Assign, IInv
<1>13. ASSUME NEW n \in Name, AssignFails(n)
       PROVE  IInv'
  BY <1>13, StoreFailsKeeps DEF AssignFails, IInv
<1>14. ASSUME NEW n \in Name, Enhance(n)
       PROVE  IInv'
  BY <1>14, StoreKeeps DEF Enhance, IInv
<1>15. ASSUME NEW n \in Name, EnhanceMismatch(n)
       PROVE  IInv'
  <2>1. GlobalsOK(globals')
    BY <1>15, GlobalsChange, ValueAssumption DEF EnhanceMismatch, IInv
  <2> QED
    BY <1>15, <2>1, AbortKeeps DEF EnhanceMismatch
<1>16. ASSUME NEW n \in Name, Declare(n)
       PROVE  IInv'
  <2>1. frames # << >> /\ GLOBAL \in Slot
    BY <1>16 DEF Declare, Slot
  <2>2. CallsOK(frames')
    BY <1>16, <2>1, FrameChanges, ReframeKeeps DEF Declare
  <2> QED
    BY <1>16, <2>2 DEF Declare, IInv
<1>17. ASSUME NEW n \in Name, Delete(n)
       PROVE  IInv'
  BY <1>17, WithoutKeeps DEF Delete, IInv
<1>18. CASE UNCHANGED vars
  BY <1>18 DEF vars, IInv
<1> QED
  BY <1>1, <1>2, <1>3, <1>4, <1>5, <1>6, <1>7, <1>8, <1>9, <1>10, <1>11, <1>12,
     <1>13, <1>14, <1>15, <1>16, <1>17, <1>18 DEF Next

\* The frames are in order in every state, whatever the program does.
THEOREM IInvHolds == Spec => []IInv
BY InitIInv, NextKeepsIInv, PTL DEF Spec

\* Frames hold variables with values, and SNEK_GLOBAL is never taken for the
\* value of a global variable or of an expression (snek_frame_lookup).
THEOREM TypeCorrect == Spec => []TypeOK
BY IInvHolds, IInvIs, PTL

\* No frame ever has two variables of one name: snek_func_actual refuses the
\* second actual for a formal, and everything else inserts only what the search
\* has not found.
THEOREM NamesOnceHolds == Spec => []NamesOnce
BY IInvHolds, IInvIs, PTL

----------------------------------------------------------------------------
(***************************************************************************)
(* What a frame says of names                                              *)
(***************************************************************************)
\* The first place of a name is the only first place.
LEMMA AtIs ==
  ASSUME NEW R, NEW frame \in Seq(R), NEW n, NEW i \in 1..Len(frame),
         frame[i].id = n, \A j \in 1..(i - 1) : frame[j].id # n
  PROVE  Has(frame, n) /\ At(frame, n) = i
<1> DEFINE First(k) == frame[k].id = n /\ \A j \in 1..(k - 1) : frame[j].id # n
<1>1. i \in 1..Len(frame) /\ First(i)
  OBVIOUS
<1>2. At(frame, n) = CHOOSE k \in 1..Len(frame) : First(k)
  BY DEF At
<1>3. (CHOOSE k \in 1..Len(frame) : First(k)) \in 1..Len(frame)
      /\ First(CHOOSE k \in 1..Len(frame) : First(k))
  <2> HIDE DEF First
  <2> QED
    BY <1>1
<1>4. ASSUME NEW k \in 1..Len(frame), First(k) PROVE k = i
  BY <1>4
<1> HIDE DEF First
<1>5. At(frame, n) = i
  BY <1>2, <1>3, <1>4
<1> QED
  BY <1>5 DEF Has

\* With every name once in it, any place is the first.
LEMMA OnlyPlace ==
  ASSUME NEW R, NEW frame \in Seq(R), Once(frame), NEW i \in 1..Len(frame),
         NEW n, frame[i].id = n, n # NoId
  PROVE  Has(frame, n) /\ At(frame, n) = i
<1>1. frame[i].id = n /\ \A j \in 1..(i - 1) : frame[j].id # n
  BY DEF Once
<1> QED
  BY <1>1, AtIs

\* n has value v in the one frame, and all else is as in the other.
Sets(frame, new, n, v) ==
  \A m \in Name : /\ Has(new, m) <=> Has(frame, m) \/ m = n
                  /\ Has(new, m) => ValueIn(new, m) = IF m = n THEN v ELSE ValueIn(frame, m)

LEMMA SetSets ==
  ASSUME NEW I, NEW V, NEW frame \in Seq(Record(I, V)), NEW n \in Name, n # NoId, NEW v \in V,
         Once(frame), Has(frame, n), NoId \notin Name
  PROVE  Sets(frame, Set(frame, n, v), n, v)
<1> DEFINE at  == At(frame, n)
           new == Set(frame, n, v)
<1>1. at \in 1..Len(frame) /\ frame[at].id = n
  BY AtFirst
<1>2. new \in Seq(Record(I, V)) /\ Len(new) = Len(frame) /\ Once(new)
  BY SetKeepsIds
<1>3. /\ \A i \in 1..Len(frame) : new[i].id = frame[i].id
      /\ \A i \in 1..Len(frame) : new[i].value = IF i = at THEN v ELSE frame[i].value
  <2>1. \A i \in 1..Len(frame) : frame[i] \in Record(I, V)
    BY ElementIs
  <2>2. \A e \in Record(I, V) : [e EXCEPT !.value = v].id = e.id /\ [e EXCEPT !.value = v].value = v
    BY DEF Record
  <2>3. \A i \in 1..Len(frame) : new[i] = IF i = at THEN [frame[i] EXCEPT !.value = v] ELSE frame[i]
    <3>1. DOMAIN frame = 1..Len(frame)
      OBVIOUS
    <3> QED
      BY <3>1 DEF Set
  <2> HIDE DEF new, at
  <2> QED
    BY <2>1, <2>2, <2>3
<1> HIDE DEF new, at
<1>4. ASSUME NEW m \in Name PROVE Has(new, m) <=> Has(frame, m)
  BY <1>2, <1>3 DEF Has
<1>5. ASSUME NEW m \in Name, Has(frame, m)
      PROVE  ValueIn(new, m) = IF m = n THEN v ELSE ValueIn(frame, m)
  <2> DEFINE i == At(frame, m)
  <2>1. i \in 1..Len(frame) /\ frame[i].id = m /\ m # NoId
    <3>1. i \in 1..Len(frame) /\ frame[i].id = m
      BY <1>5, AtFirst
    <3> QED
      BY <3>1
  <2> HIDE DEF i
  <2>2. new[i].id = m
    BY <1>3, <2>1
  <2>3. At(new, m) = i
    <3>1. i \in 1..Len(new) /\ new[i].id = m
      BY <1>2, <2>1, <2>2
    <3> QED
      BY <1>2, <2>1, <3>1, OnlyPlace
  <2>4. i = at <=> m = n
    BY <1>1, <2>1 DEF Once
  <2> QED
    BY <1>3, <2>1, <2>3, <2>4 DEF ValueIn, i
<1>6. Sets(frame, new, n, v)
  BY <1>1, <1>4, <1>5 DEF Sets, Has
<1> QED
  BY <1>6 DEF new

LEMMA InsertSets ==
  ASSUME NEW I, NEW V, NEW frame \in Seq(Record(I, V)), NEW n \in Name \cap I, NEW v \in V,
         Once(frame), ~Has(frame, n), NoId \notin Name
  PROVE  Sets(frame, Insert(frame, n, v), n, v)
<1> DEFINE new == Insert(frame, n, v)
<1>1. new \in Seq(Record(I, V)) /\ Len(new) = Len(frame) + 1 /\ Once(new) /\ Len(frame) \in Nat
  BY InsertKeepsOnce, ElementIs
<1>2. /\ \A i \in 1..Len(frame) : new[i] = frame[i]
      /\ new[Len(frame) + 1].id = n /\ new[Len(frame) + 1].value = v
  BY DEF Insert
<1> HIDE DEF new
<1>3. ASSUME NEW m \in Name PROVE Has(new, m) <=> Has(frame, m) \/ m = n
  <2>1. ASSUME Has(frame, m) PROVE Has(new, m)
    <3>1. PICK i \in 1..Len(frame) : frame[i].id = m
      BY <2>1 DEF Has
    <3>2. i \in 1..Len(new) /\ new[i].id = m
      BY <1>1, <1>2, <3>1
    <3> QED
      BY <3>2 DEF Has
  <2>2. Has(new, n)
    <3>1. Len(frame) + 1 \in 1..Len(new)
      BY <1>1
    <3> QED
      BY <1>2, <3>1 DEF Has
  <2>3. ASSUME Has(new, m), m # n PROVE Has(frame, m)
    <3>1. PICK i \in 1..Len(new) : new[i].id = m
      BY <2>3 DEF Has
    <3>2. i \in 1..Len(frame)
      BY <1>1, <1>2, <2>3, <3>1
    <3> QED
      BY <1>2, <3>1, <3>2 DEF Has
  <2> QED
    BY <2>1, <2>2, <2>3
<1>4. ASSUME NEW m \in Name, Has(frame, m) PROVE ValueIn(new, m) = ValueIn(frame, m) /\ m # n
  <2> DEFINE i == At(frame, m)
  <2>1. i \in 1..Len(frame) /\ frame[i].id = m /\ m # NoId
    <3>1. i \in 1..Len(frame) /\ frame[i].id = m
      BY <1>4, AtFirst
    <3> QED
      BY <3>1
  <2> HIDE DEF i
  <2>2. new[i] = frame[i] /\ i \in 1..Len(new)
    BY <1>1, <1>2, <2>1
  <2>3. At(new, m) = i
    <3>1. new[i].id = m
      BY <2>1, <2>2
    <3> QED
      BY <1>1, <2>1, <2>2, <3>1, OnlyPlace
  <2> QED
    BY <1>4, <2>2, <2>3 DEF ValueIn, i
<1>5. ValueIn(new, n) = v
  <2>1. Len(frame) + 1 \in 1..Len(new) /\ n # NoId
    BY <1>1
  <2>2. At(new, n) = Len(frame) + 1
    <3>1. new[Len(frame) + 1].id = n
      BY <1>2
    <3> QED
      BY <1>1, <2>1, <3>1, OnlyPlace
  <2> QED
    BY <1>2, <2>2 DEF ValueIn
<1>6. Sets(frame, new, n, v)
  BY <1>3, <1>4, <1>5 DEF Sets
<1> QED
  BY <1>6 DEF new

\* ... so that a value set is a value bound,
LEMMA ValueBinds ==
  ASSUME NEW frame, NEW new, NEW n \in Name, NEW v, v # GLOBAL, Sets(frame, new, n, v)
  PROVE  Bound(new) = Program!Bind(Bound(frame), n, v) /\ Marked(new) = Marked(frame) \ {n}
<1> DEFINE D == {m \in Name : Has(frame, m) /\ ValueIn(frame, m) # GLOBAL}
           E == {m \in Name : Has(new, m) /\ ValueIn(new, m) # GLOBAL}
<1>1. E = D \cup {n}
  BY DEF Sets
<1>2. Bound(frame) = [m \in D |-> ValueIn(frame, m)] /\ Bound(new) = [m \in E |-> ValueIn(new, m)]
  BY DEF Bound
<1>3. \A m \in E : ValueIn(new, m) = IF m = n THEN v ELSE ValueIn(frame, m)
  BY DEF Sets
<1>4. Marked(new) = Marked(frame) \ {n}
  BY DEF Sets, Marked
<1> HIDE DEF D, E
<1>5. Program!Bind(Bound(frame), n, v) = [m \in D \cup {n} |-> IF m = n THEN v ELSE ValueIn(frame, m)]
  BY <1>2 DEF Program!Bind
<1> QED
  BY <1>1, <1>2, <1>3, <1>4, <1>5

\* and SNEK_GLOBAL takes the name from those that have one.
LEMMA MarkUnbinds ==
  ASSUME NEW frame, NEW new, NEW n \in Name, Sets(frame, new, n, GLOBAL)
  PROVE  /\ Bound(new) = Program!Restrict(Bound(frame), DOMAIN Bound(frame) \ {n})
         /\ Marked(new) = Marked(frame) \cup {n}
<1> DEFINE D == {m \in Name : Has(frame, m) /\ ValueIn(frame, m) # GLOBAL}
           E == {m \in Name : Has(new, m) /\ ValueIn(new, m) # GLOBAL}
<1>1. E = D \ {n}
  BY DEF Sets
<1>2. Bound(frame) = [m \in D |-> ValueIn(frame, m)] /\ Bound(new) = [m \in E |-> ValueIn(new, m)]
  BY DEF Bound
<1>3. \A m \in E : ValueIn(new, m) = ValueIn(frame, m)
  BY DEF Sets
<1>4. Marked(new) = Marked(frame) \cup {n}
  BY DEF Sets, Marked
<1> HIDE DEF D, E
<1>5. Program!Restrict(Bound(frame), DOMAIN Bound(frame) \ {n}) = [m \in D \ {n} |-> ValueIn(frame, m)]
  BY <1>2 DEF Program!Restrict
<1> QED
  BY <1>1, <1>2, <1>3, <1>4, <1>5

----------------------------------------------------------------------------
(***************************************************************************)
(* The calls of Scopes, and the names in them                              *)
(***************************************************************************)
ScopeOf(fr) == [vars |-> WithDefaults(fr), global |-> Marked(fr.vars)]
ScopesOf(c) == [k \in 1..Len(c) |-> ScopeOf(c[k])]

\* Opaque where it is not expanded
LastReplaced(c, r) == [c EXCEPT ![Len(c)] = r]

LEMMA ScopesAre ==
  ASSUME NEW S, NEW c \in Seq(S), NEW r \in S
  PROVE  /\ Len(ScopesOf(c)) = Len(c) /\ (ScopesOf(c) = << >> <=> c = << >>)
         /\ \A k \in 1..Len(c) : ScopesOf(c)[k] = ScopeOf(c[k])
         /\ ScopesOf(LastReplaced(c, r)) = LastReplaced(ScopesOf(c), ScopeOf(r))
         /\ ScopesOf(Append(c, r)) = Append(ScopesOf(c), ScopeOf(r))
<1>1. c \in [1..Len(c) -> S] /\ Len(c) \in Nat
  BY ElementIs
<1> DEFINE T == {ScopeOf(s) : s \in S}
<1>2. ScopesOf(c) \in [1..Len(c) -> T] /\ \A k \in 1..Len(c) : ScopesOf(c)[k] = ScopeOf(c[k])
  BY <1>1 DEF ScopesOf
<1>3. ScopesOf(c) \in Seq(T) /\ Len(ScopesOf(c)) = Len(c)
  BY <1>1, <1>2, SequenceIs
<1>4. ScopeOf(r) \in T
  OBVIOUS
<1> HIDE DEF T
<1>5. ScopesOf(c) = << >> <=> c = << >>
  BY <1>1, <1>3
<1>6. ScopesOf(LastReplaced(c, r)) = LastReplaced(ScopesOf(c), ScopeOf(r))
  <2> DEFINE d == [c EXCEPT ![Len(c)] = r]
  <2>1. Len(d) = Len(c) /\ \A k \in 1..Len(c) : d[k] = IF k = Len(c) THEN r ELSE c[k]
    BY <1>1
  <2> HIDE DEF d
  <2>2. ScopesOf(d) = [k \in 1..Len(c) |-> IF k = Len(c) THEN ScopeOf(r) ELSE ScopesOf(c)[k]]
    BY <1>2, <2>1 DEF ScopesOf
  <2>3. [ScopesOf(c) EXCEPT ![Len(c)] = ScopeOf(r)]
          = [k \in 1..Len(c) |-> IF k = Len(c) THEN ScopeOf(r) ELSE ScopesOf(c)[k]]
    BY <1>2
  <2>4. ScopesOf(d) = [ScopesOf(c) EXCEPT ![Len(c)] = ScopeOf(r)]
    BY <2>2, <2>3
  <2> QED
    BY <1>3, <2>4 DEF d, LastReplaced
<1>7. ScopesOf(Append(c, r)) = Append(ScopesOf(c), ScopeOf(r))
  <2> DEFINE d == Append(c, r)
             e == Append(ScopesOf(c), ScopeOf(r))
  <2>1. Len(d) = Len(c) + 1 /\ \A k \in 1..(Len(c) + 1) : d[k] = IF k = Len(c) + 1 THEN r ELSE c[k]
    BY <1>1
  <2>2. /\ e \in Seq(T) /\ Len(e) = Len(c) + 1
        /\ \A k \in 1..(Len(c) + 1) : e[k] = IF k = Len(c) + 1 THEN ScopeOf(r) ELSE ScopesOf(c)[k]
    BY <1>1, <1>3, <1>4
  <2> HIDE DEF d, e
  <2>3. e = [k \in 1..(Len(c) + 1) |-> e[k]]
    BY <2>2, ElementIs
  <2>4. \A k \in 1..(Len(c) + 1) : ScopeOf(d[k]) = e[k]
    BY <1>1, <1>2, <2>1, <2>2
  <2>5. ScopesOf(d) = [k \in 1..(Len(c) + 1) |-> e[k]]
    BY <2>1, <2>4 DEF ScopesOf
  <2> QED
    BY <2>3, <2>5 DEF d, e
<1> QED
  BY <1>2, <1>3, <1>5, <1>6, <1>7

LEMMA ScopesButLast ==
  ASSUME NEW S, NEW c \in Seq(S), c # << >>
  PROVE  ScopesOf(SubSeq(c, 1, Len(c) - 1)) = SubSeq(ScopesOf(c), 1, Len(c) - 1)
<1>1. c \in [1..Len(c) -> S] /\ Len(c) \in Nat \ {0}
  BY ElementIs
<1> DEFINE T == {ScopeOf(s) : s \in S}
<1>2. ScopesOf(c) \in [1..Len(c) -> T] /\ \A k \in 1..Len(c) : ScopesOf(c)[k] = ScopeOf(c[k])
  BY <1>1 DEF ScopesOf
<1>3. ScopesOf(c) \in Seq(T) /\ Len(ScopesOf(c)) = Len(c)
  BY <1>1, <1>2, SequenceIs
<1> HIDE DEF T
<1> DEFINE d == SubSeq(c, 1, Len(c) - 1)
           e == SubSeq(ScopesOf(c), 1, Len(c) - 1)
<1>4. Len(d) = Len(c) - 1 /\ \A k \in 1..(Len(c) - 1) : d[k] = c[k]
  BY AllButLast
<1>5. e \in Seq(T) /\ Len(e) = Len(c) - 1 /\ \A k \in 1..(Len(c) - 1) : e[k] = ScopesOf(c)[k]
  <2>1. ScopesOf(c) # << >>
    BY <1>1, <1>3
  <2> QED
    BY <1>3, <2>1, AllButLast
<1> HIDE DEF d, e
<1>6. e = [k \in 1..(Len(c) - 1) |-> e[k]]
  BY <1>5, ElementIs
<1>7. \A k \in 1..(Len(c) - 1) : ScopeOf(d[k]) = e[k]
  BY <1>1, <1>2, <1>4, <1>5
<1>8. ScopesOf(d) = [k \in 1..(Len(c) - 1) |-> e[k]]
  BY <1>4, <1>7 DEF ScopesOf
<1> QED
  BY <1>6, <1>8 DEF d, e

----------------------------------------------------------------------------
(***************************************************************************)
(* What a call puts in its frame                                           *)
(***************************************************************************)
LEMMA ImageSize ==
  ASSUME NEW S, NEW s \in Seq(S), Distinct(s)
  PROVE  Cardinality(Range(s)) = Len(s)
<1>1. s \in [1..Len(s) -> Range(s)] /\ Len(s) \in Nat /\ DOMAIN s = 1..Len(s)
  BY ElementIs DEF Range
<1>2. s \in Injection(1..Len(s), Range(s))
  BY <1>1 DEF Injection, IsInjective, Distinct
<1>3. s \in Surjection(1..Len(s), Range(s))
  BY <1>1 DEF Surjection, Range
<1>4. ExistsBijection(1..Len(s), Range(s))
  BY <1>2, <1>3 DEF Bijection, ExistsBijection
<1>5. IsFiniteSet(1..Len(s)) /\ Cardinality(1..Len(s)) = Len(s)
  <2>1. PICK n \in Nat : n = Len(s)
    BY <1>1
  <2>2. IsFiniteSet(1..n) /\ Cardinality(1..n) = IF 1 > n THEN 0 ELSE n - 1 + 1
    BY FS_Interval
  <2>3. Cardinality(1..n) = n
    BY <2>2
  <2> QED
    BY <2>1, <2>2, <2>3
<1> QED
  BY <1>4, <1>5, FS_Bijection

Filled(o) ==
  [i \in 1..Len(FormalsGiven(o)) |-> [id |-> FormalsGiven(o)[i], value |-> ActualsGiven(o)[i]]]

LEMMA FilledIs ==
  ASSUME NEW o \in Operands, Fits(o), Distinct(FormalsGiven(o))
  PROVE  /\ Filled(o) \in Locals /\ Once(Filled(o))
         /\ \A m \in Name : Has(Filled(o), m) <=> m \in Range(FormalsGiven(o))
         /\ \A i \in 1..Len(FormalsGiven(o)) :
              ValueIn(Filled(o), FormalsGiven(o)[i]) = ActualsGiven(o)[i] /\ ActualsGiven(o)[i] \in Value
<1> DEFINE ids    == FormalsGiven(o)
           values == ActualsGiven(o)
           new    == Filled(o)
<1>1. /\ ids \in Seq(Name) /\ values \in Seq(Value) /\ Len(ids) = Len(values)
      /\ Len(ids) \in Nat
  BY ActualsAre, ElementIs
<1> HIDE DEF ids, values
<1>2. \A i \in 1..Len(ids) : ids[i] \in Name /\ values[i] \in Value /\ values[i] \in Slot
  BY <1>1, ElementIs DEF Slot
<1>3. /\ new \in [1..Len(ids) -> Record(Name, Slot)]
      /\ \A i \in 1..Len(ids) : new[i].id = ids[i] /\ new[i].value = values[i]
  BY <1>2 DEF Record, Filled, ids, values
<1> HIDE DEF new
<1>4. new \in Locals /\ new \in Seq(Record(Name, Slot)) /\ Len(new) = Len(ids)
  BY <1>1, <1>3, SequenceIs DEF Locals
<1>5. Once(new)
  <2>1. \A i, j \in 1..Len(ids) : i # j => ids[i] # ids[j]
    BY DEF Distinct, ids
  <2> QED
    BY <1>3, <1>4, <2>1 DEF Once
<1>6. ASSUME NEW i \in 1..Len(ids) PROVE ValueIn(new, ids[i]) = values[i]
  <2>1. i \in 1..Len(new) /\ new[i].id = ids[i] /\ ids[i] # NoId
    BY <1>2, <1>3, <1>4, IdAssumption
  <2>2. At(new, ids[i]) = i
    BY <1>4, <1>5, <2>1, OnlyPlace
  <2> QED
    BY <1>3, <2>2 DEF ValueIn
<1>7. ASSUME NEW m \in Name PROVE Has(new, m) <=> m \in Range(ids)
  <2>1. DOMAIN ids = 1..Len(ids)
    BY <1>1
  <2> QED
    BY <1>3, <1>4, <2>1 DEF Has, Range
<1> QED
  BY <1>2, <1>4, <1>5, <1>6, <1>7 DEF ids, values, new

\* By position, by name, and the defaults of the formals that are left
ByPosition(o) ==
  [n \in {Formals(o.func)[i] : i \in DOMAIN o.given} |->
     o.given[CHOOSE i \in DOMAIN o.given : Formals(o.func)[i] = n]]
ByName(o) ==
  [n \in {p.id : p \in Range(o.byName)} |-> (CHOOSE p \in Range(o.byName) : p.id = n).value]
Defaults(o) == [n \in Range(o.func.named) |-> Default]

LEMMA PartsOfIt ==
  ASSUME NEW S, NEW s \in Seq(S), NEW t \in Seq(S)
  PROVE  /\ Len(s \o t) = Len(s) + Len(t)
         /\ \A i \in 1..Len(s) : (s \o t)[i] = s[i]
         /\ \A i \in 1..Len(t) : (s \o t)[Len(s) + i] = t[i]
OBVIOUS

\* Where the actuals are among the formals
LEMMA PartsAre ==
  ASSUME NEW o \in Operands, Fits(o)
  PROVE  /\ Len(o.given) \in Nat /\ Len(o.byName) \in Nat
         /\ DOMAIN o.given = 1..Len(o.given) /\ DOMAIN o.byName = 1..Len(o.byName)
         /\ Len(FormalsGiven(o)) = Len(o.given) + Len(o.byName)
         /\ \A i \in 1..Len(o.given) :
              FormalsGiven(o)[i] = Formals(o.func)[i] /\ ActualsGiven(o)[i] = o.given[i]
         /\ \A i \in 1..Len(o.byName) :
              /\ FormalsGiven(o)[Len(o.given) + i] = o.byName[i].id
              /\ ActualsGiven(o)[Len(o.given) + i] = o.byName[i].value
<1>1. /\ Formals(o.func) \in Seq(Name) /\ o.given \in Seq(Value)
      /\ o.byName \in Seq(Record(Name, Value))
      /\ Len(o.given) \in Nat /\ Len(o.byName) \in Nat
      /\ DOMAIN o.given = 1..Len(o.given) /\ DOMAIN o.byName = 1..Len(o.byName)
  BY OperandsAre, ElementIs DEF Record
<1>2. \A i \in 1..Len(o.byName) : o.byName[i].id \in Name /\ o.byName[i].value \in Value
  <2>1. \A i \in 1..Len(o.byName) : o.byName[i] \in Record(Name, Value)
    BY <1>1, ElementIs
  <2> QED
    BY <2>1 DEF Record
<1> DEFINE positions == [i \in 1..Len(o.given) |-> Formals(o.func)[i]]
           ids       == [i \in 1..Len(o.byName) |-> o.byName[i].id]
           values    == [i \in 1..Len(o.byName) |-> o.byName[i].value]
<1>3. positions \in [1..Len(o.given) -> Name] /\ \A i \in 1..Len(o.given) : positions[i] = Formals(o.func)[i]
  BY <1>1 DEF Fits
<1>4. /\ ids \in [1..Len(o.byName) -> Name] /\ values \in [1..Len(o.byName) -> Value]
      /\ \A i \in 1..Len(o.byName) : ids[i] = o.byName[i].id /\ values[i] = o.byName[i].value
  BY <1>2
<1>5. FormalsGiven(o) = positions \o ids /\ ActualsGiven(o) = o.given \o values
  BY DEF FormalsGiven, ActualsGiven, positions, ids, values
<1> HIDE DEF positions, ids, values
<1>6. /\ positions \in Seq(Name) /\ Len(positions) = Len(o.given)
      /\ ids \in Seq(Name) /\ Len(ids) = Len(o.byName)
      /\ values \in Seq(Value) /\ Len(values) = Len(o.byName)
  <2>1. positions \in Seq(Name) /\ Len(positions) = Len(o.given)
    BY <1>1, <1>3, SequenceIs
  <2>2. ids \in Seq(Name) /\ Len(ids) = Len(o.byName)
    BY <1>1, <1>4, SequenceIs
  <2>3. values \in Seq(Value) /\ Len(values) = Len(o.byName)
    BY <1>1, <1>4, SequenceIs
  <2> QED
    BY <2>1, <2>2, <2>3
<1>7. /\ Len(positions \o ids) = Len(positions) + Len(ids)
      /\ \A i \in 1..Len(positions) : (positions \o ids)[i] = positions[i]
      /\ \A i \in 1..Len(ids) : (positions \o ids)[Len(positions) + i] = ids[i]
  <2>1. PICK x \in Seq(Name), y \in Seq(Name) : x = positions /\ y = ids
    BY <1>6
  <2>2. /\ Len(x \o y) = Len(x) + Len(y)
        /\ \A i \in 1..Len(x) : (x \o y)[i] = x[i]
        /\ \A i \in 1..Len(y) : (x \o y)[Len(x) + i] = y[i]
    BY PartsOfIt
  <2> QED
    BY <2>1, <2>2
<1>8. PICK given \in Seq(Value) : given = o.given
  BY <1>1
<1>9. /\ \A i \in 1..Len(given) : (given \o values)[i] = given[i]
      /\ \A i \in 1..Len(values) : (given \o values)[Len(given) + i] = values[i]
  <2>1. PICK y \in Seq(Value) : y = values
    BY <1>6
  <2>2. /\ \A i \in 1..Len(given) : (given \o y)[i] = given[i]
        /\ \A i \in 1..Len(y) : (given \o y)[Len(given) + i] = y[i]
    BY PartsOfIt
  <2> QED
    BY <2>1, <2>2
<1>10. /\ Len(FormalsGiven(o)) = Len(o.given) + Len(o.byName)
       /\ \A i \in 1..Len(o.given) : FormalsGiven(o)[i] = Formals(o.func)[i]
       /\ \A i \in 1..Len(o.byName) : FormalsGiven(o)[Len(o.given) + i] = o.byName[i].id
  BY <1>3, <1>4, <1>5, <1>6, <1>7, Zenon
<1>11. /\ \A i \in 1..Len(o.given) : ActualsGiven(o)[i] = o.given[i]
       /\ \A i \in 1..Len(o.byName) : ActualsGiven(o)[Len(o.given) + i] = o.byName[i].value
  BY <1>4, <1>5, <1>6, <1>8, <1>9, Zenon
<1> QED
  BY <1>1, <1>10, <1>11

LEMMA FilledBinds ==
  ASSUME NEW o \in Operands, Fits(o), Distinct(FormalsGiven(o))
  PROVE  /\ Marked(Filled(o)) = {}
         /\ DOMAIN Bound(Filled(o)) = DOMAIN ByPosition(o) \cup DOMAIN ByName(o)
         /\ \A n \in DOMAIN ByPosition(o) : Bound(Filled(o))[n] = ByPosition(o)[n]
         /\ \A n \in DOMAIN ByName(o) : Bound(Filled(o))[n] = ByName(o)[n]
         /\ DOMAIN ByPosition(o) \cap DOMAIN ByName(o) = {}
<1> DEFINE ids    == FormalsGiven(o)
           values == ActualsGiven(o)
           new    == Filled(o)
           K      == Len(o.given)
           L      == Len(o.byName)
<1>1. /\ \A m \in Name : Has(new, m) <=> m \in Range(ids)
      /\ \A i \in 1..Len(ids) : ValueIn(new, ids[i]) = values[i] /\ values[i] \in Value
  BY FilledIs
<1>2. ids \in Seq(Name) /\ Range(ids) \subseteq Name /\ DOMAIN ids = 1..Len(ids)
  <2>1. ids \in Seq(Name)
    BY ActualsAre
  <2> HIDE DEF ids
  <2>2. ids \in [1..Len(ids) -> Name]
    BY <2>1, ElementIs
  <2> QED
    BY <2>1, <2>2 DEF Range
<1>3. /\ K \in Nat /\ L \in Nat /\ DOMAIN o.given = 1..K /\ DOMAIN o.byName = 1..L
      /\ Len(ids) = K + L
      /\ \A i \in 1..K : ids[i] = Formals(o.func)[i] /\ values[i] = o.given[i]
      /\ \A i \in 1..L : ids[K + i] = o.byName[i].id /\ values[K + i] = o.byName[i].value
  BY PartsAre
<1>4. \A i, j \in 1..Len(ids) : i # j => ids[i] # ids[j]
  BY DEF Distinct
<1> HIDE DEF ids, values, new, K, L
<1>5. \A m \in Range(ids) : ValueIn(new, m) \in Value
  BY <1>1, <1>2 DEF Range
<1>6. Marked(new) = {}
  BY <1>1, <1>5, ValueAssumption DEF Marked
<1>7. DOMAIN Bound(new) = Range(ids) /\ \A m \in Range(ids) : Bound(new)[m] = ValueIn(new, m)
  BY <1>1, <1>2, <1>5, ValueAssumption DEF Bound
<1> DEFINE position == {Formals(o.func)[i] : i \in 1..K}
           name     == {p.id : p \in Range(o.byName)}
<1>8. Range(o.byName) = {o.byName[i] : i \in 1..L}
  BY <1>3 DEF Range
<1>9. /\ position = {ids[i] : i \in 1..K} /\ name = {ids[K + i] : i \in 1..L}
      /\ DOMAIN ByPosition(o) = position /\ DOMAIN ByName(o) = name
  <2>1. position = {ids[i] : i \in 1..K}
    BY <1>3
  <2>2. name = {o.byName[i].id : i \in 1..L}
    BY <1>8
  <2>3. name = {ids[K + i] : i \in 1..L}
    <3> DEFINE G(i) == o.byName[i].id
               H(i) == ids[K + i]
    <3>1. \A i \in 1..L : G(i) = H(i)
      BY <1>3
    <3>2. name = {G(i) : i \in 1..L}
      BY <2>2
    <3> HIDE DEF G, H, name
    <3>3. name = {H(i) : i \in 1..L}
      BY <3>1, <3>2
    <3> QED
      BY <3>3 DEF H, name
  <2>4. DOMAIN ByPosition(o) = {Formals(o.func)[i] : i \in DOMAIN o.given}
    BY DEF ByPosition
  <2>5. DOMAIN ByPosition(o) = position
    BY <1>3, <2>4
  <2>6. DOMAIN ByName(o) = name
    BY DEF ByName
  <2> QED
    BY <2>1, <2>3, <2>5, <2>6
<1>10. Range(ids) = {ids[i] : i \in 1..K} \cup {ids[K + i] : i \in 1..L}
  <2>1. ASSUME NEW j \in 1..(K + L) PROVE j \in 1..K \/ \E i \in 1..L : j = K + i
    <3>1. j \in 1..K \/ (j - K \in 1..L /\ j = K + (j - K))
      BY <1>3
    <3> QED
      BY <3>1
  <2>2. \A i \in 1..K : i \in 1..(K + L)
    BY <1>3
  <2>3. \A i \in 1..L : K + i \in 1..(K + L)
    BY <1>3
  <2>4. Range(ids) = {ids[j] : j \in 1..(K + L)}
    BY <1>2, <1>3 DEF Range
  <2>5. ASSUME NEW j \in 1..(K + L)
        PROVE  ids[j] \in {ids[i] : i \in 1..K} \cup {ids[K + i] : i \in 1..L}
    BY <2>1
  <2>6. {ids[j] : j \in 1..(K + L)} \subseteq {ids[i] : i \in 1..K} \cup {ids[K + i] : i \in 1..L}
    BY <2>5
  <2>7. {ids[i] : i \in 1..K} \subseteq {ids[j] : j \in 1..(K + L)}
    BY <2>2
  <2>8. {ids[K + i] : i \in 1..L} \subseteq {ids[j] : j \in 1..(K + L)}
    BY <2>3
  <2> QED
    BY <2>4, <2>6, <2>7, <2>8
<1>11. {ids[i] : i \in 1..K} \cap {ids[K + i] : i \in 1..L} = {}
  <2> SUFFICES ASSUME NEW i \in 1..K, NEW j \in 1..L PROVE ids[i] # ids[K + j]
    OBVIOUS
  <2>1. i \in 1..Len(ids) /\ K + j \in 1..Len(ids) /\ i # K + j
    BY <1>3
  <2> QED
    BY <1>4, <2>1
<1>12. ASSUME NEW n \in position PROVE Bound(new)[n] = ByPosition(o)[n]
  <2> DEFINE c == CHOOSE i \in 1..K : Formals(o.func)[i] = n
  <2>1. c \in 1..K /\ Formals(o.func)[c] = n
    BY <1>12
  <2>2. ByPosition(o)[n] = o.given[c]
    BY <1>3, <1>12 DEF ByPosition
  <2> HIDE DEF c
  <2>3. ids[c] = n /\ values[c] = o.given[c] /\ c \in 1..Len(ids)
    BY <1>3, <2>1
  <2>4. n \in Range(ids)
    BY <1>2, <2>3 DEF Range
  <2> QED
    BY <1>1, <1>7, <2>2, <2>3, <2>4
<1>13. ASSUME NEW n \in name PROVE Bound(new)[n] = ByName(o)[n]
  <2> DEFINE c == CHOOSE p \in Range(o.byName) : p.id = n
  <2>1. c \in Range(o.byName) /\ c.id = n
    BY <1>13
  <2>2. ByName(o)[n] = c.value
    BY <1>13 DEF ByName
  <2> HIDE DEF c
  <2>3. PICK i \in 1..L : c = o.byName[i]
    BY <1>8, <2>1
  <2>4. ids[K + i] = n /\ values[K + i] = c.value /\ K + i \in 1..Len(ids)
    BY <1>3, <2>1, <2>3
  <2>5. n \in Range(ids)
    BY <1>2, <2>4 DEF Range
  <2> QED
    BY <1>1, <1>7, <2>2, <2>4, <2>5
<1> HIDE DEF position, name
<1> QED
  BY <1>6, <1>7, <1>9, <1>10, <1>11, <1>12, <1>13 DEF new

\* A part of a sequence of different elements has as many as it is long.
LEMMA PartSize ==
  ASSUME NEW ids \in Seq(Name), Distinct(ids), NEW from \in Nat, NEW len \in Nat,
         from + len <= Len(ids)
  PROVE  Cardinality({ids[from + i] : i \in 1..len}) = len
<1> DEFINE s == [i \in 1..len |-> ids[from + i]]
<1>1. Len(ids) \in Nat /\ \A i \in 1..Len(ids) : ids[i] \in Name
  BY ElementIs
<1>2. \A i \in 1..len : from + i \in 1..Len(ids)
  BY <1>1
<1>3. s \in [1..len -> Name] /\ \A i \in 1..len : s[i] = ids[from + i]
  BY <1>1, <1>2
<1>4. DOMAIN s = 1..len
  OBVIOUS
<1> HIDE DEF s
<1>5. s \in Seq(Name) /\ Len(s) = len
  BY <1>3, SequenceIs
<1>6. Distinct(s)
  <2> SUFFICES ASSUME NEW i \in 1..len, NEW j \in 1..len, i # j PROVE s[i] # s[j]
    BY <1>5 DEF Distinct
  <2>1. from + i # from + j
    OBVIOUS
  <2> QED
    BY <1>2, <1>3, <2>1 DEF Distinct
<1>7. Range(s) = {s[i] : i \in 1..len}
  BY <1>4 DEF Range
<1>8. {s[i] : i \in 1..len} = {ids[from + i] : i \in 1..len}
  BY <1>3
<1> QED
  BY <1>5, <1>6, <1>7, <1>8, ImageSize

LEMMA CallSizes ==
  ASSUME NEW o \in Operands, Fits(o), Distinct(FormalsGiven(o))
  PROVE  /\ Cardinality(DOMAIN ByPosition(o)) = Len(o.given)
         /\ Cardinality(DOMAIN ByName(o)) = Len(o.byName)
         /\ DOMAIN ByName(o) \subseteq Range(Formals(o.func))
<1> DEFINE ids == FormalsGiven(o)
           K   == Len(o.given)
           L   == Len(o.byName)
<1>1. ids \in Seq(Name)
  BY ActualsAre
<1>2. /\ K \in Nat /\ L \in Nat /\ DOMAIN o.given = 1..K /\ DOMAIN o.byName = 1..L
      /\ Len(ids) = K + L
  BY PartsAre
<1>3. \A i \in 1..K : ids[0 + i] = Formals(o.func)[i]
  <2>1. \A i \in 1..K : ids[i] = Formals(o.func)[i]
    BY PartsAre, Zenon
  <2>2. \A i \in 1..K : 0 + i = i
    OBVIOUS
  <2> QED
    BY <2>1, <2>2, Zenon
<1>4. \A i \in 1..L : ids[K + i] = o.byName[i].id
  BY PartsAre
<1>5. \A i \in 1..L : o.byName[i].id \in Range(Formals(o.func))
  BY DEF Fits
<1> HIDE DEF ids, K, L
<1>6. DOMAIN ByPosition(o) = {ids[0 + i] : i \in 1..K}
  <2> DEFINE G(i) == Formals(o.func)[i]
             H(i) == ids[0 + i]
  <2>1. DOMAIN ByPosition(o) = {G(i) : i \in 1..K}
    BY <1>2 DEF ByPosition
  <2>2. \A i \in 1..K : G(i) = H(i)
    BY <1>3
  <2> HIDE DEF G, H
  <2>3. DOMAIN ByPosition(o) = {H(i) : i \in 1..K}
    BY <2>1, <2>2
  <2> QED
    BY <2>3 DEF H
<1>7. DOMAIN ByName(o) = {o.byName[i].id : i \in 1..L}
  <2>1. Range(o.byName) = {o.byName[i] : i \in 1..L}
    BY <1>2 DEF Range
  <2> QED
    BY <2>1 DEF ByName
<1>8. DOMAIN ByName(o) = {ids[K + i] : i \in 1..L}
  <2> DEFINE G(i) == o.byName[i].id
             H(i) == ids[K + i]
  <2>1. DOMAIN ByName(o) = {G(i) : i \in 1..L}
    BY <1>7
  <2>2. \A i \in 1..L : G(i) = H(i)
    BY <1>4
  <2> HIDE DEF G, H
  <2>3. DOMAIN ByName(o) = {H(i) : i \in 1..L}
    BY <2>1, <2>2
  <2> QED
    BY <2>3 DEF H
<1>9. 0 \in Nat /\ 0 + K <= Len(ids) /\ K + L <= Len(ids) /\ Distinct(ids)
  BY <1>2 DEF ids
<1>10. /\ Cardinality({ids[0 + i] : i \in 1..K}) = K
       /\ Cardinality({ids[K + i] : i \in 1..L}) = L
  BY <1>1, <1>2, <1>9, PartSize
<1> QED
  BY <1>5, <1>6, <1>7, <1>8, <1>10 DEF K, L

\* The frame of a call binds what the call of Scopes does: the actuals, and the
\* defaults that the function's code is yet to assign.
LEMMA CallBinds ==
  ASSUME NEW o \in Operands, Fits(o), Distinct(FormalsGiven(o))
  PROVE  ScopeOf([pending |-> o.func.named, vars |-> Filled(o)])
           = [vars   |-> Program!Over(ByPosition(o), Program!Over(ByName(o), Defaults(o))),
              global |-> {}]
<1> DEFINE fr == [pending |-> o.func.named, vars |-> Filled(o)]
           B  == Bound(Filled(o))
           P  == ByPosition(o)
           N  == ByName(o)
           D  == Defaults(o)
<1>1. /\ Marked(Filled(o)) = {} /\ DOMAIN B = DOMAIN P \cup DOMAIN N
      /\ \A n \in DOMAIN P : B[n] = P[n]
      /\ \A n \in DOMAIN N : B[n] = N[n]
  BY FilledBinds
<1>2. DOMAIN D = Range(o.func.named) /\ \A n \in DOMAIN D : D[n] = Default
  BY DEF Defaults
<1>3. fr.pending = o.func.named /\ fr.vars = Filled(o)
  OBVIOUS
<1>4. WithDefaults(fr) = [n \in DOMAIN B \cup DOMAIN D |-> IF n \in DOMAIN B THEN B[n] ELSE Default]
  BY <1>2, <1>3 DEF WithDefaults
<1> HIDE DEF fr, B, P, N, D
<1>5. Program!Over(P, Program!Over(N, D))
        = [n \in DOMAIN P \cup (DOMAIN N \cup DOMAIN D) |->
             IF n \in DOMAIN P THEN P[n] ELSE IF n \in DOMAIN N THEN N[n] ELSE D[n]]
  BY DEF Program!Over
<1>6. \A n \in DOMAIN P \cup (DOMAIN N \cup DOMAIN D) :
        (IF n \in DOMAIN B THEN B[n] ELSE Default)
          = IF n \in DOMAIN P THEN P[n] ELSE IF n \in DOMAIN N THEN N[n] ELSE D[n]
  BY <1>1, <1>2
<1>7. DOMAIN B \cup DOMAIN D = DOMAIN P \cup (DOMAIN N \cup DOMAIN D)
  BY <1>1
<1>8. WithDefaults(fr) = Program!Over(P, Program!Over(N, D))
  BY <1>4, <1>5, <1>6, <1>7
<1> QED
  BY <1>1, <1>3, <1>8 DEF ScopeOf, fr, P, N, D

----------------------------------------------------------------------------
(***************************************************************************)
(* Defaults are assigned before anything else is done in a call            *)
(***************************************************************************)
Ready(c) ==
  \A k \in 1..Len(c) : c[k].pending # << >> => k = Len(c) /\ Marked(c[k].vars) = {}

OneStarts == Ready(frames) /\ (operands # NoCall => Pending = << >>)

LEMMA NonePending ==
  ASSUME IInv, OneStarts, Pending = << >>
  PROVE  \A k \in 1..Len(frames) : frames[k].pending = << >>
BY DEF OneStarts, Ready, Pending

LEMMA ReframeIs ==
  ASSUME IInv, frames # << >>, NEW f, FrameOK(f), Reframe(f)
  PROVE  /\ frames' = [frames EXCEPT ![Len(frames)] = [pending |-> Pending, vars |-> f]]
         /\ Len(frames') = Len(frames)
         /\ \A k \in 1..Len(frames) : frames'[k].pending = frames[k].pending
         /\ Pending' = Pending
<1> DEFINE r == [pending |-> Pending, vars |-> f]
<1>1. frames \in Seq(CallRecord) /\ Len(frames) \in 1..Len(frames) /\ Len(frames) \in Nat
  BY CurrentIs, ElementIs DEF IInv, CallsOK
<1>2. frames[Len(frames)] \in CallRecord
  BY CurrentIs
<1>3. [frames[Len(frames)] EXCEPT !.vars = f] = r
  BY <1>2 DEF CallRecord, Pending
<1>4. r \in CallRecord /\ r.pending = Pending
  BY CurrentIs DEF CallRecord, FrameOK
<1>5. frames' = [frames EXCEPT ![Len(frames)] = r]
  BY <1>3 DEF Reframe
<1> HIDE DEF r
<1>6. /\ Len(frames') = Len(frames)
      /\ \A k \in 1..Len(frames) : frames'[k] = IF k = Len(frames) THEN r ELSE frames[k]
  BY <1>1, <1>5
<1>7. \A k \in 1..Len(frames) : frames'[k].pending = frames[k].pending
  BY <1>4, <1>6 DEF Pending
<1>8. frames' # << >>
  BY <1>1, <1>6
<1>9. Pending' = Pending
  BY <1>1, <1>6, <1>7, <1>8 DEF Pending
<1> QED
  BY <1>5, <1>6, <1>7, <1>9 DEF r

\* Frames in which nothing is pending
LEMMA ReadyWithout ==
  ASSUME NEW c, \A k \in 1..Len(c) : c[k].pending = << >>
  PROVE  Ready(c)
BY DEF Ready

LEMMA StoreReframes ==
  ASSUME IInv, NEW n \in Name, NEW v \in Value, Store(n, v)
  PROVE  \/ UNCHANGED frames
         \/ frames # << >> /\ \E f : FrameOK(f) /\ Reframe(f)
<1>1. v \in Slot
  BY DEF Slot
<1>2. CASE FoundLocal(n) /\ Reframe(Set(Frame, n, v))
  <2>1. frames # << >>
    BY <1>2 DEF FoundLocal, IsLocal
  <2> QED
    BY <1>1, <1>2, <2>1, FrameChanges
<1>3. CASE ~IsLocal(n) /\ ~IsOuter(n) /\ Reframe(Insert(Frame, n, v))
  <2>1. frames # << >>
    BY <1>3 DEF IsOuter
  <2> QED
    BY <1>1, <1>3, <2>1, FrameChanges
<1> QED
  BY <1>2, <1>3 DEF Store

LEMMA RunningStarts ==
  ASSUME IInv, OneStarts, Running, operands' = NoCall,
         \/ UNCHANGED frames
         \/ frames # << >> /\ \E f : FrameOK(f) /\ Reframe(f)
  PROVE  OneStarts'
<1>1. \A k \in 1..Len(frames) : frames[k].pending = << >>
  BY NonePending DEF Running
<1>2. CASE UNCHANGED frames
  <2>1. \A k \in 1..Len(frames') : frames'[k].pending = << >>
    BY <1>1, <1>2
  <2>2. Ready(frames')
    BY <2>1, ReadyWithout
  <2> QED
    BY <2>2 DEF OneStarts
<1>3. ASSUME frames # << >>, NEW f, FrameOK(f), Reframe(f)
      PROVE  OneStarts'
  <2>1. \A k \in 1..Len(frames') : frames'[k].pending = << >>
    BY <1>1, <1>3, ReframeIs
  <2>2. Ready(frames')
    BY <2>1, ReadyWithout
  <2> QED
    BY <2>2 DEF OneStarts
<1> QED
  BY <1>2, <1>3

\* The next default goes into a frame without marks, and leaves it so.
LEMMA DefaultSets ==
  ASSUME IInv, NEW n \in Name, frames # << >>, NEW v \in Slot
  PROVE  /\ IsLocal(n) => Sets(Frame, Set(Frame, n, v), n, v)
         /\ ~IsLocal(n) => Sets(Frame, Insert(Frame, n, v), n, v)
<1>1. Frame \in Seq(Record(Name, Slot)) /\ Once(Frame)
  BY CurrentIs DEF FrameOK, Locals
<1>2. n # NoId /\ NoId \notin Name /\ n \in Name \cap Name
  BY IdAssumption
<1>3. ASSUME IsLocal(n) PROVE Sets(Frame, Set(Frame, n, v), n, v)
  <2>1. Has(Frame, n)
    BY <1>3 DEF IsLocal
  <2> QED
    BY <1>1, <1>2, <2>1, SetSets
<1>4. ASSUME ~IsLocal(n) PROVE Sets(Frame, Insert(Frame, n, v), n, v)
  <2>1. ~Has(Frame, n)
    BY <1>4 DEF IsLocal
  <2> QED
    BY <1>1, <1>2, <2>1, InsertSets
<1> QED
  BY <1>3, <1>4

LEMMA AssignDefaultIs ==
  ASSUME IInv, AssignDefault, NEW new,
         new = [pending |-> Tail(Pending),
                vars    |-> IF IsLocal(Head(Pending)) THEN Frame
                            ELSE Insert(Frame, Head(Pending), Default)]
  PROVE  /\ frames # << >> /\ frames \in Seq(CallRecord) /\ new \in CallRecord
         /\ frames' = [frames EXCEPT ![Len(frames)] = new]
         /\ Head(Pending) \in Name
         /\ Range(Pending) = {Head(Pending)} \cup Range(Tail(Pending))
         /\ FrameOK(new.vars)
         /\ ~IsLocal(Head(Pending)) => Sets(Frame, new.vars, Head(Pending), Default)
<1>1. frames # << >>
  BY DEF AssignDefault, Pending
<1>2. Pending \in Seq(Name) /\ Len(Pending) <= MaxFormals /\ Pending # << >>
  BY <1>1, CurrentIs, NamesAre DEF AssignDefault
<1>3. /\ Head(Pending) \in Name /\ Tail(Pending) \in Seq(Name) /\ Len(Tail(Pending)) <= MaxFormals
  BY <1>2, BoundAssumption
<1>4. Range(Pending) = {Head(Pending)} \cup Range(Tail(Pending))
  <2>1. PICK s \in Seq(Name) : s = Pending /\ s # << >>
    BY <1>2
  <2>2. /\ Len(s) \in Nat \ {0} /\ Len(Tail(s)) = Len(s) - 1 /\ DOMAIN s = 1..Len(s)
        /\ DOMAIN Tail(s) = 1..(Len(s) - 1) /\ Head(s) = s[1]
        /\ \A i \in 1..(Len(s) - 1) : Tail(s)[i] = s[i + 1]
    BY <2>1
  <2>3. ASSUME NEW i \in 1..Len(s) PROVE s[i] = Head(s) \/ \E j \in 1..(Len(s) - 1) : s[i] = Tail(s)[j]
    <3>1. CASE i = 1
      BY <2>2, <3>1
    <3>2. CASE i # 1
      <4>1. i - 1 \in 1..(Len(s) - 1) /\ s[i] = Tail(s)[i - 1]
        BY <2>2, <3>2
      <4> QED
        BY <4>1
    <3> QED
      BY <3>1, <3>2
  <2>4. 1 \in 1..Len(s) /\ \A j \in 1..(Len(s) - 1) : j + 1 \in 1..Len(s)
    BY <2>2
  <2>5. Range(s) \subseteq {Head(s)} \cup Range(Tail(s))
    <3> SUFFICES ASSUME NEW i \in 1..Len(s) PROVE s[i] \in {Head(s)} \cup Range(Tail(s))
      BY <2>2 DEF Range
    <3>1. CASE s[i] = Head(s)
      BY <3>1
    <3>2. CASE \E j \in 1..(Len(s) - 1) : s[i] = Tail(s)[j]
      BY <2>2, <3>2 DEF Range
    <3> QED
      BY <2>3, <3>1, <3>2
  <2>6. {Head(s)} \cup Range(Tail(s)) \subseteq Range(s)
    BY <2>2, <2>4 DEF Range
  <2> QED
    BY <2>1, <2>5, <2>6
<1>5. Tail(Pending) \in Names
  BY <1>3, NamesAre
<1> DEFINE n == Head(Pending)
<1> HIDE DEF n
<1>6. n \in Name
  BY <1>3 DEF n
<1>7. Default \in Slot
  BY ValueAssumption DEF Slot
<1>8. FrameOK(IF IsLocal(n) THEN Frame ELSE Insert(Frame, n, Default))
  BY <1>1, <1>6, <1>7, CurrentIs, FrameChanges
<1>9. new.vars = IF IsLocal(n) THEN Frame ELSE Insert(Frame, n, Default)
  BY DEF n
<1>10. new \in CallRecord /\ FrameOK(new.vars)
  BY <1>5, <1>8, <1>9 DEF CallRecord, FrameOK
<1>11. frames' = [frames EXCEPT ![Len(frames)] = new]
  BY DEF AssignDefault, Given, n
<1>12. frames \in Seq(CallRecord)
  BY DEF IInv, CallsOK
<1>13. ~IsLocal(n) => Sets(Frame, new.vars, n, Default)
  BY <1>1, <1>6, <1>7, <1>9, DefaultSets
<1> QED
  BY <1>1, <1>3, <1>4, <1>10, <1>11, <1>12, <1>13 DEF n

LEMMA AbortStarts ==
  ASSUME Abort
  PROVE  OneStarts'
BY DEF Abort, OneStarts, Ready

LEMMA CallIs ==
  ASSUME IInv, OneStarts, Call, NEW r,
         r = [pending |-> operands.func.named, vars |-> Filled(operands)]
  PROVE  /\ operands \in Operands /\ Fits(operands) /\ Distinct(FormalsGiven(operands))
         /\ frames \in Seq(CallRecord) /\ r \in CallRecord
         /\ frames' = Append(frames, r)
         /\ \A k \in 1..Len(frames) : frames[k].pending = << >>
<1>1. operands \in Operands /\ Fits(operands) /\ Distinct(FormalsGiven(operands)) /\ operands # NoCall
  BY DEF Call, IInv, OperandsOK
<1>2. frames' = Append(frames, r)
  BY DEF Call, Filled
<1>3. \A k \in 1..Len(frames) : frames[k].pending = << >>
  BY <1>1, NonePending DEF OneStarts
<1>4. r \in CallRecord
  <2>1. Filled(operands) \in Locals
    BY <1>1, FilledIs
  <2>2. operands.func.named \in Names
    BY <1>1, OperandsAre
  <2> QED
    BY <2>1, <2>2 DEF CallRecord
<1> QED
  BY <1>1, <1>2, <1>3, <1>4 DEF IInv, CallsOK

LEMMA InitOneStarts == Init => OneStarts
BY DEF Init, OneStarts, Ready

LEMMA NextKeepsOneStarts == IInv /\ OneStarts /\ [Next]_vars => OneStarts'
<1> SUFFICES ASSUME IInv, OneStarts, [Next]_vars
             PROVE  OneStarts'
  OBVIOUS
<1>1. CASE UNCHANGED vars
  <2>1. frames' = frames /\ operands' = operands
    BY <1>1 DEF vars
  <2>2. Ready(frames') /\ Pending' = Pending
    BY <2>1 DEF OneStarts, Pending
  <2> QED
    BY <2>1, <2>2 DEF OneStarts
<1>2. CASE Evaluate \/ Finish \/ \E n \in Name : Load(n) \/ Delete(n)
  <2>1. Running /\ UNCHANGED <<frames, operands>>
    BY <1>2 DEF Evaluate, Finish, Load, Delete
  <2> QED
    BY <2>1, RunningStarts DEF Running
<1>3. CASE Prepare
  <2>1. Running /\ UNCHANGED frames
    BY <1>3 DEF Prepare
  <2>2. \A k \in 1..Len(frames') : frames'[k].pending = << >>
    BY <2>1, NonePending DEF Running
  <2>3. Ready(frames')
    BY <2>2, ReadyWithout
  <2>4. Pending' = << >>
    BY <2>1 DEF Running, Pending
  <2> QED
    BY <2>3, <2>4 DEF OneStarts
<1>4. CASE Call
  <2> DEFINE r == [pending |-> operands.func.named, vars |-> Filled(operands)]
  <2>1. /\ operands \in Operands /\ Fits(operands) /\ Distinct(FormalsGiven(operands))
        /\ frames \in Seq(CallRecord) /\ r \in CallRecord
        /\ frames' = Append(frames, r)
        /\ \A k \in 1..Len(frames) : frames[k].pending = << >>
    BY <1>4, CallIs
  <2>2. r.vars = Filled(operands) /\ Marked(Filled(operands)) = {}
    BY <2>1, FilledBinds
  <2> HIDE DEF r
  <2>3. /\ Len(frames') = Len(frames) + 1 /\ frames'[Len(frames) + 1] = r /\ Len(frames) \in Nat
        /\ \A k \in 1..Len(frames) : frames'[k] = frames[k]
    BY <2>1
  <2>4. ASSUME NEW k \in 1..Len(frames'), frames'[k].pending # << >>
        PROVE  k = Len(frames') /\ Marked(frames'[k].vars) = {}
    <3>1. k = Len(frames) + 1
      BY <2>1, <2>3, <2>4
    <3> QED
      BY <2>2, <2>3, <3>1
  <2>5. Ready(frames')
    BY <2>4 DEF Ready
  <2> QED
    BY <1>4, <2>5 DEF Call, OneStarts
<1>5. CASE AssignDefault
  <2> DEFINE n   == Head(Pending)
             new == [pending |-> Tail(Pending),
                     vars    |-> IF IsLocal(n) THEN Frame ELSE Insert(Frame, n, Default)]
  <2>1. /\ frames # << >> /\ frames \in Seq(CallRecord) /\ new \in CallRecord
        /\ frames' = [frames EXCEPT ![Len(frames)] = new]
        /\ n \in Name
        /\ ~IsLocal(n) => Sets(Frame, new.vars, n, Default)
    BY <1>5, AssignDefaultIs
  <2>2. IsLocal(n) => new.vars = Frame
    OBVIOUS
  <2> HIDE DEF new, n
  <2>3. /\ Len(frames') = Len(frames) /\ Len(frames) \in 1..Len(frames)
        /\ \A k \in 1..Len(frames) : frames'[k] = IF k = Len(frames) THEN new ELSE frames[k]
    BY <2>1
  <2>4. Pending # << >> /\ operands = NoCall /\ operands' = NoCall
    BY <1>5 DEF AssignDefault, OneStarts
  <2>5. Marked(Frame) = {}
    BY <2>1, <2>3, <2>4 DEF OneStarts, Ready, Pending, Frame
  <2>6. Marked(new.vars) = {}
    <3>1. CASE IsLocal(n)
      BY <2>2, <2>5, <3>1
    <3>2. CASE ~IsLocal(n)
      <4>1. Default # GLOBAL
        BY ValueAssumption
      <4>2. Marked(new.vars) = Marked(Frame) \ {n}
        BY <2>1, <3>2, <4>1, ValueBinds
      <4> QED
        BY <2>5, <4>2
    <3> QED
      BY <3>1, <3>2
  <2>7. Ready(frames')
    BY <2>3, <2>6 DEF OneStarts, Ready
  <2> QED
    BY <2>4, <2>7 DEF OneStarts
<1>6. CASE Return
  <2>1. frames \in Seq(CallRecord) /\ frames # << >> /\ Running /\ UNCHANGED operands
    BY <1>6 DEF Return, IInv, CallsOK
  <2>2. /\ Len(frames') = Len(frames) - 1 /\ Len(frames) \in Nat
        /\ \A k \in 1..(Len(frames) - 1) : frames'[k] = frames[k]
    BY <1>6, <2>1, AllButLast, ElementIs, Zenon DEF Return
  <2>3. \A k \in 1..Len(frames) : frames[k].pending = << >>
    BY <2>1, NonePending DEF Running
  <2>4. \A k \in 1..Len(frames') : frames'[k].pending = << >>
    BY <2>2, <2>3
  <2>5. Ready(frames')
    BY <2>4, ReadyWithout
  <2> QED
    BY <2>1, <2>5 DEF OneStarts, Running
<1>7. ASSUME NEW n \in Name, Assign(n) \/ Enhance(n)
      PROVE  OneStarts'
  <2>1. PICK v \in Value : Running /\ Store(n, v) /\ UNCHANGED operands
    BY <1>7 DEF Assign, Enhance, IInv
  <2>2. \/ UNCHANGED frames
        \/ frames # << >> /\ \E f : FrameOK(f) /\ Reframe(f)
    BY <2>1, StoreReframes
  <2> QED
    BY <2>1, <2>2, RunningStarts DEF Running
<1>8. ASSUME NEW n \in Name, Declare(n)
      PROVE  OneStarts'
  <2>1. frames # << >> /\ GLOBAL \in Slot /\ Running /\ UNCHANGED operands
    BY <1>8 DEF Declare, Slot
  <2>2. \E f : FrameOK(f) /\ Reframe(f)
    BY <1>8, <2>1, FrameChanges DEF Declare
  <2> QED
    BY <2>1, <2>2, RunningStarts DEF Running
<1>9. CASE \/ EvaluateFails \/ CallFails \/ DefaultFails
           \/ \E n \in Name : \/ LoadFails(n) \/ AssignFails(n) \/ EnhanceFails(n)
                              \/ EnhanceMismatch(n) \/ DeclareFails(n)
  <2>1. Abort
    BY <1>9 DEF EvaluateFails, CallFails, DefaultFails, LoadFails, AssignFails, EnhanceFails,
                EnhanceMismatch, DeclareFails, StoreFails
  <2> QED
    BY <2>1, AbortStarts
<1> QED
  BY <1>1, <1>2, <1>3, <1>4, <1>5, <1>6, <1>7, <1>8, <1>9 DEF Next

\* Only the innermost call has defaults to assign, no call is being prepared
\* there, and it has declared nothing: snek_op_assign_named comes before all
\* other code of a function.
THEOREM OneStartsHolds == Spec => []OneStarts
<1>1. Init => IInv /\ OneStarts
  BY InitIInv, InitOneStarts
<1>2. IInv /\ OneStarts /\ [Next]_vars => IInv' /\ OneStarts'
  BY NextKeepsIInv, NextKeepsOneStarts
<1> QED
  BY <1>1, <1>2, PTL DEF Spec

----------------------------------------------------------------------------
(***************************************************************************)
(* The implementation of Scopes.  Its current scope is the current frame,  *)
(* its global variables are those in globals.                              *)
(***************************************************************************)
\* Without defaults to come, a scope is what its frame binds.
LEMMA PlainScope ==
  ASSUME NEW fr, fr.pending = << >>
  PROVE  ScopeOf(fr) = [vars |-> Bound(fr.vars), global |-> Marked(fr.vars)]
<1>1. Range(fr.pending) = {}
  BY DEF Range
<1>2. Bound(fr.vars) = [n \in DOMAIN Bound(fr.vars) |-> Bound(fr.vars)[n]]
  BY DEF Bound
<1>3. WithDefaults(fr) = [n \in DOMAIN Bound(fr.vars) |-> Bound(fr.vars)[n]]
  BY <1>1 DEF WithDefaults
<1> QED
  BY <1>2, <1>3 DEF ScopeOf

LEMMA CurrentScope ==
  ASSUME IInv
  PROVE  /\ Len(ScopesOf(frames)) = Len(frames) /\ (ScopesOf(frames) = << >> <=> frames = << >>)
         /\ frames # << >> => /\ Program!Current = ScopeOf(frames[Len(frames)])
                              /\ Program!Current.global = Marked(Frame)
         /\ frames # << >> /\ Pending = << >>
              => Program!Current = [vars |-> Bound(Frame), global |-> Marked(Frame)]
<1>1. frames \in Seq(CallRecord)
  BY DEF IInv, CallsOK
<1>2. CASE frames = << >>
  BY <1>2 DEF ScopesOf
<1>3. CASE frames # << >>
  <2>1. frames[Len(frames)] \in CallRecord /\ Len(frames) \in 1..Len(frames)
    BY <1>3, CurrentIs
  <2>2. /\ Len(ScopesOf(frames)) = Len(frames) /\ ScopesOf(frames) # << >>
        /\ ScopesOf(frames)[Len(frames)] = ScopeOf(frames[Len(frames)])
    BY <1>1, <1>3, <2>1, ScopesAre
  <2>3. Program!Current = ScopesOf(frames)[Len(ScopesOf(frames))]
    BY DEF Program!Current, ScopesOf, ScopeOf
  <2>4. Program!Current = ScopeOf(frames[Len(frames)])
    BY <2>2, <2>3
  <2>5. Program!Current.global = Marked(Frame)
    BY <2>4 DEF ScopeOf, Frame
  <2>6. ASSUME Pending = << >>
        PROVE  Program!Current = [vars |-> Bound(Frame), global |-> Marked(Frame)]
    BY <1>3, <2>4, <2>6, PlainScope DEF Pending, Frame
  <2> QED
    BY <1>3, <2>2, <2>4, <2>5, <2>6
<1> QED
  BY <1>2, <1>3

\* A name is looked for where it is in Scopes.
LEMMA GlobalFound ==
  ASSUME IInv, NEW n \in Name
  PROVE  /\ n \in DOMAIN Bound(globals) <=> Has(globals, n)
         /\ Has(globals, n) => Bound(globals)[n] = ValueIn(globals, n)
<1>1. Has(globals, n) => ValueIn(globals, n) \in Value
  BY ValueFound DEF IInv, GlobalsOK, Globals
<1>2. Has(globals, n) => ValueIn(globals, n) # GLOBAL
  BY <1>1, ValueAssumption
<1> QED
  BY <1>2 DEF Bound

LEMMA OuterFound ==
  ASSUME IInv, NEW n \in Name
  PROVE  Program!IsOuter(n) <=> IsOuter(n)
<1>1. Program!IsOuter(n) <=> IF ScopesOf(frames) = << >> THEN TRUE ELSE n \in Program!Current.global
  BY DEF Program!IsOuter, ScopesOf, ScopeOf
<1>2. CASE frames = << >>
  BY <1>1, <1>2, CurrentScope DEF IsOuter
<1>3. CASE frames # << >>
  <2>1. Program!IsOuter(n) <=> n \in Marked(Frame)
    BY <1>1, <1>3, CurrentScope
  <2>2. n \in Marked(Frame) <=> IsLocal(n) /\ ~FoundLocal(n)
    BY <1>3 DEF Marked, IsLocal, FoundLocal
  <2> QED
    BY <1>3, <2>1, <2>2 DEF IsOuter
<1> QED
  BY <1>2, <1>3

LEMMA LocalFound ==
  ASSUME IInv, NEW n \in Name, Pending = << >>
  PROVE  /\ Program!HasLocal(n) <=> FoundLocal(n)
         /\ FoundLocal(n) => Program!Current.vars[n] = ValueIn(Frame, n)
<1>1. Program!HasLocal(n) <=> IF ScopesOf(frames) = << >> THEN FALSE ELSE n \in DOMAIN Program!Current.vars
  BY DEF Program!HasLocal, ScopesOf, ScopeOf
<1>2. CASE frames = << >>
  BY <1>1, <1>2, CurrentScope DEF FoundLocal, IsLocal
<1>3. CASE frames # << >>
  <2>1. Program!Current.vars = Bound(Frame)
    BY <1>3, CurrentScope
  <2>2. Program!HasLocal(n) <=> n \in DOMAIN Bound(Frame)
    BY <1>1, <1>3, <2>1, CurrentScope
  <2>3. FoundLocal(n) <=> n \in {m \in Name : Has(Frame, m) /\ ValueIn(Frame, m) # GLOBAL}
    BY <1>3 DEF FoundLocal, IsLocal
  <2>4. /\ n \in DOMAIN Bound(Frame) <=> FoundLocal(n)
        /\ FoundLocal(n) => Bound(Frame)[n] = ValueIn(Frame, n)
    BY <2>3 DEF Bound
  <2> QED
    BY <2>1, <2>2, <2>4
<1> QED
  BY <1>2, <1>3

\* The current frame changes: so does the current scope.
LEMMA ScopeBecomes ==
  ASSUME IInv, frames # << >>, NEW f, FrameOK(f), Reframe(f), Pending = << >>,
         NEW scope, scope = [vars |-> Bound(f), global |-> Marked(f)]
  PROVE  Program!Become(scope) /\ Pending' = Pending
<1> DEFINE r == [pending |-> Pending, vars |-> f]
<1>1. frames' = [frames EXCEPT ![Len(frames)] = r] /\ Pending' = Pending
  BY ReframeIs
<1>2. r \in CallRecord /\ r.pending = << >> /\ r.vars = f
  BY CurrentIs DEF CallRecord, FrameOK
<1> HIDE DEF r
<1>3. frames \in Seq(CallRecord)
  BY DEF IInv, CallsOK
<1>4. ScopesOf(frames') = LastReplaced(ScopesOf(frames), ScopeOf(r))
  <2>1. frames' = LastReplaced(frames, r)
    BY <1>1 DEF LastReplaced
  <2> QED
    BY <1>2, <1>3, <2>1, ScopesAre
<1>5. ScopeOf(r) = scope
  BY <1>2, PlainScope
<1>6. ScopesOf(frames') = [ScopesOf(frames) EXCEPT ![Len(ScopesOf(frames))] = scope]
  BY <1>4, <1>5 DEF LastReplaced
<1>7. Program!Become(scope)
  BY <1>6 DEF Program!Become, ScopesOf, ScopeOf
<1> QED
  BY <1>1, <1>7

\* A store in the globals binds the name there.
LEMMA GlobalBinds ==
  ASSUME IInv, NEW n \in Name, NEW v \in Value, NEW g,
         \/ Has(globals, n) /\ g = Set(globals, n, v)
         \/ ~Has(globals, n) /\ g = Insert(globals, n, v)
  PROVE  Bound(g) = Program!Bind(Bound(globals), n, v)
<1>1. globals \in Seq(Record(GlobalIds, Value)) /\ Once(globals)
  BY DEF IInv, GlobalsOK, Globals
<1>2. n # NoId /\ NoId \notin Name /\ n \in Name \cap GlobalIds /\ v # GLOBAL
  BY IdAssumption, ValueAssumption DEF GlobalIds
<1>3. Sets(globals, g, n, v)
  BY <1>1, <1>2, SetSets, InsertSets
<1> QED
  BY <1>2, <1>3, ValueBinds

LEMMA ScopesKept ==
  ASSUME UNCHANGED frames
  PROVE  ScopesOf(frames') = ScopesOf(frames) /\ Pending' = Pending
BY DEF Pending

\* A store is an assignment in the scope where the name is.
LEMMA StoreAssigns ==
  ASSUME IInv, Running, NEW n \in Name, NEW v \in Value, Store(n, v), a' = v, UNCHANGED operands
  PROVE  Program!Assign(n)
<1> DEFINE scope == [vars |-> Program!Bind(Program!Current.vars, n, v), global |-> Program!Current.global]
<1>1. Pending = << >> /\ operands = NoCall
  BY DEF Running
<1>2. Program!IsOuter(n) <=> IsOuter(n)
  BY OuterFound
<1>3. v \in Slot /\ v # GLOBAL
  BY ValueAssumption DEF Slot
<1>4. ASSUME frames # << >>, ~IsOuter(n), NEW f, FrameOK(f), Reframe(f), Sets(Frame, f, n, v),
             UNCHANGED globals
      PROVE  Program!Assign(n)
  <2>1. Program!Current = [vars |-> Bound(Frame), global |-> Marked(Frame)]
    BY <1>1, <1>4, CurrentScope
  <2>2. n \notin Marked(Frame)
    BY <1>4 DEF IsOuter, IsLocal, FoundLocal, Marked
  <2>3. Bound(f) = Program!Bind(Bound(Frame), n, v) /\ Marked(f) = Marked(Frame)
    <3>1. Bound(f) = Program!Bind(Bound(Frame), n, v) /\ Marked(f) = Marked(Frame) \ {n}
      BY <1>3, <1>4, ValueBinds
    <3> QED
      BY <2>2, <3>1
  <2> DEFINE s == [vars |-> Bound(f), global |-> Marked(f)]
  <2>4. Program!Become(s) /\ Pending' = Pending
    BY <1>1, <1>4, ScopeBecomes
  <2>5. [Program!Current EXCEPT !.vars = Program!Bind(Program!Current.vars, n, v)] = s
    BY <2>1, <2>3
  <2> HIDE DEF s
  <2>6. Program!Become([Program!Current EXCEPT !.vars = Program!Bind(Program!Current.vars, n, a')])
    BY <2>4, <2>5
  <2>7. Program!Running
    BY <1>1 DEF Program!Running
  <2> QED
    BY <1>2, <1>4, <2>4, <2>6, <2>7 DEF Program!Assign
<1>5. CASE FoundLocal(n) /\ Reframe(Set(Frame, n, v)) /\ UNCHANGED globals
  <2>1. frames # << >> /\ IsLocal(n) /\ ~IsOuter(n)
    BY <1>5 DEF FoundLocal, IsLocal, IsOuter
  <2> QED
    BY <1>3, <1>4, <1>5, <2>1, FrameChanges, DefaultSets
<1>6. CASE ~IsLocal(n) /\ ~IsOuter(n) /\ Reframe(Insert(Frame, n, v)) /\ UNCHANGED globals
  <2>1. frames # << >>
    BY <1>6 DEF IsOuter
  <2> QED
    BY <1>3, <1>4, <1>6, <2>1, FrameChanges, DefaultSets
<1>7. CASE /\ IsOuter(n) /\ UNCHANGED frames
           /\ \/ Has(globals, n) /\ globals' = Set(globals, n, v)
              \/ ~Has(globals, n) /\ globals' = Insert(globals, n, v)
  <2>1. Bound(globals') = Program!Bind(Bound(globals), n, a')
    BY <1>7, GlobalBinds
  <2>2. Program!Running
    BY <1>1 DEF Program!Running
  <2>3. ScopesOf(frames') = ScopesOf(frames) /\ Pending' = Pending
    BY <1>7, ScopesKept
  <2> QED
    BY <1>2, <1>7, <2>1, <2>2, <2>3 DEF Program!Assign, ScopesOf, ScopeOf
<1> QED
  BY <1>5, <1>6, <1>7 DEF Store

\* A store that fails ends the command; the globals may have got the value.
LEMMA StoreFailsStops ==
  ASSUME IInv, NEW n \in Name, NEW v \in Value, StoreFails(n, v), operands = NoCall,
         v = IF Pending # << >> THEN Default ELSE a
  PROVE  Program!Stop \/ Program!NoMemory(n)
<1>1. Abort
  BY DEF StoreFails
<1>2. Program!Abort
  <2>1. ScopesOf(frames') = << >> /\ ~(Pending' # << >>)
    BY <1>1 DEF Abort, ScopesOf, Pending
  <2> QED
    BY <1>1, <2>1 DEF Program!Abort, Abort, ScopesOf, ScopeOf
<1>3. CASE UNCHANGED globals
  BY <1>2, <1>3 DEF Program!Stop
<1>4. CASE /\ ~IsLocal(n) /\ ~IsOuter(n)
           /\ \/ Has(globals, n) /\ globals' = Set(globals, n, v)
              \/ ~Has(globals, n) /\ globals' = Insert(globals, n, v)
  <2>1. Bound(globals') = Program!Bind(Bound(globals), n, v)
    BY <1>4, GlobalBinds
  <2>2. ~Program!IsOuter(n)
    BY <1>4, OuterFound
  <2>3. ScopesOf(frames) # << >>
    BY <1>4, CurrentScope DEF IsOuter
  <2>4. Program!NoMemory(n)
    BY <1>2, <2>1, <2>2, <2>3 DEF Program!NoMemory, ScopesOf, ScopeOf
  <2> QED
    BY <2>4
<1> QED
  BY <1>3, <1>4 DEF StoreFails

LEMMA AbortStops ==
  ASSUME Abort, UNCHANGED globals
  PROVE  Program!Stop
BY DEF Abort, Pending, Program!Stop, Program!Abort

LEMMA EnhanceEnhances ==
  ASSUME IInv, NEW n \in Name, Enhance(n)
  PROVE  Program!Enhance(n)
<1>1. PICK v \in Value : Running /\ CanEnhance(n) /\ Store(n, v) /\ a' = v /\ UNCHANGED operands
  BY DEF Enhance
<1>2. Program!Assign(n)
  BY <1>1, StoreAssigns
<1>3. Program!IsOuter(n) <=> IsOuter(n)
  BY OuterFound
<1>4. IF IsOuter(n) THEN Has(globals, n) ELSE FoundLocal(n)
  BY <1>1 DEF CanEnhance, IsOuter, FoundLocal, IsLocal
<1>5. /\ n \in DOMAIN Bound(globals) <=> Has(globals, n)
      /\ Program!HasLocal(n) <=> FoundLocal(n)
  BY <1>1, GlobalFound, LocalFound DEF Running
<1> QED
  BY <1>1, <1>2, <1>3, <1>4, <1>5 DEF Program!Enhance

LEMMA MismatchStops ==
  ASSUME IInv, NEW n \in Name, EnhanceMismatch(n)
  PROVE  Program!Stop \/ Program!Mismatch(n)
<1>1. Running /\ CanEnhance(n) /\ Abort
  BY DEF EnhanceMismatch
<1>2. CASE FoundLocal(n)
  BY <1>1, <1>2, AbortStops DEF EnhanceMismatch
<1>3. CASE ~FoundLocal(n)
  <2>1. IsOuter(n) /\ Has(globals, n) /\ globals' = Set(globals, n, Null)
    BY <1>1, <1>3 DEF CanEnhance, IsOuter, EnhanceMismatch
  <2>2. Program!IsOuter(n) /\ n \in DOMAIN Bound(globals)
    BY <2>1, OuterFound, GlobalFound
  <2>3. Bound(globals') = Program!Bind(Bound(globals), n, Null)
    BY <2>1, GlobalBinds, ValueAssumption
  <2>4. Program!Running /\ Program!Abort
    BY <1>1 DEF Running, Pending, Program!Running, Abort, Program!Abort
  <2> QED
    BY <2>2, <2>3, <2>4 DEF Program!Mismatch
<1> QED
  BY <1>2, <1>3

LEMMA LoadLoads ==
  ASSUME IInv, NEW n \in Name, Load(n)
  PROVE  Program!Load(n)
<1>1. Pending = << >> /\ operands = NoCall /\ UNCHANGED <<globals, frames, operands>>
  BY DEF Load, Running
<1>2. /\ Program!HasLocal(n) <=> FoundLocal(n)
      /\ FoundLocal(n) => Program!Current.vars[n] = ValueIn(Frame, n)
  BY <1>1, LocalFound
<1>3. /\ n \in DOMAIN Bound(globals) <=> Has(globals, n)
      /\ Has(globals, n) => Bound(globals)[n] = ValueIn(globals, n)
  BY GlobalFound
<1>4. \/ Program!HasLocal(n) /\ a' = Program!Current.vars[n]
      \/ ~Program!HasLocal(n) /\ n \in DOMAIN Bound(globals) /\ a' = Bound(globals)[n]
  BY <1>2, <1>3 DEF Load
<1>5. Program!Running
  BY <1>1 DEF Program!Running
<1>6. ScopesOf(frames') = ScopesOf(frames) /\ Pending' = Pending
  BY <1>1, ScopesKept
<1> QED
  BY <1>1, <1>4, <1>5, <1>6 DEF Program!Load, ScopesOf, ScopeOf

LEMMA DeclareDeclares ==
  ASSUME IInv, NEW n \in Name, Declare(n)
  PROVE  Program!Declare(n)
<1>1. /\ Pending = << >> /\ operands = NoCall /\ frames # << >>
      /\ UNCHANGED <<globals, operands, a>> /\ GLOBAL \in Slot
  BY DEF Declare, Running, Slot
<1>2. PICK f : FrameOK(f) /\ Reframe(f) /\ Sets(Frame, f, n, GLOBAL)
  <2>1. CASE IsLocal(n)
    BY <1>1, <2>1, FrameChanges, DefaultSets DEF Declare
  <2>2. CASE ~IsLocal(n)
    BY <1>1, <2>2, FrameChanges, DefaultSets DEF Declare
  <2> QED
    BY <2>1, <2>2
<1> DEFINE s == [vars |-> Bound(f), global |-> Marked(f)]
<1>3. Program!Become(s) /\ Pending' = Pending
  BY <1>1, <1>2, ScopeBecomes
<1>4. Program!Current = [vars |-> Bound(Frame), global |-> Marked(Frame)]
  BY <1>1, CurrentScope
<1>5. /\ Bound(f) = Program!Restrict(Bound(Frame), DOMAIN Bound(Frame) \ {n})
      /\ Marked(f) = Marked(Frame) \cup {n}
  BY <1>2, MarkUnbinds
<1>6. s = [vars   |-> Program!Restrict(Program!Current.vars, DOMAIN Program!Current.vars \ {n}),
           global |-> Program!Current.global \cup {n}]
  BY <1>4, <1>5
<1> HIDE DEF s
<1>7. Program!Running /\ ScopesOf(frames) # << >>
  BY <1>1, CurrentScope DEF Program!Running
<1> QED
  BY <1>1, <1>3, <1>6, <1>7 DEF Program!Declare, ScopesOf, ScopeOf

LEMMA DeleteDeletes ==
  ASSUME IInv, NEW n \in Name, Delete(n)
  PROVE  Program!Delete(n)
<1>1. Running /\ Has(globals, n) /\ globals' = Without(n) /\ UNCHANGED <<frames, operands, a>>
  BY DEF Delete
<1>2. globals \in Globals /\ Once(globals) /\ globals \in Seq(Record(GlobalIds, Value))
  BY DEF IInv, GlobalsOK, Globals
<1> DEFINE g == Without(n)
<1>3. /\ GlobalsOK(g)
      /\ \A i \in 1..Len(g) : g[i].id # NoId =>
           \E k \in 1..Len(globals) : k # At(globals, n) /\ g[i] = globals[k]
  BY <1>1, WithoutKeeps
<1>4. At(globals, n) \in 1..Len(globals) /\ globals[At(globals, n)].id = n
  BY <1>1, <1>2, AtFirst
<1>5. g \in Seq(Record(GlobalIds, Value))
  BY <1>3 DEF GlobalsOK, Globals
<1> HIDE DEF g
\* What is left was there, with that value.
<1>6. ASSUME NEW m \in Name, Has(g, m)
      PROVE  m # n /\ Has(globals, m) /\ ValueIn(g, m) = ValueIn(globals, m)
  <2> DEFINE i == At(g, m)
  <2>1. i \in 1..Len(g) /\ g[i].id = m
    BY <1>5, <1>6, AtFirst
  <2>2. ValueIn(g, m) = g[i].value
    BY DEF ValueIn
  <2> HIDE DEF i
  <2>3. m # NoId
    BY IdAssumption
  <2>4. PICK k \in 1..Len(globals) : k # At(globals, n) /\ g[i] = globals[k]
    BY <1>3, <2>1, <2>3
  <2>5. Has(globals, m) /\ At(globals, m) = k
    <3>1. globals[k].id = m
      BY <2>1, <2>4
    <3> QED
      BY <1>2, <2>3, <3>1, OnlyPlace
  <2>6. m # n
    BY <2>4, <2>5
  <2> QED
    BY <2>2, <2>4, <2>5, <2>6 DEF ValueIn
<1> DEFINE D    == {m \in Name : Has(globals, m) /\ ValueIn(globals, m) # GLOBAL}
           rest == {m \in Name : Has(g, m) /\ ValueIn(g, m) # GLOBAL}
<1>7. DOMAIN Bound(globals) = D /\ Bound(globals) = [m \in D |-> ValueIn(globals, m)]
  BY DEF Bound
<1>8. Bound(g) = [m \in rest |-> ValueIn(g, m)]
  BY DEF Bound
<1>9. rest \subseteq D \ {n} /\ \A m \in rest : ValueIn(g, m) = ValueIn(globals, m)
  BY <1>6
<1> HIDE DEF D, rest
<1>10. Bound(g) = Program!Restrict(Bound(globals), rest)
  BY <1>7, <1>8, <1>9 DEF Program!Restrict
<1>11. Bound(globals') = Program!Restrict(Bound(globals), rest) /\ rest \in SUBSET (DOMAIN Bound(globals) \ {n})
  BY <1>1, <1>7, <1>9, <1>10 DEF g
<1>12. Program!Running
  BY <1>1 DEF Running, Program!Running
<1>13. ScopesOf(frames') = ScopesOf(frames) /\ Pending' = Pending
  BY <1>1, ScopesKept
<1> QED
  BY <1>1, <1>11, <1>12, <1>13 DEF Program!Delete, ScopesOf, ScopeOf

LEMMA PrepareStep ==
  ASSUME IInv, Prepare
  PROVE  Program!Prepare \/ Program!Evaluate
<1>1. ScopesOf(frames') = ScopesOf(frames) /\ Pending' = Pending
  BY ScopesKept DEF Prepare
<1>2. Program!Running
  BY DEF Prepare, Running, Program!Running
<1>3. CASE operands' # NoCall
  BY <1>1, <1>2, <1>3 DEF Prepare, Program!Prepare, ScopesOf, ScopeOf
<1>4. CASE operands' = NoCall
  BY <1>1, <1>2, <1>4 DEF Prepare, Program!Running, Program!Evaluate, ScopesOf, ScopeOf
<1> QED
  BY <1>3, <1>4

LEMMA CallCalls ==
  ASSUME IInv, OneStarts, Call
  PROVE  Program!Call
<1> DEFINE r     == [pending |-> operands.func.named, vars |-> Filled(operands)]
           scope == [vars   |-> Program!Over(ByPosition(operands),
                                             Program!Over(ByName(operands), Defaults(operands))),
                     global |-> {}]
<1>1. /\ operands \in Operands /\ Fits(operands) /\ Distinct(FormalsGiven(operands))
      /\ frames \in Seq(CallRecord) /\ r \in CallRecord
      /\ frames' = Append(frames, r)
  BY CallIs
<1>2. ScopeOf(r) = scope
  BY <1>1, CallBinds
<1>3. r.pending = operands.func.named
  OBVIOUS
<1> HIDE DEF r, scope
<1>4. ScopesOf(frames') = Append(ScopesOf(frames), scope)
  BY <1>1, <1>2, ScopesAre
<1>5. Pending' = operands.func.named
  <2>1. Len(frames') = Len(frames) + 1 /\ frames'[Len(frames) + 1] = r /\ frames' # << >>
    BY <1>1
  <2> QED
    BY <1>3, <2>1 DEF Pending
<1>6. /\ Cardinality(DOMAIN ByPosition(operands)) = Len(operands.given)
      /\ Cardinality(DOMAIN ByName(operands)) = Len(operands.byName)
      /\ DOMAIN ByName(operands) \subseteq Range(Formals(operands.func))
  BY <1>1, CallSizes
<1>7. DOMAIN ByPosition(operands) \cap DOMAIN ByName(operands) = {}
  BY <1>1, FilledBinds
<1>8. Len(operands.given) <= Len(Formals(operands.func))
  BY <1>1 DEF Fits
<1>9. operands # NoCall /\ a' \in Value /\ operands' = NoCall /\ UNCHANGED globals
  BY DEF Call
<1> DEFINE formals    == operands.func.required \o operands.func.named
           position   == {formals[i] : i \in DOMAIN operands.given}
           name       == {p.id : p \in Program!Range(operands.byName)}
           byPosition == [n \in position |->
                            operands.given[CHOOSE i \in DOMAIN operands.given : formals[i] = n]]
           byName     == [n \in name |-> (CHOOSE p \in Program!Range(operands.byName) : p.id = n).value]
           defaults   == [n \in Program!Range(operands.func.named) |-> Default]
<1>10. \A f : Program!Range(f) = Range(f)
  BY DEF Range, Program!Range
<1>11. formals = Formals(operands.func)
  BY DEF Formals
<1>12. byPosition = ByPosition(operands) /\ position = DOMAIN ByPosition(operands)
  BY DEF ByPosition, Formals
<1>13. byName = ByName(operands) /\ name = DOMAIN ByName(operands)
  <2>1. byName = ByName(operands)
    BY DEF ByName, Range, Program!Range
  <2> QED
    BY <2>1
<1>14. defaults = Defaults(operands)
  BY <1>10 DEF Defaults
<1>15. Len(operands.given) <= Len(formals)
  BY <1>8, <1>11
<1>16. name \subseteq Program!Range(formals) \ position
  BY <1>6, <1>7, <1>10, <1>11, <1>12, <1>13
<1>17. Program!Cardinality(position) + Program!Cardinality(name)
         = Len(operands.given) + Len(operands.byName)
  <2>1. \A S : Program!Cardinality(S) = Cardinality(S)
    BY DEF Cardinality, Program!Cardinality
  <2> QED
    BY <1>6, <1>12, <1>13, <2>1, Zenon
<1>18. ScopesOf(frames')
         = Append(ScopesOf(frames),
                  [vars |-> Program!Over(byPosition, Program!Over(byName, defaults)), global |-> {}])
  BY <1>4, <1>12, <1>13, <1>14 DEF scope
<1>19. (Pending' # << >>) = (operands.func.named # << >>)
  BY <1>5
<1> QED
  BY <1>9, <1>15, <1>16, <1>17, <1>18, <1>19, Zenon DEF Program!Call, ScopesOf, ScopeOf

LEMMA DefaultStarts ==
  ASSUME IInv, OneStarts, AssignDefault
  PROVE  Program!Start
<1> DEFINE n   == Head(Pending)
           new == [pending |-> Tail(Pending),
                   vars    |-> IF IsLocal(n) THEN Frame ELSE Insert(Frame, n, Default)]
           old == frames[Len(frames)]
<1>1. /\ frames # << >> /\ frames \in Seq(CallRecord) /\ new \in CallRecord
      /\ frames' = [frames EXCEPT ![Len(frames)] = new]
      /\ n \in Name
      /\ Range(Pending) = {n} \cup Range(Tail(Pending))
      /\ ~IsLocal(n) => Sets(Frame, new.vars, n, Default)
  BY AssignDefaultIs
<1>2. new.pending = Tail(Pending) /\ (IsLocal(n) => new.vars = Frame)
  OBVIOUS
<1>3. old.pending = Pending /\ old.vars = Frame /\ Len(frames) \in 1..Len(frames)
  BY <1>1 DEF Pending, Frame
<1> HIDE DEF n, new, old
<1>4. Pending # << >> /\ operands = NoCall /\ UNCHANGED <<globals, operands>> /\ a' = Default
  BY DEF AssignDefault, OneStarts
<1>5. Marked(Frame) = {}
  BY <1>3, <1>4 DEF OneStarts, Ready, old
<1>6. n \notin Marked(Frame)
  BY <1>5
<1>7. IsLocal(n) <=> n \in DOMAIN Bound(Frame)
  BY <1>1, <1>5 DEF Marked, Bound, IsLocal
<1>8. ScopeOf(new) = ScopeOf(old)
  <2>1. CASE IsLocal(n)
    <3>1. DOMAIN Bound(Frame) \cup Range(Pending) = DOMAIN Bound(Frame) \cup Range(Tail(Pending))
      BY <1>1, <1>7, <2>1
    <3>2. WithDefaults(new) = WithDefaults(old)
      BY <1>2, <1>3, <2>1, <3>1 DEF WithDefaults
    <3> QED
      BY <1>2, <1>3, <2>1, <3>2 DEF ScopeOf
  <2>2. CASE ~IsLocal(n)
    <3> DEFINE B == Bound(Frame)
               C == Bound(new.vars)
    <3>1. Default # GLOBAL
      BY ValueAssumption
    <3>2. C = Program!Bind(B, n, Default) /\ Marked(new.vars) = Marked(Frame) \ {n}
      BY <1>1, <2>2, <3>1, ValueBinds
    <3>3. n \notin DOMAIN B
      BY <1>7, <2>2
    <3>4. /\ WithDefaults(old) = [m \in DOMAIN B \cup Range(Pending) |->
                                    IF m \in DOMAIN B THEN B[m] ELSE Default]
          /\ WithDefaults(new) = [m \in DOMAIN C \cup Range(Tail(Pending)) |->
                                    IF m \in DOMAIN C THEN C[m] ELSE Default]
      BY <1>2, <1>3 DEF WithDefaults
    <3> HIDE DEF B, C
    <3>5. DOMAIN C = DOMAIN B \cup {n} /\ \A m \in DOMAIN C : C[m] = IF m = n THEN Default ELSE B[m]
      BY <3>2 DEF Program!Bind
    <3>6. DOMAIN C \cup Range(Tail(Pending)) = DOMAIN B \cup Range(Pending)
      BY <1>1, <3>5
    <3>7. \A m \in DOMAIN B \cup Range(Pending) :
            (IF m \in DOMAIN B THEN B[m] ELSE Default) = IF m \in DOMAIN C THEN C[m] ELSE Default
      BY <3>3, <3>5
    <3>8. WithDefaults(new) = WithDefaults(old)
      BY <3>4, <3>6, <3>7
    <3> QED
      BY <1>3, <1>6, <3>2, <3>8 DEF ScopeOf
  <2> QED
    BY <2>1, <2>2
<1>9. ScopesOf(frames') = ScopesOf(frames)
  <2>1. /\ Len(frames') = Len(frames)
        /\ \A k \in 1..Len(frames) : frames'[k] = IF k = Len(frames) THEN new ELSE frames[k]
    BY <1>1
  <2>2. \A k \in 1..Len(frames) : ScopeOf(frames'[k]) = ScopeOf(frames[k])
    BY <1>8, <2>1 DEF old
  <2> QED
    BY <2>1, <2>2 DEF ScopesOf
<1> QED
  BY <1>4, <1>9 DEF Program!Start, ScopesOf, ScopeOf

LEMMA ReturnReturns ==
  ASSUME IInv, OneStarts, Return
  PROVE  Program!Return
<1>1. /\ frames \in Seq(CallRecord) /\ frames # << >> /\ Running
      /\ UNCHANGED <<globals, operands, a>> /\ frames' = SubSeq(frames, 1, Len(frames) - 1)
  BY DEF Return, IInv, CallsOK
<1>2. ScopesOf(frames') = SubSeq(ScopesOf(frames), 1, Len(frames) - 1)
  BY <1>1, ScopesButLast
<1>3. Len(ScopesOf(frames)) = Len(frames) /\ ScopesOf(frames) # << >>
  BY <1>1, CurrentScope
<1>4. Pending' = << >>
  <2>1. /\ Len(frames') = Len(frames) - 1 /\ Len(frames) \in Nat
        /\ \A k \in 1..(Len(frames) - 1) : frames'[k] = frames[k]
    BY <1>1, AllButLast, ElementIs, Zenon
  <2>2. \A k \in 1..Len(frames) : frames[k].pending = << >>
    BY <1>1, NonePending DEF Running
  <2>3. frames' \in Seq(CallRecord)
    BY <1>1, AllButLast
  <2>4. frames' # << >> => Len(frames') \in 1..(Len(frames) - 1)
    BY <2>1, <2>3
  <2> QED
    BY <2>1, <2>2, <2>4 DEF Pending
<1>5. Program!Running
  BY <1>1 DEF Running, Program!Running
<1> QED
  BY <1>1, <1>2, <1>3, <1>4, <1>5 DEF Running, Program!Return, ScopesOf, ScopeOf

LEMMA InitImplements == Init => Program!Init
<1> SUFFICES ASSUME Init PROVE Program!Init
  OBVIOUS
<1>1. globals = << >> /\ frames = << >> /\ operands = NoCall /\ a = Null
  BY DEF Init
<1>2. Bound(<< >>) = << >>
  BY DEF Bound, Has
<1>3. Pending = << >> /\ ScopesOf(frames) = << >>
  BY <1>1 DEF Pending, ScopesOf
<1> QED
  BY <1>1, <1>2, <1>3 DEF Program!Init, ScopesOf, ScopeOf

\* Every step is one of Scopes, or none.
LEMMA NextImplements == IInv /\ OneStarts /\ [Next]_vars => [Program!Next]_(Program!vars)
<1> SUFFICES ASSUME IInv, OneStarts, [Next]_vars
             PROVE  Program!Next \/ UNCHANGED Program!vars
  OBVIOUS
<1>1. CASE UNCHANGED vars
  <2>1. UNCHANGED <<globals, frames, operands, a>>
    BY <1>1 DEF vars
  <2> QED
    BY <2>1 DEF Program!vars, Pending
<1>2. CASE Evaluate \/ Finish
  <2>1. Program!Evaluate
    BY <1>2, ValueAssumption
       DEF Evaluate, Finish, Running, Pending, Program!Evaluate, Program!Running
  <2> QED
    BY <2>1 DEF Program!Next
<1>3. CASE \/ EvaluateFails \/ CallFails
           \/ \E n \in Name : LoadFails(n) \/ EnhanceFails(n) \/ DeclareFails(n)
  <2>1. Abort /\ UNCHANGED globals
    BY <1>3 DEF EvaluateFails, CallFails, LoadFails, EnhanceFails, DeclareFails
  <2> QED
    BY <2>1, AbortStops DEF Program!Next
<1>4. CASE Prepare
  BY <1>4, PrepareStep DEF Program!Next
<1>5. CASE Call
  BY <1>5, CallCalls DEF Program!Next
<1>6. CASE AssignDefault
  BY <1>6, DefaultStarts DEF Program!Next
<1>7. CASE DefaultFails
  <2> DEFINE n == Head(Pending)
  <2>1. Pending # << >> /\ frames # << >> /\ StoreFails(n, Default)
    BY <1>7 DEF DefaultFails, Pending
  <2>2. Pending \in Seq(Name)
    BY <2>1, CurrentIs, NamesAre
  <2>3. n \in Name
    BY <2>1, <2>2
  <2>4. operands = NoCall
    BY <2>1 DEF OneStarts
  <2> HIDE DEF n
  <2>5. Program!Stop \/ Program!NoMemory(n)
    BY <2>1, <2>3, <2>4, StoreFailsStops, ValueAssumption
  <2> QED
    BY <2>3, <2>5 DEF Program!Next
<1>8. CASE Return
  BY <1>8, ReturnReturns DEF Program!Next
<1>9. ASSUME NEW n \in Name, Load(n)
      PROVE  Program!Next
  BY <1>9, LoadLoads DEF Program!Next
<1>10. ASSUME NEW n \in Name, Assign(n)
       PROVE  Program!Next
  <2>1. Running /\ Store(n, a) /\ a' = a /\ UNCHANGED operands /\ a \in Value
    BY <1>10 DEF Assign, IInv
  <2>2. Program!Assign(n)
    BY <2>1, StoreAssigns
  <2> QED
    BY <2>1, <2>2 DEF Program!AssignLast, Program!Next
<1>11. ASSUME NEW n \in Name, AssignFails(n)
       PROVE  Program!Next
  <2>1. StoreFails(n, a) /\ operands = NoCall /\ Pending = << >> /\ a \in Value
    BY <1>11 DEF AssignFails, Running, IInv
  <2>2. Program!Stop \/ Program!NoMemory(n)
    BY <2>1, StoreFailsStops
  <2> QED
    BY <2>2 DEF Program!Next
<1>12. ASSUME NEW n \in Name, Enhance(n)
       PROVE  Program!Next
  BY <1>12, EnhanceEnhances DEF Program!Next
<1>13. ASSUME NEW n \in Name, EnhanceMismatch(n)
       PROVE  Program!Next
  BY <1>13, MismatchStops DEF Program!Next
<1>14. ASSUME NEW n \in Name, Declare(n)
       PROVE  Program!Next
  BY <1>14, DeclareDeclares DEF Program!Next
<1>15. ASSUME NEW n \in Name, Delete(n)
       PROVE  Program!Next
  BY <1>15, DeleteDeletes DEF Program!Next
<1> QED
  BY <1>1, <1>2, <1>3, <1>4, <1>5, <1>6, <1>7, <1>8, <1>9, <1>10, <1>11, <1>12, <1>13, <1>14,
     <1>15 DEF Next

\* Frames implement scopes: whatever actuals, defaults, global statements,
\* assignments and deletions there have been, each name has in each call the
\* value it was last given there (snek_frame_lookup, snek_id_ref, snek_func_push).
THEOREM ImplementsScopesHolds == Spec => ImplementsScopes
<1>1. Init => Program!Init
  BY InitImplements
<1>2. IInv /\ OneStarts /\ [Next]_vars => [Program!Next]_(Program!vars)
  BY NextImplements
<1> QED
  BY <1>1, <1>2, IInvHolds, OneStartsHolds, PTL DEF Spec, ImplementsScopes, Program!Spec

=============================================================================
