------------------------------ MODULE SnekFrame ------------------------------
(***************************************************************************)
(* Variables and calls (src/snek-frame.c, src/snek-func.c, and snek_assign *)
(* and the call and return of src/snek-exec.c).                            *)
(*                                                                         *)
(* A frame is an array of variables, searched from the front.  It grows by *)
(* being allocated anew, which may fail; the error then ends the command.  *)
(* A global statement puts SNEK_GLOBAL in a local variable of that name.   *)
(* A call puts its actuals in a new frame; the function's code then begins *)
(* with the defaults of the formals that got none.                         *)
(*                                                                         *)
(* An operator under `M: ...' is a faulty form of the definition below it. *)
(***************************************************************************)
EXTENDS Integers, Sequences, Functions

CONSTANTS
  Name,        \* ids of variables
  Value,       \* values of the program
  Null,        \* SNEK_NULL, one of them
  Default,     \* what a default expression gives
  GLOBAL,      \* SNEK_GLOBAL
  NoId,        \* SNEK_ID_NONE
  NoCall,      \* no call is being prepared
  VarBytes,    \* sizeof (snek_variable_t)
  IdEnd,       \* ... up to the end of its id, its last field
  MaxFormals,  \* bound: formals of a function, and actuals of a call
  MaxFrames,   \* bound: calls in progress
  MaxGlobals   \* bound: snek_globals->nvariables

ASSUME ValueAssumption == {Null, Default} \subseteq Value /\ GLOBAL \notin Value
ASSUME IdAssumption == NoId \notin Name
ASSUME BoundAssumption ==
  /\ IdEnd \in Nat \ {0} /\ VarBytes \in Nat /\ IdEnd <= VarBytes
  /\ MaxFormals \in Nat /\ MaxFrames \in Nat /\ MaxGlobals \in Nat

VARIABLES
  globals,     \* snek_globals->variables
  frames,      \* the chain of snek_frame, the innermost last
  operands,    \* what is on the value stack for the next call
  a            \* snek_a

vars == <<globals, frames, operands, a>>

Names == UNION {[1..k -> Name] : k \in 0..MaxFormals}

\* Functions: their formals.  The parser lets a formal be named twice.
Func == {f \in [required : Names, named : Names] : Len(f.required \o f.named) <= MaxFormals}
Formals(f) == f.required \o f.named

\* A function and its actuals, by position and by name
Values == UNION {[1..k -> Value] : k \in 0..MaxFormals}
Named == UNION {[1..k -> [id : Name, value : Value]] : k \in 0..MaxFormals}
Operands == {o \in [func : Func, given : Values, byName : Named] :
               Len(o.given) + Len(o.byName) <= MaxFormals}

Init == globals = << >> /\ frames = << >> /\ operands = NoCall /\ a = Null

----------------------------------------------------------------------------
(***************************************************************************)
(* Looking up a variable                                                   *)
(***************************************************************************)
Has(frame, n) == \E i \in 1..Len(frame) : frame[i].id = n

\* snek_variable_lookup: the first that has the id
At(frame, n) ==
  CHOOSE i \in 1..Len(frame) : frame[i].id = n /\ \A j \in 1..(i - 1) : frame[j].id # n

ValueIn(frame, n) == frame[At(frame, n)].value
Set(frame, n, v) == [frame EXCEPT ![At(frame, n)].value = v]
Insert(frame, n, v) == Append(frame, [id |-> n, value |-> v])

Frame == frames[Len(frames)].vars      \* snek_frame->variables

\* snek_id_is_local: SNEK_GLOBAL or not
IsLocal(n) == IF frames = << >> THEN FALSE ELSE Has(Frame, n)

\* snek_frame_lookup finds it in snek_frame
FoundLocal(n) == IF IsLocal(n) THEN ValueIn(Frame, n) # GLOBAL ELSE FALSE

\* ... and, with insert set, looks for it, or makes it, in snek_globals
IsOuter(n) == IF frames = << >> THEN TRUE ELSE IsLocal(n) /\ ~FoundLocal(n)

Pending == IF frames = << >> THEN << >> ELSE frames[Len(frames)].pending

\* The command that runs ends with an error; snek_exec drops the frames.
Abort == frames' = << >> /\ operands' = NoCall /\ a' = Null

\* The variables of the current frame become f.
Reframe(f) == frames' = [frames EXCEPT ![Len(frames)].vars = f]

\* snek_id_ref with insert set, and the store that follows
Store(n, v) ==
  \/ FoundLocal(n) /\ Reframe(Set(Frame, n, v)) /\ UNCHANGED globals
  \/ ~IsLocal(n) /\ ~IsOuter(n) /\ Reframe(Insert(Frame, n, v)) /\ UNCHANGED globals
  \/ /\ IsOuter(n) /\ Has(globals, n)
     /\ globals' = Set(globals, n, v) /\ UNCHANGED frames
  \/ /\ IsOuter(n) /\ ~Has(globals, n) /\ Len(globals) < MaxGlobals
     /\ globals' = Insert(globals, n, v) /\ UNCHANGED frames

\* The same when snek_alloc fails.  Without a local variable the lookup goes on
\* to the globals, and the store is made there; a smaller frame of globals may
\* still find room to grow.
StoreFails(n, v) ==
  /\ Abort
  /\ \/ ~IsLocal(n) /\ ~IsOuter(n) /\ Has(globals, n) /\ globals' = Set(globals, n, v)
     \/ /\ ~IsLocal(n) /\ ~IsOuter(n) /\ ~Has(globals, n) /\ Len(globals) < MaxGlobals
        /\ globals' = Insert(globals, n, v)
     \/ ~FoundLocal(n) /\ ~Has(globals, n) /\ UNCHANGED globals

----------------------------------------------------------------------------
(***************************************************************************)
(* What the code of the program does                                       *)
(***************************************************************************)
Running == Pending = << >> /\ operands = NoCall

\* An expression without variables, and one with an error
Evaluate == Running /\ a' \in Value /\ UNCHANGED <<globals, frames, operands>>
EvaluateFails == Running /\ Abort /\ UNCHANGED globals

Load(n) ==
  /\ Running
  /\ \/ FoundLocal(n) /\ a' = ValueIn(Frame, n)
     \/ ~FoundLocal(n) /\ Has(globals, n) /\ a' = ValueIn(globals, n)
  /\ UNCHANGED <<globals, frames, operands>>

LoadFails(n) == Running /\ ~FoundLocal(n) /\ ~Has(globals, n) /\ Abort /\ UNCHANGED globals

Assign(n) == Running /\ Store(n, a) /\ UNCHANGED <<operands, a>>
AssignFails(n) == Running /\ StoreFails(n, a)

\* n op= expr makes no variables.
CanEnhance(n) == (frames = << >> \/ IsLocal(n)) /\ (FoundLocal(n) \/ Has(globals, n))

Enhance(n) ==
  \E v \in Value : Running /\ CanEnhance(n) /\ Store(n, v) /\ a' = v /\ UNCHANGED operands
EnhanceFails(n) == Running /\ ~CanEnhance(n) /\ Abort /\ UNCHANGED globals

\* snek_binary reports an error; what it returns, SNEK_NULL, is still stored.
EnhanceMismatch(n) ==
  /\ Running /\ CanEnhance(n) /\ Abort
  /\ globals' = IF FoundLocal(n) THEN globals ELSE Set(globals, n, Null)

\* snek_frame_mark_global; nothing at the top level
Declare(n) ==
  /\ Running /\ frames # << >>
  /\ Reframe(IF IsLocal(n) THEN Set(Frame, n, GLOBAL) ELSE Insert(Frame, n, GLOBAL))
  /\ UNCHANGED <<globals, operands, a>>
DeclareFails(n) ==
  Running /\ frames # << >> /\ ~IsLocal(n) /\ Abort /\ UNCHANGED globals

\* snek_variable_delete copies as many bytes of what is behind the variable as
\* there are variables.  The ids beyond stay zero, and no value is found without
\* its id.  (One that is copied by half counts as zero here.)
Rest(rest) ==
  [j \in 1..Len(rest) |->
     IF (j - 1) * VarBytes + IdEnd <= Len(rest)
     THEN rest[j] ELSE [id |-> NoId, value |-> Null]]

Without(n) ==
  SubSeq(globals, 1, At(globals, n) - 1) \o
  Rest(SubSeq(globals, At(globals, n) + 1, Len(globals)))

\* snek_id_del looks at globals only.  It does not expect snek_alloc to fail.
Delete(n) ==
  /\ Running /\ Has(globals, n)
  /\ globals' = Without(n)
  /\ UNCHANGED <<frames, operands, a>>

----------------------------------------------------------------------------
(***************************************************************************)
(* Calls                                                                   *)
(***************************************************************************)
\* The function and its actuals are pushed.  To evaluate one may take any of
\* the steps above; they come before in the model.
Prepare ==
  /\ Running /\ Len(frames) < MaxFrames
  /\ operands' \in Operands /\ a' \in Value
  /\ UNCHANGED <<globals, frames>>

\* The formals that get values, in the order of the actuals
FormalsGiven(o) ==
  [i \in 1..Len(o.given) |-> Formals(o.func)[i]] \o [i \in 1..Len(o.byName) |-> o.byName[i].id]

ActualsGiven(o) == o.given \o [i \in 1..Len(o.byName) |-> o.byName[i].value]

\* M: not compared with the last
DistinctButLast(ids) == \A i, j \in 1..(Len(ids) - 1) : i # j => ids[i] # ids[j]

\* snek_func_actual: no two actuals for one formal
Distinct(ids) == \A i, j \in 1..Len(ids) : i # j => ids[i] # ids[j]

\* No more by position than there are formals, and by name formals only
\* (snek_func_check_formal)
Fits(o) ==
  /\ Len(o.given) <= Len(Formals(o.func))
  /\ \A i \in 1..Len(o.byName) : o.byName[i].id \in Range(Formals(o.func))

\* snek_func_push.  Its check for required formals looks at the first
\* variables of the frame, which all have a name; one that lies beyond the
\* frame is whatever the pool holds there, so that a call with too few actuals
\* fails or does not.
Call ==
  /\ operands # NoCall
  /\ Fits(operands) /\ Distinct(FormalsGiven(operands))
  /\ frames' = Append(frames,
       [pending |-> operands.func.named,
        vars    |-> [i \in 1..Len(FormalsGiven(operands)) |->
                       [id    |-> FormalsGiven(operands)[i],
                        value |-> ActualsGiven(operands)[i]]]])
  /\ a' \in Value                      \* the function
  /\ operands' = NoCall
  /\ UNCHANGED globals

\* An unsuitable or missing actual, or no memory for the frame
CallFails == operands # NoCall /\ Abort /\ UNCHANGED globals

\* M: the default replaces what was passed
NeverGiven(n) == FALSE

Given(n) == IsLocal(n)

\* snek_op_assign_named, for the next formal with a default
AssignDefault ==
  /\ Pending # << >>
  /\ LET n == Head(Pending) IN
     frames' = [frames EXCEPT ![Len(frames)] =
                  [pending |-> Tail(Pending),
                   vars    |-> IF Given(n) THEN Frame
                               ELSE IF IsLocal(n) THEN Set(Frame, n, Default)
                               ELSE Insert(Frame, n, Default)]]
  /\ a' = Default
  /\ UNCHANGED <<globals, operands>>
DefaultFails ==
  Pending # << >> /\ ~Given(Head(Pending)) /\ StoreFails(Head(Pending), Default)

\* snek_frame_pop, at the end of a function
Return ==
  /\ Running /\ frames # << >>
  /\ frames' = SubSeq(frames, 1, Len(frames) - 1)
  /\ UNCHANGED <<globals, operands, a>>

\* ... and at the end of a command
Finish == Running /\ frames = << >> /\ a' = Null /\ UNCHANGED <<globals, frames, operands>>

Next ==
  \/ Evaluate \/ EvaluateFails \/ Prepare \/ Call \/ CallFails \/ AssignDefault \/ DefaultFails
  \/ Return \/ Finish
  \/ \E n \in Name : \/ Load(n) \/ LoadFails(n) \/ Assign(n) \/ AssignFails(n)
                     \/ Enhance(n) \/ EnhanceFails(n) \/ EnhanceMismatch(n)
                     \/ Declare(n) \/ DeclareFails(n) \/ Delete(n)

Spec == Init /\ [][Next]_vars

----------------------------------------------------------------------------
(***************************************************************************)
(* Properties                                                              *)
(***************************************************************************)
TypeOK ==
  /\ globals \in Seq([id : Name \cup {NoId}, value : Value])
  /\ Len(globals) <= MaxGlobals
  /\ frames \in Seq([pending : Names, vars : Seq([id : Name, value : Value \cup {GLOBAL}])])
  /\ operands \in Operands \cup {NoCall}
  /\ a \in Value

\* No name is twice in a frame
Once(frame) ==
  \A i, j \in 1..Len(frame) : frame[i].id = frame[j].id /\ frame[i].id # NoId => i = j

\* No frame has two variables of one name, whatever actuals, defaults, global
\* statements and assignments made them: the first found is the only one.
NamesOnce == Once(globals) /\ \A k \in 1..Len(frames) : Once(frames[k].vars)

\* The variables in a frame that have values, and the names marked global
Bound(frame) ==
  [n \in {m \in Name : Has(frame, m) /\ ValueIn(frame, m) # GLOBAL} |-> ValueIn(frame, n)]

Marked(frame) == {n \in Name : Has(frame, n) /\ ValueIn(frame, n) = GLOBAL}

\* A default that is still to be assigned counts as assigned.
WithDefaults(fr) ==
  [n \in DOMAIN Bound(fr.vars) \cup Range(fr.pending) |->
     IF n \in DOMAIN Bound(fr.vars) THEN Bound(fr.vars)[n] ELSE Default]

Program == INSTANCE Scopes WITH
  outer <- Bound(globals),
  starting <- Pending # << >>,
  calls <- [k \in 1..Len(frames) |->
              [vars |-> WithDefaults(frames[k]), global |-> Marked(frames[k].vars)]]

\* Frames, the search for variables in them, their growth and the binding of
\* actuals give each name the value it should have in each scope.
ImplementsScopes == Program!Spec

\* "Del deletes variables": the one that it is given.
DeleteKeepsOthers ==
  [][\A n \in Name : Delete(n) =>
       \A m \in Name \ {n} : Has(globals, m) => Has(globals', m)]_vars

\* "Positional parameters are all required": a call that is made has given all
\* of them values.  (With fewer actuals than that, the code looks beyond the
\* frame; here there are enough, but they may be for other formals.)
RequiredGiven ==
  [][/\ operands # NoCall /\ Len(frames') > Len(frames)
     /\ Len(ActualsGiven(operands)) >= Len(operands.func.required)
     => Range(operands.func.required) \subseteq DOMAIN Bound(frames'[Len(frames')].vars)]_vars
=============================================================================
