------------------------------- MODULE Scopes -------------------------------
(***************************************************************************)
(* What a Snek program may rely on: a name is a variable of the current    *)
(* call or a global one, and has the value it was last given there; a call *)
(* gives the formals of the function what was passed for them.  There are  *)
(* no frames, ids or memory here; SnekFrame implements this specification. *)
(***************************************************************************)
EXTENDS Integers, Sequences, FiniteSets, Functions

CONSTANTS
  Name, Value,
  Null,       \* None
  Default,    \* what a default expression gives
  NoCall      \* no call is being prepared

VARIABLES
  outer,      \* the global variables: a function from names to values
  calls,      \* the calls in progress, the current one last
  operands,   \* the function and the actuals of the call being prepared
  starting,   \* defaults of the current call are still being assigned
  a           \* the value of the last expression

vars == <<outer, calls, operands, starting, a>>

Bind(f, n, v) == [m \in DOMAIN f \cup {n} |-> IF m = n THEN v ELSE f[m]]

\* f, and g where f says nothing
Over(f, g) == [m \in DOMAIN f \cup DOMAIN g |-> IF m \in DOMAIN f THEN f[m] ELSE g[m]]

Current == calls[Len(calls)]
Become(scope) == calls' = [calls EXCEPT ![Len(calls)] = scope]

Init == outer = << >> /\ calls = << >> /\ operands = NoCall /\ ~starting /\ a = Null

\* n is global where it is used: at the top level, or by a global statement.
IsOuter(n) == IF calls = << >> THEN TRUE ELSE n \in Current.global
HasLocal(n) == IF calls = << >> THEN FALSE ELSE n \in DOMAIN Current.vars

----------------------------------------------------------------------------
Running == operands = NoCall /\ ~starting

Evaluate == Running /\ a' \in Value /\ UNCHANGED <<outer, calls, operands, starting>>

Load(n) ==
  /\ Running
  /\ \/ HasLocal(n) /\ a' = Current.vars[n]
     \/ ~HasLocal(n) /\ n \in DOMAIN outer /\ a' = outer[n]
  /\ UNCHANGED <<outer, calls, operands, starting>>

\* Assignment makes the variable if there is none.
Assign(n) ==
  /\ Running
  /\ \/ IsOuter(n) /\ outer' = Bind(outer, n, a') /\ UNCHANGED calls
     \/ /\ ~IsOuter(n) /\ Become([Current EXCEPT !.vars = Bind(Current.vars, n, a')])
        /\ UNCHANGED outer
  /\ UNCHANGED <<operands, starting>>

\* n = the last value, and n op= expr, which is for variables there are
AssignLast(n) == a' = a /\ Assign(n)
Enhance(n) ==
  /\ IF IsOuter(n) THEN n \in DOMAIN outer ELSE HasLocal(n)
  /\ a' \in Value /\ Assign(n)

\* A global statement; a local variable of that name is lost.
Declare(n) ==
  /\ Running /\ calls # << >>
  /\ Become([vars   |-> Restrict(Current.vars, DOMAIN Current.vars \ {n}),
             global |-> Current.global \cup {n}])
  /\ UNCHANGED <<outer, operands, starting, a>>

\* Deletion is of a global, and may take others with it.
Delete(n) ==
  /\ Running
  /\ \E rest \in SUBSET (DOMAIN outer \ {n}) : outer' = Restrict(outer, rest)
  /\ UNCHANGED <<calls, operands, starting, a>>

Prepare ==
  /\ Running
  /\ operands' # NoCall /\ a' \in Value
  /\ UNCHANGED <<outer, calls, starting>>

\* The first formals get the values passed by position, others those passed to
\* them by name, and named formals left over their defaults.  A formal without
\* a default may be left with no value.
Call ==
  /\ operands # NoCall
  /\ LET formals    == operands.func.required \o operands.func.named
         position   == {formals[i] : i \in DOMAIN operands.given}
         name       == {p.id : p \in Range(operands.byName)}
         byPosition == [n \in position |->
                          operands.given[CHOOSE i \in DOMAIN operands.given : formals[i] = n]]
         byName     == [n \in name |-> (CHOOSE p \in Range(operands.byName) : p.id = n).value]
         defaults   == [n \in Range(operands.func.named) |-> Default]
     IN  /\ Len(operands.given) <= Len(formals)
         /\ name \subseteq Range(formals) \ position
         /\ Cardinality(position) + Cardinality(name) = Len(operands.given) + Len(operands.byName)
         /\ calls' = Append(calls, [vars   |-> Over(byPosition, Over(byName, defaults)),
                                    global |-> {}])
         /\ starting' = (operands.func.named # << >>)
  /\ a' \in Value /\ operands' = NoCall
  /\ UNCHANGED outer

\* The call's variables have their values already: only the accumulator shows
\* that a default is evaluated.
Start ==
  /\ starting /\ starting' \in BOOLEAN
  /\ a' = Default
  /\ UNCHANGED <<outer, calls, operands>>

Return ==
  /\ Running /\ calls # << >>
  /\ calls' = SubSeq(calls, 1, Len(calls) - 1)
  /\ UNCHANGED <<outer, operands, starting, a>>

\* The end of a command, or an error
Abort == calls' = << >> /\ operands' = NoCall /\ starting' = FALSE /\ a' = Null
Stop == Abort /\ UNCHANGED outer

\* n op= expr with an operator that fails is an error, and makes n None.
Mismatch(n) ==
  /\ Running /\ IsOuter(n) /\ n \in DOMAIN outer
  /\ outer' = Bind(outer, n, Null)
  /\ Abort

\* An assignment in a call for which there is no memory is an error, and may be
\* made to the global variable of that name.
NoMemory(n) ==
  /\ operands = NoCall /\ calls # << >> /\ ~IsOuter(n)
  /\ outer' = Bind(outer, n, IF starting THEN Default ELSE a)
  /\ Abort

Next ==
  \/ Evaluate \/ Prepare \/ Call \/ Start \/ Return \/ Stop
  \/ \E n \in Name : \/ Load(n) \/ AssignLast(n) \/ Enhance(n) \/ Declare(n) \/ Delete(n)
                     \/ Mismatch(n) \/ NoMemory(n)

Spec == Init /\ [][Next]_vars
=============================================================================
