----------------------------- MODULE RootedGraph -----------------------------
(***************************************************************************)
(* A graph of objects seen from its roots.  A graph is a function from     *)
(* names (identities, or addresses) to nodes [kind, items]; an item that   *)
(* is no name is no object.  Its canonical form numbers the objects from 1 *)
(* in the order a breadth-first search from the roots finds them, so two   *)
(* graphs have the same form exactly when no program that starts from the  *)
(* roots can tell them apart, wherever their objects lie.                  *)
(***************************************************************************)
EXTENDS Integers, Sequences
LOCAL INSTANCE SequencesExt

\* The names of g reached from the roots, in the order they are found.
Found(g, roots) ==
  LET Search[seen \in Seq(DOMAIN g), todo \in Seq(Int)] ==
        IF todo = << >> THEN seen
        ELSE IF Head(todo) \in DOMAIN g \ ToSet(seen)
             THEN Search[Append(seen, Head(todo)), Tail(todo) \o g[Head(todo)].items]
             ELSE Search[seen, Tail(todo)]
  IN  Search[<< >>, roots]

\* The number of x in the order found; 0 for no object.
Number(found, x) ==
  IF x \in ToSet(found) THEN CHOOSE i \in DOMAIN found : found[i] = x ELSE 0

Numbers(found, s) == [i \in DOMAIN s |-> Number(found, s[i])]

\* What a program with the graph g, the stack s and the frame f can see: the
\* canonical form of its graph, a sequence of nodes.
Seen(g, s, f) ==
  LET Form[found \in Seq(DOMAIN g)] ==
        [graph |-> [i \in DOMAIN found |->
                      [kind  |-> g[found[i]].kind,
                       items |-> Numbers(found, g[found[i]].items)]],
         stack |-> Numbers(found, s),
         frame |-> Number(found, f)]
  IN  Form[Found(g, Append(s, f))]
=============================================================================
