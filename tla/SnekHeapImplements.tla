-------------------------- MODULE SnekHeapImplements --------------------------
(***************************************************************************)
(* The heap implements the object graph: no step of snek_alloc or of the   *)
(* collector changes what the interpreter can reach, and each operation    *)
(* does to the graph what it is meant to.                                  *)
(*                                                                         *)
(* During a collection the references are half old and half new, so the    *)
(* graph is then the one the program had when it called snek_alloc: a      *)
(* history variable holds it, and the collection must give it back.        *)
(***************************************************************************)
EXTENDS SnekHeap, RootedGraph, FiniteSetsExt
LOCAL INSTANCE SequencesExt

VARIABLE before     \* the graph, stack and frame at the call of snek_alloc

\* The values in the list at o: the slots of its data block below list->size.
\* A slot that is not there is no value.
ItemsAt(o) ==
  LET block == pool[o].refs[1] IN
  [i \in 1..pool[o].len |->
     IF block \in DOMAIN pool /\ i \in DOMAIN pool[block].refs
     THEN pool[block].refs[i] ELSE None]

\* The heap as a graph; no data block is a node the program knows.
Nodes ==
  [o \in DOMAIN pool |->
     [kind  |-> pool[o].kind,
      items |-> IF pool[o].kind = "list" THEN ItemsAt(o) ELSE pool[o].refs]]

\* A list whose data is being allocated is on the stack for the collector
\* only; the program does not have it yet.
ProgramStack == IF req.op = "data" THEN Under(1) ELSE stack

Program == Seen(Nodes, ProgramStack, frame)

HeapInit == Init /\ before = Program
HeapNext == Next /\ before' = IF "run" \in {pc, pc'} THEN Program' ELSE before
HeapSpec == HeapInit /\ [][HeapNext]_<<vars, before>>

HeapLive == HeapSpec /\ Fairness

Graph == INSTANCE ObjectGraph WITH
           graph <- before.graph, stack <- before.stack, frame <- before.frame

\* The heap, its collector included, implements the object graph: each
\* operation of the interpreter does what it should to the graph, whatever
\* snek_alloc had to do to find the memory for it.
ImplementsObjectGraph == Graph!Spec

\* The objects the walk reaches, the data blocks of lists with them.
Live ==
  LET found == ToSet(Found(Nodes, Append(stack, frame)))
  IN  found \cup ({pool[o].refs[1] : o \in {x \in found : pool[x].kind = "list"}} \ {None})

\* When snek_alloc gives up, memory is short indeed: a full collection leaves
\* the live objects and nothing else, without gaps.
FullCollectionPacks ==
  pc = "alloc" /\ req.tried = "full" =>
    /\ DOMAIN pool = Live
    /\ top = MapThenSumSet(LAMBDA o : pool[o].size, Live)
=============================================================================
