----------------------------- MODULE ObjectGraph -----------------------------
(***************************************************************************)
(* What the snek heap promises to the interpreter, with no memory in it: a *)
(* graph of objects, a value stack and a frame that root it.  Objects have *)
(* no addresses and an object nothing reaches is gone: the graph is kept   *)
(* in its canonical form, a sequence of nodes.  A collection is no step at *)
(* all.  An operation that allocates may also fail, which ends the program *)
(* (snek_exec's abort path drops the stack and the frame).                 *)
(*                                                                         *)
(* SnekHeap implements this: every step of its allocator and of its        *)
(* sliding collector maps to a stutter here.                               *)
(***************************************************************************)
EXTENDS Naturals, Sequences, RootedGraph
LOCAL INSTANCE SequencesExt

CONSTANTS StackSize,  \* values the stack holds
          MaxLen      \* items a new list holds

VARIABLES graph,      \* the nodes [kind, items]; items are indices, or 0
          stack,      \* snek_stack: indices, 0 for a value that is no object
          frame       \* snek_frame: the index of the innermost frame, or 0

vars == <<graph, stack, frame>>

----------------------------------------------------------------------------
Node(kind, items) == [kind |-> kind, items |-> items]

New == Len(graph) + 1    \* the index of an object made now

\* Every operation ends here: new graph, stack and frame, less the garbage.
Become(g, s, f) ==
  \E p \in {Seen(g, s, f)} :
    graph' = p.graph /\ stack' = p.stack /\ frame' = p.frame

Depth    == Len(stack)
Peek(i)  == stack[Depth - i]              \* i values below the top
Under(n) == SubSeq(stack, 1, Depth - n)   \* the stack without its top n values

IsA(x, kind) == x \in DOMAIN graph /\ graph[x].kind = kind

----------------------------------------------------------------------------
(***************************************************************************)
(* The operations                                                          *)
(***************************************************************************)
Init == graph = << >> /\ stack = << >> /\ frame = 0

\* A new object with no references: a string, a code block.
NewBlob ==
  /\ Depth < StackSize
  /\ Become(Append(graph, Node("blob", << >>)), Append(stack, New), frame)

\* [v1, ..., vn]
NewList ==
  \E n \in 0..MaxLen :
    /\ n <= Depth
    /\ Depth - n < StackSize
    /\ Become(Append(graph, Node("list", SubSeq(stack, Depth - n + 1, Depth))),
              Append(Under(n), New), frame)

\* a += b, the value a left on the stack
AppendList ==
  /\ Depth >= 2
  /\ IsA(Peek(0), "list") /\ IsA(Peek(1), "list")
  /\ LET a == Peek(1) IN
     Become([graph EXCEPT ![a].items = @ \o graph[Peek(0)].items], Under(1), frame)

\* a[i], in place of a
LoadItem ==
  /\ Depth >= 1
  /\ IsA(Peek(0), "list")
  /\ \E i \in DOMAIN graph[Peek(0)].items :
       Become(graph, Append(Under(1), graph[Peek(0)].items[i]), frame)

\* a[i] = v; a stays on the stack
StoreItem ==
  /\ Depth >= 2
  /\ IsA(Peek(1), "list")
  /\ \E i \in DOMAIN graph[Peek(1)].items :
       Become([graph EXCEPT ![Peek(1)].items[i] = Peek(0)], Under(1), frame)

\* del a[i]
DeleteItem ==
  /\ Depth >= 1
  /\ IsA(Peek(0), "list")
  /\ \E i \in DOMAIN graph[Peek(0)].items :
       Become([graph EXCEPT ![Peek(0)].items = RemoveAt(@, i)], stack, frame)

Drop == Depth >= 1 /\ Become(graph, Under(1), frame)

PushNumber == Depth < StackSize /\ Become(graph, Append(stack, 0), frame)

\* A call binds the value on the stack to the frame's variable.
PushFrame ==
  /\ Depth >= 1
  /\ Become(Append(graph, Node("frame", <<Peek(0), frame>>)), Under(1), New)

PopFrame == frame # 0 /\ Become(graph, stack, graph[frame].items[2])

LoadVariable ==
  /\ frame # 0
  /\ Depth < StackSize
  /\ Become(graph, Append(stack, graph[frame].items[1]), frame)

StoreVariable ==
  /\ frame # 0
  /\ Depth >= 1
  /\ Become([graph EXCEPT ![frame].items[1] = Peek(0)], Under(1), frame)

\* "out of memory"
Fail == Become(graph, << >>, 0)

Next ==
  \/ NewBlob \/ NewList \/ AppendList
  \/ LoadItem \/ StoreItem \/ DeleteItem \/ Drop \/ PushNumber
  \/ PushFrame \/ PopFrame \/ LoadVariable \/ StoreVariable
  \/ Fail

Spec == Init /\ [][Next]_vars
=============================================================================
