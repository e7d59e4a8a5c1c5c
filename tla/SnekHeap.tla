------------------------------- MODULE SnekHeap -------------------------------
(***************************************************************************)
(* The snek heap: a bump allocator over one pool of words, and the sliding *)
(* mark-and-compact collector it calls when the pool is full               *)
(* (src/snek-memory.c, with the object types of snek-list.c, snek-frame.c  *)
(* and snek-string.c).                                                     *)
(*                                                                         *)
(* The collector has room for NChunk (offset, size) pairs only.  It marks  *)
(* everything from the roots, keeping the NChunk lowest objects it has not *)
(* placed yet, slides those down to the end of what it has placed, walks   *)
(* everything a second time to relocate each reference, and repeats above  *)
(* them until a pass leaves the array short.  The walk is the C recursion  *)
(* of the mark and move methods; its stack is `cstack'.                    *)
(*                                                                         *)
(* An operator under a comment `M: ...' is the next definition with the     *)
(* fault the comment names.  No behaviour of the module has it; it is there *)
(* to show that the properties notice.                                     *)
(*                                                                         *)
(* Memory is a partial function from offsets to objects; offsets and sizes *)
(* are in words of SNEK_ALLOC_ROUND bytes.                                 *)
(***************************************************************************)
EXTENDS ChunkArray, Sequences, FiniteSets

CONSTANTS
  StackSize,  \* values of snek_stack the program uses; one more for protection
  MaxLen,     \* bound: items of a list display, words of a string
  Slack,      \* items snek_list_alloc adds to a list that grows
  Ops         \* the kinds of values the program makes

ASSUME SizeAssumption  == StackSize \in Nat /\ MaxLen \in Nat /\ Slack \in Nat
ASSUME OpsAssumption   == Ops \subseteq {"blob", "list", "frame", "num"}

VARIABLES
  pool,       \* offset -> object
  top,        \* snek_top
  lastTop,    \* snek_last_top
  stack,      \* snek_stack[0 .. snek_stackp)
  frame,      \* snek_frame
  req,        \* the snek_alloc call in progress
  pc,         \* where snek_alloc and snek_collect are
  style,      \* snek_collect's argument
  to,         \* snek_collect's local `top'
  chunk,      \* snek_chunk[]: old offset, and size or new offset (a union)
  low, high,  \* chunk_low, chunk_high
  first, last,\* chunk_first, chunk_last
  c,          \* snek_collect's loop index
  busy,       \* the offsets whose bit is set in snek_busy
  root,       \* walk: the next root to visit
  cstack,     \* walk: the C stack of mark or move methods
  noteList,   \* snek_note_list
  note        \* walk: the noted list to process next

memVars   == <<pool, top, lastTop>>
rootVars  == <<stack, frame>>
chunkVars == <<chunk, low, high, first, last>>
walkVars  == <<busy, root, cstack, noteList, note>>
vars == <<pool, top, lastTop, stack, frame, req, pc, style, to, chunk, low,
          high, first, last, c, busy, root, cstack, noteList, note>>

----------------------------------------------------------------------------
(***************************************************************************)
(* Values                                                                  *)
(***************************************************************************)
None   == -1                                  \* SNEK_OFFSET_NONE
Offset == 0..(Pool - 1)
Ref    == Offset \cup {None}                  \* None: also any number

Kinds  == {"blob", "list", "data", "frame"}

\* An object is a record of
\*   kind
\*   size   in words
\*   refs   a list has one, its data block; a data block has its slots; a
\*          frame its variable and the frame below it
\*   len    list->size, at most the slots of the data block (list->alloc)
\*   next   the note_next bits of a list
Fields == {"kind", "size", "refs", "len", "next"}

\* A call of snek_alloc: for what, for how many words, the items of the list
\* display being built, and the collection tried last.
NoReq == [op |-> "none", size |-> 0, n |-> 0, tried |-> "none"]

Chunk == [old : 0..Pool, val : 0..Pool]

Walking == pc \in {"mark", "move"}

Depth    == Len(stack)
Peek(i)  == stack[Depth - i]
Under(n) == SubSeq(stack, 1, Depth - n)

IsA(r, kind) == r \in DOMAIN pool /\ pool[r].kind = kind

\* The slots of the list at offset o, and the items among them.
Slots(o) == IF pool[o].refs[1] = None THEN << >> ELSE pool[pool[o].refs[1]].refs
Items(o) == SubSeq(Slots(o), 1, pool[o].len)

New(kind, size, refs, len) ==
  [kind |-> kind, size |-> size, refs |-> refs, len |-> len, next |-> 0]

Put(p, o, obj) == [x \in DOMAIN p \cup {o} |-> IF x = o THEN obj ELSE p[x]]

\* A list of n zeroed slots: a data block fresh from snek_alloc.
Zeroed(n) == [i \in 1..n |-> None]

\* s written over the slots of t from slot k + 1 on: memcpy into a data block.
Over(t, k, s) ==
  [i \in DOMAIN t |-> IF i - k \in DOMAIN s THEN s[i - k] ELSE t[i]]

----------------------------------------------------------------------------
EmptyChunks == [i \in 0..(NChunk - 1) |-> [old |-> 0, val |-> 0]]

Init ==
  /\ pool = << >> /\ top = 0 /\ lastTop = 0
  /\ stack = << >> /\ frame = None
  /\ req = NoReq /\ pc = "run"
  /\ style = "full" /\ to = 0
  /\ chunk = EmptyChunks
  /\ low = 0 /\ high = 0 /\ first = 0 /\ last = 0 /\ c = 0
  /\ busy = {} /\ root = 1 /\ cstack = << >>
  /\ noteList = None /\ note = None

----------------------------------------------------------------------------
(***************************************************************************)
(* The interpreter between collections.  An operation that allocates only  *)
(* calls snek_alloc here; what it does with the memory comes with the      *)
(* Alloc actions below.  The stack has room for the value it protects.     *)
(***************************************************************************)
collectorVars == <<style, to, chunkVars, c, walkVars>>

\* snek_alloc(size)
Call(op, size, n) ==
  /\ req' = [op |-> op, size |-> size, n |-> n, tried |-> "none"]
  /\ pc' = "alloc"

Calls == pc = "run" /\ UNCHANGED <<memVars, rootVars, collectorVars>>

CallBlob ==
  /\ "blob" \in Ops /\ Calls /\ Depth < StackSize
  /\ \E n \in 1..MaxLen : Call("blob", n, 0)

\* snek_list_imm: the items are the top n values of the stack
CallList ==
  /\ "list" \in Ops /\ Calls
  /\ \E n \in 0..MaxLen :
       n <= Depth /\ Depth - n < StackSize /\ Call("head", 1, n)

\* snek_frame_push
CallFrame == "frame" \in Ops /\ Calls /\ Depth >= 1 /\ Call("frame", 1, 0)

\* The destination and the operand of a += b
CanAppend == Depth >= 2 /\ IsA(Peek(0), "list") /\ IsA(Peek(1), "list")
AppendedLen == pool[Peek(1)].len + pool[Peek(0)].len
HasRoom == Len(Slots(Peek(1))) >= AppendedLen

\* snek_list_append, through snek_list_resize, when the block is too short
CallAppend == Calls /\ CanAppend /\ ~HasRoom /\ Call("append", AppendedLen + Slack, 0)

\* Steps of the interpreter that allocate nothing.
Runs == pc = "run" /\ UNCHANGED <<top, lastTop, req, pc, collectorVars>>

\* M: the new items at the start of the block
AppendAtStart ==
  /\ Runs /\ CanAppend /\ HasRoom
  /\ LET a == pool[Peek(1)]
         grown == [a EXCEPT !.len = AppendedLen] IN
     pool' = IF a.refs[1] # None
             THEN [pool EXCEPT ![Peek(1)] = grown,
                               ![a.refs[1]].refs = Over(@, 0, Items(Peek(0)))]
             ELSE [pool EXCEPT ![Peek(1)] = grown]
  /\ stack' = Under(1)
  /\ UNCHANGED frame

\* snek_list_append when the block has room for all
AppendInPlace ==
  /\ Runs /\ CanAppend /\ HasRoom
  /\ LET a == pool[Peek(1)]
         grown == [a EXCEPT !.len = AppendedLen] IN
     pool' = IF a.refs[1] # None
             THEN [pool EXCEPT ![Peek(1)] = grown,
                               ![a.refs[1]].refs = Over(@, a.len, Items(Peek(0)))]
             ELSE [pool EXCEPT ![Peek(1)] = grown]
  /\ stack' = Under(1)
  /\ UNCHANGED frame

LoadItem ==
  /\ Runs /\ Depth >= 1 /\ IsA(Peek(0), "list")
  /\ \E i \in 1..pool[Peek(0)].len :
       stack' = Append(Under(1), Slots(Peek(0))[i])
  /\ UNCHANGED <<pool, frame>>

\* snek_assign: *ref = snek_a
StoreItem ==
  /\ Runs /\ Depth >= 2 /\ IsA(Peek(1), "list")
  /\ \E i \in 1..pool[Peek(1)].len :
       pool' = [pool EXCEPT ![pool[Peek(1)].refs[1]].refs[i] = Peek(0)]
  /\ stack' = Under(1)
  /\ UNCHANGED frame

\* snek_list_del: the last slot keeps what it held, beyond list->size
DeleteItem ==
  /\ Runs /\ Depth >= 1 /\ IsA(Peek(0), "list")
  /\ LET a == pool[Peek(0)] IN
     \E i \in 1..a.len :
       pool' = [pool EXCEPT
                  ![Peek(0)].len = a.len - 1,
                  ![a.refs[1]].refs = Over(@, i - 1, SubSeq(@, i + 1, a.len))]
  /\ UNCHANGED <<stack, frame>>

Drop == Runs /\ Depth >= 1 /\ stack' = Under(1) /\ UNCHANGED <<pool, frame>>

\* A value that is no object
PushNumber ==
  /\ "num" \in Ops /\ Runs /\ Depth < StackSize
  /\ stack' = Append(stack, None)
  /\ UNCHANGED <<pool, frame>>

\* M: all frames dropped
PopAllFrames == Runs /\ frame # None /\ frame' = None /\ UNCHANGED <<pool, stack>>

\* snek_frame_pop
PopFrame ==
  /\ Runs /\ frame # None
  /\ frame' = pool[frame].refs[2]
  /\ UNCHANGED <<pool, stack>>

LoadVariable ==
  /\ Runs /\ frame # None /\ Depth < StackSize
  /\ stack' = Append(stack, pool[frame].refs[1])
  /\ UNCHANGED <<pool, frame>>

\* snek_id_store
StoreVariable ==
  /\ Runs /\ frame # None /\ Depth >= 1
  /\ pool' = [pool EXCEPT ![frame].refs[1] = Peek(0)]
  /\ stack' = Under(1)
  /\ UNCHANGED frame

Interpret ==
  \/ CallBlob \/ CallList \/ CallFrame \/ CallAppend
  \/ AppendInPlace \/ LoadItem \/ StoreItem \/ DeleteItem \/ Drop
  \/ PushNumber \/ PopFrame \/ LoadVariable \/ StoreVariable

----------------------------------------------------------------------------
(***************************************************************************)
(* snek_alloc, and its caller from there on                                *)
(***************************************************************************)
Free == Pool - top

\* The memory is cut from the top of the pool.
Allocates(op) ==
  /\ pc = "alloc" /\ req.op = op /\ req.size \in 1..Free
  /\ top' = top + req.size
  /\ UNCHANGED <<lastTop, collectorVars>>

Done == req' = NoReq /\ pc' = "run"

AllocBlob ==
  /\ Allocates("blob")
  /\ pool' = Put(pool, top, New("blob", req.size, << >>, 0))
  /\ stack' = Append(stack, top)
  /\ UNCHANGED frame
  /\ Done

\* snek_list_make: the new list goes to the stack while snek_list_resize
\* allocates its data
AllocHead ==
  /\ Allocates("head")
  /\ pool' = Put(pool, top, New("list", req.size, <<None>>, 0))
  /\ stack' = Append(stack, top)
  /\ UNCHANGED frame
  /\ IF req.n = 0 THEN Done ELSE Call("data", req.n + Slack, req.n)

\* The data block of a list: the list at offset o gets n items of it.
NewBlock(o, items) ==
  [Put(pool, top, New("data", req.size, Over(Zeroed(req.size), 0, items), 0))
     EXCEPT ![o].refs = <<top>>, ![o].len = Len(items)]

AllocData ==
  /\ Allocates("data")
  /\ pool' = NewBlock(Peek(0), SubSeq(stack, Depth - req.n, Depth - 1))
  /\ stack' = Append(Under(req.n + 1), Peek(0))
  /\ UNCHANGED frame
  /\ Done

AllocAppend ==
  /\ Allocates("append")
  /\ pool' = NewBlock(Peek(1), Items(Peek(1)) \o Items(Peek(0)))
  /\ stack' = Under(1)
  /\ UNCHANGED frame
  /\ Done

AllocFrame ==
  /\ Allocates("frame")
  /\ pool' = Put(pool, top, New("frame", req.size, <<Peek(0), frame>>, 0))
  /\ frame' = top
  /\ stack' = Under(1)
  /\ Done

\* Neither as it is nor after both collections: "out of memory".  The error
\* ends the program: snek_exec drops the stack and the frame.
AllocFails ==
  /\ pc = "alloc" /\ req.size > Free /\ req.tried = "full"
  /\ stack' = << >> /\ frame' = None
  /\ Done
  /\ UNCHANGED <<memVars, collectorVars>>

Alloc == \/ AllocBlob \/ AllocHead \/ AllocData \/ AllocAppend \/ AllocFrame
         \/ AllocFails

----------------------------------------------------------------------------
(***************************************************************************)
(* The chunk array                                                         *)
(***************************************************************************)
\* What find_chunk's binary search returns: the place of offset in the sorted
\* entries from chunk_first to chunk_last (see module FindChunk).
Position(k, offset) ==
  /\ k \in first..last
  /\ \A j \in first..(k - 1) : chunk[j].old < offset
  /\ \A j \in k..(last - 1)  : chunk[j].old >= offset

NextLast == IF last < NChunk THEN last + 1 ELSE last

\* M: chunk_high left at snek_top when the array is full
UnlimitedHigh == high

NextHigh == IF last' = NChunk THEN chunk'[NChunk - 1].old + chunk'[NChunk - 1].val
                              ELSE high

note_chunk(offset, size) ==
  IF offset < low \/ high <= offset THEN UNCHANGED chunkVars
  ELSE \E k \in first..last :
         /\ Position(k, offset)
         /\ chunk' = [i \in 0..(NChunk - 1) |->
                        IF i = k THEN [old |-> offset, val |-> size]
                        ELSE IF i > k /\ i <= last THEN chunk[i - 1] ELSE chunk[i]]
         /\ last' = NextLast
         /\ high' = NextHigh
         /\ UNCHANGED <<low, first>>

\* new is where the object that was at offset is now.
move_map(offset, new) ==
  IF offset < low \/ high <= offset THEN new = offset
  ELSE \E k \in first..last :
         Position(k, offset) /\ k < NChunk /\ new = chunk[k].val

----------------------------------------------------------------------------
(***************************************************************************)
(* walk: one reference a step                                              *)
(***************************************************************************)
\* A reference to offset leads to the object at o; in the second walk it is
\* rewritten to say so.
LeadsTo(offset, o) == IF pc = "move" THEN move_map(offset, o) ELSE o = offset

\* mark_blob and move_block_offset: the busy bit, and in the first walk the
\* chunk array.
Mark(o) ==
  /\ busy' = busy \cup {o}
  /\ IF pc = "mark" THEN note_chunk(o, pool[o].size) ELSE UNCHANGED chunkVars

\* Visit the object at o, referred to by offset: its method is called unless
\* it was visited before (or has nothing to do), by the C stack `callers'.
Enter(offset, o, callers) ==
  IF o \in busy THEN cstack' = callers /\ UNCHANGED <<busy, chunkVars>>
  ELSE /\ Mark(o)
       /\ cstack' = IF pool[o].kind = "blob" THEN callers
                    ELSE Append(callers, [obj |-> o, old |-> offset, i |-> 0])

Caller   == Len(cstack)
Cursor   == cstack[Caller]
At(kind) == Walking /\ cstack # << >> /\ pool[Cursor.obj].kind = kind
Stepped  == [cstack EXCEPT ![Caller].i = @ + 1]
Returned == SubSeq(cstack, 1, Caller - 1)

walkFrame == <<top, lastTop, req, pc, style, to, c>>

VisitRoot ==
  /\ Walking /\ cstack = << >> /\ root <= Depth + 1
  /\ root' = root + 1
  /\ LET r == IF root <= Depth THEN stack[root] ELSE frame IN
     IF r = None THEN UNCHANGED <<rootVars, busy, cstack, chunkVars>>
     ELSE \E o \in DOMAIN pool :
            /\ LeadsTo(r, o)
            /\ stack' = IF root <= Depth THEN [stack EXCEPT ![root] = o] ELSE stack
            /\ frame' = IF root <= Depth THEN frame ELSE o
            /\ Enter(r, o, << >>)
  /\ UNCHANGED <<walkFrame, pool, noteList, note>>

\* The part of a method that follows one reference, refs[i] of the object at o.
VisitRef(o, i) ==
  LET r == pool[o].refs[i] IN
  IF r = None THEN cstack' = Stepped /\ UNCHANGED <<pool, busy, chunkVars>>
  ELSE \E t \in DOMAIN pool :
         /\ LeadsTo(r, t)
         /\ pool' = [pool EXCEPT ![o].refs[i] = t]
         /\ Enter(r, t, Stepped)

\* snek_list_mark, snek_list_move: the data block is a blob of its own ...
VisitData ==
  /\ At("list") /\ Cursor.i = 0
  /\ LET r == pool[Cursor.obj].refs[1] IN
     IF r = None THEN UNCHANGED <<pool, busy, chunkVars>>
     ELSE \E t \in DOMAIN pool :
            /\ LeadsTo(r, t)
            /\ pool' = [pool EXCEPT ![Cursor.obj].refs[1] = t]
            /\ IF t \in busy THEN UNCHANGED <<busy, chunkVars>> ELSE Mark(t)
  /\ cstack' = Stepped
  /\ UNCHANGED <<walkFrame, rootVars, root, noteList, note>>

\* ... and of its slots those below list->size are visited.
VisitItem ==
  /\ At("list") /\ Cursor.i \in 1..pool[Cursor.obj].len
  /\ VisitRef(pool[Cursor.obj].refs[1], Cursor.i)
  /\ UNCHANGED <<walkFrame, rootVars, root, noteList, note>>

NotedOffset == Cursor.old

\* note_list, by snek_poly_mark and snek_poly_move after the method's return
LeaveList ==
  /\ At("list") /\ Cursor.i > pool[Cursor.obj].len /\ Cursor.i > 0
  /\ pool' = [pool EXCEPT ![Cursor.obj].next = noteList]
  /\ noteList' = NotedOffset
  /\ cstack' = Returned
  /\ UNCHANGED <<walkFrame, rootVars, busy, chunkVars, root, note>>

\* snek_frame_mark, snek_frame_move: the variable ...
VisitVariable ==
  /\ At("frame") /\ Cursor.i = 0
  /\ VisitRef(Cursor.obj, 1)
  /\ UNCHANGED <<walkFrame, rootVars, root, noteList, note>>

\* ... and then the frame below, in the same call
VisitPrev ==
  /\ At("frame") /\ Cursor.i = 1
  /\ LET r == pool[Cursor.obj].refs[2] IN
     IF r = None THEN cstack' = Returned /\ UNCHANGED <<pool, busy, chunkVars>>
     ELSE \E t \in DOMAIN pool :
            /\ LeadsTo(r, t)
            /\ pool' = [pool EXCEPT ![Cursor.obj].refs[2] = t]
            /\ Enter(r, t, Returned)
  /\ UNCHANGED <<walkFrame, rootVars, root, noteList, note>>

RootsDone == Walking /\ cstack = << >> /\ root > Depth + 1

\* The lists noted so far become the ones to process.
TakeNotes ==
  /\ RootsDone /\ note = None /\ noteList # None
  /\ note' = noteList /\ noteList' = None
  /\ UNCHANGED <<walkFrame, memVars, rootVars, busy, root, cstack, chunkVars>>

\* visit_addr on a noted list, whose method has run already: it does nothing
ProcessNote ==
  /\ RootsDone /\ note # None
  /\ \E o \in DOMAIN pool :
       /\ LeadsTo(note, o)
       /\ note' = pool[o].next
       /\ pool' = [pool EXCEPT ![o].next = 0]
  /\ UNCHANGED <<walkFrame, rootVars, busy, root, cstack, chunkVars, noteList>>

WalkDone == RootsDone /\ note = None /\ noteList = None

Walk == \/ VisitRoot \/ VisitData \/ VisitItem \/ LeaveList
        \/ VisitVariable \/ VisitPrev \/ TakeNotes \/ ProcessNote

----------------------------------------------------------------------------
(***************************************************************************)
(* snek_collect                                                            *)
(***************************************************************************)
\* walk's first statements; its lists are empty at every start
StartWalk == busy' = {} /\ root' = 1 /\ UNCHANGED <<cstack, noteList, note>>

\* reset_chunks and the first walk, for the objects from offset on
StartPass(offset) ==
  /\ pc' = "mark"
  /\ low' = offset /\ high' = top /\ first' = 0 /\ last' = 0
  /\ StartWalk
  /\ UNCHANGED chunk

\* M: an incremental collection that starts at the bottom
LowestBottom(s) == 0

\* M: a full collection that starts at the border
BorderBottom(s) == lastTop

Bottom(s) == IF s = "full" THEN 0 ELSE lastTop

\* M: never a full one
OnlyIncremental(tried) == "incr"

\* snek_alloc tries an incremental collection and then a full one.
NextTry(tried) == IF tried = "none" THEN "incr" ELSE "full"

\* The first collection of all is full whatever it is asked for.
Collect ==
  /\ pc = "alloc" /\ req.size > Free /\ req.tried # "full"
  /\ req' = [req EXCEPT !.tried = NextTry(req.tried)]
  /\ style' = IF lastTop = 0 THEN "full" ELSE NextTry(req.tried)
  /\ to' = Bottom(style')
  /\ StartPass(to')
  /\ UNCHANGED <<memVars, rootVars, c>>

MarkDone ==
  /\ pc = "mark" /\ WalkDone
  /\ pc' = "find" /\ c' = 0
  /\ UNCHANGED <<memVars, rootVars, req, style, to, chunkVars, walkVars>>

\* Objects that are where they belong
FindSkip ==
  /\ pc = "find" /\ c < last /\ chunk[c].old <= to
  /\ to' = to + chunk[c].val
  /\ c' = c + 1
  /\ UNCHANGED <<memVars, rootVars, req, pc, style, chunkVars, walkVars>>

\* The first that is not.  With c = chunk_last a stale entry is read, and
\* nothing depends on it.
FindDone ==
  /\ pc = "find" /\ ~(c < last /\ chunk[c].old <= to) /\ c < NChunk
  /\ first' = c /\ low' = chunk[c].old
  /\ pc' = "copy"
  /\ UNCHANGED <<memVars, rootVars, req, style, to, chunk, high, last, c, walkVars>>

NextLow == high

\* A full array of objects in place
FindNone ==
  /\ pc = "find" /\ c = NChunk
  /\ StartPass(NextLow)
  /\ UNCHANGED <<memVars, rootVars, req, style, to, c>>

Overlaps(o1, n1, o2, n2) == o1 < o2 + n2 /\ o2 < o1 + n1

\* memmove: whatever lay where the object goes is lost, and its old copy with it.
Moved(p, old, new) ==
  LET keep == {o \in DOMAIN p \ {old} : ~Overlaps(o, p[o].size, new, p[old].size)}
  IN  [o \in keep \cup {new} |-> IF o = new THEN p[old] ELSE p[o]]

\* M: one word short
PlaceShort == to + chunk[c].val - 1

NextPlace == to + chunk[c].val

Copy ==
  /\ pc = "copy" /\ c < last
  /\ chunk[c].old \in DOMAIN pool
  /\ pool' = Moved(pool, chunk[c].old, to)
  /\ chunk' = [chunk EXCEPT ![c].val = to]
  /\ to' = NextPlace
  /\ c' = c + 1
  /\ UNCHANGED <<top, lastTop, rootVars, req, pc, style, low, high, first, last, walkVars>>

SomeMoved == first < last

\* Relocate if anything moved
CopyDone ==
  /\ pc = "copy" /\ c = last
  /\ IF SomeMoved THEN pc' = "move" /\ StartWalk
                  ELSE pc' = "next" /\ UNCHANGED walkVars
  /\ UNCHANGED <<memVars, rootVars, req, style, to, chunkVars, c>>

MoveDone ==
  /\ pc = "move" /\ WalkDone
  /\ pc' = "next"
  /\ UNCHANGED <<memVars, rootVars, req, style, to, chunkVars, c, walkVars>>

\* Go on right above if the array was full ...
NextPass ==
  /\ pc = "next" /\ last = NChunk
  /\ StartPass(NextLow)
  /\ UNCHANGED <<memVars, rootVars, req, style, to, c>>

\* M: snek_top read before it is lowered
OldBorder == IF style = "full" THEN top ELSE lastTop

NextBorder == IF style = "full" THEN to ELSE lastTop

\* ... and else back to snek_alloc.  What is above the new top is gone; the
\* registers, all set anew before they are next used, go to their first values.
Finish ==
  /\ pc = "next" /\ last # NChunk
  /\ top' = to
  /\ lastTop' = NextBorder
  /\ pool' = [o \in {x \in DOMAIN pool : x < to} |-> pool[o]]
  /\ pc' = "alloc"
  /\ style' = "full" /\ to' = 0
  /\ chunk' = EmptyChunks
  /\ low' = 0 /\ high' = 0 /\ first' = 0 /\ last' = 0 /\ c' = 0
  /\ busy' = {} /\ root' = 1
  /\ UNCHANGED <<cstack, noteList, note>>
  /\ UNCHANGED <<rootVars, req>>

Collector ==
  \/ Collect \/ MarkDone \/ FindSkip \/ FindDone \/ FindNone
  \/ Copy \/ CopyDone \/ MoveDone \/ NextPass \/ Finish

----------------------------------------------------------------------------
\* The interpreter may stop at any time; a call of snek_alloc runs to its end.
Next == Interpret \/ Alloc \/ Walk \/ Collector

Spec == Init /\ [][Next]_vars

Fairness == WF_vars(Alloc \/ Walk \/ Collector)

LiveSpec == Spec /\ Fairness
----------------------------------------------------------------------------
(***************************************************************************)
(* Properties                                                              *)
(***************************************************************************)
\* Memory and the registers of the collector; what references lead to is the
\* subject of SnekHeapImplements.
TypeOK ==
  /\ DOMAIN pool \subseteq Offset
  /\ \A o \in DOMAIN pool : /\ DOMAIN pool[o] = Fields
                            /\ pool[o].kind \in Kinds
                            /\ pool[o].size \in 1..Pool
  /\ top \in 0..Pool /\ lastTop \in 0..Pool
  /\ pc \in {"run", "alloc", "mark", "find", "copy", "move", "next"}
  /\ style \in {"incr", "full"}
  /\ to \in 0..Pool
  /\ chunk \in [0..(NChunk - 1) -> Chunk]
  /\ low \in 0..Pool /\ high \in 0..Pool
  /\ first \in 0..NChunk /\ last \in 0..NChunk /\ c \in 0..NChunk
  /\ busy \subseteq Offset

Collecting == pc \in {"mark", "find", "copy", "move", "next"}

End(o) == o + pool[o].size

\* Memory is laid out as an allocator must: objects lie apart, below snek_top,
\* and none lies across the border of the old space (which a full collection
\* draws anew when it ends).
Layout ==
  /\ lastTop <= top
  /\ \A o \in DOMAIN pool :
       /\ End(o) <= top
       /\ o < lastTop /\ ~(Collecting /\ style = "full") => End(o) <= lastTop
       /\ \A p \in DOMAIN pool : o < p => End(o) <= p

\* An incremental collection leaves every object of the old space, below
\* snek_last_top, where it is: a pass starts at chunk_low = snek_last_top, and
\* neither note_chunk nor the memmoves reach below it.
KeepsOldObjects ==
  Collecting /\ style = "incr" =>
    \A o \in DOMAIN pool :
      o < lastTop => /\ o \in DOMAIN pool'
                     /\ pool'[o].kind = pool[o].kind
                     /\ pool'[o].size = pool[o].size

OldObjectsStay == [][KeepsOldObjects]_vars

\* The memmoves of a pass destroy neither an object that was placed already
\* nor one the walk marked that this pass or a later one is to move.
KeepsPlacedAndMarked ==
  pc = "copy" =>
    \A o \in DOMAIN pool :
      (o < to \/ (o \in busy /\ low <= o)) /\ (c < last => o # chunk[c].old)
        => o \in DOMAIN pool' /\ pool'[o] = pool[o]

SlideIsSafe == [][KeepsPlacedAndMarked]_vars

\* After the first walk the chunk array holds, in order and with their sizes,
\* the lowest NChunk of the marked objects from chunk_low on; what it does not
\* hold lies from chunk_high on.
ChunksAreLowest ==
  pc = "find" /\ c = 0 =>
    LET found == {o \in busy : low <= o}
        kept  == {chunk[i].old : i \in 0..(last - 1)}
    IN  /\ kept \subseteq found
        /\ \A i \in 0..(last - 1) :
             /\ chunk[i].val = pool[chunk[i].old].size
             /\ \A j \in 0..(i - 1) : chunk[j].old < chunk[i].old
        /\ \A o \in found \ kept : last = NChunk /\ high <= o

\* snek_alloc returns, with memory or with an error.
AllocReturns == pc = "alloc" ~> pc = "run"
=============================================================================
