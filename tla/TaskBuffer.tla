----------------------------- MODULE TaskBuffer -----------------------------
(***************************************************************************)
(* The chunked overflow buffer of task_buffer.go: a linked list of         *)
(* fixed-size chunks, with an index into the first and one into the last,  *)
(* whose exhausted chunks are recycled through a sync.Pool.  Every method  *)
(* holds taskMu throughout, so each is one step.                           *)
(*                                                                         *)
(* A method of the buffer is an operator from a buffer b, a record of the  *)
(* struct's fields and of the chunks it can reach, to the buffer after it. *)
(***************************************************************************)
EXTENDS Integers, Sequences, FiniteSets, SequencesExt

CONSTANTS
  Tasks,
  Chunks,        \* the *taskChunk nodes in existence
  TaskChunkSize, \* taskChunkSize, positive
  MaxChunkLen,   \* maxChunkLen
  BatchSize,     \* the largest batch a worker asks for
  Nil            \* the nil chunk and the nil task

VARIABLES
  buf,            \* the buffer
  overflowClosed,
  result          \* what the last call returned or passed on

vars == <<buf, overflowClosed, result>>

Slots == 0 .. TaskChunkSize - 1

EmptyChunk == [i \in Slots |-> Nil]

newChunkedTaskBuffer ==
  [headChunk |-> Nil, tailChunk |-> Nil, headIdx |-> 0, tailIdx |-> 0,
   chunkLen |-> 0,
   next      |-> [c \in Chunks |-> Nil],
   tasks     |-> [c \in Chunks |-> EmptyChunk],
   chunkPool |-> {}]

\* chunkPool.Put, after the code has cut the chunk's next pointer.
Recycle(b, c) ==
  [b EXCEPT !.next[c] = Nil, !.chunkPool = @ \cup {c}]

\* peekHead: step over an exhausted chunk, and reset a drained buffer.
AdvanceHead(b) ==
  LET c == b.headChunk
      a == [Recycle(b, c) EXCEPT !.headChunk = b.next[c], !.headIdx = 0]
  IN IF b.headIdx < TaskChunkSize THEN b
     ELSE IF b.next[c] = Nil THEN [a EXCEPT !.tailChunk = Nil, !.tailIdx = 0]
     ELSE a

Drained(b) == b.headChunk = b.tailChunk /\ b.headIdx >= b.tailIdx

peekHead(b) ==
  IF b.headChunk = Nil THEN [buf |-> b, ok |-> FALSE]
  ELSE LET a == AdvanceHead(b) IN
    IF a.headChunk = Nil THEN [buf |-> a, ok |-> FALSE]
    ELSE IF Drained(a)
      THEN [buf |-> [Recycle(a, a.headChunk) EXCEPT
                       !.headChunk = Nil, !.tailChunk = Nil,
                       !.headIdx = 0, !.tailIdx = 0],
            ok |-> FALSE]
      ELSE [buf |-> a, ok |-> TRUE, task |-> a.tasks[a.headChunk][a.headIdx]]

\* Variant: the slot of a popped task keeps its reference.
PopWithoutClear(b) ==
  LET p == peekHead(b) IN
    IF ~p.ok THEN p
    ELSE [p EXCEPT !.buf.headIdx = @ + 1, !.buf.chunkLen = @ - 1]

popHead(b) ==
  LET p == peekHead(b) IN
    IF ~p.ok THEN p
    ELSE [p EXCEPT !.buf.tasks[p.buf.headChunk][p.buf.headIdx] = Nil,
                   !.buf.headIdx = @ + 1,
                   !.buf.chunkLen = @ - 1]

\* The chunks from the head on, in order, by the next pointers.
Chain(b) ==
  LET follow[n \in 0 .. Cardinality(Chunks)] ==
        IF n = 0 THEN <<b.headChunk>>
                 ELSE LET q == follow[n - 1]
                          c == q[Len(q)]
                      IN IF c = Nil THEN q ELSE Append(q, b.next[c])
  IN SelectSeq(follow[Cardinality(Chunks)], LAMBDA c : c # Nil)

\* A push needs a chunk when the buffer is empty or its last chunk is full.
NeedsChunk(b) == b.tailChunk = Nil \/ b.tailIdx >= TaskChunkSize

\* chunkPool.Get: a recycled chunk or, since a sync.Pool may drop what it
\* holds, one that New allocates.
GetChunk(b) ==
  IF NeedsChunk(b) THEN b.chunkPool \cup (Chunks \ ToSet(Chain(b))) ELSE {Nil}

Taken(b, c) ==
  IF c \in b.chunkPool THEN [b EXCEPT !.chunkPool = @ \ {c}]
  ELSE [b EXCEPT !.next[c] = Nil, !.tasks[c] = EmptyChunk]

LinkTail(b, c) ==
  LET a == [Taken(b, c) EXCEPT !.tailChunk = c, !.tailIdx = 0] IN
  IF b.tailChunk = Nil THEN [a EXCEPT !.headChunk = c, !.headIdx = 0]
                       ELSE [a EXCEPT !.next[b.tailChunk] = c]

pushTail(b, t, c) ==
  LET a == IF NeedsChunk(b) THEN LinkTail(b, c) ELSE b IN
  [a EXCEPT !.tasks[a.tailChunk][a.tailIdx] = t,
            !.tailIdx = @ + 1,
            !.chunkLen = @ + 1]

----------------------------------------------------------------------------
(* The methods the pool calls. *)

Init ==
  /\ buf = newChunkedTaskBuffer
  /\ overflowClosed = FALSE
  /\ result = [kind |-> "none"]

\* Variant: the oldest task is popped before its send and pushed back when the
\* send fails, behind newer ones.
PushBack(t) ==
  /\ UNCHANGED overflowClosed
  /\ ~overflowClosed
  /\ buf.chunkLen < MaxChunkLen
  /\ \E c \in GetChunk(buf), tryForward \in BOOLEAN :
       LET p == popHead(pushTail(buf, t, c)) IN
       IF tryForward
         THEN /\ buf' = p.buf
              /\ result' = [kind |-> "accepted", sent |-> <<p.task>>]
         ELSE /\ \E d \in GetChunk(p.buf) : buf' = pushTail(p.buf, p.task, d)
              /\ result' = [kind |-> "accepted", sent |-> <<>>]

\* tryForward is a send that succeeds or not.
PushAndForward(t) ==
  /\ UNCHANGED overflowClosed
  /\ \/ /\ overflowClosed
        /\ result' = [kind |-> "closed"]
        /\ UNCHANGED buf
     \/ /\ ~overflowClosed
        /\ buf.chunkLen >= MaxChunkLen
        /\ result' = [kind |-> "full"]
        /\ UNCHANGED buf
     \/ /\ ~overflowClosed
        /\ buf.chunkLen < MaxChunkLen
        /\ \E c \in GetChunk(buf), tryForward \in BOOLEAN :
             LET p == peekHead(pushTail(buf, t, c)) IN
             IF p.ok /\ tryForward
               THEN /\ buf' = popHead(p.buf).buf
                    /\ result' = [kind |-> "accepted", sent |-> <<p.task>>]
               ELSE /\ buf' = p.buf
                    /\ result' = [kind |-> "accepted", sent |-> <<>>]

\* The loop of PopBatch: dst fills until it is full or the buffer is empty.
PopLoop(b, size) ==
  LET pops[n \in 0 .. size] ==
        IF n = 0 THEN [buf |-> b, ok |-> TRUE, dst |-> <<>>]
        ELSE LET d == pops[n - 1]
                 p == popHead(d.buf)
             IN IF ~d.ok THEN d
                ELSE [buf |-> p.buf, ok |-> p.ok,
                      dst |-> IF p.ok THEN Append(d.dst, p.task) ELSE d.dst]
  IN pops[size]

PopBatch(size) ==
  LET d == PopLoop(buf, size) IN
  /\ buf' = d.buf
  /\ result' = [kind |-> "batch", tasks |-> d.dst]
  /\ UNCHANGED overflowClosed

Close ==
  /\ overflowClosed' = TRUE
  /\ result' = [kind |-> "none"]
  /\ UNCHANGED buf

Next ==
  \/ \E t \in Tasks : PushAndForward(t)
  \/ \E size \in 0 .. BatchSize : PopBatch(size)
  \/ Close

Spec == Init /\ [][Next]_vars

----------------------------------------------------------------------------
(* Properties. *)

\* The tasks between the two indices, oldest first.
Contents(b) ==
  LET q == Chain(b)
      size == (Len(q) - 1) * TaskChunkSize + b.tailIdx - b.headIdx
      task(k) == LET at == b.headIdx + k - 1 IN
                 b.tasks[q[at \div TaskChunkSize + 1]][at % TaskChunkSize]
  IN IF q = <<>> THEN <<>> ELSE [k \in 1 .. size |-> task(k)]

\* A recycled chunk is out of the list and clean: it shares no task and no
\* link with the buffer, so the next push that gets it starts an empty chunk.
RecycledClean ==
  \A c \in buf.chunkPool :
    /\ c \notin ToSet(Chain(buf))
    /\ buf.next[c] = Nil
    /\ buf.tasks[c] = EmptyChunk

\* The list ends at tailChunk and chunkLen counts what it holds, so that the
\* limit of the buffer is a limit on its tasks.
LenExact ==
  /\ Chain(buf) # <<>> => buf.tailChunk = Chain(buf)[Len(Chain(buf))]
  /\ buf.chunkLen = Len(Contents(buf))

Queue == INSTANCE TaskQueue
           WITH MaxLen <- MaxChunkLen, closed <- overflowClosed,
                queue <- Contents(buf)

\* The chunks are invisible to the pool: whatever the position of the indices
\* and whichever chunks are recycled, the buffer behaves as a bounded FIFO
\* queue.
RefinesQueue == Queue!Spec
=============================================================================
