------------------------------ MODULE RingQueue ------------------------------
(***************************************************************************)
(* internal/idle/ring_queue.go: a circular buffer that doubles when full.  *)
(***************************************************************************)
EXTENDS Integers, FiniteSets, Sequences, SequencesExt

CONSTANTS Expiry, None,
          DefaultCapacity   \* defaultRingQueueCapacity

NewRingQueue ==
  [buf |-> [i \in 0..DefaultCapacity - 1 |-> None],
   head |-> 0, tail |-> 0, length |-> 0]

Cap(rq) == Cardinality(DOMAIN rq.buf)

\* The slot of the i-th live element.
Slot(rq, i) == (rq.head + i) % Cap(rq)

\* Variant: the buffer is copied slot by slot.
GrowInPlace(rq) ==
  [rq EXCEPT !.buf = [i \in 0..2 * Cap(rq) - 1 |->
                        IF i < rq.length THEN rq.buf[i] ELSE None],
             !.head = 0, !.tail = rq.length]

grow(rq) ==
  [rq EXCEPT !.buf = [i \in 0..2 * Cap(rq) - 1 |->
                        IF i < rq.length THEN rq.buf[Slot(rq, i)] ELSE None],
             !.head = 0, !.tail = rq.length]

Add(rq, w) ==
  LET roomy == IF Cap(rq) = rq.length THEN grow(rq) ELSE rq
  IN [roomy EXCEPT !.buf[roomy.tail] = w,
                   !.tail = (@ + 1) % Cap(roomy),
                   !.length = @ + 1]

Pop(rq) ==
  IF rq.length = 0
    THEN [container |-> rq, val |-> None]
    ELSE [container |-> [rq EXCEPT !.buf[rq.head] = None,
                                   !.head = (@ + 1) % Cap(rq),
                                   !.length = @ - 1],
          val |-> rq.buf[rq.head]]

\* One round of the compacting loop: s.written survivors have been moved to
\* the front of the window; the slot of i is read after they were written.
Compact(s, i, dated, now) ==
  LET w == s.rq.buf[Slot(s.rq, i)]
  IN IF dated[w] > now - Expiry
       THEN [rq |-> [s.rq EXCEPT !.buf[Slot(s.rq, s.written)] = w],
             written |-> s.written + 1]
       ELSE s

RemoveExpired(rq, dated, now) ==
  LET n     == rq.length
      done  == FoldLeft(LAMBDA s, i : Compact(s, i, dated, now),
                        [rq |-> rq, written |-> 0], [j \in 1..n |-> j - 1])
      clear == {Slot(rq, i) : i \in done.written..n - 1}
  IN [container |->
        [done.rq EXCEPT !.buf = [i \in DOMAIN @ |->
                                   IF i \in clear THEN None ELSE @[i]],
                        !.tail = Slot(rq, done.written),
                        !.length = done.written],
      val |-> n - done.written]

\* The workers in the order in which Pop returns them.
Contents(rq) == [i \in 1..rq.length |-> rq.buf[Slot(rq, i - 1)]]

\* Only the slots of the window hold workers, so that removed ones can be
\* collected.
WellFormed(rq) ==
  /\ rq.tail = Slot(rq, rq.length)
  /\ \A i \in DOMAIN rq.buf :
       rq.buf[i] # None <=> i \in {Slot(rq, j) : j \in 0..rq.length - 1}
=============================================================================
