----------------------------- MODULE TaskQueue -----------------------------
(***************************************************************************)
(* What the overflow buffer promises the pool: a bounded first-in          *)
(* first-out queue whose push may pass the oldest task on at once, and     *)
(* which takes nothing more once it is closed.  AgilePool uses the buffer  *)
(* through exactly these steps.                                            *)
(***************************************************************************)
EXTENDS Integers, Sequences

CONSTANTS Tasks, MaxLen, BatchSize

VARIABLES
  queue,   \* the tasks in the buffer, oldest first
  closed,
  result   \* what the last call returned or passed on

vars == <<queue, closed, result>>

Init == queue = <<>> /\ closed = FALSE /\ result = [kind |-> "none"]

Refuse(t) ==
  /\ closed \/ Len(queue) >= MaxLen
  /\ result' = [kind |-> IF closed THEN "closed" ELSE "full"]
  /\ UNCHANGED <<queue, closed>>

\* The task joins the queue and its oldest task leaves it.
Forward(t) ==
  /\ ~closed /\ Len(queue) < MaxLen
  /\ result' = [kind |-> "accepted", sent |-> <<Head(Append(queue, t))>>]
  /\ queue' = Tail(Append(queue, t))
  /\ UNCHANGED closed

\* The task joins the queue and the send of the oldest one fails.
Keep(t) ==
  /\ ~closed /\ Len(queue) < MaxLen
  /\ result' = [kind |-> "accepted", sent |-> <<>>]
  /\ queue' = Append(queue, t)
  /\ UNCHANGED closed

Take(n) ==
  LET k == IF n < Len(queue) THEN n ELSE Len(queue) IN
  /\ result' = [kind |-> "batch", tasks |-> SubSeq(queue, 1, k)]
  /\ queue' = SubSeq(queue, k + 1, Len(queue))
  /\ UNCHANGED closed

Close ==
  /\ closed' = TRUE
  /\ result' = [kind |-> "none"]
  /\ UNCHANGED queue

Next ==
  \/ \E t \in Tasks : Refuse(t) \/ Forward(t) \/ Keep(t)
  \/ \E n \in 0 .. BatchSize : Take(n)
  \/ Close

Spec == Init /\ [][Next]_vars
=============================================================================
