----------------------------- MODULE TaskEvents -----------------------------
(***************************************************************************)
(* The lifecycle events of a task, from the submitter's half (submit of    *)
(* pool.go) and the worker's half (runTask of worker.go), which run at the *)
(* same time once the task is in a queue.  Which queue it is, and who      *)
(* takes it when, is AgilePool's subject: here the queues are a set.       *)
(*                                                                         *)
(* A dispatch appends to the task's log.  That a callback or a whole Hooks *)
(* implementation may panic in it changes nothing else: dispatchHook       *)
(* recovers.  The same holds of handlePanic and the configured handler.    *)
(***************************************************************************)
EXTENDS Integers, Sequences, SequencesExt

CONSTANT Tasks

VARIABLES
  spc,       \* the submitter's progress
  rpc,       \* the worker's progress
  queued,    \* the tasks in the pool's queues
  pending,   \* pendingTasks
  closed,
  log        \* what each task's callbacks and panic handler have seen

eventVars == <<spc, rpc, queued, pending, closed, log>>

EventInit ==
  /\ spc = [t \in Tasks |-> "new"]
  /\ rpc = [t \in Tasks |-> "none"]
  /\ queued = {}
  /\ pending = 0
  /\ closed = FALSE
  /\ log = [t \in Tasks |-> <<>>]

Dispatch(t, event) == log' = [log EXCEPT ![t] = Append(@, event)]

SubmitTo(t, from, to) == spc[t] = from /\ spc' = [spc EXCEPT ![t] = to]

RunTo(t, from, to) == rpc[t] = from /\ rpc' = [rpc EXCEPT ![t] = to]

SubmitCall(t) ==
  /\ SubmitTo(t, "new", "counted")
  /\ pending' = pending + 1
  /\ UNCHANGED <<rpc, queued, closed, log>>

ClosedCheck(t) ==
  /\ SubmitTo(t, "counted", IF closed THEN "refused" ELSE "open")
  /\ UNCHANGED <<rpc, queued, pending, closed, log>>

\* Variant: the Submitted event follows the send.
SubmittedLate(t) ==
  /\ SubmitTo(t, "open", "offered")
  /\ UNCHANGED <<rpc, queued, pending, closed, log>>

SubmittedHook(t) ==
  /\ SubmitTo(t, "open", "offered")
  /\ Dispatch(t, "submitted")
  /\ UNCHANGED <<rpc, queued, pending, closed>>

\* The task is in a shard or in the buffer, or no queue takes it.
Enqueue(t) ==
  /\ \/ SubmitTo(t, "offered", "sent") /\ queued' = queued \cup {t}
     \/ SubmitTo(t, "offered", "refused") /\ UNCHANGED queued
  /\ UNCHANGED <<rpc, pending, closed, log>>

\* dispatchTaskEnqueuedFor, by which time a worker may have run the task.
EnqueuedHook(t) ==
  /\ SubmitTo(t, "sent", "accepted")
  /\ Dispatch(t, "enqueued")
  /\ UNCHANGED <<rpc, queued, pending, closed>>

Reject(t) ==
  /\ SubmitTo(t, "refused", "rejected")
  /\ pending' = pending - 1
  /\ UNCHANGED <<rpc, queued, closed, log>>

Take(t) ==
  /\ t \in queued
  /\ queued' = queued \ {t}
  /\ RunTo(t, "none", "taken")
  /\ UNCHANGED <<spc, pending, closed, log>>

StartedHook(t) ==
  /\ RunTo(t, "taken", "body")
  /\ Dispatch(t, "started")
  /\ UNCHANGED <<spc, queued, pending, closed>>

\* process returns (a cancelled task at once), ends its goroutine with the
\* deferred calls still to run, or panics.
Process(t) ==
  /\ RunTo(t, "body", "returned") \/ RunTo(t, "body", "panicked")
  /\ UNCHANGED <<spc, queued, pending, closed, log>>

\* handlePanic with the recovered value.
HandlePanic(t) ==
  /\ RunTo(t, "panicked", "recovered")
  /\ Dispatch(t, "panic")
  /\ UNCHANGED <<spc, queued, pending, closed>>

\* Variant: the Completed event is dispatched for a normal return only.
CompletedOnReturn(t) ==
  /\ \/ RunTo(t, "returned", "completed") /\ Dispatch(t, "completed")
     \/ RunTo(t, "recovered", "completed") /\ UNCHANGED log
  /\ UNCHANGED <<spc, queued, pending, closed>>

CompletedHook(t) ==
  /\ RunTo(t, "returned", "completed") \/ RunTo(t, "recovered", "completed")
  /\ Dispatch(t, "completed")
  /\ UNCHANGED <<spc, queued, pending, closed>>

\* Variant: done runs before the other deferred call.
DoneFirst(t) ==
  /\ \/ RunTo(t, "completed", "finished") /\ UNCHANGED pending
     \/ RunTo(t, "returned", "recovered") /\ pending' = pending - 1
  /\ UNCHANGED <<spc, queued, closed, log>>

Done(t) ==
  /\ RunTo(t, "completed", "finished")
  /\ pending' = pending - 1
  /\ UNCHANGED <<spc, queued, closed, log>>

Close ==
  /\ ~closed
  /\ closed' = TRUE
  /\ UNCHANGED <<spc, rpc, queued, pending, log>>

EventNext ==
  \/ \E t \in Tasks :
       \/ SubmitCall(t) \/ ClosedCheck(t) \/ SubmittedHook(t) \/ Enqueue(t)
       \/ EnqueuedHook(t) \/ Reject(t)
       \/ Take(t) \/ StartedHook(t) \/ Process(t) \/ HandlePanic(t)
       \/ CompletedHook(t) \/ Done(t)
  \/ Close

EventSpec == EventInit /\ [][EventNext]_eventVars

----------------------------------------------------------------------------
(* Properties. *)

Saw(t, event) == event \in ToSet(log[t])

Count(t, event) == Len(SelectSeq(log[t], LAMBDA e : e = event))

\* Observers count right: a submission that returned true was announced as
\* enqueued once and one that returned false never, and a finished task was
\* started and completed once, Completed coming after Started and after the
\* report of a panic.
EventsExact ==
  \A t \in Tasks :
    /\ Count(t, "enqueued") = IF spc[t] = "accepted" THEN 1 ELSE 0
    /\ spc[t] = "rejected" => ~Saw(t, "started")
    /\ rpc[t] = "finished" =>
         /\ Count(t, "started") = 1
         /\ Count(t, "completed") = 1
         /\ Last(SelectSeq(log[t], LAMBDA e : e # "enqueued")) = "completed"

\* When the pending count is zero, which is what Wait waits for, every task
\* that started has had its Completed callbacks, panic report included.
DrainedObserved ==
  pending = 0 => \A t \in Tasks : Saw(t, "started") => Saw(t, "completed")

\* The time stamp a timing callback stores under a stage's label: the events
\* of one task are stamped in the order of their dispatch.  0 is "no stamp".
Stamp(t, stage) == IF Saw(t, stage) THEN SelectInSeq(log[t], LAMBDA e : e = stage)
                   ELSE 0

\* Variant: the later stage is subtracted from the earlier.
LatencySwapped(t, from, to) ==
  IF Stamp(t, from) = 0 \/ Stamp(t, to) = 0 THEN 0
  ELSE Stamp(t, from) - Stamp(t, to)

\* TotalLatency, QueueLatency, ExecLatency, HandoffLatency, QueueWaitLatency.
Latency(t, from, to) ==
  IF Stamp(t, from) = 0 \/ Stamp(t, to) = 0 THEN 0
  ELSE Stamp(t, to) - Stamp(t, from)

\* Four of the five latencies are never negative.  QueueWaitLatency, from
\* enqueued to started, can be: a worker may start a task before its submitter
\* dispatches Enqueued.  The total is never less than the parts it contains.
LatenciesSound ==
  \A t \in Tasks :
    /\ \A stage \in {"enqueued", "started", "completed"} :
         Latency(t, "submitted", stage) >= 0
    /\ Latency(t, "started", "completed") >= 0
    /\ rpc[t] = "finished" =>
         Latency(t, "submitted", "completed") =
           Latency(t, "submitted", "started") + Latency(t, "started", "completed")
=============================================================================
