---------------------------- MODULE PoolContract ----------------------------
(***************************************************************************)
(* What the pool promises its users, without queues, workers or counters.  *)
(* A submission is accepted or rejected, and from some moment on its       *)
(* rejection is certain; from the closing of the pool on, every new one is *)
(* rejected.  An accepted task runs once, or never if it is cancelled.     *)
(* Wait returns when the tasks that were pending at its call no longer are.*)
(***************************************************************************)
CONSTANTS Tasks, Cancellable, Waiters

VARIABLES
  status,  \* "new", "offered", "doomed", "accepted", "rejected"
  pending, \* the tasks submitted and neither rejected nor finished
  runs,    \* how often the body of a task has been called
  closed,
  waiter,  \* "idle", "waiting", "returned"
  owed     \* what was pending when a waiter called Wait

contractVars == <<status, pending, runs, closed, waiter, owed>>

Init ==
  /\ status = [t \in Tasks |-> "new"]
  /\ pending = {}
  /\ runs = [t \in Tasks |-> 0]
  /\ closed = FALSE
  /\ waiter = [v \in Waiters |-> "idle"]
  /\ owed = [v \in Waiters |-> {}]

Becomes(t, from, to) ==
  status[t] = from /\ status' = [status EXCEPT ![t] = to]

Offer(t) ==
  /\ Becomes(t, "new", IF closed THEN "doomed" ELSE "offered")
  /\ pending' = pending \cup {t}
  /\ UNCHANGED <<runs, closed, waiter, owed>>

\* A task whose context is done before the call is not even considered.
Decline(t) ==
  /\ t \in Cancellable
  /\ Becomes(t, "new", "rejected")
  /\ UNCHANGED <<pending, runs, closed, waiter, owed>>

Doom(t) ==
  /\ Becomes(t, "offered", "doomed")
  /\ UNCHANGED <<pending, runs, closed, waiter, owed>>

Reject(t) ==
  /\ Becomes(t, "doomed", "rejected")
  /\ pending' = pending \ {t}
  /\ UNCHANGED <<runs, closed, waiter, owed>>

Accept(t) ==
  /\ Becomes(t, "offered", "accepted")
  /\ UNCHANGED <<pending, runs, closed, waiter, owed>>

Run(t) ==
  /\ status[t] = "accepted" /\ t \in pending
  /\ runs[t] = 0
  /\ runs' = [runs EXCEPT ![t] = 1]
  /\ UNCHANGED <<status, pending, closed, waiter, owed>>

Finish(t) ==
  /\ status[t] = "accepted" /\ t \in pending
  /\ runs[t] = 1 \/ t \in Cancellable
  /\ pending' = pending \ {t}
  /\ UNCHANGED <<status, runs, closed, waiter, owed>>

\* Closing dooms some of the submissions under way.
Close ==
  /\ ~closed
  /\ closed' = TRUE
  /\ \E late \in SUBSET {t \in Tasks : status[t] = "offered"} :
       status' = [t \in Tasks |-> IF t \in late THEN "doomed" ELSE status[t]]
  /\ UNCHANGED <<pending, runs, waiter, owed>>

Wait(v) ==
  /\ waiter[v] = "idle"
  /\ owed' = [owed EXCEPT ![v] = pending]
  /\ waiter' = [waiter EXCEPT ![v] = IF pending = {} THEN "returned" ELSE "waiting"]
  /\ UNCHANGED <<status, pending, runs, closed>>

WaitReturn(v) ==
  /\ waiter[v] = "waiting"
  /\ owed[v] \cap pending = {}
  /\ waiter' = [waiter EXCEPT ![v] = "returned"]
  /\ UNCHANGED <<status, pending, runs, closed, owed>>

Next ==
  \/ \E t \in Tasks :
       \/ Offer(t) \/ Decline(t) \/ Doom(t) \/ Reject(t) \/ Accept(t)
       \/ Run(t) \/ Finish(t)
  \/ Close
  \/ \E v \in Waiters : Wait(v) \/ WaitReturn(v)

Spec == Init /\ [][Next]_contractVars
=============================================================================
