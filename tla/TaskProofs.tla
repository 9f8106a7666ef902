----------------------------- MODULE TaskProofs -----------------------------
(***************************************************************************)
(* Proofs about the tasks of AgilePool: the body of a task runs exactly    *)
(* once, and the pending count is exact.                                   *)
(***************************************************************************)
EXTENDS TaskStepProofs

(***************************************************************************)
(* The steps of the pool: each keeps the invariant, and a task enters the  *)
(* tasks in flight, or leaves them, with the step that counts it.          *)
(***************************************************************************)

Enters(t) == /\ t \notin InFlight /\ InFlight' = InFlight \cup {t}
             /\ pendingTasks' = pendingTasks + 1
Leaves(t) == /\ t \in InFlight /\ InFlight' = InFlight \ {t}
             /\ pendingTasks' = pendingTasks - 1
Stays     == InFlight' = InFlight /\ pendingTasks' = pendingTasks

\* A submitter goes on without its task.
LEMMA QuietSubmit ==
  ASSUME TypeInv, TaskInv, NEW t \in Tasks, NEW label, Goto(t, label),
         pc[t] \notin {"accepted", "forward"},
         label \notin {"accepted", "forward"},
         UNCHANGED <<taskBuf, taskQueues>>, SameWork
  PROVE  /\ TaskInv'
         /\ t \in InFlight <=> pc[t] \in Submitting
         /\ label \in Submitting => InFlight' = InFlight \cup {t}
         /\ label \notin Submitting => InFlight' = InFlight \ {t}
<1>1. pc'[t] = label /\ \A x \in Tasks \ {t} : pc'[x] = pc[x]
  BY DEF Goto, TypeInv, TypeOK, SubmitterTypes
<1>2. TaskInv' /\ Placed' = Placed
  BY <1>1, QuietStep
<1>3. t \notin Placed
  BY DEF TaskInv, SubmittedInv, Placed
<1>4. \A x : x \in InFlight' <=> \/ x = t /\ label \in Submitting
                                 \/ x # t /\ x \in InFlight
  BY <1>1, <1>2, <1>3, InFlightIs
<1>5. /\ t \in InFlight <=> pc[t] \in Submitting
      /\ label \in Submitting => InFlight' = InFlight \cup {t}
      /\ label \notin Submitting => InFlight' = InFlight \ {t}
  BY <1>3, <1>4, InFlightIs
<1> QED BY <1>2, <1>5

\* A submitter's task passes from it to the pool.
LEMMA TaskPassed ==
  ASSUME TypeInv, NEW t \in Tasks, pc[t] \in Submitting,
         \E label : Goto(t, label), t \in Placed', Placed' = Placed \cup {t}
  PROVE  InFlight' = InFlight
<1>1. \A x \in Tasks \ {t} : pc'[x] = pc[x]
  BY DEF Goto, TypeInv, TypeOK, SubmitterTypes
<1>2. \A x : x \in InFlight' <=> x \in InFlight
  BY <1>1, InFlightIs
<1> QED BY <1>2

LEMMA SubmitterFlight ==
  ASSUME TypeInv, WorkerOwnedOnce, TaskInv, NEW t \in Tasks,
         SubmitCall(t) \/ Submit(t)
  PROVE  /\ TaskInv'
         /\ \/ SubmitCall(t) /\ pc'[t] = "check" /\ Enters(t)
            \/ RejectDone(t) /\ Leaves(t)
            \/ ~RejectDone(t) /\ Stays
<1> USE DEF Submitting
<1>1. CASE SubmitCall(t)
  <2>1. PICK label \in {"rejected", "check"} :
          /\ Goto(t, label)
          /\ pendingTasks' = IF label = "check" THEN pendingTasks + 1 ELSE pendingTasks
    BY <1>1 DEF SubmitCall
  <2>2. SameWork /\ UNCHANGED <<taskBuf, taskQueues>> /\ pc[t] = "new"
    BY <1>1 DEF SubmitCall, SameWork, submitFrame, queueVars, workerVars
  <2>3. pc'[t] = label
    BY <2>1 DEF Goto, TypeInv, TypeOK, SubmitterTypes
  <2> QED BY <1>1, <2>1, <2>2, <2>3, QuietSubmit DEF Enters, Stays, RejectDone
<1>2. CASE CheckClosed(t)
  <2>1. PICK label \in {"done", "load"} : Goto(t, label)
    BY <1>2 DEF CheckClosed
  <2>2. SameWork /\ UNCHANGED <<taskBuf, taskQueues, pendingTasks>> /\ pc[t] = "check"
    BY <1>2 DEF CheckClosed, SameWork, submitFrame, queueVars, workerVars
  <2> QED BY <2>1, <2>2, QuietSubmit DEF Stays, RejectDone
<1>3. CASE LoadRunning(t)
  <2>1. PICK label \in {"cas", "pick"} : Goto(t, label)
    BY <1>3 DEF LoadRunning
  <2>2. SameWork /\ UNCHANGED <<taskBuf, taskQueues, pendingTasks>> /\ pc[t] = "load"
    BY <1>3 DEF LoadRunning, SameWork, submitFrame, queueVars, workerVars
  <2> QED BY <2>1, <2>2, QuietSubmit DEF Stays, RejectDone
<1>4. CASE ColdStartCAS(t)
  <2>1. PICK label \in {"start", "pick"} : Goto(t, label)
    BY <1>4 DEF ColdStartCAS
  <2>2. SameWork /\ UNCHANGED <<taskBuf, taskQueues, pendingTasks>> /\ pc[t] = "cas"
    BY <1>4 DEF ColdStartCAS, SameWork, submitFrame, queueVars, workerVars
  <2> QED BY <2>1, <2>2, QuietSubmit DEF Stays, RejectDone
<1>5. CASE ColdStartWorker(t)
  <2>1. Goto(t, "pick") /\ UNCHANGED <<taskBuf, taskQueues, pendingTasks>>
        /\ pc[t] = "start"
    BY <1>5 DEF ColdStartWorker, queueVars
  <2>2. NewWorker \in Workers /\ wpc[NewWorker] = "none"
    BY <1>5, FreshWorker DEF ColdStartWorker, Unused
  <2>3. SameWork
    BY <1>5, <2>2 DEF ColdStartWorker, StartWorker, SameWork, Busy, submitFrame,
       TypeInv, TypeOK, WorkerTypes
  <2> QED BY <2>1, <2>3, QuietSubmit DEF Stays, RejectDone
<1>6. CASE PickShard(t)
  <2>1. SameWork /\ UNCHANGED <<taskBuf, taskQueues, pendingTasks>>
        /\ pc[t] = "pick" /\ Goto(t, "send")
    BY <1>6 DEF PickShard, SameWork, submitFrame, workerVars
  <2> QED BY <2>1, QuietSubmit DEF Stays, RejectDone
<1>7. CASE TrySend(t)
  <2>1. SameWork /\ UNCHANGED <<taskBuf, pendingTasks>> /\ pc[t] = "send"
    BY <1>7 DEF TrySend, SameWork, submitFrame, workerVars
  <2>2. CASE HasRoom(shard[t])
    <3>1. Enqueue(shard[t], t) /\ Goto(t, "accepted") /\ shard[t] \in Shards
      BY <1>7, <2>2 DEF TrySend, TypeInv, TypeOK, SubmitterTypes
    <3>2. TaskInv' /\ Placed' = Placed \cup {t}
      BY <2>1, <3>1, SendStep
    <3> QED BY <2>1, <3>1, <3>2, TaskPassed DEF Stays, RejectDone
  <2>3. CASE ~HasRoom(shard[t])
    <3>1. PICK label \in {"done", "push"} : Goto(t, label)
      BY <1>7, <2>3 DEF TrySend
    <3>2. UNCHANGED taskQueues
      BY <1>7, <2>3 DEF TrySend
    <3> QED BY <2>1, <3>1, <3>2, QuietSubmit DEF Stays, RejectDone
  <2> QED BY <2>2, <2>3
<1>8. CASE PushBuffer(t)
  <2>1. SameWork /\ UNCHANGED <<taskQueues, pendingTasks>> /\ pc[t] = "push"
    BY <1>8 DEF PushBuffer, SameWork, submitFrame, workerVars
  <2>2. CASE taskBuf' = Append(taskBuf, t) /\ Goto(t, "forward")
    <3>1. TaskInv' /\ Placed' = Placed \cup {t}
      BY <2>1, <2>2, PushStep
    <3> QED BY <2>1, <2>2, <3>1, TaskPassed DEF Stays, RejectDone
  <2>3. CASE taskBuf' = taskBuf /\ \E label \in {"done", "repick"} : Goto(t, label)
    <3>1. PICK label \in {"done", "repick"} : Goto(t, label)
      BY <2>3
    <3> QED BY <2>1, <2>3, <3>1, QuietSubmit DEF Stays, RejectDone
  <2> QED BY <1>8, <2>2, <2>3 DEF PushBuffer
<1>9. CASE ForwardHead(t)
  <2>1. SameWork /\ pc[t] = "forward" /\ Goto(t, "accepted") /\ UNCHANGED pendingTasks
    BY <1>9 DEF ForwardHead, SameWork, submitFrame, workerVars
  <2>2. taskBuf # <<>> /\ shard[t] \in Shards
    BY <2>1, TasksAssumption DEF TypeInv, LockInv, TypeOK, SubmitterTypes
  <2>3. \/ UNCHANGED <<taskBuf, taskQueues>>
        \/ /\ taskBuf # <<>> /\ taskBuf' = Tail(taskBuf)
           /\ \E s \in Shards : Enqueue(s, Head(taskBuf))
    BY <1>9, <2>2 DEF ForwardHead
  <2>4. TaskInv' /\ Placed' = Placed
    BY <2>1, <2>3, ForwardStep
  <2>5. t \in Placed
    BY <2>1 DEF TaskInv, SubmittedInv, Placed
  <2> QED BY <2>1, <2>4, <2>5, TaskPassed DEF Stays, RejectDone
<1>10. CASE RepickShard(t)
  <2>1. SameWork /\ UNCHANGED <<taskBuf, taskQueues, pendingTasks>>
        /\ pc[t] = "repick" /\ Goto(t, "blocked")
    BY <1>10 DEF RepickShard, SameWork, submitFrame, workerVars
  <2> QED BY <2>1, QuietSubmit DEF Stays, RejectDone
<1>11. CASE BlockedSelect(t)
  <2>1. SameWork /\ UNCHANGED <<taskBuf, pendingTasks>> /\ pc[t] = "blocked"
        /\ shard[t] \in Shards
    BY <1>11 DEF BlockedSelect, SameWork, submitFrame, workerVars, TypeInv, TypeOK,
       SubmitterTypes
  <2>2. CASE Enqueue(shard[t], t) /\ Goto(t, "accepted")
    <3>1. TaskInv' /\ Placed' = Placed \cup {t}
      BY <2>1, <2>2, SendStep
    <3> QED BY <2>1, <2>2, <3>1, TaskPassed DEF Stays, RejectDone
  <2>3. CASE Goto(t, "done") /\ UNCHANGED taskQueues
    BY <2>1, <2>3, QuietSubmit DEF Stays, RejectDone
  <2> QED BY <1>11, <2>2, <2>3 DEF BlockedSelect
<1>12. CASE RejectDone(t)
  <2>1. PICK label \in {"wake", "rejected"} : Goto(t, label)
    BY <1>12 DEF RejectDone
  <2>2. SameWork /\ UNCHANGED <<taskBuf, taskQueues>> /\ pc[t] = "done"
        /\ pendingTasks' = pendingTasks - 1
    BY <1>12 DEF RejectDone, SameWork, submitFrame, queueVars, workerVars
  <2> QED BY <1>12, <2>1, <2>2, QuietSubmit DEF Leaves
<1>13. CASE RejectWake(t)
  <2>1. SameWork /\ UNCHANGED <<taskBuf, taskQueues, pendingTasks>>
        /\ pc[t] = "wake" /\ Goto(t, "rejected")
    BY <1>13 DEF RejectWake, SameWork, submitFrame, queueVars, workerVars
  <2>2. TaskInv' /\ InFlight' = InFlight
    BY <2>1, QuietSubmit
  <2> QED BY <2>1, <2>2 DEF Stays, RejectDone
<1> QED BY <1>1, <1>2, <1>3, <1>4, <1>5, <1>6, <1>7, <1>8, <1>9, <1>10, <1>11,
           <1>12, <1>13 DEF Submit

LEMMA SameFlight ==
  ASSUME Placed' = Placed, UNCHANGED <<pc, pendingTasks>>
  PROVE  Stays
<1>1. \A x : x \in InFlight' <=> x \in InFlight
  BY InFlightIs
<1> QED BY <1>1 DEF Stays

\* A step of a worker that moves no task.
LEMMA IdleStep ==
  ASSUME TypeInv, TaskInv, SameWork,
         UNCHANGED <<pc, taskBuf, taskQueues, pendingTasks>>
  PROVE  TaskInv' /\ Stays
BY QuietStep, SameFlight

LEMMA WorkerFlight ==
  ASSUME TypeInv, TaskInv, NEW w \in Workers, Run(w)
  PROVE  /\ TaskInv'
         /\ \/ TaskDone(w) /\ Leaves(Head(batch[w]))
            \/ ~TaskDone(w) /\ Stays
<1> USE DEF workerFrame, submitVars, WGoto
<1>1. CASE ScanShard(w)
  <2> DEFINE idx == (cursor[w] + probe[w]) % NumShards
  <2>1. wpc[w] = "scan" /\ UNCHANGED <<pc, ctxDone, runs, pendingTasks, taskBuf>>
    BY <1>1 DEF ScanShard
  <2>2. idx \in Shards
    <3>1. cursor[w] \in Shards /\ probe[w] \in Shards
      BY DEF TypeInv, TypeOK, WorkerTypes
    <3>2. cursor[w] + probe[w] \in Nat
      BY <3>1, ShardNat
    <3> QED BY <3>2, MaskedShard
  <2>3. CASE taskQueues[idx] # <<>>
    <3>1. /\ batch' = [batch EXCEPT ![w] = <<Head(taskQueues[idx])>>]
          /\ taskQueues' = [taskQueues EXCEPT ![idx] = Tail(@)]
          /\ wpc' = [wpc EXCEPT ![w] = "start"]
      BY <1>1, <2>3 DEF ScanShard
    <3> HIDE DEF idx
    <3>2. /\ OnlyWorker(w) /\ wpc'[w] = "start"
          /\ batch'[w] = <<Head(taskQueues[idx])>>
      BY <2>1, <3>1 DEF OnlyWorker, TypeInv, TypeOK, WorkerTypes
    <3>3. TaskInv' /\ Placed' = Placed
      BY <2>1, <2>2, <2>3, <3>1, <3>2, ReceiveStep
    <3> QED BY <2>1, <3>3, SameFlight DEF TaskDone
  <2>4. CASE taskQueues[idx] = <<>>
    <3>1. /\ UNCHANGED <<batch, taskQueues>>
          /\ wpc' = wpc \/ wpc' = [wpc EXCEPT ![w] = "pop"]
      BY <1>1, <2>4 DEF ScanShard
    <3>2. SameWork
      BY <2>1, <3>1 DEF SameWork, Busy, TypeInv, TypeOK, WorkerTypes
    <3> QED BY <2>1, <3>1, <3>2, IdleStep DEF TaskDone
  <2> QED BY <2>3, <2>4
<1>2. CASE PopBatch(w)
  <2> DEFINE n == IF Len(taskBuf) < BatchSize THEN Len(taskBuf) ELSE BatchSize
  <2>1. wpc[w] = "pop" /\ taskMu = None
        /\ UNCHANGED <<pc, ctxDone, runs, pendingTasks, taskQueues>>
    BY <1>2 DEF PopBatch
  <2>2. n \in Nat /\ n <= Len(taskBuf)
    BY AtSeq, LenProperties, SizesAssumption
  <2>3. CASE n > 0
    <3>1. /\ batch' = [batch EXCEPT ![w] = SubSeq(taskBuf, 1, n)]
          /\ taskBuf' = SubSeq(taskBuf, n + 1, Len(taskBuf))
          /\ wpc' = [wpc EXCEPT ![w] = "start"]
      BY <1>2, <2>3 DEF PopBatch
    <3> HIDE DEF n
    <3>2. /\ OnlyWorker(w) /\ wpc'[w] = "start"
          /\ batch'[w] = SubSeq(taskBuf, 1, n)
      BY <2>1, <3>1 DEF OnlyWorker, TypeInv, TypeOK, WorkerTypes
    <3>3. TaskInv' /\ Placed' = Placed
      BY <2>1, <2>2, <3>1, <3>2, PopStep
    <3> QED BY <2>1, <3>3, SameFlight DEF TaskDone
  <2>4. CASE ~(n > 0)
    <3>1. UNCHANGED <<batch, taskBuf>> /\ wpc' = [wpc EXCEPT ![w] = "park"]
      BY <1>2, <2>4 DEF PopBatch
    <3>2. SameWork
      BY <2>1, <3>1 DEF SameWork, Busy, TypeInv, TypeOK, WorkerTypes
    <3> QED BY <2>1, <3>1, <3>2, IdleStep DEF TaskDone
  <2> QED BY <2>3, <2>4
<1>3. CASE StartTask(w)
  <2>1. UNCHANGED <<pc, pendingTasks>> /\ ~TaskDone(w)
    BY <1>3 DEF StartTask, TaskDone
  <2> QED BY <1>3, <2>1, StartStep, SameFlight
<1>4. CASE EndTask(w)
  <2>1. UNCHANGED <<pc, pendingTasks>> /\ ~TaskDone(w)
    BY <1>4 DEF EndTask, TaskDone
  <2> QED BY <1>4, <2>1, EndStep, SameFlight
<1>5. CASE TaskDone(w)
  <2>1. UNCHANGED pc /\ pendingTasks' = pendingTasks - 1 /\ wpc[w] = "done"
    BY <1>5 DEF TaskDone
  <2>2. /\ TaskInv' /\ Head(batch[w]) \in Placed
        /\ Placed' = Placed \ {Head(batch[w])}
    BY <1>5, DoneStep
  <2>3. pc[Head(batch[w])] = "accepted"
    BY <2>1, FirstInHand
  <2>4. \A x : x \in InFlight' <=> x \in InFlight \ {Head(batch[w])}
    BY <2>1, <2>2, <2>3, InFlightIs DEF Submitting
  <2>5. Leaves(Head(batch[w]))
    BY <2>1, <2>2, <2>4, InFlightIs DEF Leaves
  <2> QED BY <1>5, <2>2, <2>5
<1>6. CASE TaskWake(w)
  <2>1. /\ wpc[w] = "wake" /\ NextTask(w)
        /\ UNCHANGED <<pc, ctxDone, pendingTasks, taskBuf, taskQueues, runs>>
    BY <1>6 DEF TaskWake
  <2>2. OnlyWorker(w)
    BY <2>1 DEF NextTask, OnlyWorker, TypeInv, TypeOK, WorkerTypes
  <2> QED BY <2>1, <2>2, WakeStep, SameFlight DEF TaskDone
<1>7. CASE LeaveRunning(w)
  <2>1. /\ wpc[w] = "park" /\ wpc' = [wpc EXCEPT ![w] = "exit"]
        /\ UNCHANGED <<pc, ctxDone, pendingTasks, taskBuf, taskQueues, runs, batch>>
    BY <1>7 DEF LeaveRunning
  <2>2. SameWork
    BY <2>1 DEF SameWork, Busy, TypeInv, TypeOK, WorkerTypes
  <2> QED BY <2>1, <2>2, IdleStep DEF TaskDone
<1>8. CASE AddToIdle(w)
  <2>1. /\ wpc[w] = "exit" /\ wpc' = [wpc EXCEPT ![w] = "parked"]
        /\ UNCHANGED <<pc, ctxDone, pendingTasks, taskBuf, taskQueues, runs, batch>>
    BY <1>8 DEF AddToIdle
  <2>2. SameWork
    BY <2>1 DEF SameWork, Busy, TypeInv, TypeOK, WorkerTypes
  <2> QED BY <2>1, <2>2, IdleStep DEF TaskDone
<1> QED BY <1>1, <1>2, <1>3, <1>4, <1>5, <1>6, <1>7, <1>8 DEF Run

LEMMA ScalerFlight ==
  ASSUME TypeInv, WorkerOwnedOnce, TaskInv, Scaler
  PROVE  TaskInv' /\ Stays
<1>1. UNCHANGED <<pc, ctxDone, pendingTasks, taskBuf, taskQueues, runs>>
  BY DEF Scaler, ScalerLoad, ScalerDecide, ScalerRecheck, ScalerAdd, ScalerTake,
     ScalerStart, ScalerLoadClosed, ScalerLoadPending, scalerFrame, queueVars,
     submitVars
<1>2. SameWork
  <2>1. CASE ScalerStart
    <3>1. spawning \in Workers /\ wpc[spawning] \in {"none", "parked"}
      BY <2>1 DEF ScalerStart, TypeInv, SpawnInv, TypeOK, ScalerTypes,
         WorkerOwnedOnce
    <3> QED BY <1>1, <2>1, <3>1 DEF ScalerStart, StartWorker, SameWork, Busy,
                TypeInv, TypeOK, WorkerTypes
  <2>2. CASE UNCHANGED workerVars
    BY <1>1, <2>2 DEF SameWork, workerVars
  <2> QED BY <2>1, <2>2 DEF Scaler, ScalerLoad, ScalerDecide, ScalerRecheck,
             ScalerAdd, ScalerTake, ScalerLoadClosed, ScalerLoadPending
<1> QED BY <1>1, <1>2, IdleStep

LEMMA CallerFlight ==
  ASSUME TypeInv, WorkerOwnedOnce, TaskInv,
         \/ \E t \in Tasks : ContextDone(t)
         \/ CleanerTick \/ CleanerStop
         \/ \E v \in Waiters : WaitCall(v) \/ WaitReturn(v)
         \/ \E c \in Closers : CloseCAS(c) \/ Close(c)
         \/ UNCHANGED vars
  PROVE  TaskInv' /\ Stays
<1>1. UNCHANGED <<pc, pendingTasks, taskBuf, taskQueues, runs, batch>>
  BY DEF ContextDone, CleanerTick, CleanerStop, WaitCall, WaitReturn, CloseCAS,
     Close, CloseBuffer, CloseChannel, callFrame, vars, queueVars, submitVars,
     workerVars
<1>2. ctxDone \subseteq ctxDone'
  BY DEF ContextDone, CleanerTick, CleanerStop, WaitCall, WaitReturn, CloseCAS,
     Close, CloseBuffer, CloseChannel, vars
<1>3. SameWork
  <2>1. CASE CleanerTick
    BY <1>1, <1>2, <2>1 DEF CleanerTick, SameWork, Busy, WorkerOwnedOnce
  <2>2. CASE UNCHANGED wpc
    BY <1>1, <1>2, <2>2 DEF SameWork
  <2> QED BY <2>1, <2>2 DEF ContextDone, CleanerStop, WaitCall, WaitReturn,
             CloseCAS, Close, CloseBuffer, CloseChannel, callFrame, vars,
             workerVars
<1> QED BY <1>1, <1>3, IdleStep

LEMMA TaskStep ==
  ASSUME TypeInv, WorkerOwnedOnce, TaskInv, [Next]_vars
  PROVE  /\ TaskInv'
         /\ \/ \E t \in Tasks : Enters(t) \/ Leaves(t)
            \/ Stays
<1>1. CASE \E t \in Tasks : SubmitCall(t) \/ Submit(t)
  BY <1>1, SubmitterFlight
<1>2. CASE \E w \in Workers : Run(w)
  <2>1. PICK w \in Workers : Run(w)
    BY <1>2
  <2>2. TaskDone(w) => Head(batch[w]) \in Tasks
    BY FirstInHand DEF TaskDone
  <2> QED BY <2>1, <2>2, WorkerFlight
<1>3. CASE Scaler
  BY <1>3, ScalerFlight
<1>4. CASE \/ \E t \in Tasks : ContextDone(t)
           \/ CleanerTick \/ CleanerStop
           \/ \E v \in Waiters : WaitCall(v) \/ WaitReturn(v)
           \/ \E c \in Closers : CloseCAS(c) \/ Close(c)
           \/ UNCHANGED vars
  BY <1>4, CallerFlight
<1> QED BY <1>1, <1>2, <1>3, <1>4 DEF Next

LEMMA TaskInit == Init => TaskInv /\ InFlight = {}
<1> SUFFICES ASSUME Init PROVE TaskInv /\ InFlight = {}
  OBVIOUS
<1>1. ToSet(<<>>) = {} /\ IsInjective(<<>>)
  BY DEF ToSet, IsInjective
<1>2. \A p \in Places : At(p) = <<>>
  BY AtIs DEF Init, Places, OffBuffer, InHand
<1>3. Buffered = {} /\ Beyond = {} /\ OnePlace
  BY <1>1, <1>2, AtIs, BeyondIs, PlacesDiffer DEF Buffered, OnePlace
<1>4. SubmittedInv /\ RunsInv
  BY <1>3 DEF Init, SubmittedInv, RunsInv, Placed
<1>5. InFlight = {}
  BY <1>3, InFlightIs DEF Init, Placed, Submitting
<1> QED BY <1>3, <1>4, <1>5 DEF TaskInv

LEMMA TaskInvariant == Spec => []TaskInv
<1>1. TypeInv /\ WorkerOwnedOnce /\ TaskInv /\ [Next]_vars => TaskInv'
  BY TaskStep
<1> QED BY <1>1, TaskInit, TypeInvariant, WorkerOwnership, PTL DEF Spec

\* No task is lost or duplicated between the submitters, the shards, the
\* overflow buffer and the batches of the workers: its body runs once, unless
\* it was rejected or its context was done in time (submit, PushAndForward,
\* PopBatch, nextShardTask, runTask).
THEOREM RunOnce == Spec => []ExactlyOnce
<1>1. TypeInv /\ TaskInv => ExactlyOnce
  <2> SUFFICES ASSUME TypeInv, TaskInv, NEW t \in Tasks
               PROVE  /\ runs[t] <= 1
                      /\ pc[t] = "rejected" => runs[t] = 0
                      /\ pc[t] = "accepted" /\ t \notin InFlight /\ runs[t] = 0
                           => t \in CancellableTasks \cap ctxDone
    BY DEF ExactlyOnce
  <2>1. pc[t] = "accepted" /\ t \notin Placed => Ran(t)
    BY DEF TaskInv, RunsInv
  <2>2. t \in Placed => runs[t] = 0 \/ Ran(t)
    BY DEF TaskInv, RunsInv, Begun, Ran
  <2>3. pc[t] # "accepted" => runs[t] = 0
    BY DEF TaskInv, RunsInv
  <2>4. runs[t] <= 1
    BY <2>1, <2>2, <2>3 DEF Ran
  <2>5. pc[t] = "accepted" /\ t \notin InFlight /\ runs[t] = 0
          => t \in CancellableTasks \cap ctxDone
    BY <2>1, InFlightIs DEF Ran
  <2> QED BY <2>3, <2>4, <2>5
<1> QED BY <1>1, TaskInvariant, TypeInvariant, PTL

(***************************************************************************)
(* The pending count.                                                      *)
(***************************************************************************)

LEMMA FlightFinite ==
  ASSUME TypeInv
  PROVE  IsFiniteSet(InFlight)
<1>1. InFlight \subseteq Tasks
  BY InFlightTasks DEF TypeInv, TypeOK
<1> QED BY <1>1, TasksAssumption, FS_Subset

\* pendingTasks counts the tasks in flight: whatever way a call of Submit goes
\* and whatever becomes of the task, addPending and done balance.
THEOREM PendingCount == Spec => []PendingExact
<1>1. Init => PendingExact
  <2>1. Init => pendingTasks = 0 /\ InFlight = {}
    BY TaskInit DEF Init
  <2> QED BY <2>1, FS_EmptySet DEF PendingExact
<1>2. TypeInv /\ WorkerOwnedOnce /\ TaskInv /\ PendingExact /\ [Next]_vars
        => PendingExact'
  <2> SUFFICES ASSUME TypeInv, WorkerOwnedOnce, TaskInv, PendingExact, [Next]_vars
               PROVE  PendingExact'
    OBVIOUS
  <2>1. IsFiniteSet(InFlight) /\ Cardinality(InFlight) \in Nat
    BY FlightFinite, FS_CardinalityType
  <2>2. ASSUME NEW t \in Tasks, Enters(t) PROVE PendingExact'
    <3>1. Cardinality(InFlight \cup {t}) = Cardinality(InFlight) + 1
      BY <2>1, <2>2, FS_AddElement DEF Enters
    <3> QED BY <2>1, <2>2, <3>1 DEF Enters, PendingExact
  <2>3. ASSUME NEW t \in Tasks, Leaves(t) PROVE PendingExact'
    <3>1. Cardinality(InFlight \ {t}) = Cardinality(InFlight) - 1
      BY <2>1, <2>3, FS_RemoveElement DEF Leaves
    <3> QED BY <2>1, <2>3, <3>1 DEF Leaves, PendingExact
  <2>4. CASE Stays
    BY <2>4 DEF Stays, PendingExact
  <2> QED BY <2>2, <2>3, <2>4, TaskStep
<1> QED BY <1>1, <1>2, TaskInvariant, TypeInvariant, WorkerOwnership, PTL DEF Spec

=============================================================================
