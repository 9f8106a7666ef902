--------------------------- MODULE ContractProofs ---------------------------
(***************************************************************************)
(* AgilePool implements PoolContract: every step of the pool is a step of  *)
(* the contract, or changes nothing that the contract speaks of.           *)
(***************************************************************************)
EXTENDS CallerProofs

ContractStep == Contract!Next \/ UNCHANGED Contract!contractVars

\* What the submitter of a task does to the task's status.
LEMMA StatusMove ==
  ASSUME TypeInv, NEW t \in Tasks, NEW label, Goto(t, label), UNCHANGED closed
  PROVE  /\ Status[t] = StatusAt(pc[t])
         /\ Status' = [Status EXCEPT ![t] = StatusAt(label)]
         /\ StatusAt(label) = StatusAt(pc[t]) => Status' = Status
<1>1. pc' = [pc EXCEPT ![t] = label] /\ pc \in [Tasks -> SubmitPc]
  BY DEF Goto, TypeInv, TypeOK, SubmitterTypes
<1>2. \A x \in Tasks : Status'[x] = IF x = t THEN StatusAt(label) ELSE Status[x]
  BY <1>1 DEF Status, StatusAt
<1>3. Status = [x \in Tasks |-> Status[x]] /\ Status' = [x \in Tasks |-> Status'[x]]
  BY DEF Status
<1>4. Status[t] = StatusAt(pc[t])
  BY DEF Status
<1>5. Status' = [Status EXCEPT ![t] = StatusAt(label)]
  BY <1>2, <1>3
<1>6. StatusAt(label) = StatusAt(pc[t]) => Status' = Status
  BY <1>2, <1>3, <1>4
<1> QED BY <1>4, <1>5, <1>6

LEMMA StatusSame ==
  ASSUME UNCHANGED <<pc, closed>>
  PROVE  Status' = Status
BY DEF Status, StatusAt

\* The moves of a submission under way.
LEMMA SubmitMoves ==
  ASSUME TypeInv, NEW t \in Tasks, Submit(t)
  PROVE  \E label : /\ Goto(t, label)
                    /\ \/ ~RejectDone(t) /\ StatusAt(label) = StatusAt(pc[t])
                       \/ /\ ~RejectDone(t) /\ StatusAt(pc[t]) = "offered"
                          /\ StatusAt(label) \in {"doomed", "accepted"}
                       \/ /\ RejectDone(t) /\ StatusAt(pc[t]) = "doomed"
                          /\ StatusAt(label) = "rejected"
<1> USE DEF StatusAt, RejectDone
<1>1. CASE CheckClosed(t) \/ LoadRunning(t) \/ ColdStartCAS(t) \/ ColdStartWorker(t)
  BY <1>1 DEF CheckClosed, LoadRunning, ColdStartCAS, ColdStartWorker
<1>2. CASE PickShard(t) \/ TrySend(t)
  BY <1>2 DEF PickShard, TrySend
<1>3. CASE PushBuffer(t) \/ ForwardHead(t)
  BY <1>3 DEF PushBuffer, ForwardHead
<1>4. CASE RepickShard(t) \/ BlockedSelect(t)
  BY <1>4 DEF RepickShard, BlockedSelect
<1>5. CASE RejectDone(t) \/ RejectWake(t)
  BY <1>5 DEF RejectWake
<1> QED BY <1>1, <1>2, <1>3, <1>4, <1>5 DEF Submit

LEMMA SubmitterContract ==
  ASSUME TypeInv, WorkerOwnedOnce, TaskInv, NEW t \in Tasks,
         SubmitCall(t) \/ Submit(t)
  PROVE  ContractStep
<1>1. UNCHANGED <<runs, closed, waitPc, owed>>
  BY SubmitterKeeps DEF submitFrame, poolVars, waitVars
<1>2. CASE SubmitCall(t)
  <2>1. pc[t] = "new" /\ StatusAt("new") = "new" /\ ~RejectDone(t)
    BY <1>2 DEF SubmitCall, StatusAt, RejectDone
  <2>2. CASE t \in CtxTasks \cap ctxDone
    <3>1. Goto(t, "rejected") /\ UNCHANGED pendingTasks
      BY <1>2, <2>2 DEF SubmitCall
    <3>2. pc'[t] # "check" /\ InFlight' = InFlight
      BY <1>2, <2>1, <3>1, SubmitterFlight DEF Goto, TypeInv, TypeOK,
         SubmitterTypes, Stays
    <3>3. Status[t] = "new" /\ Status' = [Status EXCEPT ![t] = "rejected"]
      BY <1>1, <2>1, <3>1, StatusMove DEF StatusAt
    <3>4. t \in CancellableTasks
      BY <2>2 DEF CancellableTasks
    <3>5. Contract!Decline(t)
      BY <1>1, <3>2, <3>3, <3>4 DEF Contract!Decline, Contract!Becomes
    <3> QED BY <3>5 DEF ContractStep, Contract!Next
  <2>3. CASE t \notin CtxTasks \cap ctxDone
    <3>1. Goto(t, "check") /\ pendingTasks' = pendingTasks + 1
      BY <1>2, <2>3 DEF SubmitCall
    <3>2. pendingTasks \in Int
      BY DEF TypeInv, TypeOK, CallerTypes
    <3>3. InFlight' = InFlight \cup {t}
      BY <1>2, <2>1, <3>1, <3>2, SubmitterFlight DEF Stays, Enters
    <3>4. /\ Status[t] = "new"
          /\ Status' = [Status EXCEPT ![t] = IF closed THEN "doomed" ELSE "offered"]
      BY <1>1, <2>1, <3>1, StatusMove DEF StatusAt
    <3>5. Contract!Offer(t)
      BY <1>1, <3>3, <3>4 DEF Contract!Offer, Contract!Becomes
    <3> QED BY <3>5 DEF ContractStep, Contract!Next
  <2> QED BY <2>2, <2>3
<1>3. CASE Submit(t)
  <2>1. PICK label :
          /\ Goto(t, label)
          /\ \/ ~RejectDone(t) /\ StatusAt(label) = StatusAt(pc[t])
             \/ /\ ~RejectDone(t) /\ StatusAt(pc[t]) = "offered"
                /\ StatusAt(label) \in {"doomed", "accepted"}
             \/ /\ RejectDone(t) /\ StatusAt(pc[t]) = "doomed"
                /\ StatusAt(label) = "rejected"
    BY <1>3, SubmitMoves
  <2>2. ~SubmitCall(t)
    BY <1>3 DEF SubmitCall, Submit, CheckClosed, LoadRunning, ColdStartCAS,
       ColdStartWorker, PickShard, TrySend, PushBuffer, ForwardHead, RepickShard,
       BlockedSelect, RejectDone, RejectWake
  <2>3. /\ RejectDone(t) => InFlight' = InFlight \ {t}
        /\ ~RejectDone(t) => InFlight' = InFlight
    BY <1>3, <2>2, SubmitterFlight DEF Leaves, Stays
  <2>4. /\ Status[t] = StatusAt(pc[t])
        /\ Status' = [Status EXCEPT ![t] = StatusAt(label)]
        /\ StatusAt(label) = StatusAt(pc[t]) => Status' = Status
    BY <1>1, <2>1, StatusMove
  <2>5. CASE ~RejectDone(t) /\ StatusAt(label) = StatusAt(pc[t])
    BY <1>1, <2>3, <2>4, <2>5 DEF ContractStep, Contract!contractVars
  <2>6. CASE ~RejectDone(t) /\ StatusAt(pc[t]) = "offered" /\ StatusAt(label) = "doomed"
    <3>1. Contract!Doom(t)
      BY <1>1, <2>3, <2>4, <2>6 DEF Contract!Doom, Contract!Becomes
    <3> QED BY <3>1 DEF ContractStep, Contract!Next
  <2>7. CASE ~RejectDone(t) /\ StatusAt(pc[t]) = "offered" /\ StatusAt(label) = "accepted"
    <3>1. Contract!Accept(t)
      BY <1>1, <2>3, <2>4, <2>7 DEF Contract!Accept, Contract!Becomes
    <3> QED BY <3>1 DEF ContractStep, Contract!Next
  <2>8. CASE RejectDone(t) /\ StatusAt(pc[t]) = "doomed" /\ StatusAt(label) = "rejected"
    <3>1. Contract!Reject(t)
      BY <1>1, <2>3, <2>4, <2>8 DEF Contract!Reject, Contract!Becomes
    <3> QED BY <3>1 DEF ContractStep, Contract!Next
  <2> QED BY <2>1, <2>5, <2>6, <2>7, <2>8
<1> QED BY <1>2, <1>3

\* A worker calls the body of a task that has not run, and counts off one that
\* has, or was cancelled.
LEMMA FirstRuns ==
  ASSUME TypeInv, TaskInv, NEW w \in Workers, wpc[w] \in {"start", "done"}
  PROVE  /\ Head(batch[w]) \in Tasks /\ Head(batch[w]) \in InFlight
         /\ pc[Head(batch[w])] = "accepted"
         /\ wpc[w] = "start" => runs[Head(batch[w])] = 0
         /\ wpc[w] = "done" => Ran(Head(batch[w]))
<1>1. /\ Head(batch[w]) \in Beyond /\ Head(batch[w]) \in Tasks
      /\ pc[Head(batch[w])] = "accepted"
      /\ \A v \in Workers \ {w} : wpc[v] \in {"start", "body", "done"}
                                   => Head(batch[v]) # Head(batch[w])
  BY FirstInHand
<1>2. Head(batch[w]) \in Placed /\ Head(batch[w]) \in InFlight
  BY <1>1, InFlightIs DEF Placed
<1>3. wpc[w] = "start" => ~Begun(Head(batch[w]))
  BY <1>1 DEF Begun
<1> QED BY <1>1, <1>2, <1>3 DEF TaskInv, RunsInv

LEMMA WorkerContract ==
  ASSUME TypeInv, TaskInv, NEW w \in Workers, Run(w)
  PROVE  ContractStep
<1> DEFINE h == Head(batch[w])
<1>1. UNCHANGED <<closed, waitPc, owed, pc>>
  BY WorkerKeeps DEF workerFrame, poolVars, waitVars, submitVars
<1>2. Status' = Status
  BY <1>1, StatusSame
<1>3. CASE StartTask(w)
  <2>1. wpc[w] = "start" /\ (runs' = runs \/ runs' = [runs EXCEPT ![h] = @ + 1])
    BY <1>3 DEF StartTask
  <2>2. InFlight' = InFlight
    BY <1>3, <2>1, WorkerFlight DEF TaskDone, Stays
  <2>3. h \in Tasks /\ h \in InFlight /\ pc[h] = "accepted" /\ runs[h] = 0
    BY <2>1, FirstRuns
  <2> HIDE DEF h
  <2>4. CASE runs' = runs
    BY <1>1, <1>2, <2>2, <2>4 DEF ContractStep, Contract!contractVars
  <2>5. CASE runs' = [runs EXCEPT ![h] = @ + 1]
    <3>1. runs' = [runs EXCEPT ![h] = 1]
      BY <2>3, <2>5 DEF TypeInv, TypeOK, SubmitterTypes
    <3>2. Status[h] = "accepted"
      BY <2>3 DEF Status, StatusAt
    <3>3. Contract!Run(h)
      BY <1>1, <1>2, <2>2, <2>3, <3>1, <3>2 DEF Contract!Run
    <3> QED BY <2>3, <3>3 DEF ContractStep, Contract!Next
  <2> QED BY <2>1, <2>4, <2>5
<1>4. CASE TaskDone(w)
  <2>1. wpc[w] = "done" /\ runs' = runs
    BY <1>4 DEF TaskDone
  <2>2. InFlight' = InFlight \ {h}
    BY <1>4, WorkerFlight DEF Leaves
  <2>3. h \in Tasks /\ h \in InFlight /\ pc[h] = "accepted" /\ Ran(h)
    BY <2>1, FirstRuns
  <2> HIDE DEF h
  <2>4. Status[h] = "accepted"
    BY <2>3 DEF Status, StatusAt
  <2>5. Contract!Finish(h)
    BY <1>1, <1>2, <2>1, <2>2, <2>3, <2>4 DEF Contract!Finish, Ran
  <2> QED BY <2>3, <2>5 DEF ContractStep, Contract!Next
<1>5. CASE ~StartTask(w) /\ ~TaskDone(w)
  <2>1. runs' = runs
    BY <1>5 DEF Run, ScanShard, PopBatch, EndTask, TaskWake, LeaveRunning, AddToIdle
  <2>2. InFlight' = InFlight
    BY <1>5, WorkerFlight DEF Stays
  <2> QED BY <1>1, <1>2, <2>1, <2>2 DEF ContractStep, Contract!contractVars
<1> QED BY <1>3, <1>4, <1>5

LEMMA CloseContract ==
  ASSUME TypeInv, NEW c \in Closers, CloseCAS(c), InFlight' = InFlight
  PROVE  ContractStep
<1>1. UNCHANGED <<pc, runs, waitPc, owed>> /\ closed' = TRUE
  BY DEF CloseCAS, callFrame, submitVars, waitVars
<1>2. CASE closed
  <2>1. closed' = closed
    BY <1>1, <1>2 DEF TypeInv, TypeOK, CallerTypes
  <2>2. Status' = Status
    BY <1>1, <2>1, StatusSame
  <2> QED BY <1>1, <2>1, <2>2 DEF ContractStep, Contract!contractVars
<1>3. CASE ~closed
  <2> DEFINE late == {t \in Tasks : pc[t] = "check"}
  <2>1. late \in SUBSET {t \in Tasks : Status[t] = "offered"}
    BY <1>3 DEF Status, StatusAt
  <2>2. Status' = [t \in Tasks |-> IF t \in late THEN "doomed" ELSE Status[t]]
    BY <1>1, <1>3 DEF Status, StatusAt
  <2> HIDE DEF late
  <2>3. Contract!Close
    BY <1>1, <1>3, <2>1, <2>2 DEF Contract!Close
  <2> QED BY <2>3 DEF ContractStep, Contract!Next
<1> QED BY <1>2, <1>3

LEMMA WaitContract ==
  ASSUME TypeInv, PendingExact, WaitInv, NEW v \in Waiters,
         WaitCall(v) \/ WaitReturn(v), InFlight' = InFlight
  PROVE  ContractStep
<1>1. UNCHANGED <<pc, closed, runs>>
  BY DEF WaitCall, WaitReturn, callFrame, poolVars, submitVars
<1>2. Status' = Status
  BY <1>1, StatusSame
<1>3. CASE WaitCall(v)
  <2>1. pendingTasks = 0 <=> InFlight = {}
    BY PendingZero, FS_EmptySet DEF PendingExact
  <2>2. /\ waitPc[v] = "idle"
        /\ owed' = [owed EXCEPT ![v] = InFlight]
        /\ waitPc' = [waitPc EXCEPT ![v] = IF pendingTasks = 0 THEN "returned"
                                                               ELSE "waiting"]
    BY <1>3 DEF WaitCall
  <2>3. Contract!Wait(v)
    BY <1>1, <1>2, <2>1, <2>2 DEF Contract!Wait
  <2> QED BY <2>3 DEF ContractStep, Contract!Next
<1>4. CASE WaitReturn(v)
  <2>1. /\ waitPc[v] = "waiting" /\ waitCh[v] \in drained
        /\ waitPc' = [waitPc EXCEPT ![v] = "returned"] /\ owed' = owed
    BY <1>4 DEF WaitReturn
  <2>2. owed[v] \cap InFlight = {}
    BY <2>1 DEF WaitInv, Released
  <2>3. Contract!WaitReturn(v)
    BY <1>1, <1>2, <2>1, <2>2 DEF Contract!WaitReturn
  <2> QED BY <2>3 DEF ContractStep, Contract!Next
<1> QED BY <1>3, <1>4

LEMMA EveryStepContract ==
  ASSUME TypeInv, WorkerOwnedOnce, TaskInv, PendingExact, WaitInv, [Next]_vars
  PROVE  ContractStep
<1>1. CASE \E t \in Tasks : SubmitCall(t) \/ Submit(t)
  BY <1>1, SubmitterContract
<1>2. CASE \E w \in Workers : Run(w)
  BY <1>2, WorkerContract
<1>3. CASE \E c \in Closers : CloseCAS(c)
  BY <1>3, CallerFlight, CloseContract DEF Stays
<1>4. CASE \E v \in Waiters : WaitCall(v) \/ WaitReturn(v)
  BY <1>4, CallerFlight, WaitContract DEF Stays
<1>5. CASE \/ Scaler \/ CleanerTick \/ CleanerStop
           \/ \E t \in Tasks : ContextDone(t)
           \/ \E c \in Closers : Close(c)
           \/ UNCHANGED vars
  <2>1. UNCHANGED <<pc, closed, runs, waitPc, owed>>
    BY <1>5, ScalerKeeps DEF ContextDone, CleanerTick, CleanerStop, Close,
       CloseBuffer, CloseChannel, scalerFrame, callFrame, vars, poolVars,
       submitVars, waitVars
  <2>2. InFlight' = InFlight
    BY <1>5, ScalerFlight, CallerFlight DEF Stays
  <2> QED BY <2>1, <2>2, StatusSame DEF ContractStep, Contract!contractVars
<1> QED BY <1>1, <1>2, <1>3, <1>4, <1>5 DEF Next

\* The pool, with its queues, counters, workers and drain channels, implements
\* the contract its users see.
THEOREM PoolKeepsContract == Spec => RefinesContract
<1>1. Init => Contract!Init
  <2>1. Init => Status = [t \in Tasks |-> "new"]
    BY DEF Init, Status, StatusAt
  <2> QED BY <2>1, TaskInit DEF Init, Contract!Init
<1>2. TypeInv /\ WorkerOwnedOnce /\ TaskInv /\ PendingExact /\ WaitInv
        /\ [Next]_vars => [Contract!Next]_(Contract!contractVars)
  BY EveryStepContract DEF ContractStep
<1> QED BY <1>1, <1>2, TypeInvariant, WorkerOwnership, TaskInvariant, PendingCount,
           WaitInvariant, PTL DEF Spec, RefinesContract, Contract!Spec

=============================================================================
