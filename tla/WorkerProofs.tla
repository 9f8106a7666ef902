---------------------------- MODULE WorkerProofs ----------------------------
(***************************************************************************)
(* Proofs about the workers of AgilePool: every worker struct has one      *)
(* owner, the running count is exact, and it exceeds the capacity by at    *)
(* most one.                                                               *)
(***************************************************************************)
EXTENDS AgilePoolProofs

(***************************************************************************)
(* Ownership.  WorkerOwnedOnce is inductive once SpawnInv says when the    *)
(* scaler holds a worker.                                                  *)
(***************************************************************************)

LEMMA OwnedInit == Init => WorkerOwnedOnce
BY ActorsAssumption DEF Init, WorkerOwnedOnce

\* The name that a new worker gets is that of no goroutine and no idle worker.
LEMMA FreshWorker ==
  ASSUME CanAllocate
  PROVE  NewWorker \in Workers /\ Unused(NewWorker)
BY DEF CanAllocate, NewWorker

\* Steps that touch neither a worker's program counter nor who owns it.
LEMMA OwnedUnchanged ==
  ASSUME WorkerOwnedOnce, UNCHANGED <<wpc, idleWorks, spawning>>
  PROVE  WorkerOwnedOnce'
BY DEF WorkerOwnedOnce

\* A worker that goes from one place of its own loop to another.
LEMMA OwnedWithinRun ==
  ASSUME TypeInv, WorkerOwnedOnce, NEW w \in Workers,
         wpc[w] \in Active,
         \E label \in WorkerPc \ {"none", "parked"} :
           wpc' = [wpc EXCEPT ![w] = label],
         UNCHANGED <<idleWorks, spawning>>
  PROVE  WorkerOwnedOnce'
BY DEF TypeInv, TypeOK, WorkerTypes, WorkerPc, Active, WorkerOwnedOnce

LEMMA OwnedStep == TypeInv /\ WorkerOwnedOnce /\ [Next]_vars => WorkerOwnedOnce'
<1> SUFFICES ASSUME TypeInv, WorkerOwnedOnce, [Next]_vars
             PROVE  WorkerOwnedOnce'
  OBVIOUS
<1> USE DEF poolVars, queueVars, drainVars, submitVars, workerVars, scalerVars,
            waitVars, submitFrame, workerFrame, scalerFrame, callFrame
<1>1. CASE UNCHANGED vars
  BY <1>1, OwnedUnchanged DEF vars
<1>2. ASSUME NEW t \in Tasks, SubmitCall(t) \/ Submit(t) \/ ContextDone(t)
      PROVE  WorkerOwnedOnce'
  <2>1. CASE ColdStartWorker(t)
    <3>1. NewWorker \in Workers /\ Unused(NewWorker)
      BY <2>1, FreshWorker DEF ColdStartWorker
    <3>2. /\ wpc' = [wpc EXCEPT ![NewWorker] = "scan"]
          /\ UNCHANGED <<idleWorks, spawning>>
      BY <2>1 DEF ColdStartWorker, StartWorker
    <3> HIDE DEF NewWorker
    <3> QED BY <3>1, <3>2 DEF Unused, WorkerOwnedOnce, TypeInv, TypeOK,
               WorkerTypes
  <2>2. CASE ~ColdStartWorker(t)
    <3>1. UNCHANGED <<wpc, idleWorks, spawning>>
      BY <1>2, <2>2 DEF SubmitCall, Submit, ContextDone, CheckClosed,
         LoadRunning, ColdStartCAS, PickShard, TrySend, PushBuffer,
         ForwardHead, RepickShard, BlockedSelect, RejectDone, RejectWake
    <3> QED BY <3>1, OwnedUnchanged
  <2> QED BY <2>1, <2>2
<1>3. ASSUME NEW w \in Workers, Run(w) PROVE WorkerOwnedOnce'
  <2>1. CASE AddToIdle(w)
    BY <2>1, ActorsAssumption DEF AddToIdle, WGoto, WorkerOwnedOnce, TypeInv,
       TypeOK, WorkerTypes, ScalerTypes
  <2>2. CASE ~AddToIdle(w)
    <3>1. /\ wpc[w] \in Active
          /\ UNCHANGED <<idleWorks, spawning>>
      BY <1>3, <2>2 DEF Run, ScanShard, PopBatch, StartTask, EndTask, TaskDone,
         TaskWake, LeaveRunning, Active
    <3>2. \/ UNCHANGED wpc
          \/ \E label \in WorkerPc \ {"none", "parked"} :
               wpc' = [wpc EXCEPT ![w] = label]
      BY <1>3, <2>2 DEF Run, ScanShard, PopBatch, StartTask, EndTask, TaskDone,
         TaskWake, LeaveRunning, NextTask, WGoto, WorkerPc, Active
    <3> QED BY <3>1, <3>2, OwnedWithinRun, OwnedUnchanged
  <2> QED BY <2>1, <2>2
<1>4. CASE Scaler
  <2>1. CASE ScalerTake
    <3>1. spawning = None
      BY <2>1 DEF ScalerTake, TypeInv, SpawnInv
    <3>2. CASE \E w \in idleWorks :
                 idleWorks' = idleWorks \ {w} /\ spawning' = w
      BY <2>1, <3>1, <3>2, ActorsAssumption DEF ScalerTake, WorkerOwnedOnce
    <3>3. CASE idleWorks = {} /\ CanAllocate /\ spawning' = NewWorker
                 /\ UNCHANGED idleWorks
      <4>1. NewWorker \in Workers /\ Unused(NewWorker)
        BY <3>3, FreshWorker
      <4> HIDE DEF NewWorker
      <4> QED BY <2>1, <3>1, <3>3, <4>1, ActorsAssumption
                DEF ScalerTake, Unused, WorkerOwnedOnce
    <3> QED BY <2>1, <3>2, <3>3 DEF ScalerTake
  <2>2. CASE ScalerStart
    <3>1. spawning \in Workers
      BY <2>2 DEF ScalerStart, TypeInv, TypeOK, ScalerTypes, SpawnInv
    <3> QED BY <2>2, <3>1, ActorsAssumption DEF ScalerStart, StartWorker,
               WorkerOwnedOnce, TypeInv, TypeOK, WorkerTypes
  <2>3. CASE ~ScalerTake /\ ~ScalerStart
    <3>1. UNCHANGED <<wpc, idleWorks, spawning>>
      BY <1>4, <2>3 DEF Scaler, ScalerLoad, ScalerDecide, ScalerRecheck,
         ScalerAdd, ScalerLoadClosed, ScalerLoadPending
    <3> QED BY <3>1, OwnedUnchanged
  <2> QED BY <2>1, <2>2, <2>3
<1>5. CASE CleanerTick
  <2>1. PICK expired \in SUBSET idleWorks :
          /\ idleWorks' = idleWorks \ expired
          /\ wpc' = [w \in Workers |-> IF w \in expired THEN "none" ELSE wpc[w]]
    BY <1>5 DEF CleanerTick
  <2> QED BY <1>5, <2>1, ActorsAssumption DEF CleanerTick, WorkerOwnedOnce,
             TypeInv, TypeOK, WorkerTypes, ScalerTypes
<1>6. CASE \/ CleanerStop
           \/ \E v \in Waiters : WaitCall(v) \/ WaitReturn(v)
           \/ \E c \in Closers : CloseCAS(c) \/ Close(c)
  <2>1. UNCHANGED <<wpc, idleWorks, spawning>>
    BY <1>6 DEF CleanerStop, WaitCall, WaitReturn, CloseCAS, Close,
       CloseBuffer, CloseChannel
  <2> QED BY <2>1, OwnedUnchanged
<1> QED BY <1>1, <1>2, <1>3, <1>4, <1>5, <1>6 DEF Next

\* One owner per *worker: its goroutine, the idle container or the scaler about
\* to start it, so that no struct runs two goroutines.
THEOREM WorkerOwnership == Spec => []WorkerOwnedOnce
BY OwnedInit, OwnedStep, TypeInvariant, PTL DEF Spec

(***************************************************************************)
(* The running count.  Every step either leaves the three things the count *)
(* stands for alone, or moves one worker from one of them to another, or   *)
(* changes the count with them.                                            *)
(***************************************************************************)

ActiveWorkers == {w \in Workers : wpc[w] \in Active}
ColdStarts    == {t \in Tasks : pc[t] = "start"}
Unstarted     == IF spc \in {"take", "start"} THEN toSpawn ELSE 0

LEMMA RunningIs ==
  RunningExact <=>
    runningWorkersNum = Cardinality(ActiveWorkers) + Cardinality(ColdStarts)
                          + Unstarted
BY DEF RunningExact, ActiveWorkers, ColdStarts, Unstarted

\* The sets the count is about are finite, so their sizes are numbers.
LEMMA RunningSizes ==
  /\ IsFiniteSet(ActiveWorkers) /\ Cardinality(ActiveWorkers) \in Nat
  /\ IsFiniteSet(ColdStarts) /\ Cardinality(ColdStarts) \in Nat
<1>1. IsFiniteSet(ActiveWorkers)
  BY ActorsAssumption, FS_Subset DEF ActiveWorkers
<1>2. IsFiniteSet(ColdStarts)
  BY TasksAssumption, FS_Subset DEF ColdStarts
<1> QED BY <1>1, <1>2, FS_CardinalityType

LEMMA RunningInit == Init => RunningExact
<1> SUFFICES ASSUME Init PROVE RunningExact
  OBVIOUS
<1>1. ActiveWorkers = {} /\ ColdStarts = {} /\ Unstarted = 0
  BY DEF Init, ActiveWorkers, ColdStarts, Unstarted, Active
<1> QED BY <1>1, RunningIs, FS_EmptySet DEF Init

\* A step that changes nothing the count depends on.
LEMMA RunningUnchanged ==
  ASSUME RunningExact, UNCHANGED runningWorkersNum,
         ActiveWorkers' = ActiveWorkers, ColdStarts' = ColdStarts,
         Unstarted' = Unstarted
  PROVE  RunningExact'
<1>1. runningWorkersNum = Cardinality(ActiveWorkers)
                            + Cardinality(ColdStarts) + Unstarted
  BY RunningIs
<1>2. runningWorkersNum' = Cardinality(ActiveWorkers')
                             + Cardinality(ColdStarts') + Unstarted'
  BY <1>1
<1> QED BY <1>2 DEF RunningExact, ActiveWorkers, ColdStarts, Unstarted

\* A goroutine starts on a worker that had none.
LEMMA StartedWorker ==
  ASSUME TypeInv, NEW w \in Workers, wpc[w] \in {"none", "parked"},
         wpc' = [wpc EXCEPT ![w] = "scan"]
  PROVE  Cardinality(ActiveWorkers') = Cardinality(ActiveWorkers) + 1
<1>1. w \notin ActiveWorkers /\ ActiveWorkers' = ActiveWorkers \cup {w}
  BY DEF ActiveWorkers, Active, TypeInv, TypeOK, WorkerTypes
<1> QED BY <1>1, RunningSizes, FS_AddElement

\* A worker stays in its loop.
LEMMA SameActive ==
  ASSUME TypeInv, NEW w \in Workers, wpc[w] \in Active,
         UNCHANGED wpc \/ \E label \in Active : wpc' = [wpc EXCEPT ![w] = label]
  PROVE  ActiveWorkers' = ActiveWorkers
BY DEF ActiveWorkers, TypeInv, TypeOK, WorkerTypes

\* A submitter moves between two places other than the cold start.
LEMMA SameColdStarts ==
  ASSUME TypeInv, NEW t \in Tasks, pc[t] # "start",
         \E label \in SubmitPc \ {"start"} : pc' = [pc EXCEPT ![t] = label]
  PROVE  ColdStarts' = ColdStarts
BY DEF ColdStarts, TypeInv, TypeOK, SubmitterTypes

LEMMA RunningStep ==
  TypeInv /\ WorkerOwnedOnce /\ RunningExact /\ [Next]_vars => RunningExact'
<1> SUFFICES ASSUME TypeInv, WorkerOwnedOnce, RunningExact, [Next]_vars
             PROVE  RunningExact'
  OBVIOUS
<1> USE DEF poolVars, queueVars, drainVars, submitVars, workerVars, scalerVars,
            waitVars, submitFrame, workerFrame, scalerFrame, callFrame
<1>0. /\ runningWorkersNum = Cardinality(ActiveWorkers)
                               + Cardinality(ColdStarts) + Unstarted
      /\ Cardinality(ActiveWorkers) \in Nat /\ Cardinality(ColdStarts) \in Nat
      /\ toSpawn \in Nat
  BY RunningIs, RunningSizes DEF TypeInv, TypeOK, ScalerTypes
<1>1. CASE UNCHANGED vars
  <2>1. /\ ActiveWorkers' = ActiveWorkers /\ ColdStarts' = ColdStarts
        /\ Unstarted' = Unstarted /\ UNCHANGED runningWorkersNum
    BY <1>1 DEF vars, ActiveWorkers, ColdStarts, Unstarted
  <2> QED BY <2>1, RunningUnchanged
<1>2. ASSUME NEW t \in Tasks, SubmitCall(t) \/ Submit(t) \/ ContextDone(t)
      PROVE  RunningExact'
  <2>1. CASE ColdStartCAS(t)
    <3>1. ActiveWorkers' = ActiveWorkers /\ Unstarted' = Unstarted
      BY <2>1 DEF ColdStartCAS, ActiveWorkers, Unstarted
    <3>2. CASE runningWorkersNum = 0
      <4>1. t \notin ColdStarts /\ ColdStarts' = ColdStarts \cup {t}
        BY <2>1, <3>2 DEF ColdStartCAS, Goto, ColdStarts, TypeInv, TypeOK,
           SubmitterTypes
      <4>2. Cardinality(ColdStarts') = Cardinality(ColdStarts) + 1
        BY <4>1, RunningSizes, FS_AddElement
      <4>3. runningWorkersNum' = runningWorkersNum + 1
        BY <2>1, <3>2 DEF ColdStartCAS
      <4>4. Unstarted \in Nat
        BY <1>0 DEF Unstarted
      <4> HIDE DEF ActiveWorkers, ColdStarts, Unstarted
      <4>5. runningWorkersNum' = Cardinality(ActiveWorkers')
                                   + Cardinality(ColdStarts') + Unstarted'
        BY <1>0, <3>1, <4>2, <4>3, <4>4
      <4> QED BY <4>5 DEF RunningExact, ActiveWorkers, ColdStarts, Unstarted
    <3>3. CASE runningWorkersNum # 0
      <4>1. UNCHANGED runningWorkersNum /\ ColdStarts' = ColdStarts
        BY <2>1, <3>3 DEF ColdStartCAS, Goto, ColdStarts, TypeInv, TypeOK,
           SubmitterTypes
      <4> QED BY <3>1, <4>1, RunningUnchanged
    <3> QED BY <3>2, <3>3
  <2>2. CASE ColdStartWorker(t)
    <3>1. NewWorker \in Workers /\ Unused(NewWorker)
      BY <2>2, FreshWorker DEF ColdStartWorker
    <3>2. /\ wpc' = [wpc EXCEPT ![NewWorker] = "scan"]
          /\ pc[t] = "start" /\ pc' = [pc EXCEPT ![t] = "pick"]
          /\ UNCHANGED <<runningWorkersNum, spc, toSpawn>>
      BY <2>2 DEF ColdStartWorker, StartWorker, Goto
    <3>3. Cardinality(ActiveWorkers') = Cardinality(ActiveWorkers) + 1
      BY <3>1, <3>2, StartedWorker DEF Unused
    <3>4. t \in ColdStarts /\ ColdStarts' = ColdStarts \ {t}
      BY <3>2 DEF ColdStarts, TypeInv, TypeOK, SubmitterTypes
    <3>5. Cardinality(ColdStarts') = Cardinality(ColdStarts) - 1
      BY <3>4, RunningSizes, FS_RemoveElement
    <3>6. Unstarted' = Unstarted /\ Unstarted \in Nat
      BY <1>0, <3>2 DEF Unstarted
    <3>7. runningWorkersNum' = Cardinality(ActiveWorkers')
                                 + Cardinality(ColdStarts') + Unstarted'
      BY <1>0, <3>2, <3>3, <3>5, <3>6
    <3> QED BY <3>7 DEF RunningExact, ActiveWorkers, ColdStarts, Unstarted
  <2>3. CASE ~ColdStartCAS(t) /\ ~ColdStartWorker(t)
    <3>1. UNCHANGED <<wpc, spc, toSpawn, runningWorkersNum>>
      BY <1>2, <2>3 DEF SubmitCall, Submit, ContextDone, CheckClosed,
         LoadRunning, PickShard, TrySend, PushBuffer, ForwardHead,
         RepickShard, BlockedSelect, RejectDone, RejectWake
    <3>2. \/ UNCHANGED pc
          \/ /\ pc[t] # "start"
             /\ \E label \in SubmitPc \ {"start"} :
                  pc' = [pc EXCEPT ![t] = label]
      BY <1>2, <2>3 DEF SubmitCall, Submit, ContextDone, CheckClosed,
         LoadRunning, PickShard, TrySend, PushBuffer, ForwardHead,
         RepickShard, BlockedSelect, RejectDone, RejectWake, Goto, SubmitPc,
         Submitting
    <3>3. ColdStarts' = ColdStarts
      BY <3>2, SameColdStarts DEF ColdStarts
    <3>4. ActiveWorkers' = ActiveWorkers /\ Unstarted' = Unstarted
      BY <3>1 DEF ActiveWorkers, Unstarted
    <3> QED BY <3>1, <3>3, <3>4, RunningUnchanged
  <2> QED BY <2>1, <2>2, <2>3
<1>3. ASSUME NEW w \in Workers, Run(w) PROVE RunningExact'
  <2>1. ColdStarts' = ColdStarts /\ Unstarted' = Unstarted
    BY <1>3 DEF Run, ScanShard, PopBatch, StartTask, EndTask, TaskDone,
       TaskWake, LeaveRunning, AddToIdle, ColdStarts, Unstarted
  <2>2. CASE LeaveRunning(w)
    <3>1. w \in ActiveWorkers /\ ActiveWorkers' = ActiveWorkers \ {w}
      BY <2>2 DEF LeaveRunning, WGoto, ActiveWorkers, Active, TypeInv, TypeOK,
         WorkerTypes
    <3>2. Cardinality(ActiveWorkers') = Cardinality(ActiveWorkers) - 1
      BY <3>1, RunningSizes, FS_RemoveElement
    <3>3. runningWorkersNum' = runningWorkersNum - 1
      BY <2>2 DEF LeaveRunning
    <3>4. Unstarted \in Nat
      BY <1>0 DEF Unstarted
    <3>5. runningWorkersNum' = Cardinality(ActiveWorkers')
                                 + Cardinality(ColdStarts') + Unstarted'
      BY <1>0, <2>1, <3>2, <3>3, <3>4
    <3> QED BY <3>5 DEF RunningExact, ActiveWorkers, ColdStarts, Unstarted
  <2>3. CASE AddToIdle(w)
    <3>1. ActiveWorkers' = ActiveWorkers /\ UNCHANGED runningWorkersNum
      BY <2>3 DEF AddToIdle, WGoto, ActiveWorkers, Active, TypeInv, TypeOK,
         WorkerTypes
    <3> QED BY <2>1, <3>1, RunningUnchanged
  <2>4. CASE ~LeaveRunning(w) /\ ~AddToIdle(w)
    <3>1. /\ wpc[w] \in Active
          /\ UNCHANGED runningWorkersNum
          /\ UNCHANGED wpc \/ \E label \in Active :
                                wpc' = [wpc EXCEPT ![w] = label]
      BY <1>3, <2>4 DEF Run, ScanShard, PopBatch, StartTask, EndTask, TaskDone,
         TaskWake, NextTask, WGoto, Active
    <3>2. ActiveWorkers' = ActiveWorkers
      BY <3>1, SameActive
    <3> QED BY <2>1, <3>1, <3>2, RunningUnchanged
  <2> QED BY <2>2, <2>3, <2>4
<1>4. CASE Scaler
  <2>1. ColdStarts' = ColdStarts
    BY <1>4 DEF Scaler, ScalerLoad, ScalerDecide, ScalerRecheck, ScalerAdd,
       ScalerTake, ScalerStart, ScalerLoadClosed, ScalerLoadPending, ColdStarts
  <2>2. CASE ScalerAdd
    <3>1. /\ ActiveWorkers' = ActiveWorkers
          /\ Unstarted = 0 /\ Unstarted' = toSpawn
          /\ runningWorkersNum' = runningWorkersNum + toSpawn
      BY <2>2 DEF ScalerAdd, SGoto, ActiveWorkers, Unstarted
    <3>2. runningWorkersNum' = Cardinality(ActiveWorkers')
                                 + Cardinality(ColdStarts') + Unstarted'
      BY <1>0, <2>1, <3>1
    <3> QED BY <3>2 DEF RunningExact, ActiveWorkers, ColdStarts, Unstarted
  <2>3. CASE ScalerStart
    <3>1. spawning \in Workers /\ wpc[spawning] \in {"none", "parked"}
      BY <2>3 DEF ScalerStart, TypeInv, TypeOK, ScalerTypes, SpawnInv,
         WorkerOwnedOnce
    <3>2. Cardinality(ActiveWorkers') = Cardinality(ActiveWorkers) + 1
      BY <2>3, <3>1, StartedWorker DEF ScalerStart, StartWorker
    <3>3. toSpawn > 0 /\ spc = "start" /\ UNCHANGED runningWorkersNum
      BY <2>3 DEF ScalerStart, TypeInv, SpawnInv
    <3>4. Unstarted = toSpawn /\ Unstarted' = toSpawn - 1
      BY <1>0, <2>3, <3>3 DEF ScalerStart, SGoto, Unstarted
    <3>5. runningWorkersNum' = Cardinality(ActiveWorkers')
                                 + Cardinality(ColdStarts') + Unstarted'
      BY <1>0, <2>1, <3>2, <3>3, <3>4
    <3> QED BY <3>5 DEF RunningExact, ActiveWorkers, ColdStarts, Unstarted
  <2>4. CASE ~ScalerAdd /\ ~ScalerStart
    <3>1. UNCHANGED <<wpc, runningWorkersNum>>
      BY <1>4, <2>4 DEF Scaler, ScalerLoad, ScalerDecide, ScalerRecheck,
         ScalerTake, ScalerLoadClosed, ScalerLoadPending
    <3>2. Unstarted' = Unstarted
      BY <1>4, <2>4 DEF Scaler, ScalerLoad, ScalerDecide, ScalerRecheck,
         ScalerTake, ScalerLoadClosed, ScalerLoadPending, SGoto, Unstarted
    <3>3. ActiveWorkers' = ActiveWorkers
      BY <3>1 DEF ActiveWorkers
    <3> QED BY <2>1, <3>1, <3>2, <3>3, RunningUnchanged
  <2> QED BY <2>2, <2>3, <2>4
<1>5. CASE CleanerTick
  <2>1. PICK expired \in SUBSET idleWorks :
          wpc' = [w \in Workers |-> IF w \in expired THEN "none" ELSE wpc[w]]
    BY <1>5 DEF CleanerTick
  <2>2. ActiveWorkers' = ActiveWorkers
    BY <2>1 DEF ActiveWorkers, Active, WorkerOwnedOnce
  <2>3. /\ ColdStarts' = ColdStarts /\ Unstarted' = Unstarted
        /\ UNCHANGED runningWorkersNum
    BY <1>5 DEF CleanerTick, ColdStarts, Unstarted
  <2> QED BY <2>2, <2>3, RunningUnchanged
<1>6. CASE \/ CleanerStop
           \/ \E v \in Waiters : WaitCall(v) \/ WaitReturn(v)
           \/ \E c \in Closers : CloseCAS(c) \/ Close(c)
  <2>1. UNCHANGED <<wpc, pc, spc, toSpawn, runningWorkersNum>>
    BY <1>6 DEF CleanerStop, WaitCall, WaitReturn, CloseCAS, Close,
       CloseBuffer, CloseChannel
  <2>2. /\ ActiveWorkers' = ActiveWorkers /\ ColdStarts' = ColdStarts
        /\ Unstarted' = Unstarted
    BY <2>1 DEF ActiveWorkers, ColdStarts, Unstarted
  <2> QED BY <2>1, <2>2, RunningUnchanged
<1> QED BY <1>1, <1>2, <1>3, <1>4, <1>5, <1>6 DEF Next

\* runningWorkersNum is exact in every state, however cold starts, the scaler
\* and parking workers interleave.
THEOREM RunningCount == Spec => []RunningExact
BY RunningInit, RunningStep, WorkerOwnership, TypeInvariant, PTL DEF Spec

(***************************************************************************)
(* The bound on the running count.  Between the scaler's check of the      *)
(* capacity and its addition only a cold start may raise the count, and    *)
(* only from zero.                                                         *)
(***************************************************************************)

BoundInv ==
  /\ runningWorkersNum <= Capacity + 1
  /\ spc = "add" => /\ toSpawn <= Capacity
                    /\ runningWorkersNum + toSpawn <= Capacity + 1

LEMMA RunningNonNegative ==
  ASSUME TypeInv, RunningExact
  PROVE  runningWorkersNum \in Nat
<1>1. Unstarted \in Nat
  BY DEF Unstarted, TypeInv, TypeOK, ScalerTypes
<1> QED BY <1>1, RunningIs, RunningSizes

LEMMA BoundStep == TypeInv /\ RunningExact /\ BoundInv /\ [Next]_vars => BoundInv'
<1> SUFFICES ASSUME TypeInv, RunningExact, BoundInv, [Next]_vars
             PROVE  BoundInv'
  OBVIOUS
<1> USE DEF poolVars, queueVars, drainVars, submitVars, workerVars, scalerVars,
            waitVars, submitFrame, workerFrame, scalerFrame, callFrame
<1>1. runningWorkersNum \in Nat /\ toSpawn \in Nat /\ Capacity \in Nat \ {0}
  BY RunningNonNegative, SizesAssumption DEF TypeInv, TypeOK, ScalerTypes
<1>2. CASE UNCHANGED <<runningWorkersNum, spc, toSpawn>>
  BY <1>2 DEF BoundInv
<1>3. ASSUME NEW t \in Tasks, ColdStartCAS(t) PROVE BoundInv'
  BY <1>1, <1>3 DEF ColdStartCAS, BoundInv
<1>4. ASSUME NEW w \in Workers, LeaveRunning(w) PROVE BoundInv'
  BY <1>1, <1>4 DEF LeaveRunning, BoundInv
<1>5. CASE ScalerRecheck
  BY <1>1, <1>5 DEF ScalerRecheck, SGoto, Lesser, BoundInv
<1>6. CASE ScalerAdd
  BY <1>1, <1>6 DEF ScalerAdd, SGoto, BoundInv
<1>7. CASE \/ ScalerLoad \/ ScalerDecide \/ ScalerTake \/ ScalerStart
           \/ ScalerLoadClosed \/ ScalerLoadPending
  BY <1>7 DEF ScalerLoad, ScalerDecide, ScalerTake, ScalerStart,
     ScalerLoadClosed, ScalerLoadPending, SGoto, BoundInv
<1>8. ASSUME NEW t \in Tasks, SubmitCall(t) \/ Submit(t) \/ ContextDone(t),
             ~ColdStartCAS(t)
      PROVE  UNCHANGED <<runningWorkersNum, spc, toSpawn>>
  BY <1>8 DEF SubmitCall, Submit, ContextDone, CheckClosed, LoadRunning,
     ColdStartWorker, PickShard, TrySend, PushBuffer, ForwardHead, RepickShard,
     BlockedSelect, RejectDone, RejectWake
<1>9. ASSUME NEW w \in Workers, Run(w), ~LeaveRunning(w)
      PROVE  UNCHANGED <<runningWorkersNum, spc, toSpawn>>
  BY <1>9 DEF Run, ScanShard, PopBatch, StartTask, EndTask, TaskDone, TaskWake,
     AddToIdle
<1>10. CASE \/ CleanerTick \/ CleanerStop
            \/ \E v \in Waiters : WaitCall(v) \/ WaitReturn(v)
            \/ \E c \in Closers : CloseCAS(c) \/ Close(c)
            \/ UNCHANGED vars
  BY <1>2, <1>10 DEF CleanerTick, CleanerStop, WaitCall, WaitReturn, CloseCAS,
     Close, CloseBuffer, CloseChannel, vars
<1> QED BY <1>2, <1>3, <1>4, <1>5, <1>6, <1>7, <1>8, <1>9, <1>10
        DEF Next, Scaler

\* At most one worker more than the capacity ever runs, for every capacity and
\* any number of submitters racing through the cold start.
THEOREM RunningBounded == Spec => []RunningBound
<1>1. Init => BoundInv
  BY SizesAssumption DEF Init, BoundInv
<1>2. BoundInv => RunningBound
  BY DEF BoundInv, RunningBound
<1> QED BY <1>1, <1>2, BoundStep, RunningCount, TypeInvariant, PTL DEF Spec

=============================================================================
