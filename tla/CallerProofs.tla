---------------------------- MODULE CallerProofs ----------------------------
(***************************************************************************)
(* Proofs about what the callers of AgilePool rely on: Close closes the    *)
(* channel once, the scaler ends only when the pool is drained, and Wait   *)
(* does not return early.                                                  *)
(***************************************************************************)
EXTENDS TaskProofs

(***************************************************************************)
(* What the steps leave alone.                                             *)
(***************************************************************************)

LEMMA SubmitterKeeps ==
  ASSUME NEW t \in Tasks, SubmitCall(t) \/ Submit(t)
  PROVE  /\ UNCHANGED submitFrame
         /\ \E label \in SubmitPc \ {"new"} : Goto(t, label)
         /\ UNCHANGED drainVars \/ RejectWake(t)
<1>1. UNCHANGED submitFrame
  BY DEF SubmitCall, Submit, CheckClosed, LoadRunning, ColdStartCAS,
     ColdStartWorker, PickShard, TrySend, PushBuffer, ForwardHead, RepickShard,
     BlockedSelect, RejectDone, RejectWake
<1>2. \E label \in SubmitPc \ {"new"} : Goto(t, label)
  <2> USE DEF SubmitPc, Submitting
  <2>1. CASE SubmitCall(t) \/ CheckClosed(t) \/ LoadRunning(t) \/ ColdStartCAS(t)
             \/ ColdStartWorker(t) \/ PickShard(t) \/ TrySend(t)
    BY <2>1 DEF SubmitCall, CheckClosed, LoadRunning, ColdStartCAS,
       ColdStartWorker, PickShard, TrySend
  <2>2. CASE PushBuffer(t) \/ ForwardHead(t) \/ RepickShard(t)
             \/ BlockedSelect(t) \/ RejectDone(t) \/ RejectWake(t)
    BY <2>2 DEF PushBuffer, ForwardHead, RepickShard, BlockedSelect, RejectDone,
       RejectWake
  <2> QED BY <2>1, <2>2 DEF Submit
<1>3. UNCHANGED drainVars \/ RejectWake(t)
  BY DEF SubmitCall, Submit, CheckClosed, LoadRunning, ColdStartCAS,
     ColdStartWorker, PickShard, TrySend, PushBuffer, ForwardHead, RepickShard,
     BlockedSelect, RejectDone
<1> QED BY <1>1, <1>2, <1>3

LEMMA WorkerKeeps ==
  ASSUME NEW w \in Workers, Run(w)
  PROVE  UNCHANGED workerFrame /\ (UNCHANGED drainVars \/ TaskWake(w))
BY DEF Run, ScanShard, PopBatch, StartTask, EndTask, TaskDone, TaskWake,
   LeaveRunning, AddToIdle

LEMMA ScalerKeeps ==
  ASSUME Scaler
  PROVE  UNCHANGED scalerFrame
BY DEF Scaler, ScalerLoad, ScalerDecide, ScalerRecheck, ScalerAdd, ScalerTake,
   ScalerStart, ScalerLoadClosed, ScalerLoadPending

(***************************************************************************)
(* Close.  The winner of the swap of closed is alone in what follows it.   *)
(***************************************************************************)

CloseInv ==
  /\ \A c \in Closers : closePc[c] \in {"buffer", "channel"}
       => /\ closed /\ ~closePoolCn
          /\ \A d \in Closers \ {c} : closePc[d] \notin {"buffer", "channel"}
  /\ closePoolCn => closed

LEMMA CloseStep == TypeInv /\ CloseInv /\ [Next]_vars => CloseInv'
<1> SUFFICES ASSUME TypeInv, CloseInv, [Next]_vars PROVE CloseInv'
  OBVIOUS
<1>1. closePc \in [Closers -> {"idle", "buffer", "channel", "returned"}]
  BY DEF TypeInv, TypeOK, CallerTypes
<1>2. CASE \E c \in Closers : CloseCAS(c)
  BY <1>1, <1>2 DEF CloseCAS, CloseInv
<1>3. CASE \E c \in Closers : CloseBuffer(c)
  BY <1>1, <1>3 DEF CloseBuffer, CloseInv
<1>4. CASE \E c \in Closers : CloseChannel(c)
  BY <1>1, <1>4 DEF CloseChannel, CloseInv
<1>5. CASE UNCHANGED <<closePc, closed, closePoolCn>>
  BY <1>5 DEF CloseInv
<1>6. CASE \E t \in Tasks : SubmitCall(t) \/ Submit(t)
  BY <1>5, <1>6, SubmitterKeeps DEF submitFrame, poolVars
<1>7. CASE \E w \in Workers : Run(w)
  BY <1>5, <1>7, WorkerKeeps DEF workerFrame, poolVars
<1>8. CASE \/ Scaler \/ CleanerTick \/ CleanerStop
           \/ \E t \in Tasks : ContextDone(t)
           \/ \E v \in Waiters : WaitCall(v) \/ WaitReturn(v)
  BY <1>5, <1>8, ScalerKeeps DEF CleanerTick, CleanerStop, ContextDone, WaitCall,
     WaitReturn, scalerFrame, poolVars
<1>9. CASE UNCHANGED vars
  BY <1>5, <1>9 DEF vars, poolVars
<1> QED BY <1>2, <1>3, <1>4, <1>6, <1>7, <1>8, <1>9 DEF Next, Close

\* Whoever calls Close, and however often, the channel closePoolCn is closed
\* once: the swap of closed lets one caller through.
THEOREM ChannelClosedOnce == Spec => []ClosedOnce
<1>1. Init => CloseInv
  BY DEF Init, CloseInv
<1>2. CloseInv => ClosedOnce
  BY DEF CloseInv, ClosedOnce
<1> QED BY <1>1, <1>2, CloseStep, TypeInvariant, PTL DEF Spec

(***************************************************************************)
(* The end of the scaler.  Once it has stopped, a submission meets the     *)
(* closed flag, so no task in flight gets further than the check of it.    *)
(***************************************************************************)

DrainInv ==
  /\ spc = "drained?" => closed
  /\ spc = "stopped" => /\ closed
                        /\ \A t \in InFlight : pc[t] \in {"check", "done"}

LEMMA PendingZero ==
  ASSUME TypeInv, PendingExact, pendingTasks = 0
  PROVE  InFlight = {}
BY FlightFinite, FS_EmptySet DEF PendingExact

\* What a submission under way does when the pool is closed and it has not
\* passed the check.
LEMMA ClosedSubmitter ==
  ASSUME TypeInv, NEW t \in Tasks, SubmitCall(t) \/ Submit(t), closed,
         pc[t] \in {"check", "done"}, ~RejectDone(t)
  PROVE  pc'[t] = "done"
BY DEF SubmitCall, Submit, CheckClosed, LoadRunning, ColdStartCAS, ColdStartWorker,
   PickShard, TrySend, PushBuffer, ForwardHead, RepickShard, BlockedSelect,
   RejectDone, RejectWake, Goto, TypeInv, TypeOK, SubmitterTypes

LEMMA DrainStep ==
  ASSUME TypeInv, WorkerOwnedOnce, TaskInv, PendingExact, DrainInv, [Next]_vars
  PROVE  DrainInv'
<1>1. ASSUME NEW t \in Tasks, SubmitCall(t) \/ Submit(t) PROVE DrainInv'
  <2>1. UNCHANGED <<spc, closed>> /\ \A x \in Tasks \ {t} : pc'[x] = pc[x]
    BY <1>1, SubmitterKeeps DEF submitFrame, poolVars, scalerVars, Goto, TypeInv,
       TypeOK, SubmitterTypes
  <2>2. InFlight \subseteq Tasks
    BY InFlightTasks DEF TypeInv, TypeOK
  <2>3. ASSUME spc = "stopped", NEW x \in InFlight'
        PROVE  pc'[x] \in {"check", "done"}
    <3>1. CASE SubmitCall(t) /\ pc'[t] = "check" /\ Enters(t)
      BY <2>1, <2>2, <2>3, <3>1 DEF Enters, DrainInv
    <3>2. CASE RejectDone(t) /\ Leaves(t)
      BY <2>1, <2>2, <2>3, <3>2 DEF Leaves, DrainInv
    <3>3. CASE ~RejectDone(t) /\ Stays
      <4>1. x \in InFlight /\ x \in Tasks /\ pc[x] \in {"check", "done"} /\ closed
        BY <2>2, <2>3, <3>3 DEF Stays, DrainInv
      <4> QED BY <1>1, <2>1, <3>3, <4>1, ClosedSubmitter
    <3> QED BY <1>1, <3>1, <3>2, <3>3, SubmitterFlight
  <2> QED BY <2>1, <2>3 DEF DrainInv
<1>2. ASSUME NEW w \in Workers, Run(w) PROVE DrainInv'
  <2>1. UNCHANGED <<spc, closed, pc>>
    BY <1>2, WorkerKeeps DEF workerFrame, poolVars, scalerVars, submitVars
  <2>2. InFlight' \subseteq InFlight
    BY <1>2, WorkerFlight DEF Leaves, Stays
  <2> QED BY <2>1, <2>2 DEF DrainInv
<1>3. CASE Scaler
  <2>1. UNCHANGED <<closed, pc>> /\ InFlight' = InFlight
    BY <1>3, ScalerKeeps, ScalerFlight DEF scalerFrame, poolVars, submitVars, Stays
  <2>2. spc' = "drained?" => closed
    BY <1>3 DEF Scaler, ScalerLoad, ScalerDecide, ScalerRecheck, ScalerAdd,
       ScalerTake, ScalerStart, ScalerLoadClosed, ScalerLoadPending, SGoto
  <2>3. spc' = "stopped" => spc = "drained?" /\ pendingTasks = 0
    BY <1>3 DEF Scaler, ScalerLoad, ScalerDecide, ScalerRecheck, ScalerAdd,
       ScalerTake, ScalerStart, ScalerLoadClosed, ScalerLoadPending, SGoto
  <2> QED BY <2>1, <2>2, <2>3, PendingZero DEF DrainInv
<1>4. CASE \/ \E t \in Tasks : ContextDone(t)
           \/ CleanerTick \/ CleanerStop
           \/ \E v \in Waiters : WaitCall(v) \/ WaitReturn(v)
           \/ \E c \in Closers : CloseCAS(c) \/ Close(c)
           \/ UNCHANGED vars
  <2>1. UNCHANGED <<pc, spc>> /\ (closed => closed')
    <3>1. CASE UNCHANGED vars
      BY <3>1 DEF vars, poolVars, submitVars, scalerVars
    <3>2. CASE (\E t \in Tasks : ContextDone(t)) \/ CleanerTick \/ CleanerStop
      BY <3>2 DEF ContextDone, CleanerTick, CleanerStop, callFrame, poolVars,
         submitVars, scalerVars
    <3>3. ASSUME NEW v \in Waiters, WaitCall(v) \/ WaitReturn(v)
          PROVE  UNCHANGED <<pc, spc>> /\ (closed => closed')
      BY <3>3 DEF WaitCall, WaitReturn, callFrame, poolVars, submitVars, scalerVars
    <3>4. ASSUME NEW c \in Closers, CloseCAS(c) \/ Close(c)
          PROVE  UNCHANGED <<pc, spc>> /\ (closed => closed')
      BY <3>4 DEF CloseCAS, Close, CloseBuffer, CloseChannel, callFrame,
         submitVars, scalerVars
    <3> QED BY <1>4, <3>1, <3>2, <3>3, <3>4
  <2>2. InFlight' = InFlight
    BY <1>4, CallerFlight DEF Stays
  <2> QED BY <2>1, <2>2 DEF DrainInv
<1> QED BY <1>1, <1>2, <1>3, <1>4 DEF Next

\* The scaler ends only when no task will ever need a worker again: it loads
\* closed before it loads the pending count.
THEOREM ScalerStops == Spec => []ScalerStopsDrained
<1>1. Init => DrainInv
  BY DEF Init, DrainInv
<1>2. TypeInv /\ WorkerOwnedOnce /\ TaskInv /\ PendingExact /\ DrainInv
        /\ [Next]_vars => DrainInv'
  BY DrainStep
<1>3. TypeInv /\ TaskInv /\ DrainInv => ScalerStopsDrained
  <2> SUFFICES ASSUME TypeInv, TaskInv, DrainInv, spc = "stopped"
               PROVE  /\ closed
                      /\ Queued \cup UNION {Held(w) : w \in Workers} = {}
                      /\ \A t \in Tasks : pc[t] \in Submitting
                                            => pc[t] \in {"check", "done"}
    BY DEF ScalerStopsDrained
  <2>1. closed /\ \A t \in InFlight : pc[t] \in {"check", "done"}
    BY DEF DrainInv
  <2>2. \A t \in Placed : pc[t] \in {"accepted", "forward"} /\ t \in InFlight
    BY InFlightIs DEF TaskInv, SubmittedInv, Placed
  <2>3. Queued \cup UNION {Held(w) : w \in Workers} \subseteq Placed
    BY AtIs, BeyondIs DEF Queued, Held, Placed, Buffered, OffBuffer
  <2>4. \A t \in Tasks : pc[t] \in Submitting => t \in InFlight
    BY InFlightIs
  <2> QED BY <2>1, <2>2, <2>3, <2>4
<1> QED BY <1>1, <1>2, <1>3, TaskInvariant, PendingCount, TypeInvariant,
           WorkerOwnership, PTL DEF Spec

(***************************************************************************)
(* Wait.  A drain channel is closed when no task is in flight, and nobody  *)
(* joins it after that; a task that enters later is owed to no waiter.     *)
(***************************************************************************)

\* The waiter has returned, or may.
Released(v) ==
  waitPc[v] = "returned" \/ (waitPc[v] = "waiting" /\ waitCh[v] \in drained)

WaitInv ==
  /\ \A v \in Waiters : \A t \in owed[v] : pc[t] # "new"
  /\ \A v \in Waiters : Released(v) => owed[v] \cap InFlight = {}
  /\ drainCh # None => drainCh \notin drained /\ waitPc[drainCh] # "idle"
  /\ \A v \in drained : waitPc[v] # "idle"

LEMMA FlightBegun ==
  ASSUME TaskInv
  PROVE  \A t \in InFlight : pc[t] # "new"
BY InFlightIs DEF TaskInv, SubmittedInv, Placed, Submitting

\* A step that leaves the waiters and the drain channels alone.
LEMMA WaitUnchanged ==
  ASSUME TypeInv, WaitInv, UNCHANGED <<waitVars, drainVars>>,
         \A t \in Tasks : pc'[t] = "new" => pc[t] = "new",
         \A t \in InFlight' : t \in InFlight \/ pc[t] = "new"
  PROVE  WaitInv'
<1>1. \A v \in Waiters : owed[v] \subseteq Tasks
  BY DEF TypeInv, TypeOK, CallerTypes
<1>2. \A v \in Waiters : \A t \in owed'[v] : pc'[t] # "new"
  BY <1>1 DEF WaitInv, waitVars
<1>3. \A v \in Waiters : Released(v)' => owed'[v] \cap InFlight' = {}
  BY DEF WaitInv, Released, waitVars, drainVars
<1>4. /\ drainCh' # None => drainCh' \notin drained' /\ waitPc'[drainCh'] # "idle"
      /\ \A v \in drained' : waitPc'[v] # "idle"
  BY DEF WaitInv, waitVars, drainVars
<1> QED BY <1>2, <1>3, <1>4 DEF WaitInv

\* The second half of done.
LEMMA WaitWake ==
  ASSUME TypeInv, PendingExact, WaitInv, UNCHANGED waitVars, CloseDrainChannel,
         \A t \in Tasks : pc'[t] = "new" => pc[t] = "new",
         InFlight' = InFlight
  PROVE  WaitInv'
<1>1. CASE pendingTasks = 0 /\ drainCh # None
  <2>1. InFlight' = {}
    BY <1>1, PendingZero
  <2>2. drained' = drained \cup {drainCh} /\ drainCh' = None
    BY <1>1 DEF CloseDrainChannel
  <2>3. \A v \in Waiters : owed[v] \subseteq Tasks
    BY DEF TypeInv, TypeOK, CallerTypes
  <2>4. \A v \in Waiters : \A t \in owed'[v] : pc'[t] # "new"
    BY <2>3 DEF WaitInv, waitVars
  <2>5. \A v \in drained' : waitPc'[v] # "idle"
    BY <1>1, <2>2 DEF WaitInv, waitVars
  <2> QED BY <2>1, <2>2, <2>4, <2>5 DEF WaitInv
<1>2. CASE UNCHANGED drainVars
  BY <1>2, WaitUnchanged
<1> QED BY <1>1, <1>2 DEF CloseDrainChannel

LEMMA WaitBegins ==
  ASSUME TypeInv, TaskInv, PendingExact, WaitInv, NEW v \in Waiters, WaitCall(v),
         InFlight' = InFlight
  PROVE  WaitInv'
<1>1. /\ waitPc[v] = "idle" /\ UNCHANGED <<pc, drained>>
      /\ owed' = [owed EXCEPT ![v] = InFlight]
  BY DEF WaitCall, callFrame, submitVars
<1>2. /\ waitPc \in [Waiters -> {"idle", "waiting", "returned"}]
      /\ waitCh \in [Waiters -> Waiters \cup {None}]
      /\ owed \in [Waiters -> SUBSET Tasks]
      /\ drained \subseteq Waiters /\ drainCh \in Waiters \cup {None}
      /\ v # None
  BY ActorsAssumption DEF TypeInv, TypeOK, CallerTypes
<1>3. \A x \in Waiters : \A t \in owed'[x] : pc'[t] # "new"
  BY <1>1, <1>2, FlightBegun DEF WaitInv
<1>4. v \notin drained
  BY <1>1 DEF WaitInv
<1>5. CASE pendingTasks = 0
  <2>1. InFlight' = {}
    BY <1>5, PendingZero
  <2>2. waitPc' = [waitPc EXCEPT ![v] = "returned"] /\ drainCh' = drainCh
    BY <1>5 DEF WaitCall
  <2>3. /\ drainCh' # None => drainCh' \notin drained' /\ waitPc'[drainCh'] # "idle"
        /\ \A x \in drained' : waitPc'[x] # "idle"
    BY <1>1, <1>2, <2>2 DEF WaitInv
  <2> QED BY <1>3, <2>1, <2>3 DEF WaitInv
<1>6. CASE pendingTasks # 0
  <2>1. /\ waitPc' = [waitPc EXCEPT ![v] = "waiting"]
        /\ drainCh' = IF drainCh = None THEN v ELSE drainCh
        /\ waitCh' = [waitCh EXCEPT ![v] = drainCh']
    BY <1>6 DEF WaitCall
  <2>2. drainCh' \notin drained /\ waitPc'[drainCh'] # "idle"
    BY <1>2, <1>4, <2>1 DEF WaitInv
  <2>3. \A x \in drained' : waitPc'[x] # "idle"
    BY <1>1, <1>2, <2>1 DEF WaitInv
  <2>4. ASSUME NEW x \in Waiters, Released(x)'
        PROVE  owed'[x] \cap InFlight' = {}
    <3>1. x # v
      BY <1>1, <1>2, <2>1, <2>2, <2>4 DEF Released
    <3>2. Released(x) /\ owed'[x] = owed[x]
      BY <1>1, <1>2, <2>1, <2>4, <3>1 DEF Released
    <3> QED BY <3>2 DEF WaitInv
  <2> QED BY <1>1, <1>3, <2>2, <2>3, <2>4 DEF WaitInv
<1> QED BY <1>5, <1>6

LEMMA WaitStep ==
  ASSUME TypeInv, WorkerOwnedOnce, TaskInv, PendingExact, WaitInv, [Next]_vars
  PROVE  WaitInv'
<1>1. ASSUME NEW t \in Tasks, SubmitCall(t) \/ Submit(t) PROVE WaitInv'
  <2>1. UNCHANGED waitVars /\ (UNCHANGED drainVars \/ RejectWake(t))
    BY <1>1, SubmitterKeeps DEF submitFrame
  <2>2. \A x \in Tasks : pc'[x] = "new" => pc[x] = "new"
    BY <1>1, SubmitterKeeps DEF Goto, TypeInv, TypeOK, SubmitterTypes
  <2>3. \A x \in InFlight' : x \in InFlight \/ pc[x] = "new"
    BY <1>1, SubmitterFlight DEF Enters, Leaves, Stays, SubmitCall
  <2>4. CASE RejectWake(t)
    <3>1. pc[t] = "wake" /\ CloseDrainChannel
      BY <2>4 DEF RejectWake
    <3>2. ~SubmitCall(t) /\ ~RejectDone(t)
      BY <3>1 DEF SubmitCall, RejectDone
    <3>3. InFlight' = InFlight
      BY <1>1, <3>2, SubmitterFlight DEF Stays
    <3> QED BY <2>1, <2>2, <3>1, <3>3, WaitWake
  <2> QED BY <2>1, <2>2, <2>3, <2>4, WaitUnchanged
<1>2. ASSUME NEW w \in Workers, Run(w) PROVE WaitInv'
  <2>1. UNCHANGED <<waitVars, pc>> /\ (UNCHANGED drainVars \/ TaskWake(w))
    BY <1>2, WorkerKeeps DEF workerFrame, submitVars
  <2>2. InFlight' \subseteq InFlight
    BY <1>2, WorkerFlight DEF Leaves, Stays
  <2>3. CASE TaskWake(w)
    <3>1. CloseDrainChannel /\ ~TaskDone(w)
      BY <2>3 DEF TaskWake, TaskDone
    <3>2. InFlight' = InFlight
      BY <1>2, <3>1, WorkerFlight DEF Stays
    <3> QED BY <2>1, <3>1, <3>2, WaitWake
  <2> QED BY <2>1, <2>2, <2>3, WaitUnchanged
<1>3. CASE Scaler
  <2>1. UNCHANGED <<waitVars, drainVars, pc>> /\ InFlight' = InFlight
    BY <1>3, ScalerKeeps, ScalerFlight DEF scalerFrame, submitVars, Stays
  <2> QED BY <2>1, WaitUnchanged
<1>4. ASSUME NEW v \in Waiters, WaitCall(v) PROVE WaitInv'
  BY <1>4, CallerFlight, WaitBegins DEF Stays
<1>5. ASSUME NEW v \in Waiters, WaitReturn(v) PROVE WaitInv'
  <2>1. /\ waitPc[v] = "waiting" /\ waitCh[v] \in drained
        /\ waitPc' = [waitPc EXCEPT ![v] = "returned"]
        /\ UNCHANGED <<drainCh, drained, waitCh, owed, pc>>
    BY <1>5 DEF WaitReturn, drainVars, callFrame, submitVars
  <2>2. InFlight' = InFlight
    BY <1>5, CallerFlight DEF Stays
  <2>3. \A x \in Waiters : Released(x)' => Released(x)
    BY <2>1 DEF Released, TypeInv, TypeOK, CallerTypes
  <2>4. \A x \in Waiters \cup {None} : waitPc'[x] = "idle" => waitPc[x] = "idle"
    BY <2>1, ActorsAssumption DEF TypeInv, TypeOK, CallerTypes
  <2> QED BY <2>1, <2>2, <2>3, <2>4 DEF WaitInv, TypeInv, TypeOK, CallerTypes
<1>6. CASE \/ \E t \in Tasks : ContextDone(t)
           \/ CleanerTick \/ CleanerStop
           \/ \E c \in Closers : CloseCAS(c) \/ Close(c)
           \/ UNCHANGED vars
  <2>1. UNCHANGED <<waitVars, drainVars, pc>>
    BY <1>6 DEF ContextDone, CleanerTick, CleanerStop, CloseCAS, Close,
       CloseBuffer, CloseChannel, callFrame, vars, submitVars
  <2>2. InFlight' = InFlight
    BY <1>6, CallerFlight DEF Stays
  <2> QED BY <2>1, <2>2, WaitUnchanged
<1> QED BY <1>1, <1>2, <1>3, <1>4, <1>5, <1>6 DEF Next

LEMMA WaitInvariant == Spec => []WaitInv
<1>1. Init => WaitInv
  BY DEF Init, WaitInv, Released
<1>2. TypeInv /\ WorkerOwnedOnce /\ TaskInv /\ PendingExact /\ WaitInv
        /\ [Next]_vars => WaitInv'
  BY WaitStep
<1> QED BY <1>1, <1>2, TaskInvariant, PendingCount, TypeInvariant,
           WorkerOwnership, PTL DEF Spec

\* Wait does not return before the tasks that were pending at its call have
\* been completed or rejected: done repeats the zero check under drainMu before
\* it closes the channel.
THEOREM WaitCorrect == Spec => []WaitSound
<1>1. WaitInv => WaitSound
  BY DEF WaitInv, WaitSound, Released
<1> QED BY <1>1, WaitInvariant, PTL

=============================================================================
