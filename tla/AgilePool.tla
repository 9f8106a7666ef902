----------------------------- MODULE AgilePool -----------------------------
(***************************************************************************)
(* The pool itself: submitters, workers, the scaler, the cleaner of idle   *)
(* workers, Wait and Close, at the granularity of the atomic operations,   *)
(* channel operations and critical sections of pool.go and worker.go.      *)
(*                                                                         *)
(* A task stands for one call of a Submit function by a goroutine of its   *)
(* own; its life before it is queued is that goroutine's program counter   *)
(* pc[t].  A worker is a *worker struct and the goroutine that runs on it. *)
(* Hook dispatch, logging and the rate counters change no state kept here. *)
(***************************************************************************)
EXTENDS Integers, Sequences, FiniteSets, SequencesExt

CONSTANTS
  Tasks,        \* tasks, one submission each
  CtxTasks,     \* those submitted with SubmitCtx
  BeforeTasks,  \* those submitted with SubmitBefore
  WrappedTasks, \* those wrapped by UpdateTask and submitted with TrySubmit
  Parent,       \* the task whose body submits a task, or None
  Workers,      \* names for the *worker structs in existence at one time
  Waiters,      \* goroutines that call Wait
  Closers,      \* goroutines that call Close
  Capacity,     \* Pool.capacity
  NumShards,    \* len(Pool.taskQueues)
  ShardCap,     \* cap of each handoff channel
  MaxChunkLen,  \* maxChunkLen, the most tasks the overflow buffer takes
  BatchSize,    \* batchSize of worker.run
  NonBlock,     \* whether the work mode is NONBLOCK
  MaxExit,      \* bound on the scaler's compensation for exiting workers
  None          \* the absent task, worker, waiter or channel

ASSUME TasksAssumption ==
  /\ IsFiniteSet(Tasks) /\ None \notin Tasks
  /\ CtxTasks \subseteq Tasks
  /\ BeforeTasks \subseteq Tasks \ CtxTasks
  /\ WrappedTasks \subseteq Tasks \ (CtxTasks \cup BeforeTasks)
  /\ Parent \in [Tasks -> Tasks \cup {None}]

ASSUME ActorsAssumption ==
  /\ IsFiniteSet(Workers) /\ None \notin Workers
  /\ None \notin Waiters

\* WithWorkerNumCapacity ignores values that are not positive; NewPool gives
\* every shard at least one slot and a power of two of shards.
ASSUME SizesAssumption ==
  /\ Capacity \in Nat \ {0}
  /\ NumShards \in Nat \ {0}
  /\ ShardCap \in Nat \ {0}
  /\ MaxChunkLen \in Nat
  /\ BatchSize \in Nat \ {0}
  /\ MaxExit \in Nat
  /\ NonBlock \in BOOLEAN

Shards == 0 .. NumShards - 1

\* Tasks with a deadline or a cancellable context: the worker skips the body
\* once the context is done.
CancellableTasks == CtxTasks \cup BeforeTasks \cup WrappedTasks

VARIABLES
  \* fields of Pool and of its overflow buffer
  pendingTasks,      \* submitted and not yet completed or rejected
  closed,            \* Pool.closed
  closePoolCn,       \* whether the channel closePoolCn has been closed
  runningWorkersNum,
  sendSeq,           \* modulo NumShards, as nextShard uses it
  workerSeq,         \* modulo NumShards, as startWorker uses it
  taskQueues,        \* the handoff channel of each shard
  taskBuf,           \* the overflow buffer, oldest task first
  overflowClosed,
  taskMu,            \* the submitter that holds the buffer lock, or None
  idleWorks,         \* the idle container
  drainCh,           \* the waiter that made the current channel, or None
  drained,           \* the drain channels that have been closed
  \* submitting goroutines
  pc, shard, ctxDone,
  \* worker goroutines
  wpc, cursor, probe, batch,
  \* the scaler and the cleaner
  spc, seenRunning, toSpawn, spawning, cleaner,
  \* goroutines in Wait and Close
  waitPc, waitCh, closePc,
  \* history: what each waiter waits for; how often each body has run
  owed, runs

poolVars   == <<closed, closePoolCn, overflowClosed>>
queueVars  == <<sendSeq, taskQueues, taskBuf, taskMu>>
drainVars  == <<drainCh, drained>>
submitVars == <<pc, shard>>
workerVars == <<wpc, cursor, probe, batch>>
scalerVars == <<spc, seenRunning, toSpawn, spawning>>
waitVars   == <<waitPc, waitCh, owed>>

vars == <<pendingTasks, runningWorkersNum, workerSeq, idleWorks, ctxDone,
          cleaner, closePc, runs, poolVars, queueVars, drainVars, submitVars,
          workerVars, scalerVars, waitVars>>

\* What no step of a submitter, of a worker, of the scaler, and of a caller
\* of Wait or Close changes.
submitFrame == <<idleWorks, ctxDone, cleaner, closePc, runs, poolVars,
                 scalerVars, waitVars>>
workerFrame == <<workerSeq, ctxDone, cleaner, closePc, poolVars, sendSeq,
                 taskMu, submitVars, scalerVars, waitVars>>
scalerFrame == <<pendingTasks, ctxDone, cleaner, closePc, runs, poolVars,
                 queueVars, drainVars, submitVars, waitVars>>
callFrame   == <<pendingTasks, runningWorkersNum, workerSeq, idleWorks, runs,
                 queueVars, submitVars, workerVars, scalerVars>>
----------------------------------------------------------------------------
(* The program counters. *)

\* A submitter between addPending and the return of submit.
Submitting == {"check", "load", "cas", "start", "pick", "send", "push",
               "forward", "repick", "blocked", "done"}

SubmitPc == {"new", "wake", "accepted", "rejected"} \cup Submitting

\* A worker goroutine that the running count includes.
Active == {"scan", "pop", "start", "body", "done", "wake", "park"}

WorkerPc == {"none", "exit", "parked"} \cup Active

ScalerPc == {"load", "decide", "recheck", "add", "take", "start",
             "closed?", "drained?", "stopped"}

----------------------------------------------------------------------------
(* Submitters: Submit, TrySubmit, SubmitCtx, SubmitBefore, submit. *)

Goto(t, label) == pc' = [pc EXCEPT ![t] = label]

\* The channel a submitter picked is a local of submit.
ForgetShard(t) == shard' = [shard EXCEPT ![t] = 0]

\* The tasks a worker is executing, whose bodies may submit others.
Executing == {batch[w][1] : w \in {v \in Workers : wpc[v] = "body"}}

\* SubmitCtx drops a task whose context is already done; every other call
\* registers the task before anything else.
SubmitCall(t) ==
  /\ pc[t] = "new"
  /\ Parent[t] # None => Parent[t] \in Executing
  /\ IF t \in CtxTasks \cap ctxDone
       THEN Goto(t, "rejected") /\ UNCHANGED pendingTasks
       ELSE Goto(t, "check") /\ pendingTasks' = pendingTasks + 1
  /\ UNCHANGED <<submitFrame, runningWorkersNum, workerSeq, queueVars,
                 drainVars, shard, workerVars>>

\* Variant: the closed path returns without the balancing done.
CheckClosedUnbalanced(t) ==
  /\ pc[t] = "check"
  /\ Goto(t, IF closed THEN "rejected" ELSE "load")
  /\ UNCHANGED <<submitFrame, pendingTasks, runningWorkersNum, workerSeq,
                 queueVars, drainVars, shard, workerVars>>

CheckClosed(t) ==
  /\ pc[t] = "check"
  /\ Goto(t, IF closed THEN "done" ELSE "load")
  /\ UNCHANGED <<submitFrame, pendingTasks, runningWorkersNum, workerSeq,
                 queueVars, drainVars, shard, workerVars>>

LoadRunning(t) ==
  /\ pc[t] = "load"
  /\ Goto(t, IF runningWorkersNum = 0 THEN "cas" ELSE "pick")
  /\ UNCHANGED <<submitFrame, pendingTasks, runningWorkersNum, workerSeq,
                 queueVars, drainVars, shard, workerVars>>

\* Variant: an increment where the code has a compare-and-swap.
ColdStartIncrement(t) ==
  /\ pc[t] = "cas"
  /\ runningWorkersNum' = runningWorkersNum + 1
  /\ Goto(t, "start")
  /\ UNCHANGED <<submitFrame, pendingTasks, workerSeq, queueVars, drainVars,
                 shard, workerVars>>

ColdStartCAS(t) ==
  /\ pc[t] = "cas"
  /\ IF runningWorkersNum = 0
       THEN runningWorkersNum' = 1 /\ Goto(t, "start")
       ELSE Goto(t, "pick") /\ UNCHANGED runningWorkersNum
  /\ UNCHANGED <<submitFrame, pendingTasks, workerSeq, queueVars, drainVars,
                 shard, workerVars>>

\* startWorker: the next scan start, and a goroutine in worker.run.
StartWorker(w) ==
  /\ workerSeq' = (workerSeq + 1) % NumShards
  /\ cursor' = [cursor EXCEPT ![w] = workerSeq']
  /\ wpc' = [wpc EXCEPT ![w] = "scan"]
  /\ probe' = [probe EXCEPT ![w] = 0]
  /\ UNCHANGED batch

\* workerPool.Get allocates a struct, since nothing is ever put back: it takes
\* a name that is not in use.
Unused(w) == wpc[w] = "none" /\ w # spawning
NewWorker == CHOOSE w \in Workers : Unused(w)
CanAllocate == \E w \in Workers : Unused(w)

\* The winner of the compare-and-swap never looks in the idle container.
ColdStartWorker(t) ==
  /\ pc[t] = "start"
  /\ CanAllocate
  /\ StartWorker(NewWorker)
  /\ Goto(t, "pick")
  /\ UNCHANGED <<submitFrame, pendingTasks, runningWorkersNum, queueVars,
                 drainVars, shard>>

\* Variant: the cursor is not masked.
NextShardUnmasked(t) ==
  /\ sendSeq' = sendSeq + 1
  /\ shard' = [shard EXCEPT ![t] = sendSeq']

\* nextShard: a shared round-robin cursor.
NextShard(t) ==
  /\ sendSeq' = (sendSeq + 1) % NumShards
  /\ shard' = [shard EXCEPT ![t] = sendSeq']

PickShard(t) ==
  /\ pc[t] = "pick"
  /\ NextShard(t)
  /\ Goto(t, "send")
  /\ UNCHANGED <<submitFrame, pendingTasks, runningWorkersNum, workerSeq,
                 taskQueues, taskBuf, taskMu, drainVars, workerVars>>

HasRoom(s) == Len(taskQueues[s]) < ShardCap

Enqueue(s, t) == taskQueues' = [taskQueues EXCEPT ![s] = Append(@, t)]

\* Variant: a NONBLOCK submission to a saturated shard returns as if sent.
TrySendDropped(t) ==
  /\ pc[t] = "send"
  /\ IF HasRoom(shard[t])
       THEN Enqueue(shard[t], t) /\ Goto(t, "accepted")
       ELSE /\ Goto(t, IF NonBlock THEN "accepted" ELSE "push")
            /\ UNCHANGED taskQueues
  /\ ForgetShard(t)
  /\ UNCHANGED <<submitFrame, pendingTasks, runningWorkersNum, workerSeq,
                 sendSeq, taskBuf, taskMu, drainVars, workerVars>>

\* Variant: a NONBLOCK rejection returns without the balancing done.
TrySendUnbalanced(t) ==
  /\ pc[t] = "send"
  /\ IF HasRoom(shard[t])
       THEN Enqueue(shard[t], t) /\ Goto(t, "accepted")
       ELSE /\ Goto(t, IF NonBlock THEN "rejected" ELSE "push")
            /\ UNCHANGED taskQueues
  /\ ForgetShard(t)
  /\ UNCHANGED <<submitFrame, pendingTasks, runningWorkersNum, workerSeq,
                 sendSeq, taskBuf, taskMu, drainVars, workerVars>>

\* The non-blocking send.  A saturated shard ends a NONBLOCK submission and
\* sends a BLOCK submission to the overflow buffer.
TrySend(t) ==
  /\ pc[t] = "send"
  /\ IF HasRoom(shard[t])
       THEN Enqueue(shard[t], t) /\ Goto(t, "accepted")
       ELSE Goto(t, IF NonBlock THEN "done" ELSE "push") /\ UNCHANGED taskQueues
  /\ ForgetShard(t)
  /\ UNCHANGED <<submitFrame, pendingTasks, runningWorkersNum, workerSeq,
                 sendSeq, taskBuf, taskMu, drainVars, workerVars>>

\* PushAndForward up to the send of tryForward: refuse when closed or full,
\* else append and, still holding the lock, pick a shard for the oldest task.
PushBuffer(t) ==
  /\ pc[t] = "push"
  /\ taskMu = None
  /\ \/ /\ overflowClosed
        /\ Goto(t, "done")
        /\ UNCHANGED <<sendSeq, taskBuf, taskMu, shard>>
     \/ /\ ~overflowClosed
        /\ Len(taskBuf) >= MaxChunkLen
        /\ Goto(t, "repick")
        /\ UNCHANGED <<sendSeq, taskBuf, taskMu, shard>>
     \/ /\ ~overflowClosed
        /\ Len(taskBuf) < MaxChunkLen
        /\ taskBuf' = Append(taskBuf, t)
        /\ taskMu' = t
        /\ NextShard(t)
        /\ Goto(t, "forward")
  /\ UNCHANGED <<submitFrame, pendingTasks, runningWorkersNum, workerSeq,
                 taskQueues, drainVars, workerVars>>

\* Variant: a forwarded task stays in the buffer.
ForwardWithoutPop(t) ==
  /\ pc[t] = "forward"
  /\ IF HasRoom(shard[t]) THEN Enqueue(shard[t], Head(taskBuf))
                          ELSE UNCHANGED taskQueues
  /\ taskMu' = None
  /\ Goto(t, "accepted")
  /\ ForgetShard(t)
  /\ UNCHANGED <<submitFrame, pendingTasks, runningWorkersNum, workerSeq,
                 sendSeq, taskBuf, drainVars, workerVars>>

\* Variant: the oldest task leaves the buffer although no shard took it.
ForwardLost(t) ==
  /\ pc[t] = "forward"
  /\ IF HasRoom(shard[t]) THEN Enqueue(shard[t], Head(taskBuf))
                          ELSE UNCHANGED taskQueues
  /\ taskBuf' = Tail(taskBuf)
  /\ taskMu' = None
  /\ Goto(t, "accepted")
  /\ ForgetShard(t)
  /\ UNCHANGED <<submitFrame, pendingTasks, runningWorkersNum, workerSeq,
                 sendSeq, drainVars, workerVars>>

\* The rest of PushAndForward: the oldest task leaves the buffer only if its
\* send succeeded; the lock is released either way.
ForwardHead(t) ==
  /\ pc[t] = "forward"
  /\ IF HasRoom(shard[t])
       THEN Enqueue(shard[t], Head(taskBuf)) /\ taskBuf' = Tail(taskBuf)
       ELSE UNCHANGED <<taskQueues, taskBuf>>
  /\ taskMu' = None
  /\ Goto(t, "accepted")
  /\ ForgetShard(t)
  /\ UNCHANGED <<submitFrame, pendingTasks, runningWorkersNum, workerSeq,
                 sendSeq, drainVars, workerVars>>

RepickShard(t) ==
  /\ pc[t] = "repick"
  /\ NextShard(t)
  /\ Goto(t, "blocked")
  /\ UNCHANGED <<submitFrame, pendingTasks, runningWorkersNum, workerSeq,
                 taskQueues, taskBuf, taskMu, drainVars, workerVars>>

\* Variant: a bare channel send, deaf to cancellation and shutdown.
BlockedSend(t) ==
  /\ pc[t] = "blocked"
  /\ HasRoom(shard[t]) /\ Enqueue(shard[t], t) /\ Goto(t, "accepted")
  /\ ForgetShard(t)
  /\ UNCHANGED <<submitFrame, pendingTasks, runningWorkersNum, workerSeq,
                 sendSeq, taskBuf, taskMu, drainVars, workerVars>>

\* Variant: the cancelled submitter returns without the balancing done.
BlockedSelectUnbalanced(t) ==
  /\ pc[t] = "blocked"
  /\ \/ HasRoom(shard[t]) /\ Enqueue(shard[t], t) /\ Goto(t, "accepted")
     \/ /\ t \in (CtxTasks \cup BeforeTasks) \cap ctxDone \/ closePoolCn
        /\ Goto(t, "rejected")
        /\ UNCHANGED taskQueues
  /\ ForgetShard(t)
  /\ UNCHANGED <<submitFrame, pendingTasks, runningWorkersNum, workerSeq,
                 sendSeq, taskBuf, taskMu, drainVars, workerVars>>

\* The select of a submitter that found both queues saturated.  Only
\* SubmitCtx and SubmitBefore pass a context that can become done.
BlockedSelect(t) ==
  /\ pc[t] = "blocked"
  /\ \/ HasRoom(shard[t]) /\ Enqueue(shard[t], t) /\ Goto(t, "accepted")
     \/ /\ t \in (CtxTasks \cup BeforeTasks) \cap ctxDone \/ closePoolCn
        /\ Goto(t, "done")
        /\ UNCHANGED taskQueues
  /\ ForgetShard(t)
  /\ UNCHANGED <<submitFrame, pendingTasks, runningWorkersNum, workerSeq,
                 sendSeq, taskBuf, taskMu, drainVars, workerVars>>

----------------------------------------------------------------------------
(* The pending count and Wait. *)

\* Variant: the channel is dropped and not closed.
DropDrainChannel ==
  IF pendingTasks = 0 /\ drainCh # None
    THEN drainCh' = None /\ UNCHANGED drained
    ELSE UNCHANGED drainVars

\* Variant: the zero check is not repeated under drainMu.
CloseDrainUnchecked ==
  IF drainCh # None THEN drained' = drained \cup {drainCh} /\ drainCh' = None
                    ELSE UNCHANGED drainVars

\* The critical section of done: the zero check is repeated under drainMu.
CloseDrainChannel ==
  IF pendingTasks = 0 /\ drainCh # None
    THEN drained' = drained \cup {drainCh} /\ drainCh' = None
    ELSE UNCHANGED drainVars

\* done, called by a submitter whose task is rejected.
RejectDone(t) ==
  /\ pc[t] = "done"
  /\ pendingTasks' = pendingTasks - 1
  /\ Goto(t, IF pendingTasks' = 0 THEN "wake" ELSE "rejected")
  /\ UNCHANGED <<submitFrame, runningWorkersNum, workerSeq, queueVars,
                 drainVars, shard, workerVars>>

RejectWake(t) ==
  /\ pc[t] = "wake"
  /\ CloseDrainChannel
  /\ Goto(t, "rejected")
  /\ UNCHANGED <<submitFrame, pendingTasks, runningWorkersNum, workerSeq,
                 queueVars, shard, workerVars>>

\* The tasks the pending count stands for: in the hands of a submitter,
\* queued, or taken by a worker that has not yet counted them off.
Queued == ToSet(taskBuf) \cup UNION {ToSet(taskQueues[s]) : s \in Shards}
InHand(w) == IF wpc[w] \in {"start", "body", "done"} THEN batch[w]
             ELSE IF wpc[w] = "wake" THEN Tail(batch[w])
             ELSE <<>>
Held(w) == ToSet(InHand(w))
InFlight == {t \in Tasks : pc[t] \in Submitting}
              \cup Queued \cup UNION {Held(w) : w \in Workers}

\* Wait's critical section: return at once, or join the drain channel,
\* making it first if there is none.
WaitCall(v) ==
  /\ waitPc[v] = "idle"
  /\ owed' = [owed EXCEPT ![v] = InFlight]
  /\ IF pendingTasks = 0
       THEN /\ waitPc' = [waitPc EXCEPT ![v] = "returned"]
            /\ UNCHANGED <<waitCh, drainCh>>
       ELSE /\ waitPc' = [waitPc EXCEPT ![v] = "waiting"]
            /\ drainCh' = IF drainCh = None THEN v ELSE drainCh
            /\ waitCh' = [waitCh EXCEPT ![v] = drainCh']
  /\ UNCHANGED <<callFrame, ctxDone, cleaner, closePc, poolVars, drained>>

WaitReturn(v) ==
  /\ waitPc[v] = "waiting"
  /\ waitCh[v] \in drained
  /\ waitPc' = [waitPc EXCEPT ![v] = "returned"]
  /\ UNCHANGED <<callFrame, ctxDone, cleaner, closePc, poolVars, drainVars,
                 waitCh, owed>>

----------------------------------------------------------------------------
(* Workers: run, nextShardTask, runTask. *)

WGoto(w, label) == wpc' = [wpc EXCEPT ![w] = label]

\* One probe of nextShardTask: receive from the shard, or go on to the next
\* one, and to the overflow buffer after the last.
ScanShard(w) ==
  /\ wpc[w] = "scan"
  /\ LET idx == (cursor[w] + probe[w]) % NumShards IN
       IF taskQueues[idx] # <<>>
         THEN /\ batch' = [batch EXCEPT ![w] = <<Head(taskQueues[idx])>>]
              /\ taskQueues' = [taskQueues EXCEPT ![idx] = Tail(@)]
              /\ cursor' = [cursor EXCEPT ![w] = idx]
              /\ probe' = [probe EXCEPT ![w] = 0]
              /\ WGoto(w, "start")
         ELSE /\ IF probe[w] + 1 < NumShards
                   THEN /\ probe' = [probe EXCEPT ![w] = @ + 1]
                        /\ UNCHANGED wpc
                   ELSE /\ probe' = [probe EXCEPT ![w] = 0]
                        /\ WGoto(w, "pop")
              /\ UNCHANGED <<batch, taskQueues, cursor>>
  /\ UNCHANGED <<workerFrame, pendingTasks, runningWorkersNum, idleWorks,
                 runs, taskBuf, drainVars>>

\* PopBatch; an empty buffer sends the worker to park.
PopBatch(w) ==
  /\ wpc[w] = "pop"
  /\ taskMu = None
  /\ LET n == IF Len(taskBuf) < BatchSize THEN Len(taskBuf) ELSE BatchSize IN
       IF n > 0
         THEN /\ batch' = [batch EXCEPT ![w] = SubSeq(taskBuf, 1, n)]
              /\ taskBuf' = SubSeq(taskBuf, n + 1, Len(taskBuf))
              /\ WGoto(w, "start")
         ELSE WGoto(w, "park") /\ UNCHANGED <<batch, taskBuf>>
  /\ UNCHANGED <<workerFrame, pendingTasks, runningWorkersNum, idleWorks,
                 runs, taskQueues, drainVars, cursor, probe>>

\* runTask begins the first task of the batch; the wrapper of a task with a
\* context skips the body once the context is done.
StartTask(w) ==
  /\ wpc[w] = "start"
  /\ LET t == Head(batch[w]) IN
       IF t \in CancellableTasks \cap ctxDone
         THEN WGoto(w, "done") /\ UNCHANGED runs
         ELSE WGoto(w, "body") /\ runs' = [runs EXCEPT ![t] = @ + 1]
  /\ UNCHANGED <<workerFrame, pendingTasks, runningWorkersNum, idleWorks,
                 taskQueues, taskBuf, drainVars, cursor, probe, batch>>

\* The body returns or panics (runTask recovers); it has returned from every
\* submission it made.
EndTask(w) ==
  /\ wpc[w] = "body"
  /\ \A t \in Tasks : Parent[t] = Head(batch[w])
                        => pc[t] \in {"new", "accepted", "rejected"}
  /\ WGoto(w, "done")
  /\ UNCHANGED <<workerFrame, pendingTasks, runningWorkersNum, idleWorks,
                 runs, taskQueues, taskBuf, drainVars, cursor, probe, batch>>

\* The next task of the batch, or the next scan.
NextTask(w) ==
  /\ batch' = [batch EXCEPT ![w] = Tail(@)]
  /\ WGoto(w, IF Len(batch[w]) > 1 THEN "start" ELSE "scan")

\* runTask's deferred done.
TaskDone(w) ==
  /\ wpc[w] = "done"
  /\ pendingTasks' = pendingTasks - 1
  /\ IF pendingTasks' = 0 THEN WGoto(w, "wake") /\ UNCHANGED batch
                          ELSE NextTask(w)
  /\ UNCHANGED <<workerFrame, runningWorkersNum, idleWorks, runs, taskQueues,
                 taskBuf, drainVars, cursor, probe>>

TaskWake(w) ==
  /\ wpc[w] = "wake"
  /\ CloseDrainChannel
  /\ NextTask(w)
  /\ UNCHANGED <<workerFrame, pendingTasks, runningWorkersNum, idleWorks,
                 runs, taskQueues, taskBuf, cursor, probe>>

\* Variant: a parking worker stays in the running count.
LeaveUncounted(w) ==
  /\ wpc[w] = "park"
  /\ WGoto(w, "exit")
  /\ cursor' = [cursor EXCEPT ![w] = 0]
  /\ UNCHANGED <<workerFrame, pendingTasks, runningWorkersNum, idleWorks, runs,
                 taskQueues, taskBuf, drainVars, probe, batch>>

\* Park: leave the running count, then join the idle container.  The next
\* startWorker gives the worker another cursor.
LeaveRunning(w) ==
  /\ wpc[w] = "park"
  /\ runningWorkersNum' = runningWorkersNum - 1
  /\ WGoto(w, "exit")
  /\ cursor' = [cursor EXCEPT ![w] = 0]
  /\ UNCHANGED <<workerFrame, pendingTasks, idleWorks, runs, taskQueues,
                 taskBuf, drainVars, probe, batch>>

\* Variant: the struct is also put back into workerPool.
AddToIdleAndPut(w) ==
  /\ wpc[w] = "exit"
  /\ idleWorks' = idleWorks \cup {w}
  /\ WGoto(w, "none")
  /\ UNCHANGED <<workerFrame, pendingTasks, runningWorkersNum, runs,
                 taskQueues, taskBuf, drainVars, cursor, probe, batch>>

AddToIdle(w) ==
  /\ wpc[w] = "exit"
  /\ idleWorks' = idleWorks \cup {w}
  /\ WGoto(w, "parked")
  /\ UNCHANGED <<workerFrame, pendingTasks, runningWorkersNum, runs,
                 taskQueues, taskBuf, drainVars, cursor, probe, batch>>

----------------------------------------------------------------------------
(* The scaler: scaler and scaleIfNeeded, and the idle-worker cleaner. *)

SGoto(label) == spc' = label

Lesser(a, b) == IF a < b THEN a ELSE b

\* The medians are free, so a target computed from them is any number up to
\* the capacity.
ScalerLoad ==
  /\ spc = "load"
  /\ seenRunning' = runningWorkersNum
  /\ SGoto("decide")
  /\ UNCHANGED <<scalerFrame, runningWorkersNum, workerSeq, idleWorks,
                 workerVars, toSpawn, spawning>>

SpawnCount(target, extra) ==
  Lesser(target - seenRunning + extra, Capacity - seenRunning)

\* Variant: no special case for an empty pool.
WantedByRate(rate) == rate

\* With no worker running the target is the whole backlog.
Wanted(rate) == IF seenRunning = 0 THEN pendingTasks ELSE rate

ScalerDecide ==
  /\ spc = "decide"
  /\ taskMu = None
  /\ \E rate \in 0 .. Capacity, extra \in 0 .. MaxExit :
       LET target == Lesser(Lesser(Wanted(rate), pendingTasks), Capacity) IN
           IF target <= seenRunning \/ SpawnCount(target, extra) <= 0
             THEN SGoto("closed?") /\ toSpawn' = 0
             ELSE SGoto("recheck") /\ toSpawn' = SpawnCount(target, extra)
  /\ seenRunning' = 0
  /\ UNCHANGED <<scalerFrame, runningWorkersNum, workerSeq, idleWorks,
                 workerVars, spawning>>

\* The load under Pool.lock.  No other goroutine takes that lock, so the
\* cold-start compare-and-swap may come between this step and the next.
ScalerRecheck ==
  /\ spc = "recheck"
  /\ LET actualSpawn == Lesser(toSpawn, Capacity - runningWorkersNum) IN
       IF actualSpawn <= 0
         THEN SGoto("closed?") /\ toSpawn' = 0
         ELSE SGoto("add") /\ toSpawn' = actualSpawn
  /\ UNCHANGED <<scalerFrame, runningWorkersNum, workerSeq, idleWorks,
                 workerVars, seenRunning, spawning>>

ScalerAdd ==
  /\ spc = "add"
  /\ runningWorkersNum' = runningWorkersNum + toSpawn
  /\ SGoto("take")
  /\ UNCHANGED <<scalerFrame, workerSeq, idleWorks, workerVars, seenRunning,
                 toSpawn, spawning>>

\* One iteration of the spawn loop: an idle worker, or a new one.  The
\* containers differ in the order of Pop only, so any idle worker may come.
ScalerTake ==
  /\ spc = "take"
  /\ \/ \E w \in idleWorks :
          /\ idleWorks' = idleWorks \ {w}
          /\ spawning' = w
     \/ /\ idleWorks = {}
        /\ CanAllocate
        /\ spawning' = NewWorker
        /\ UNCHANGED idleWorks
  /\ SGoto("start")
  /\ UNCHANGED <<scalerFrame, runningWorkersNum, workerSeq, workerVars,
                 seenRunning, toSpawn>>

ScalerStart ==
  /\ spc = "start"
  /\ StartWorker(spawning)
  /\ spawning' = None
  /\ toSpawn' = toSpawn - 1
  /\ SGoto(IF toSpawn > 1 THEN "take" ELSE "closed?")
  /\ UNCHANGED <<scalerFrame, runningWorkersNum, idleWorks, seenRunning>>

\* The two loads that end the scaler: closed first, then the pending count.
ScalerLoadClosed ==
  /\ spc = "closed?"
  /\ SGoto(IF closed THEN "drained?" ELSE "load")
  /\ UNCHANGED <<scalerFrame, runningWorkersNum, workerSeq, idleWorks,
                 workerVars, seenRunning, toSpawn, spawning>>

\* Variant: the scaler stops as soon as the pool is closed.
ScalerStopAtClose ==
  /\ spc = "drained?"
  /\ SGoto("stopped")
  /\ UNCHANGED <<scalerFrame, runningWorkersNum, workerSeq, idleWorks,
                 workerVars, seenRunning, toSpawn, spawning>>

ScalerLoadPending ==
  /\ spc = "drained?"
  /\ SGoto(IF pendingTasks = 0 THEN "stopped" ELSE "load")
  /\ UNCHANGED <<scalerFrame, runningWorkersNum, workerSeq, idleWorks,
                 workerVars, seenRunning, toSpawn, spawning>>

\* A tick of the cleaner: RemoveExpired drops the workers that have been idle
\* too long, which may be any of them; a dropped struct is garbage.
CleanerTick ==
  /\ cleaner = "on"
  /\ \E expired \in SUBSET idleWorks :
       /\ idleWorks' = idleWorks \ expired
       /\ wpc' = [w \in Workers |-> IF w \in expired THEN "none" ELSE wpc[w]]
  /\ UNCHANGED <<pendingTasks, runningWorkersNum, workerSeq, ctxDone,
                 cleaner, closePc, runs, poolVars, queueVars, drainVars,
                 submitVars, cursor, probe, batch, scalerVars, waitVars>>

CleanerStop ==
  /\ cleaner = "on"
  /\ closePoolCn
  /\ cleaner' = "off"
  /\ UNCHANGED <<callFrame, ctxDone, closePc, poolVars, drainVars, waitVars>>

----------------------------------------------------------------------------
(* Close, and the contexts of the environment. *)

\* Variant: a second Close goes through all the steps again.
CloseAgain(c) ==
  /\ closePc[c] = "idle"
  /\ closed' = TRUE
  /\ closePc' = [closePc EXCEPT ![c] = "buffer"]
  /\ UNCHANGED <<callFrame, ctxDone, cleaner, closePoolCn, overflowClosed,
                 drainVars, waitVars>>

CloseCAS(c) ==
  /\ closePc[c] = "idle"
  /\ closed' = TRUE
  /\ closePc' = [closePc EXCEPT ![c] = IF closed THEN "returned" ELSE "buffer"]
  /\ UNCHANGED <<callFrame, ctxDone, cleaner, closePoolCn, overflowClosed,
                 drainVars, waitVars>>

CloseBuffer(c) ==
  /\ closePc[c] = "buffer"
  /\ taskMu = None
  /\ overflowClosed' = TRUE
  /\ closePc' = [closePc EXCEPT ![c] = "channel"]
  /\ UNCHANGED <<callFrame, ctxDone, cleaner, closed, closePoolCn, drainVars,
                 waitVars>>

CloseChannel(c) ==
  /\ closePc[c] = "channel"
  /\ closePoolCn' = TRUE
  /\ closePc' = [closePc EXCEPT ![c] = "returned"]
  /\ UNCHANGED <<callFrame, ctxDone, cleaner, closed, overflowClosed,
                 drainVars, waitVars>>

\* The context of a task is cancelled or passes its deadline.  SubmitBefore
\* makes its context in the call.
ContextDone(t) ==
  /\ t \in CancellableTasks \ ctxDone
  /\ t \in BeforeTasks => pc[t] # "new"
  /\ ctxDone' = ctxDone \cup {t}
  /\ UNCHANGED <<callFrame, cleaner, closePc, poolVars, drainVars, waitVars>>

----------------------------------------------------------------------------

Init ==
  /\ pendingTasks = 0
  /\ closed = FALSE
  /\ closePoolCn = FALSE
  /\ runningWorkersNum = 0
  /\ sendSeq = 0
  /\ workerSeq = 0
  /\ taskQueues = [s \in Shards |-> <<>>]
  /\ taskBuf = <<>>
  /\ overflowClosed = FALSE
  /\ taskMu = None
  /\ idleWorks = {}
  /\ drainCh = None
  /\ drained = {}
  /\ pc = [t \in Tasks |-> "new"]
  /\ shard = [t \in Tasks |-> 0]
  /\ ctxDone = {}
  /\ wpc = [w \in Workers |-> "none"]
  /\ cursor = [w \in Workers |-> 0]
  /\ probe = [w \in Workers |-> 0]
  /\ batch = [w \in Workers |-> <<>>]
  /\ spc = "load"
  /\ seenRunning = 0
  /\ toSpawn = 0
  /\ spawning = None
  /\ cleaner = "on"
  /\ waitPc = [v \in Waiters |-> "idle"]
  /\ waitCh = [v \in Waiters |-> None]
  /\ closePc = [c \in Closers |-> "idle"]
  /\ owed = [v \in Waiters |-> {}]
  /\ runs = [t \in Tasks |-> 0]

\* What a submitter does once its call has begun.
Submit(t) ==
  \/ CheckClosed(t) \/ LoadRunning(t) \/ ColdStartCAS(t) \/ ColdStartWorker(t)
  \/ PickShard(t) \/ TrySend(t) \/ PushBuffer(t) \/ ForwardHead(t)
  \/ RepickShard(t) \/ BlockedSelect(t) \/ RejectDone(t) \/ RejectWake(t)

Run(w) ==
  \/ ScanShard(w) \/ PopBatch(w) \/ StartTask(w) \/ EndTask(w)
  \/ TaskDone(w) \/ TaskWake(w) \/ LeaveRunning(w) \/ AddToIdle(w)

Scaler ==
  \/ ScalerLoad \/ ScalerDecide \/ ScalerRecheck \/ ScalerAdd \/ ScalerTake
  \/ ScalerStart \/ ScalerLoadClosed \/ ScalerLoadPending

Close(c) == CloseBuffer(c) \/ CloseChannel(c)

Next ==
  \/ \E t \in Tasks : SubmitCall(t) \/ Submit(t) \/ ContextDone(t)
  \/ \E w \in Workers : Run(w)
  \/ Scaler
  \/ CleanerTick \/ CleanerStop
  \/ \E v \in Waiters : WaitCall(v) \/ WaitReturn(v)
  \/ \E c \in Closers : CloseCAS(c) \/ Close(c)

Spec == Init /\ [][Next]_vars

\* Every goroutine that can take a step takes one eventually, and task bodies
\* end: the Go scheduler runs every runnable goroutine, and tickers keep
\* firing.  Nobody is obliged to call Submit, Wait or Close, nor a context to
\* become done.
Fairness ==
  /\ \A t \in Tasks : WF_vars(Submit(t))
  /\ \A w \in Workers : WF_vars(Run(w))
  /\ WF_vars(Scaler)
  /\ WF_vars(CleanerStop)
  /\ \A v \in Waiters : WF_vars(WaitReturn(v))
  /\ \A c \in Closers : WF_vars(Close(c))

\* The names of Workers bound the model and not the code: behaviours in which
\* a cold start waits forever for a name are not behaviours of the pool.
NameShortage == ~CanAllocate /\ \E t \in Tasks : pc[t] = "start"

FairSpec == Spec /\ Fairness /\ []<>~NameShortage

\* Only submitters are sure to run: bodies may never end.
SubmitterFairSpec == Spec /\ \A t \in Tasks : WF_vars(Submit(t))

----------------------------------------------------------------------------
(* Properties. *)

QueueTypes ==
  /\ sendSeq \in Shards
  /\ taskQueues \in [Shards -> Seq(Tasks)]
  /\ taskBuf \in Seq(Tasks)
  /\ taskMu \in Tasks \cup {None}

SubmitterTypes ==
  /\ pc \in [Tasks -> SubmitPc]
  /\ shard \in [Tasks -> Shards]
  /\ ctxDone \subseteq Tasks
  /\ runs \in [Tasks -> Nat]

WorkerTypes ==
  /\ workerSeq \in Shards
  /\ idleWorks \subseteq Workers
  /\ wpc \in [Workers -> WorkerPc]
  /\ cursor \in [Workers -> Shards]
  /\ probe \in [Workers -> Shards]
  /\ batch \in [Workers -> Seq(Tasks)]

ScalerTypes ==
  /\ runningWorkersNum \in Int
  /\ spc \in ScalerPc
  /\ seenRunning \in Int
  /\ toSpawn \in Nat
  /\ spawning \in Workers \cup {None}

CallerTypes ==
  /\ pendingTasks \in Int
  /\ drainCh \in Waiters \cup {None}
  /\ drained \subseteq Waiters
  /\ waitPc \in [Waiters -> {"idle", "waiting", "returned"}]
  /\ waitCh \in [Waiters -> Waiters \cup {None}]
  /\ owed \in [Waiters -> SUBSET Tasks]
  /\ closePc \in [Closers -> {"idle", "buffer", "channel", "returned"}]
  /\ cleaner \in {"on", "off"}
  /\ closed \in BOOLEAN /\ closePoolCn \in BOOLEAN /\ overflowClosed \in BOOLEAN

\* Every variable of the pool keeps to its type; in particular the masked
\* cursors stay within the shards.
TypeOK ==
  QueueTypes /\ SubmitterTypes /\ WorkerTypes /\ ScalerTypes /\ CallerTypes

\* runningWorkersNum counts exactly the worker goroutines that have not begun
\* to park, together with those that a cold start or the scaler has counted
\* but not yet started.
RunningExact ==
  runningWorkersNum = Cardinality({w \in Workers : wpc[w] \in Active})
                    + Cardinality({t \in Tasks : pc[t] = "start"})
                    + (IF spc \in {"take", "start"} THEN toSpawn ELSE 0)

\* The pool never runs more than one worker above its capacity, although the
\* cold start does not take the lock under which the scaler checks it.
RunningBound == runningWorkersNum <= Capacity + 1

\* pendingTasks counts exactly the tasks in flight: no path through submit or
\* runTask forgets a call of done, or makes one too many.
PendingExact == pendingTasks = Cardinality(InFlight)

\* A body runs at most once, never for a rejected submission, and a task that
\* was accepted and is no longer in flight has run, unless its context was
\* done in time: no task is lost or duplicated between the shards, the
\* overflow buffer and the workers' batches.
ExactlyOnce ==
  \A t \in Tasks :
    /\ runs[t] <= 1
    /\ pc[t] = "rejected" => runs[t] = 0
    /\ pc[t] = "accepted" /\ t \notin InFlight /\ runs[t] = 0
         => t \in CancellableTasks \cap ctxDone

\* When Wait returns, every task that was pending when it was called has been
\* completed or rejected, however many were submitted in the meantime.
WaitSound ==
  \A v \in Waiters : waitPc[v] = "returned" => owed[v] \cap InFlight = {}

\* The scaler ends only when no task will ever need a worker again: nothing is
\* queued or executing, and every submission still under way will be rejected.
ScalerStopsDrained ==
  spc = "stopped" =>
    /\ closed
    /\ Queued \cup UNION {Held(w) : w \in Workers} = {}
    /\ \A t \in Tasks : pc[t] \in Submitting => pc[t] \in {"check", "done"}

\* A worker struct has one owner: a goroutine, the idle container or the
\* scaler about to start it; and none is lost between them.
WorkerOwnedOnce ==
  /\ spawning \notin idleWorks
  /\ {w \in Workers : wpc[w] = "parked"} \subseteq idleWorks \cup {spawning}
  /\ idleWorks \subseteq {w \in Workers : wpc[w] = "parked"}
  /\ spawning # None => wpc[spawning] \in {"none", "parked"}

\* closePoolCn is closed once, whoever calls Close and however often: a second
\* close of a channel would panic.
ClosedOnce ==
  \A c \in Closers : closePc[c] = "channel" => ~closePoolCn

\* An accepted task completes, even if the last worker parks just before the
\* task reaches its queue.
AcceptedCompletes ==
  \A t \in Tasks : pc[t] = "accepted" ~> pc[t] = "accepted" /\ t \notin InFlight

\* Every call of a Submit function returns.
SubmitReturns ==
  \A t \in Tasks : pc[t] \in Submitting ~> pc[t] \in {"accepted", "rejected"}

\* A submitter that waits on saturated queues returns once its context is done
\* or the pool has been closed, whatever the workers do.
BlockedReleased ==
  \A t \in Tasks :
    (/\ pc[t] = "blocked"
     /\ closePoolCn \/ t \in (CtxTasks \cup BeforeTasks) \cap ctxDone)
      ~> pc[t] \in {"accepted", "rejected"}

\* Every call of Wait returns: no wakeup is missed between the waiter that
\* joins a drain channel and the task that brings the count to zero.
WaitReturns ==
  \A v \in Waiters : waitPc[v] = "waiting" ~> waitPc[v] = "returned"

\* After Close the scaler drains the pool and ends, and so does the cleaner.
GoroutinesStop == closePoolCn ~> spc = "stopped" /\ cleaner = "off"

----------------------------------------------------------------------------
(* What the pool promises. *)

\* A submission that will meet the closed flag, or has failed, is doomed.
StatusAt(label) ==
  IF label \in {"new", "accepted"} THEN label
  ELSE IF label \in {"wake", "rejected"} THEN "rejected"
  ELSE IF label = "done" \/ (label = "check" /\ closed) THEN "doomed"
  ELSE "offered"
Status == [t \in Tasks |-> StatusAt(pc[t])]

Contract == INSTANCE PoolContract
              WITH Cancellable <- CancellableTasks,
                   status <- Status,
                   pending <- InFlight,
                   waiter <- waitPc

\* Every step of the pool, of its queues, counters, workers and drain channels
\* is a step of the contract or changes nothing that it speaks of.
RefinesContract == Contract!Spec

----------------------------------------------------------------------------
(* What the documentation says and the code does not do. *)

\* config.go: the capacity "caps the maximum number of concurrent workers".
RunningWithinCapacity == runningWorkersNum <= Capacity
=============================================================================
