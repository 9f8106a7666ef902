-------------------------- MODULE AgilePoolProofs --------------------------
(***************************************************************************)
(* Proofs about AgilePool, for every value of its constants.               *)
(***************************************************************************)
EXTENDS AgilePool, FiniteSetTheorems, SequenceTheorems, TLAPS

(***************************************************************************)
(* Type correctness.  The types of what Head and Tail return rest on the   *)
(* buffer and a batch being nonempty where the code takes their first      *)
(* task, and the type of toSpawn on the spawn loop having work to do.      *)
(***************************************************************************)

\* A submitter holds the buffer lock between its push and its forward, so the
\* buffer is not empty then.
LockInv ==
  /\ \A t \in Tasks : pc[t] = "forward" <=> taskMu = t
  /\ taskMu # None => taskBuf # <<>>

\* A worker that executes or counts off a task has it at the head of its batch.
BatchInv ==
  \A w \in Workers :
    wpc[w] \in {"start", "body", "done", "wake"} => batch[w] # <<>>

\* The scaler is about to spawn at least one worker, and names it at "start".
SpawnInv ==
  /\ spc \in {"recheck", "add", "take", "start"} => toSpawn > 0
  /\ spc = "start" <=> spawning # None

TypeInv == TypeOK /\ LockInv /\ BatchInv /\ SpawnInv

\* The shard cursors are masked.
LEMMA MaskedShard ==
  ASSUME NEW n \in Nat
  PROVE  n % NumShards \in Shards
BY SizesAssumption DEF Shards

LEMMA ZeroShard == 0 \in Shards
BY SizesAssumption DEF Shards

LEMMA ShardNat == Shards \subseteq Nat
BY SizesAssumption DEF Shards

\* What PopBatch takes from the front of a sequence and leaves behind.
LEMMA SplitSeq ==
  ASSUME NEW S, NEW q \in Seq(S), NEW n \in Nat, n <= Len(q)
  PROVE  /\ SubSeq(q, 1, n) \in Seq(S)
         /\ Len(SubSeq(q, 1, n)) = n
         /\ SubSeq(q, n + 1, Len(q)) \in Seq(S)
<1>1. Len(q) \in Nat /\ \A i \in 1 .. Len(q) : q[i] \in S
  OBVIOUS
<1>2. SubSeq(q, 1, n) \in Seq(S) /\ Len(SubSeq(q, 1, n)) = n
  BY <1>1, SubSeqProperties
<1>3. SubSeq(q, n + 1, Len(q)) \in Seq(S)
  BY <1>1, SubSeqProperties
<1> QED BY <1>2, <1>3

\* What is left of a sequence of two or more is not empty.
LEMMA TailSeq ==
  ASSUME NEW S, NEW q \in Seq(S), q # <<>>
  PROVE  /\ Head(q) \in S
         /\ Tail(q) \in Seq(S)
         /\ Len(q) > 1 => Tail(q) # <<>>
<1>1. Head(q) \in S /\ Tail(q) \in Seq(S) /\ Len(Tail(q)) = Len(q) - 1
  BY HeadTailProperties
<1>2. Len(q) > 1 => Tail(q) # <<>>
  BY <1>1
<1> QED BY <1>1, <1>2

\* Only submitted tasks are ever in flight.
LEMMA InFlightTasks ==
  ASSUME QueueTypes, WorkerTypes, BatchInv
  PROVE  InFlight \subseteq Tasks
<1>1. \A q \in Seq(Tasks) : ToSet(q) \subseteq Tasks
  BY DEF ToSet
<1>2. Queued \subseteq Tasks
  BY <1>1 DEF Queued, QueueTypes
<1>3. ASSUME NEW w \in Workers PROVE Held(w) \subseteq Tasks
  <2>1. batch[w] \in Seq(Tasks)
    BY DEF WorkerTypes
  <2>2. wpc[w] = "wake" => Tail(batch[w]) \in Seq(Tasks)
    BY <2>1, TailSeq DEF BatchInv
  <2>3. InHand(w) \in Seq(Tasks)
    BY <2>1, <2>2 DEF InHand
  <2> QED BY <1>1, <2>3 DEF Held
<1> QED BY <1>2, <1>3 DEF InFlight

LEMMA TypeInit == Init => TypeInv
BY ZeroShard DEF Init, TypeInv, TypeOK, QueueTypes, SubmitterTypes, WorkerTypes,
   ScalerTypes, CallerTypes, LockInv, BatchInv, SpawnInv, SubmitPc, WorkerPc,
   ScalerPc

\* A step of a submitter, or of its context, preserves the types.
LEMMA TypeSubmitter ==
  ASSUME TypeInv,
         NEW t \in Tasks, SubmitCall(t) \/ Submit(t) \/ ContextDone(t)
  PROVE  TypeInv'
<1> USE DEF TypeInv, TypeOK, poolVars, queueVars, drainVars, submitVars,
       workerVars, scalerVars, waitVars, submitFrame, callFrame
<1>1. CASE SubmitCall(t)
  <2>1. SubmitterTypes'
    BY <1>1 DEF SubmitCall, SubmitterTypes, Goto, SubmitPc, Submitting
  <2>2. CallerTypes'
    BY <1>1 DEF SubmitCall, CallerTypes
  <2>3. LockInv'
    BY <1>1, TasksAssumption DEF SubmitCall, LockInv, Goto, SubmitterTypes,
       QueueTypes
  <2>4. QueueTypes' /\ WorkerTypes' /\ ScalerTypes' /\ BatchInv' /\ SpawnInv'
    BY <1>1 DEF SubmitCall, QueueTypes, WorkerTypes, ScalerTypes, BatchInv,
       SpawnInv
  <2> QED BY <2>1, <2>2, <2>3, <2>4 DEF TypeInv, TypeOK
<1>2. CASE CheckClosed(t)
  <2>1. SubmitterTypes'
    BY <1>2 DEF CheckClosed, SubmitterTypes, Goto, SubmitPc, Submitting
  <2>2. LockInv'
    BY <1>2, TasksAssumption DEF CheckClosed, LockInv, Goto, SubmitterTypes,
       QueueTypes
  <2>3. QueueTypes' /\ WorkerTypes' /\ ScalerTypes' /\ CallerTypes' /\
           BatchInv' /\ SpawnInv'
    BY <1>2 DEF CheckClosed, QueueTypes, WorkerTypes, ScalerTypes,
       CallerTypes, BatchInv, SpawnInv
  <2> QED BY <2>1, <2>2, <2>3 DEF TypeInv, TypeOK
<1>3. CASE LoadRunning(t)
  <2>1. SubmitterTypes'
    BY <1>3 DEF LoadRunning, SubmitterTypes, Goto, SubmitPc, Submitting
  <2>2. LockInv'
    BY <1>3, TasksAssumption DEF LoadRunning, LockInv, Goto, SubmitterTypes,
       QueueTypes
  <2>3. QueueTypes' /\ WorkerTypes' /\ ScalerTypes' /\ CallerTypes' /\
           BatchInv' /\ SpawnInv'
    BY <1>3 DEF LoadRunning, QueueTypes, WorkerTypes, ScalerTypes,
       CallerTypes, BatchInv, SpawnInv
  <2> QED BY <2>1, <2>2, <2>3 DEF TypeInv, TypeOK
<1>4. CASE ColdStartCAS(t)
  <2>1. SubmitterTypes'
    BY <1>4 DEF ColdStartCAS, SubmitterTypes, Goto, SubmitPc, Submitting
  <2>2. ScalerTypes'
    BY <1>4 DEF ColdStartCAS, ScalerTypes
  <2>3. LockInv'
    BY <1>4, TasksAssumption DEF ColdStartCAS, LockInv, Goto, SubmitterTypes,
       QueueTypes
  <2>4. QueueTypes' /\ WorkerTypes' /\ CallerTypes' /\ BatchInv' /\ SpawnInv'
    BY <1>4 DEF ColdStartCAS, QueueTypes, WorkerTypes, CallerTypes, BatchInv,
       SpawnInv
  <2> QED BY <2>1, <2>2, <2>3, <2>4 DEF TypeInv, TypeOK
<1>5. CASE ColdStartWorker(t)
  <2>1. SubmitterTypes'
    BY <1>5 DEF ColdStartWorker, SubmitterTypes, Goto, SubmitPc, Submitting
  <2>2. WorkerTypes'
    BY <1>5, MaskedShard, ShardNat, ZeroShard DEF ColdStartWorker,
       WorkerTypes, StartWorker, CanAllocate, NewWorker, WorkerPc, Active
  <2>3. LockInv'
    BY <1>5, TasksAssumption DEF ColdStartWorker, LockInv, Goto,
       SubmitterTypes, QueueTypes
  <2>4. BatchInv'
    BY <1>5 DEF ColdStartWorker, BatchInv, StartWorker, CanAllocate,
       NewWorker, WorkerTypes
  <2>5. QueueTypes' /\ ScalerTypes' /\ CallerTypes' /\ SpawnInv'
    BY <1>5 DEF ColdStartWorker, QueueTypes, ScalerTypes, CallerTypes,
       SpawnInv
  <2> QED BY <2>1, <2>2, <2>3, <2>4, <2>5 DEF TypeInv, TypeOK
<1>6. CASE PickShard(t)
  <2>1. (sendSeq + 1) % NumShards \in Shards
    BY MaskedShard, ShardNat DEF QueueTypes
  <2>2. QueueTypes'
    BY <1>6, <2>1 DEF PickShard, QueueTypes, NextShard
  <2>3. SubmitterTypes'
    BY <1>6, <2>1 DEF PickShard, SubmitterTypes, Goto, SubmitPc, Submitting,
       NextShard
  <2>4. LockInv'
    BY <1>6, TasksAssumption DEF PickShard, LockInv, Goto, SubmitterTypes,
       QueueTypes
  <2>5. WorkerTypes' /\ ScalerTypes' /\ CallerTypes' /\ BatchInv' /\ SpawnInv'
    BY <1>6 DEF PickShard, WorkerTypes, ScalerTypes, CallerTypes, BatchInv,
       SpawnInv
  <2> QED BY <2>1, <2>2, <2>3, <2>4, <2>5 DEF TypeInv, TypeOK
<1>7. CASE TrySend(t)
  <2>1. Append(taskQueues[shard[t]], t) \in Seq(Tasks)
    BY DEF QueueTypes, SubmitterTypes
  <2>2. QueueTypes'
    BY <1>7, <2>1 DEF TrySend, QueueTypes, SubmitterTypes, Enqueue, HasRoom
  <2>3. SubmitterTypes'
    BY <1>7, ZeroShard DEF TrySend, SubmitterTypes, Goto, SubmitPc,
       Submitting, ForgetShard
  <2>4. LockInv'
    BY <1>7, TasksAssumption DEF TrySend, LockInv, Goto, SubmitterTypes,
       QueueTypes
  <2>5. WorkerTypes' /\ ScalerTypes' /\ CallerTypes' /\ BatchInv' /\ SpawnInv'
    BY <1>7 DEF TrySend, WorkerTypes, ScalerTypes, CallerTypes, BatchInv,
       SpawnInv
  <2> QED BY <2>1, <2>2, <2>3, <2>4, <2>5 DEF TypeInv, TypeOK
<1>8. CASE PushBuffer(t)
  <2>1. (sendSeq + 1) % NumShards \in Shards
    BY MaskedShard, ShardNat DEF QueueTypes
  <2>2. /\ sendSeq' \in Shards
        /\ shard' \in [Tasks -> Shards]
    <3>1. CASE NextShard(t)
      BY <2>1, <3>1 DEF NextShard, SubmitterTypes
    <3>2. CASE UNCHANGED <<sendSeq, shard>>
      BY <3>2 DEF QueueTypes, SubmitterTypes
    <3> QED BY <1>8, <3>1, <3>2 DEF PushBuffer
  <2>3. pc' \in [Tasks -> SubmitPc]
    BY <1>8 DEF PushBuffer, Goto, SubmitterTypes, SubmitPc, Submitting
  <2>4. Append(taskBuf, t) \in Seq(Tasks)
    BY DEF QueueTypes
  <2>5. taskBuf' \in Seq(Tasks) /\ taskMu' \in Tasks \cup {None}
    BY <1>8, <2>4 DEF PushBuffer, QueueTypes
  <2>6. QueueTypes' /\ SubmitterTypes'
    BY <1>8, <2>2, <2>3, <2>5 DEF PushBuffer, QueueTypes, SubmitterTypes
  <2>7. LockInv'
    BY <1>8, TasksAssumption DEF PushBuffer, LockInv, Goto, SubmitterTypes,
       QueueTypes
  <2>8. WorkerTypes' /\ ScalerTypes' /\ CallerTypes' /\ BatchInv' /\ SpawnInv'
    BY <1>8 DEF PushBuffer, WorkerTypes, ScalerTypes, CallerTypes, BatchInv,
       SpawnInv
  <2> QED BY <2>6, <2>7, <2>8
<1>9. CASE ForwardHead(t)
  <2>1. taskBuf # <<>>
    BY <1>9, TasksAssumption DEF ForwardHead, LockInv
  <2>2. Head(taskBuf) \in Tasks /\ Tail(taskBuf) \in Seq(Tasks)
    BY <2>1 DEF QueueTypes
  <2>3. Append(taskQueues[shard[t]], Head(taskBuf)) \in Seq(Tasks)
    BY <2>2 DEF QueueTypes, SubmitterTypes
  <2>4. QueueTypes'
    BY <1>9, <2>1, <2>2, <2>3 DEF ForwardHead, QueueTypes, Enqueue, HasRoom,
       SubmitterTypes, LockInv
  <2>5. SubmitterTypes'
    BY <1>9, ZeroShard DEF ForwardHead, SubmitterTypes, Goto, SubmitPc,
       Submitting, ForgetShard
  <2>6. LockInv'
    BY <1>9, TasksAssumption DEF ForwardHead, LockInv, Goto, SubmitterTypes,
       QueueTypes
  <2>7. WorkerTypes' /\ ScalerTypes' /\ CallerTypes' /\ BatchInv' /\ SpawnInv'
    BY <1>9 DEF ForwardHead, WorkerTypes, ScalerTypes, CallerTypes, BatchInv,
       SpawnInv
  <2> QED BY <2>1, <2>2, <2>3, <2>4, <2>5, <2>6, <2>7 DEF TypeInv, TypeOK
<1>10. CASE RepickShard(t)
  <2>1. (sendSeq + 1) % NumShards \in Shards
    BY MaskedShard, ShardNat DEF QueueTypes
  <2>2. QueueTypes'
    BY <1>10, <2>1 DEF RepickShard, QueueTypes, NextShard
  <2>3. SubmitterTypes'
    BY <1>10, <2>1 DEF RepickShard, SubmitterTypes, Goto, SubmitPc,
       Submitting, NextShard
  <2>4. LockInv'
    BY <1>10, TasksAssumption DEF RepickShard, LockInv, Goto, SubmitterTypes,
       QueueTypes
  <2>5. WorkerTypes' /\ ScalerTypes' /\ CallerTypes' /\ BatchInv' /\ SpawnInv'
    BY <1>10 DEF RepickShard, WorkerTypes, ScalerTypes, CallerTypes, BatchInv,
       SpawnInv
  <2> QED BY <2>1, <2>2, <2>3, <2>4, <2>5 DEF TypeInv, TypeOK
<1>11. CASE BlockedSelect(t)
  <2>1. Append(taskQueues[shard[t]], t) \in Seq(Tasks)
    BY DEF QueueTypes, SubmitterTypes
  <2>2. QueueTypes'
    <3>1. taskQueues' \in [Shards -> Seq(Tasks)]
      BY <1>11, <2>1 DEF BlockedSelect, QueueTypes, SubmitterTypes, Enqueue
    <3> QED BY <1>11, <3>1 DEF BlockedSelect, QueueTypes
  <2>3. SubmitterTypes'
    BY <1>11, ZeroShard DEF BlockedSelect, SubmitterTypes, Goto, SubmitPc,
       Submitting, ForgetShard
  <2>4. LockInv'
    BY <1>11, TasksAssumption DEF BlockedSelect, LockInv, Goto,
       SubmitterTypes, QueueTypes
  <2>5. WorkerTypes' /\ ScalerTypes' /\ CallerTypes' /\ BatchInv' /\ SpawnInv'
    BY <1>11 DEF BlockedSelect, WorkerTypes, ScalerTypes, CallerTypes,
       BatchInv, SpawnInv
  <2> QED BY <2>1, <2>2, <2>3, <2>4, <2>5 DEF TypeInv, TypeOK
<1>12. CASE RejectDone(t)
  <2>1. SubmitterTypes'
    BY <1>12 DEF RejectDone, SubmitterTypes, Goto, SubmitPc, Submitting
  <2>2. CallerTypes'
    BY <1>12 DEF RejectDone, CallerTypes
  <2>3. LockInv'
    BY <1>12, TasksAssumption DEF RejectDone, LockInv, Goto, SubmitterTypes,
       QueueTypes
  <2>4. QueueTypes' /\ WorkerTypes' /\ ScalerTypes' /\ BatchInv' /\ SpawnInv'
    BY <1>12 DEF RejectDone, QueueTypes, WorkerTypes, ScalerTypes, BatchInv,
       SpawnInv
  <2> QED BY <2>1, <2>2, <2>3, <2>4 DEF TypeInv, TypeOK
<1>13. CASE RejectWake(t)
  <2>1. SubmitterTypes'
    BY <1>13 DEF RejectWake, SubmitterTypes, Goto, SubmitPc, Submitting
  <2>2. CallerTypes'
    BY <1>13 DEF RejectWake, CallerTypes, CloseDrainChannel
  <2>3. LockInv'
    BY <1>13, TasksAssumption DEF RejectWake, LockInv, Goto, SubmitterTypes,
       QueueTypes
  <2>4. QueueTypes' /\ WorkerTypes' /\ ScalerTypes' /\ BatchInv' /\ SpawnInv'
    BY <1>13 DEF RejectWake, QueueTypes, WorkerTypes, ScalerTypes, BatchInv,
       SpawnInv
  <2> QED BY <2>1, <2>2, <2>3, <2>4 DEF TypeInv, TypeOK
<1>14. CASE ContextDone(t)
  <2>1. SubmitterTypes'
    BY <1>14 DEF ContextDone, SubmitterTypes, Goto, SubmitPc, Submitting
  <2>2. QueueTypes' /\ WorkerTypes' /\ ScalerTypes' /\ CallerTypes' /\
           LockInv' /\ BatchInv' /\ SpawnInv'
    BY <1>14 DEF ContextDone, QueueTypes, WorkerTypes, ScalerTypes,
       CallerTypes, LockInv, BatchInv, SpawnInv
  <2> QED BY <2>1, <2>2 DEF TypeInv, TypeOK
<1> QED BY <1>1, <1>2, <1>3, <1>4, <1>5, <1>6, <1>7, <1>8, <1>9,
          <1>10, <1>11, <1>12, <1>13, <1>14 DEF Submit

\* A step of a worker preserves the types.
LEMMA TypeWorker ==
  ASSUME TypeInv, NEW w \in Workers, Run(w)
  PROVE  TypeInv'
<1> USE DEF TypeInv, TypeOK, poolVars, queueVars, drainVars, submitVars,
       workerVars, scalerVars, waitVars, workerFrame
<1>1. CASE ScanShard(w)
  <2> DEFINE idx == (cursor[w] + probe[w]) % NumShards
  <2>1. idx \in Shards
    <3>1. cursor[w] \in Shards /\ probe[w] \in Shards
      BY DEF WorkerTypes
    <3>2. cursor[w] + probe[w] \in Nat
      BY <3>1, ShardNat
    <3> QED BY <3>2, MaskedShard
  <2>2. taskQueues[idx] \in Seq(Tasks)
    BY <2>1 DEF QueueTypes
  <2>3. SubmitterTypes' /\ ScalerTypes' /\ CallerTypes' /\ LockInv' /\ SpawnInv'
    BY <1>1 DEF ScanShard, SubmitterTypes, ScalerTypes, CallerTypes, LockInv,
       SpawnInv
  <2>4. CASE taskQueues[idx] # <<>>
    <3>1. /\ batch' = [batch EXCEPT ![w] = <<Head(taskQueues[idx])>>]
          /\ taskQueues' = [taskQueues EXCEPT ![idx] = Tail(@)]
          /\ cursor' = [cursor EXCEPT ![w] = idx]
          /\ probe' = [probe EXCEPT ![w] = 0]
          /\ wpc' = [wpc EXCEPT ![w] = "start"]
      BY <1>1, <2>4 DEF ScanShard, WGoto
    <3>2. /\ Head(taskQueues[idx]) \in Tasks
          /\ Tail(taskQueues[idx]) \in Seq(Tasks)
      BY <2>2, <2>4, TailSeq
    <3> HIDE DEF idx
    <3>3. QueueTypes'
      BY <1>1, <2>1, <3>1, <3>2 DEF ScanShard, QueueTypes
    <3>4. WorkerTypes'
      BY <1>1, <2>1, <3>1, <3>2, ZeroShard DEF ScanShard, WorkerTypes,
         WorkerPc, Active
    <3>5. BatchInv'
      BY <3>1 DEF BatchInv, WorkerTypes
    <3> QED BY <2>3, <3>3, <3>4, <3>5
  <2>5. CASE taskQueues[idx] = <<>>
    <3>1. /\ UNCHANGED <<batch, taskQueues, cursor>>
          /\ \/ /\ probe[w] + 1 < NumShards
                /\ probe' = [probe EXCEPT ![w] = @ + 1]
                /\ wpc' = wpc
             \/ /\ probe' = [probe EXCEPT ![w] = 0]
                /\ wpc' = [wpc EXCEPT ![w] = "pop"]
      BY <1>1, <2>5 DEF ScanShard, WGoto
    <3>2. probe[w] + 1 < NumShards => probe[w] + 1 \in Shards
      BY SizesAssumption DEF WorkerTypes, Shards
    <3>3. WorkerTypes'
      BY <1>1, <3>1, <3>2, ZeroShard DEF ScanShard, WorkerTypes, WorkerPc,
         Active
    <3>4. QueueTypes' /\ BatchInv'
      BY <1>1, <3>1 DEF ScanShard, QueueTypes, BatchInv, WorkerTypes
    <3> QED BY <2>3, <3>3, <3>4
  <2> QED BY <2>4, <2>5
<1>2. CASE PopBatch(w)
  <2> DEFINE n == IF Len(taskBuf) < BatchSize THEN Len(taskBuf) ELSE BatchSize
  <2>1. n \in Nat /\ n <= Len(taskBuf)
    BY SizesAssumption DEF QueueTypes
  <2>2. /\ SubSeq(taskBuf, 1, n) \in Seq(Tasks)
        /\ Len(SubSeq(taskBuf, 1, n)) = n
        /\ SubSeq(taskBuf, n + 1, Len(taskBuf)) \in Seq(Tasks)
    BY <2>1, SplitSeq DEF QueueTypes
  <2>3. \/ /\ n > 0
           /\ batch' = [batch EXCEPT ![w] = SubSeq(taskBuf, 1, n)]
           /\ taskBuf' = SubSeq(taskBuf, n + 1, Len(taskBuf))
           /\ wpc' = [wpc EXCEPT ![w] = "start"]
        \/ /\ wpc' = [wpc EXCEPT ![w] = "park"]
           /\ UNCHANGED <<batch, taskBuf>>
    BY <1>2 DEF PopBatch, WGoto
  <2> HIDE DEF n
  <2>4. QueueTypes'
    BY <1>2, <2>2, <2>3 DEF PopBatch, QueueTypes
  <2>5. WorkerTypes'
    BY <1>2, <2>2, <2>3 DEF PopBatch, WorkerTypes, WorkerPc, Active
  <2>6. n > 0 => SubSeq(taskBuf, 1, n) # <<>>
    BY <2>1, <2>2
  <2>7. BatchInv'
    BY <2>3, <2>6 DEF BatchInv, WorkerTypes
  <2>8. LockInv'
    BY <1>2 DEF PopBatch, LockInv
  <2>9. SubmitterTypes' /\ ScalerTypes' /\ CallerTypes' /\ SpawnInv'
    BY <1>2 DEF PopBatch, SubmitterTypes, ScalerTypes, CallerTypes, SpawnInv
  <2> QED BY <2>4, <2>5, <2>7, <2>8, <2>9
<1>3. CASE StartTask(w)
  <2>1. SubmitterTypes'
    BY <1>3 DEF StartTask, SubmitterTypes, Goto, SubmitPc, Submitting
  <2>2. WorkerTypes'
    BY <1>3 DEF StartTask, WorkerTypes, WorkerPc, Active, WGoto
  <2>3. BatchInv'
    BY <1>3 DEF StartTask, BatchInv, WGoto, WorkerTypes
  <2>4. QueueTypes' /\ ScalerTypes' /\ CallerTypes' /\ LockInv' /\ SpawnInv'
    BY <1>3 DEF StartTask, QueueTypes, ScalerTypes, CallerTypes, LockInv,
       SpawnInv
  <2> QED BY <2>1, <2>2, <2>3, <2>4 DEF TypeInv, TypeOK
<1>4. CASE EndTask(w)
  <2>1. WorkerTypes'
    BY <1>4 DEF EndTask, WorkerTypes, WorkerPc, Active, WGoto
  <2>2. BatchInv'
    BY <1>4 DEF EndTask, BatchInv, WGoto, WorkerTypes
  <2>3. QueueTypes' /\ SubmitterTypes' /\ ScalerTypes' /\ CallerTypes' /\
           LockInv' /\ SpawnInv'
    BY <1>4 DEF EndTask, QueueTypes, SubmitterTypes, ScalerTypes, CallerTypes,
       LockInv, SpawnInv
  <2> QED BY <2>1, <2>2, <2>3 DEF TypeInv, TypeOK
<1>5. CASE TaskDone(w)
  <2>1. batch[w] \in Seq(Tasks) /\ batch[w] # <<>>
    BY <1>5 DEF TaskDone, BatchInv, WorkerTypes
  <2>2. /\ Tail(batch[w]) \in Seq(Tasks)
        /\ Len(batch[w]) > 1 => Tail(batch[w]) # <<>>
    BY <2>1, TailSeq
  <2>3. WorkerTypes'
    BY <1>5, <2>1, <2>2 DEF TaskDone, WorkerTypes, WorkerPc, Active, WGoto,
       NextTask, BatchInv
  <2>4. CallerTypes'
    BY <1>5 DEF TaskDone, CallerTypes
  <2>5. BatchInv'
    BY <1>5, <2>1, <2>2 DEF TaskDone, BatchInv, WGoto, NextTask, WorkerTypes
  <2>6. QueueTypes' /\ SubmitterTypes' /\ ScalerTypes' /\ LockInv' /\
           SpawnInv'
    BY <1>5 DEF TaskDone, QueueTypes, SubmitterTypes, ScalerTypes, LockInv,
       SpawnInv
  <2> QED BY <2>1, <2>2, <2>3, <2>4, <2>5, <2>6 DEF TypeInv, TypeOK
<1>6. CASE TaskWake(w)
  <2>1. batch[w] \in Seq(Tasks) /\ batch[w] # <<>>
    BY <1>6 DEF TaskWake, BatchInv, WorkerTypes
  <2>2. /\ Tail(batch[w]) \in Seq(Tasks)
        /\ Len(batch[w]) > 1 => Tail(batch[w]) # <<>>
    BY <2>1, TailSeq
  <2>3. WorkerTypes'
    BY <1>6, <2>1, <2>2 DEF TaskWake, WorkerTypes, WorkerPc, Active, WGoto,
       NextTask, BatchInv
  <2>4. CallerTypes'
    BY <1>6 DEF TaskWake, CallerTypes, CloseDrainChannel
  <2>5. BatchInv'
    BY <1>6, <2>1, <2>2 DEF TaskWake, BatchInv, WGoto, NextTask, WorkerTypes
  <2>6. QueueTypes' /\ SubmitterTypes' /\ ScalerTypes' /\ LockInv' /\
           SpawnInv'
    BY <1>6 DEF TaskWake, QueueTypes, SubmitterTypes, ScalerTypes, LockInv,
       SpawnInv
  <2> QED BY <2>1, <2>2, <2>3, <2>4, <2>5, <2>6 DEF TypeInv, TypeOK
<1>7. CASE LeaveRunning(w)
  <2>1. WorkerTypes'
    BY <1>7, ZeroShard DEF LeaveRunning, WorkerTypes, WorkerPc, Active, WGoto
  <2>2. ScalerTypes'
    BY <1>7 DEF LeaveRunning, ScalerTypes
  <2>3. BatchInv'
    BY <1>7 DEF LeaveRunning, BatchInv, WGoto, WorkerTypes
  <2>4. QueueTypes' /\ SubmitterTypes' /\ CallerTypes' /\ LockInv' /\
           SpawnInv'
    BY <1>7 DEF LeaveRunning, QueueTypes, SubmitterTypes, CallerTypes,
       LockInv, SpawnInv
  <2> QED BY <2>1, <2>2, <2>3, <2>4 DEF TypeInv, TypeOK
<1>8. CASE AddToIdle(w)
  <2>1. WorkerTypes'
    BY <1>8 DEF AddToIdle, WorkerTypes, WorkerPc, Active, WGoto
  <2>2. BatchInv'
    BY <1>8 DEF AddToIdle, BatchInv, WGoto, WorkerTypes
  <2>3. QueueTypes' /\ SubmitterTypes' /\ ScalerTypes' /\ CallerTypes' /\
           LockInv' /\ SpawnInv'
    BY <1>8 DEF AddToIdle, QueueTypes, SubmitterTypes, ScalerTypes,
       CallerTypes, LockInv, SpawnInv
  <2> QED BY <2>1, <2>2, <2>3 DEF TypeInv, TypeOK
<1> QED BY <1>1, <1>2, <1>3, <1>4, <1>5, <1>6, <1>7, <1>8 DEF Run

\* A step of the scaler preserves the types.
LEMMA TypeScaler ==
  ASSUME TypeInv, Scaler
  PROVE  TypeInv'
<1> USE DEF TypeInv, TypeOK, poolVars, queueVars, drainVars, submitVars,
       workerVars, scalerVars, waitVars, scalerFrame
<1>1. CASE ScalerLoad
  <2>1. ScalerTypes'
    BY <1>1 DEF ScalerLoad, ScalerTypes, SGoto, ScalerPc
  <2>2. SpawnInv'
    BY <1>1 DEF ScalerLoad, SpawnInv, SGoto, ScalerTypes
  <2>3. QueueTypes' /\ SubmitterTypes' /\ WorkerTypes' /\ CallerTypes' /\
           LockInv' /\ BatchInv'
    BY <1>1 DEF ScalerLoad, QueueTypes, SubmitterTypes, WorkerTypes,
       CallerTypes, LockInv, BatchInv
  <2> QED BY <2>1, <2>2, <2>3 DEF TypeInv, TypeOK
<1>2. CASE ScalerDecide
  <2>1. PICK rate \in 0 .. Capacity, extra \in 0 .. MaxExit :
          LET target == Lesser(Lesser(Wanted(rate), pendingTasks), Capacity) IN
            IF target <= seenRunning \/ SpawnCount(target, extra) <= 0
              THEN spc' = "closed?" /\ toSpawn' = 0
              ELSE spc' = "recheck" /\ toSpawn' = SpawnCount(target, extra)
    BY <1>2 DEF ScalerDecide, SGoto
  <2> DEFINE target == Lesser(Lesser(Wanted(rate), pendingTasks), Capacity)
  <2>2. target \in Int
    BY SizesAssumption DEF Lesser, Wanted, ScalerTypes, CallerTypes
  <2> HIDE DEF target
  <2>3. SpawnCount(target, extra) \in Int
    BY <2>2, SizesAssumption DEF SpawnCount, Lesser, ScalerTypes
  <2>4. \/ spc' = "closed?" /\ toSpawn' = 0
        \/ spc' = "recheck" /\ toSpawn' \in Nat /\ toSpawn' > 0
    BY <2>1, <2>3 DEF target
  <2>5. ScalerTypes'
    BY <1>2, <2>4 DEF ScalerDecide, ScalerTypes, ScalerPc
  <2>6. SpawnInv'
    BY <1>2, <2>4 DEF ScalerDecide, SpawnInv
  <2>7. QueueTypes' /\ SubmitterTypes' /\ WorkerTypes' /\ CallerTypes' /\
          LockInv' /\ BatchInv'
    BY <1>2 DEF ScalerDecide, QueueTypes, SubmitterTypes, WorkerTypes,
       CallerTypes, LockInv, BatchInv
  <2> QED BY <2>5, <2>6, <2>7
<1>3. CASE ScalerRecheck
  <2>1. ScalerTypes'
    BY <1>3, SizesAssumption DEF ScalerRecheck, ScalerTypes, SGoto, ScalerPc,
       Lesser
  <2>2. SpawnInv'
    BY <1>3, SizesAssumption DEF ScalerRecheck, SpawnInv, SGoto, ScalerTypes,
       Lesser
  <2>3. QueueTypes' /\ SubmitterTypes' /\ WorkerTypes' /\ CallerTypes' /\
           LockInv' /\ BatchInv'
    BY <1>3 DEF ScalerRecheck, QueueTypes, SubmitterTypes, WorkerTypes,
       CallerTypes, LockInv, BatchInv
  <2> QED BY <2>1, <2>2, <2>3 DEF TypeInv, TypeOK
<1>4. CASE ScalerAdd
  <2>1. ScalerTypes'
    BY <1>4 DEF ScalerAdd, ScalerTypes, SGoto, ScalerPc
  <2>2. SpawnInv'
    BY <1>4 DEF ScalerAdd, SpawnInv, SGoto, ScalerTypes
  <2>3. QueueTypes' /\ SubmitterTypes' /\ WorkerTypes' /\ CallerTypes' /\
           LockInv' /\ BatchInv'
    BY <1>4 DEF ScalerAdd, QueueTypes, SubmitterTypes, WorkerTypes,
       CallerTypes, LockInv, BatchInv
  <2> QED BY <2>1, <2>2, <2>3 DEF TypeInv, TypeOK
<1>5. CASE ScalerTake
  <2>1. spawning' \in Workers
    BY <1>5 DEF ScalerTake, CanAllocate, NewWorker, WorkerTypes
  <2>2. WorkerTypes'
    BY <1>5 DEF ScalerTake, WorkerTypes, WorkerPc, Active, CanAllocate
  <2>3. ScalerTypes'
    BY <1>5, <2>1 DEF ScalerTake, ScalerTypes, SGoto, ScalerPc
  <2>4. SpawnInv'
    BY <1>5, <2>1, ActorsAssumption DEF ScalerTake, SpawnInv, SGoto,
       ScalerTypes
  <2>5. QueueTypes' /\ SubmitterTypes' /\ CallerTypes' /\ LockInv' /\
           BatchInv'
    BY <1>5 DEF ScalerTake, QueueTypes, SubmitterTypes, CallerTypes, LockInv,
       BatchInv
  <2> QED BY <2>1, <2>2, <2>3, <2>4, <2>5 DEF TypeInv, TypeOK
<1>6. CASE ScalerStart
  <2>1. WorkerTypes'
    BY <1>6, MaskedShard, ShardNat, ZeroShard DEF ScalerStart, WorkerTypes,
       StartWorker, WorkerPc, Active, ScalerTypes, SpawnInv
  <2>2. ScalerTypes'
    BY <1>6 DEF ScalerStart, ScalerTypes, SGoto, ScalerPc, SpawnInv
  <2>3. BatchInv'
    BY <1>6 DEF ScalerStart, BatchInv, StartWorker, WorkerTypes
  <2>4. SpawnInv'
    BY <1>6 DEF ScalerStart, SpawnInv, SGoto, ScalerTypes
  <2>5. QueueTypes' /\ SubmitterTypes' /\ CallerTypes' /\ LockInv'
    BY <1>6 DEF ScalerStart, QueueTypes, SubmitterTypes, CallerTypes, LockInv
  <2> QED BY <2>1, <2>2, <2>3, <2>4, <2>5 DEF TypeInv, TypeOK
<1>7. CASE ScalerLoadClosed
  <2>1. ScalerTypes'
    BY <1>7 DEF ScalerLoadClosed, ScalerTypes, SGoto, ScalerPc
  <2>2. SpawnInv'
    BY <1>7 DEF ScalerLoadClosed, SpawnInv, SGoto, ScalerTypes
  <2>3. QueueTypes' /\ SubmitterTypes' /\ WorkerTypes' /\ CallerTypes' /\
           LockInv' /\ BatchInv'
    BY <1>7 DEF ScalerLoadClosed, QueueTypes, SubmitterTypes, WorkerTypes,
       CallerTypes, LockInv, BatchInv
  <2> QED BY <2>1, <2>2, <2>3 DEF TypeInv, TypeOK
<1>8. CASE ScalerLoadPending
  <2>1. ScalerTypes'
    BY <1>8 DEF ScalerLoadPending, ScalerTypes, SGoto, ScalerPc
  <2>2. SpawnInv'
    BY <1>8 DEF ScalerLoadPending, SpawnInv, SGoto, ScalerTypes
  <2>3. QueueTypes' /\ SubmitterTypes' /\ WorkerTypes' /\ CallerTypes' /\
           LockInv' /\ BatchInv'
    BY <1>8 DEF ScalerLoadPending, QueueTypes, SubmitterTypes, WorkerTypes,
       CallerTypes, LockInv, BatchInv
  <2> QED BY <2>1, <2>2, <2>3 DEF TypeInv, TypeOK
<1> QED BY <1>1, <1>2, <1>3, <1>4, <1>5, <1>6, <1>7, <1>8 DEF Scaler

\* A step of the cleaner, or of a goroutine in Wait or Close, preserves the
\* types.
LEMMA TypeCaller ==
  ASSUME TypeInv,
         \/ CleanerTick \/ CleanerStop
         \/ \E v \in Waiters : WaitCall(v) \/ WaitReturn(v)
         \/ \E c \in Closers : CloseCAS(c) \/ Close(c)
  PROVE  TypeInv'
<1> USE DEF TypeInv, TypeOK, poolVars, queueVars, drainVars, submitVars,
       workerVars, scalerVars, waitVars, callFrame
<1>1. CASE CleanerTick
  <2>1. WorkerTypes'
    BY <1>1 DEF CleanerTick, WorkerTypes, WorkerPc
  <2>2. BatchInv'
    BY <1>1 DEF CleanerTick, BatchInv, WorkerTypes
  <2>3. QueueTypes' /\ SubmitterTypes' /\ ScalerTypes' /\ CallerTypes' /\
          LockInv' /\ SpawnInv'
    BY <1>1 DEF CleanerTick, QueueTypes, SubmitterTypes, ScalerTypes,
       CallerTypes, LockInv, SpawnInv
  <2> QED BY <2>1, <2>2, <2>3
<1>2. ASSUME NEW v \in Waiters, WaitCall(v) PROVE TypeInv'
  <2>1. InFlight \subseteq Tasks
    BY InFlightTasks DEF TypeInv, TypeOK
  <2>2. CallerTypes'
    <3>1. owed' \in [Waiters -> SUBSET Tasks]
      BY <1>2, <2>1 DEF WaitCall, CallerTypes
    <3>2. drainCh' \in Waiters \cup {None}
      BY <1>2 DEF WaitCall, CallerTypes
    <3>3. waitPc' \in [Waiters -> {"idle", "waiting", "returned"}]
      BY <1>2 DEF WaitCall, CallerTypes
    <3>4. waitCh' \in [Waiters -> Waiters \cup {None}]
      BY <1>2, <3>2 DEF WaitCall, CallerTypes
    <3>5. UNCHANGED <<pendingTasks, drained, closePc, cleaner, closed,
                    closePoolCn, overflowClosed>>
      BY <1>2 DEF WaitCall
    <3> QED BY <3>1, <3>2, <3>3, <3>4, <3>5 DEF CallerTypes
  <2>3. QueueTypes' /\ SubmitterTypes' /\ WorkerTypes' /\ ScalerTypes' /\
          LockInv' /\ BatchInv' /\ SpawnInv'
    BY <1>2 DEF WaitCall, QueueTypes, SubmitterTypes, WorkerTypes, ScalerTypes,
       LockInv, BatchInv, SpawnInv
  <2> QED BY <2>2, <2>3
<1>3. CASE CleanerStop
  <2>1. CallerTypes'
    BY <1>3 DEF CleanerStop, CallerTypes
  <2>2. QueueTypes' /\ SubmitterTypes' /\ WorkerTypes' /\ ScalerTypes' /\
          LockInv' /\ BatchInv' /\ SpawnInv'
    BY <1>3 DEF CleanerStop, QueueTypes, SubmitterTypes, WorkerTypes,
       ScalerTypes, LockInv, BatchInv, SpawnInv
  <2> QED BY <2>1, <2>2
<1>4. ASSUME NEW v \in Waiters, WaitReturn(v) PROVE TypeInv'
  <2>1. CallerTypes'
    BY <1>4 DEF WaitReturn, CallerTypes
  <2>2. QueueTypes' /\ SubmitterTypes' /\ WorkerTypes' /\ ScalerTypes' /\
          LockInv' /\ BatchInv' /\ SpawnInv'
    BY <1>4 DEF WaitReturn, QueueTypes, SubmitterTypes, WorkerTypes,
       ScalerTypes, LockInv, BatchInv, SpawnInv
  <2> QED BY <2>1, <2>2
<1>5. ASSUME NEW c \in Closers, CloseCAS(c) PROVE TypeInv'
  <2>1. CallerTypes'
    BY <1>5 DEF CloseCAS, CallerTypes
  <2>2. QueueTypes' /\ SubmitterTypes' /\ WorkerTypes' /\ ScalerTypes' /\
          LockInv' /\ BatchInv' /\ SpawnInv'
    BY <1>5 DEF CloseCAS, QueueTypes, SubmitterTypes, WorkerTypes,
       ScalerTypes, LockInv, BatchInv, SpawnInv
  <2> QED BY <2>1, <2>2
<1>6. ASSUME NEW c \in Closers, CloseBuffer(c) PROVE TypeInv'
  <2>1. CallerTypes'
    BY <1>6 DEF CloseBuffer, CallerTypes
  <2>2. QueueTypes' /\ SubmitterTypes' /\ WorkerTypes' /\ ScalerTypes' /\
          LockInv' /\ BatchInv' /\ SpawnInv'
    BY <1>6 DEF CloseBuffer, QueueTypes, SubmitterTypes, WorkerTypes,
       ScalerTypes, LockInv, BatchInv, SpawnInv
  <2> QED BY <2>1, <2>2
<1>7. ASSUME NEW c \in Closers, CloseChannel(c) PROVE TypeInv'
  <2>1. CallerTypes'
    BY <1>7 DEF CloseChannel, CallerTypes
  <2>2. QueueTypes' /\ SubmitterTypes' /\ WorkerTypes' /\ ScalerTypes' /\
          LockInv' /\ BatchInv' /\ SpawnInv'
    BY <1>7 DEF CloseChannel, QueueTypes, SubmitterTypes, WorkerTypes,
       ScalerTypes, LockInv, BatchInv, SpawnInv
  <2> QED BY <2>1, <2>2
<1> QED BY <1>1, <1>2, <1>3, <1>4, <1>5, <1>6, <1>7 DEF Close

LEMMA TypeStep == TypeInv /\ [Next]_vars => TypeInv'
<1> SUFFICES ASSUME TypeInv, [Next]_vars PROVE TypeInv'
  OBVIOUS
<1>1. CASE UNCHANGED vars
  BY <1>1 DEF TypeInv, TypeOK, QueueTypes, SubmitterTypes, WorkerTypes,
     ScalerTypes, CallerTypes, LockInv, BatchInv, SpawnInv, vars, poolVars,
     queueVars, drainVars, submitVars, workerVars, scalerVars, waitVars
<1> QED BY <1>1, TypeSubmitter, TypeWorker, TypeScaler, TypeCaller DEF Next

LEMMA TypeInvariant == Spec => []TypeInv
BY TypeInit, TypeStep, PTL DEF Spec

\* Every variable of the pool keeps to its type, whatever the number of tasks,
\* workers, shards and callers.
THEOREM TypeCorrect == Spec => []TypeOK
<1>1. TypeInv => TypeOK
  BY DEF TypeInv
<1> QED BY <1>1, TypeInvariant, PTL

=============================================================================
