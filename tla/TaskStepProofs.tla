--------------------------- MODULE TaskStepProofs ---------------------------
(***************************************************************************)
(* The invariant about the tasks of AgilePool, and that every kind of step *)
(* keeps it.                                                               *)
(***************************************************************************)
EXTENDS PlaceProofs

(***************************************************************************)
(* The invariant.  What a task's place, its submitter's program counter    *)
(* and the number of its runs say about each other.                        *)
(***************************************************************************)

Placed == Buffered \cup Beyond

\* Only a task in the hands of its submitter, which holds the buffer lock, is
\* in the buffer without being accepted.
SubmittedInv ==
  /\ Beyond \subseteq {t \in Tasks : pc[t] = "accepted"}
  /\ Buffered \subseteq {t \in Tasks : pc[t] \in {"accepted", "forward"}}
  /\ \A t \in Tasks : pc[t] = "forward" => t \in Buffered

\* A worker has begun with the task.
Begun(t) ==
  \E w \in Workers : wpc[w] \in {"body", "done"} /\ t = Head(batch[w])

\* The body has run once, or was skipped.
Ran(t) == runs[t] = 1 \/ (runs[t] = 0 /\ t \in CancellableTasks \cap ctxDone)

RunsInv ==
  /\ \A t \in Tasks : pc[t] # "accepted" => runs[t] = 0
  /\ \A t \in Placed : ~Begun(t) => runs[t] = 0
  /\ \A t \in Tasks : pc[t] = "accepted" /\ t \notin Placed => Ran(t)
  /\ \A w \in Workers : /\ wpc[w] = "body" => runs[Head(batch[w])] = 1
                        /\ wpc[w] = "done" => Ran(Head(batch[w]))

TaskInv == OnePlace /\ SubmittedInv /\ RunsInv

LEMMA PlacedTasks ==
  ASSUME SubmittedInv
  PROVE  Placed \subseteq Tasks
BY DEF SubmittedInv, Placed

\* The tasks in flight are those of the submitters and those in some place.
LEMMA InFlightIs ==
  /\ InFlight = {t \in Tasks : pc[t] \in Submitting} \cup Placed
  /\ InFlight' = {t \in Tasks : pc'[t] \in Submitting} \cup Placed'
<1>1. \A x : x \in Queued \cup UNION {Held(w) : w \in Workers} <=> x \in Placed
  BY AtIs, BeyondIs DEF Queued, Held, Placed, Buffered, OffBuffer
<1>2. \A x : x \in Queued' \cup UNION {Held(w)' : w \in Workers} <=> x \in Placed'
  BY AtIs, BeyondIs DEF Queued, Held, Placed, Buffered, OffBuffer
<1> QED BY <1>1, <1>2 DEF InFlight

\* The first task of a worker's batch is in its hands and nowhere else.
LEMMA FirstInHand ==
  ASSUME TypeInv, TaskInv, NEW w \in Workers,
         wpc[w] \in {"start", "body", "done"}
  PROVE  /\ InHand(w) = batch[w] /\ batch[w] # <<>>
         /\ Head(batch[w]) \in Beyond /\ Head(batch[w]) \in Tasks
         /\ pc[Head(batch[w])] = "accepted"
         /\ \A v \in Workers \ {w} : wpc[v] \in {"start", "body", "done"}
                                      => Head(batch[v]) # Head(batch[w])
<1>1. \A v \in Workers : wpc[v] \in {"start", "body", "done"} =>
        /\ InHand(v) = batch[v] /\ batch[v] # <<>>
        /\ Head(batch[v]) \in ToSet(At(Hand(v)))
  <2> SUFFICES ASSUME NEW v \in Workers, wpc[v] \in {"start", "body", "done"}
               PROVE  /\ InHand(v) = batch[v] /\ batch[v] # <<>>
                      /\ Head(batch[v]) \in ToSet(At(Hand(v)))
    OBVIOUS
  <2>1. InHand(v) = batch[v] /\ batch[v] # <<>> /\ batch[v] \in Seq(Tasks)
    BY DEF InHand, TypeInv, TypeOK, WorkerTypes, BatchInv
  <2>2. Head(batch[v]) \in ToSet(batch[v])
    BY <2>1, TailSet
  <2> QED BY <2>1, <2>2, AtIs
<1>2. Head(batch[w]) \in Beyond
  BY <1>1, BeyondIs, PlacesDiffer
<1>3. \A v \in Workers \ {w} : wpc[v] \in {"start", "body", "done"}
                                 => Head(batch[v]) # Head(batch[w])
  BY <1>1, PlacesDiffer DEF TaskInv, OnePlace
<1> QED BY <1>1, <1>2, <1>3 DEF TaskInv, SubmittedInv

(***************************************************************************)
(* One lemma per kind of step.                                             *)
(***************************************************************************)

Busy == {"start", "body", "done", "wake"}

\* No worker's batch is touched and no body called.
SameWork ==
  /\ UNCHANGED <<batch, runs>> /\ ctxDone \subseteq ctxDone'
  /\ \A w \in Workers : wpc'[w] = wpc[w] \/ (wpc[w] \notin Busy /\ wpc'[w] \notin Busy)

LEMMA SameWorkFacts ==
  ASSUME SameWork
  PROVE  /\ SameHands({})
         /\ \A t : Begun(t)' <=> Begun(t)
         /\ \A t : Ran(t) => Ran(t)'
<1>1. SameHands({})
  BY DEF SameWork, SameHands, InHand, Busy
<1>2. \A t : Begun(t)' <=> Begun(t)
  BY DEF SameWork, Begun, Busy
<1>3. \A t : Ran(t) => Ran(t)'
  BY DEF SameWork, Ran
<1> QED BY <1>1, <1>2, <1>3

\* A step that leaves the queues alone and accepts no task.
LEMMA QuietStep ==
  ASSUME TypeInv, TaskInv, SameWork, UNCHANGED <<taskBuf, taskQueues>>,
         \A t \in Tasks : \/ pc'[t] = pc[t]
                          \/ /\ pc[t] \notin {"accepted", "forward"}
                             /\ pc'[t] \notin {"accepted", "forward"}
  PROVE  TaskInv' /\ Placed' = Placed
<1>1. OnePlace' /\ Buffered' = Buffered /\ Beyond' = Beyond
  BY StayMove, SameWorkFacts DEF TaskInv
<1>2. Placed' = Placed
  BY <1>1 DEF Placed
<1>3. SubmittedInv'
  BY <1>1 DEF TaskInv, SubmittedInv
<1>4. RunsInv'
  <2>1. /\ \A t \in Tasks : pc'[t] # "accepted" => runs'[t] = 0
        /\ \A t \in Tasks : pc'[t] = "accepted" /\ t \notin Placed' => Ran(t)'
    BY <1>2, SameWorkFacts DEF TaskInv, RunsInv, SameWork
  <2>2. \A t \in Placed' : ~Begun(t)' => runs'[t] = 0
    BY <1>2, SameWorkFacts DEF TaskInv, RunsInv, SameWork
  <2>3. \A w \in Workers : /\ wpc'[w] = "body" => runs'[Head(batch'[w])] = 1
                           /\ wpc'[w] = "done" => Ran(Head(batch[w]))'
    BY SameWorkFacts DEF TaskInv, RunsInv, SameWork, Busy, Ran
  <2> QED BY <2>1, <2>2, <2>3 DEF RunsInv
<1> QED BY <1>1, <1>2, <1>3, <1>4 DEF TaskInv

\* Only the submitter that holds the buffer lock is at "forward".
LEMMA OneForwards ==
  ASSUME TypeInv, NEW t \in Tasks, pc[t] = "forward" \/ taskMu = None
  PROVE  \A x \in Tasks \ {t} : pc[x] # "forward"
BY TasksAssumption DEF TypeInv, LockInv

\* A submission is accepted by a shard.
LEMMA SendStep ==
  ASSUME TypeInv, TaskInv, SameWork, NEW t \in Tasks, NEW s \in Shards,
         pc[t] \notin {"accepted", "forward"}, Goto(t, "accepted"),
         Enqueue(s, t), UNCHANGED taskBuf
  PROVE  TaskInv' /\ Placed' = Placed \cup {t}
<1>1. t \notin Buffered \cup Beyond
  BY DEF TaskInv, SubmittedInv
<1>2. OnePlace' /\ Buffered' = Buffered /\ Beyond' = Beyond \cup {t}
  BY <1>1, SendMove, SameWorkFacts DEF TaskInv
<1>3. Placed' = Placed \cup {t}
  BY <1>2 DEF Placed
<1>4. pc'[t] = "accepted" /\ \A x \in Tasks \ {t} : pc'[x] = pc[x]
  BY DEF Goto, TypeInv, TypeOK, SubmitterTypes
<1>5. SubmittedInv'
  BY <1>1, <1>2, <1>4 DEF TaskInv, SubmittedInv
<1>6. runs[t] = 0 /\ runs' = runs
  BY DEF TaskInv, RunsInv, SameWork
<1>7. RunsInv'
  <2>1. \A x \in Tasks : pc'[x] # "accepted" => runs'[x] = 0
    BY <1>4, <1>6 DEF TaskInv, RunsInv
  <2>2. \A x \in Tasks : pc'[x] = "accepted" /\ x \notin Placed' => Ran(x)'
    BY <1>3, <1>4, SameWorkFacts DEF TaskInv, RunsInv
  <2>3. \A x \in Placed' : ~Begun(x)' => runs'[x] = 0
    BY <1>3, <1>6, SameWorkFacts DEF TaskInv, RunsInv
  <2>4. \A w \in Workers : /\ wpc'[w] = "body" => runs'[Head(batch'[w])] = 1
                           /\ wpc'[w] = "done" => Ran(Head(batch[w]))'
    BY SameWorkFacts DEF TaskInv, RunsInv, SameWork, Busy, Ran
  <2> QED BY <2>1, <2>2, <2>3, <2>4 DEF RunsInv
<1> QED BY <1>2, <1>3, <1>5, <1>7 DEF TaskInv

\* A submitter has put its task into the buffer.
LEMMA PushStep ==
  ASSUME TypeInv, TaskInv, SameWork, NEW t \in Tasks,
         pc[t] \notin {"accepted", "forward"}, Goto(t, "forward"),
         taskBuf' = Append(taskBuf, t), UNCHANGED taskQueues
  PROVE  TaskInv' /\ Placed' = Placed \cup {t}
<1>1. t \notin Buffered \cup Beyond
  BY DEF TaskInv, SubmittedInv
<1>2. OnePlace' /\ Buffered' = Buffered \cup {t} /\ Beyond' = Beyond
  BY <1>1, PushMove, SameWorkFacts DEF TaskInv
<1>3. Placed' = Placed \cup {t}
  BY <1>2 DEF Placed
<1>4. pc'[t] = "forward" /\ \A x \in Tasks \ {t} : pc'[x] = pc[x]
  BY DEF Goto, TypeInv, TypeOK, SubmitterTypes
<1>5. SubmittedInv'
  BY <1>1, <1>2, <1>4 DEF TaskInv, SubmittedInv
<1>6. runs[t] = 0 /\ runs' = runs
  BY DEF TaskInv, RunsInv, SameWork
<1>7. RunsInv'
  <2>1. \A x \in Tasks : pc'[x] # "accepted" => runs'[x] = 0
    BY <1>4, <1>6 DEF TaskInv, RunsInv
  <2>2. \A x \in Tasks : pc'[x] = "accepted" /\ x \notin Placed' => Ran(x)'
    BY <1>3, <1>4, SameWorkFacts DEF TaskInv, RunsInv
  <2>3. \A x \in Placed' : ~Begun(x)' => runs'[x] = 0
    BY <1>3, <1>6, SameWorkFacts DEF TaskInv, RunsInv
  <2>4. \A w \in Workers : /\ wpc'[w] = "body" => runs'[Head(batch'[w])] = 1
                           /\ wpc'[w] = "done" => Ran(Head(batch[w]))'
    BY SameWorkFacts DEF TaskInv, RunsInv, SameWork, Busy, Ran
  <2> QED BY <2>1, <2>2, <2>3, <2>4 DEF RunsInv
<1> QED BY <1>2, <1>3, <1>5, <1>7 DEF TaskInv

\* The submitter at "forward" returns, its task or an older one forwarded, or
\* none.
LEMMA ForwardStep ==
  ASSUME TypeInv, TaskInv, SameWork, NEW t \in Tasks,
         pc[t] = "forward", Goto(t, "accepted"),
         \/ UNCHANGED <<taskBuf, taskQueues>>
         \/ /\ taskBuf # <<>> /\ taskBuf' = Tail(taskBuf)
            /\ \E s \in Shards : Enqueue(s, Head(taskBuf))
  PROVE  TaskInv' /\ Placed' = Placed
<1>1. /\ OnePlace' /\ Placed' = Placed
      /\ Buffered' \subseteq Buffered
  <2>1. CASE UNCHANGED <<taskBuf, taskQueues>>
    BY <2>1, StayMove, SameWorkFacts DEF TaskInv, Placed
  <2>2. CASE /\ taskBuf # <<>> /\ taskBuf' = Tail(taskBuf)
             /\ \E s \in Shards : Enqueue(s, Head(taskBuf))
    <3>1. PICK s \in Shards : Enqueue(s, Head(taskBuf))
      BY <2>2
    <3>2. /\ OnePlace' /\ Head(taskBuf) \in Buffered
          /\ Buffered' = Buffered \ {Head(taskBuf)}
          /\ Beyond' = Beyond \cup {Head(taskBuf)}
      BY <2>2, <3>1, ForwardMove, SameWorkFacts DEF TaskInv
    <3> QED BY <3>2 DEF Placed
  <2> QED BY <2>1, <2>2
<1>2. pc'[t] = "accepted" /\ \A x \in Tasks \ {t} : pc'[x] = pc[x]
  BY DEF Goto, TypeInv, TypeOK, SubmitterTypes
<1>3. \A x \in Placed : x \in Tasks /\ pc'[x] = "accepted"
  BY <1>2, OneForwards DEF TaskInv, SubmittedInv, Placed
<1>4. SubmittedInv'
  <2>1. \A x \in Tasks : pc'[x] # "forward"
    BY <1>2, OneForwards
  <2> QED BY <1>1, <1>3, <2>1 DEF SubmittedInv, Placed
<1>5. t \in Placed /\ runs' = runs
  BY DEF TaskInv, SubmittedInv, Placed, SameWork
<1>6. RunsInv'
  <2>1. \A x \in Tasks : pc'[x] # "accepted" => runs'[x] = 0
    BY <1>2, <1>5 DEF TaskInv, RunsInv
  <2>2. \A x \in Tasks : pc'[x] = "accepted" /\ x \notin Placed' => Ran(x)'
    BY <1>1, <1>2, <1>5, SameWorkFacts DEF TaskInv, RunsInv
  <2>3. \A x \in Placed' : ~Begun(x)' => runs'[x] = 0
    BY <1>1, <1>5, SameWorkFacts DEF TaskInv, RunsInv
  <2>4. \A w \in Workers : /\ wpc'[w] = "body" => runs'[Head(batch'[w])] = 1
                           /\ wpc'[w] = "done" => Ran(Head(batch[w]))'
    BY SameWorkFacts DEF TaskInv, RunsInv, SameWork, Busy, Ran
  <2> QED BY <2>1, <2>2, <2>3, <2>4 DEF RunsInv
<1> QED BY <1>1, <1>4, <1>6 DEF TaskInv

\* The other workers, the submitters and the contexts stand still.
OnlyWorker(w) ==
  /\ UNCHANGED <<pc, ctxDone>>
  /\ \A v \in Workers \ {w} : wpc'[v] = wpc[v] /\ batch'[v] = batch[v]

\* A worker takes tasks, or goes on to the next one: no body begins or ends.
LEMMA BetweenTasks ==
  ASSUME TypeInv, TaskInv, NEW w \in Workers, OnlyWorker(w), UNCHANGED runs,
         wpc[w] \notin {"body", "done"}, wpc'[w] \notin {"body", "done"},
         Placed' = Placed
  PROVE  RunsInv'
<1>1. \A t : (Begun(t)' <=> Begun(t)) /\ (Ran(t)' <=> Ran(t))
  BY DEF OnlyWorker, Begun, Ran
<1>2. \A v \in Workers : /\ wpc'[v] = "body" => runs'[Head(batch'[v])] = 1
                         /\ wpc'[v] = "done" => Ran(Head(batch[v]))'
  BY <1>1 DEF TaskInv, RunsInv, OnlyWorker, Ran
<1> QED BY <1>1, <1>2 DEF TaskInv, RunsInv, OnlyWorker

LEMMA ReceiveStep ==
  ASSUME TypeInv, TaskInv, NEW w \in Workers, NEW s \in Shards,
         wpc[w] = "scan", wpc'[w] = "start", OnlyWorker(w),
         taskQueues[s] # <<>>, batch'[w] = <<Head(taskQueues[s])>>,
         taskQueues' = [taskQueues EXCEPT ![s] = Tail(@)],
         UNCHANGED <<taskBuf, runs>>
  PROVE  TaskInv' /\ Placed' = Placed
<1>1. /\ InHand(w) = <<>> /\ InHand(w)' = <<Head(taskQueues[s])>>
      /\ SameHands({w})
  BY DEF InHand, SameHands, OnlyWorker
<1>2. OnePlace' /\ Buffered' = Buffered /\ Beyond' = Beyond
  BY <1>1, ReceiveMove DEF TaskInv
<1>3. SubmittedInv'
  BY <1>2 DEF TaskInv, SubmittedInv, OnlyWorker
<1>4. Placed' = Placed
  BY <1>2 DEF Placed
<1>5. RunsInv'
  BY <1>4, BetweenTasks
<1> QED BY <1>2, <1>3, <1>4, <1>5 DEF TaskInv

LEMMA PopStep ==
  ASSUME TypeInv, TaskInv, NEW w \in Workers, NEW n \in Nat,
         n <= Len(taskBuf), taskMu = None,
         wpc[w] = "pop", wpc'[w] = "start", OnlyWorker(w),
         batch'[w] = SubSeq(taskBuf, 1, n),
         taskBuf' = SubSeq(taskBuf, n + 1, Len(taskBuf)),
         UNCHANGED <<taskQueues, runs>>
  PROVE  TaskInv' /\ Placed' = Placed
<1>1. /\ InHand(w) = <<>> /\ InHand(w)' = SubSeq(taskBuf, 1, n)
      /\ SameHands({w})
  BY DEF InHand, SameHands, OnlyWorker
<1>2. /\ OnePlace' /\ Buffered' \subseteq Buffered
      /\ Beyond' = Beyond \cup (Buffered \ Buffered')
  BY <1>1, PopMove DEF TaskInv
<1>3. \A t \in Tasks : pc[t] # "forward"
  BY TasksAssumption DEF TypeInv, LockInv
<1>4. SubmittedInv'
  BY <1>2, <1>3 DEF TaskInv, SubmittedInv, OnlyWorker
<1>5. Placed' = Placed
  BY <1>2 DEF Placed
<1>6. RunsInv'
  BY <1>5, BetweenTasks
<1> QED BY <1>2, <1>4, <1>5, <1>6 DEF TaskInv

LEMMA WakeStep ==
  ASSUME TypeInv, TaskInv, NEW w \in Workers,
         wpc[w] = "wake", OnlyWorker(w), NextTask(w),
         UNCHANGED <<taskBuf, taskQueues, runs>>
  PROVE  TaskInv' /\ Placed' = Placed
<1>1. batch[w] \in Seq(Tasks) /\ batch[w] # <<>> /\ batch'[w] = Tail(batch[w])
  BY DEF NextTask, TypeInv, TypeOK, WorkerTypes, BatchInv
<1>2. wpc'[w] = IF Len(batch[w]) > 1 THEN "start" ELSE "scan"
  BY DEF NextTask, WGoto, TypeInv, TypeOK, WorkerTypes
<1>3. Len(batch[w]) > 1 \/ Tail(batch[w]) = <<>>
  BY <1>1, LenProperties, EmptySeq, HeadTailProperties
<1>4. SameHands({})
  BY <1>1, <1>2, <1>3 DEF InHand, SameHands, OnlyWorker
<1>5. OnePlace' /\ Buffered' = Buffered /\ Beyond' = Beyond
  BY <1>4, StayMove DEF TaskInv
<1>6. SubmittedInv'
  BY <1>5 DEF TaskInv, SubmittedInv, OnlyWorker
<1>7. Placed' = Placed
  BY <1>5 DEF Placed
<1>8. RunsInv'
  BY <1>2, <1>7, BetweenTasks
<1> QED BY <1>5, <1>6, <1>7, <1>8 DEF TaskInv

\* A worker calls the body of its first task, or skips it.
LEMMA StartStep ==
  ASSUME TypeInv, TaskInv, NEW w \in Workers, StartTask(w)
  PROVE  TaskInv' /\ Placed' = Placed
<1> DEFINE h == Head(batch[w])
<1>1. /\ wpc[w] = "start" /\ OnlyWorker(w) /\ UNCHANGED <<batch, taskBuf, taskQueues>>
      /\ \/ h \in CancellableTasks \cap ctxDone /\ wpc'[w] = "done" /\ runs' = runs
         \/ wpc'[w] = "body" /\ runs' = [runs EXCEPT ![h] = @ + 1]
  BY DEF StartTask, WGoto, OnlyWorker, workerFrame, submitVars, TypeInv, TypeOK,
     WorkerTypes
<1>2. /\ h' = h /\ h \in Beyond /\ h \in Tasks /\ pc[h] = "accepted"
      /\ \A v \in Workers \ {w} : wpc[v] \in {"start", "body", "done"}
                                   => Head(batch[v]) # h
  BY <1>1, FirstInHand
<1> HIDE DEF h
<1>3. SameHands({})
  BY <1>1 DEF SameHands, InHand, OnlyWorker
<1>4. OnePlace' /\ Buffered' = Buffered /\ Beyond' = Beyond
  BY <1>1, <1>3, StayMove DEF TaskInv
<1>5. Placed' = Placed /\ h \in Placed
  BY <1>2, <1>4 DEF Placed
<1>6. SubmittedInv'
  BY <1>1, <1>4 DEF TaskInv, SubmittedInv, OnlyWorker
<1>7. runs[h] = 0
  <2>1. ~Begun(h)
    BY <1>1, <1>2 DEF Begun
  <2> QED BY <1>5, <2>1 DEF TaskInv, RunsInv
<1>8. /\ \A t \in Tasks \ {h} : runs'[t] = runs[t] /\ (Ran(t)' <=> Ran(t))
      /\ wpc'[w] = "body" => runs'[h] = 1
      /\ wpc'[w] = "done" => Ran(h)'
  <2>1. /\ \A t \in Tasks \ {h} : runs'[t] = runs[t]
        /\ wpc'[w] = "body" => runs'[h] = 1
        /\ wpc'[w] = "done" => runs'[h] = 0 /\ h \in CancellableTasks \cap ctxDone
    BY <1>1, <1>2, <1>7 DEF TypeInv, TypeOK, SubmitterTypes
  <2> QED BY <1>1, <1>2, <2>1 DEF Ran, OnlyWorker
<1>9. \A t : Begun(t)' <=> Begun(t) \/ t = h
  BY <1>1 DEF Begun, OnlyWorker, h
<1>10. RunsInv'
  <2>1. \A t \in Tasks : pc'[t] # "accepted" => runs'[t] = 0
    BY <1>1, <1>2, <1>8 DEF TaskInv, RunsInv, OnlyWorker
  <2>2. \A t \in Placed' : ~Begun(t)' => runs'[t] = 0
    BY <1>5, <1>8, <1>9, PlacedTasks DEF TaskInv, RunsInv
  <2>3. \A t \in Tasks : pc'[t] = "accepted" /\ t \notin Placed' => Ran(t)'
    BY <1>1, <1>5, <1>8 DEF TaskInv, RunsInv, OnlyWorker
  <2>4. ASSUME NEW v \in Workers \ {w}, wpc'[v] \in {"body", "done"}
        PROVE  /\ wpc'[v] = "body" => runs'[Head(batch'[v])] = 1
               /\ wpc'[v] = "done" => Ran(Head(batch[v]))'
    <3>1. wpc[v] = wpc'[v] /\ Head(batch[v]) \in Tasks \ {h}
      BY <1>1, <1>2, <2>4, FirstInHand DEF OnlyWorker
    <3>2. wpc[v] = "done" => Ran(Head(batch[v]))
      BY DEF TaskInv, RunsInv
    <3>3. Ran(Head(batch[v])) => Ran(Head(batch[v]))'
      BY <1>1, <1>8, <3>1 DEF Ran, OnlyWorker
    <3> QED BY <1>1, <1>8, <3>1, <3>2, <3>3 DEF TaskInv, RunsInv, OnlyWorker
  <2>5. /\ wpc'[w] = "body" => runs'[Head(batch'[w])] = 1
        /\ wpc'[w] = "done" => Ran(Head(batch[w]))'
    BY <1>1, <1>8 DEF h, Ran
  <2>6. \A v \in Workers : /\ wpc'[v] = "body" => runs'[Head(batch'[v])] = 1
                           /\ wpc'[v] = "done" => Ran(Head(batch[v]))'
    BY <2>4, <2>5
  <2> QED BY <2>1, <2>2, <2>3, <2>6 DEF RunsInv
<1> QED BY <1>4, <1>5, <1>6, <1>10 DEF TaskInv

LEMMA EndStep ==
  ASSUME TypeInv, TaskInv, NEW w \in Workers, EndTask(w)
  PROVE  TaskInv' /\ Placed' = Placed
<1>1. /\ wpc[w] = "body" /\ wpc'[w] = "done" /\ OnlyWorker(w)
      /\ UNCHANGED <<batch, runs, taskBuf, taskQueues>>
  BY DEF EndTask, WGoto, OnlyWorker, workerFrame, submitVars, TypeInv, TypeOK,
     WorkerTypes
<1>2. SameHands({})
  BY <1>1 DEF SameHands, InHand, OnlyWorker
<1>3. OnePlace' /\ Buffered' = Buffered /\ Beyond' = Beyond
  BY <1>1, <1>2, StayMove DEF TaskInv
<1>4. Placed' = Placed
  BY <1>3 DEF Placed
<1>5. SubmittedInv'
  BY <1>1, <1>3 DEF TaskInv, SubmittedInv, OnlyWorker
<1>6. \A t : (Begun(t)' <=> Begun(t)) /\ (Ran(t)' <=> Ran(t))
  BY <1>1 DEF Begun, Ran, OnlyWorker
<1>7. runs[Head(batch[w])] = 1
  BY <1>1 DEF TaskInv, RunsInv
<1>8. \A v \in Workers : /\ wpc'[v] = "body" => runs'[Head(batch'[v])] = 1
                         /\ wpc'[v] = "done" => Ran(Head(batch[v]))'
  BY <1>1, <1>7 DEF TaskInv, RunsInv, OnlyWorker, Ran
<1>9. RunsInv'
  BY <1>1, <1>4, <1>6, <1>8 DEF TaskInv, RunsInv, OnlyWorker
<1> QED BY <1>3, <1>4, <1>5, <1>9 DEF TaskInv

\* A worker counts its first task off: that task is in no place any more.
LEMMA DoneStep ==
  ASSUME TypeInv, TaskInv, NEW w \in Workers, TaskDone(w)
  PROVE  /\ TaskInv' /\ Head(batch[w]) \in Placed
         /\ Placed' = Placed \ {Head(batch[w])}
<1> DEFINE h == Head(batch[w])
<1>1. /\ wpc[w] = "done" /\ OnlyWorker(w)
      /\ UNCHANGED <<runs, taskBuf, taskQueues>>
      /\ \/ wpc'[w] = "wake" /\ batch' = batch
         \/ NextTask(w)
  BY DEF TaskDone, NextTask, WGoto, OnlyWorker, workerFrame, submitVars, TypeInv,
     TypeOK, WorkerTypes
<1>2. /\ InHand(w) = batch[w] /\ batch[w] # <<>>
      /\ h \in Beyond /\ h \in Tasks /\ pc[h] = "accepted"
      /\ \A v \in Workers \ {w} : wpc[v] \in {"start", "body", "done"}
                                   => Head(batch[v]) # h
  BY <1>1, FirstInHand
<1>3. InHand(w)' = Tail(batch[w]) /\ wpc'[w] \in {"wake", "start", "scan"}
  <2>1. CASE wpc'[w] = "wake" /\ batch' = batch
    BY <2>1 DEF InHand
  <2>2. CASE NextTask(w)
    <3>1. /\ batch'[w] = Tail(batch[w])
          /\ wpc'[w] = IF Len(batch[w]) > 1 THEN "start" ELSE "scan"
      BY <2>2 DEF NextTask, WGoto, TypeInv, TypeOK, WorkerTypes
    <3>2. batch[w] \in Seq(Tasks)
      BY DEF TypeInv, TypeOK, WorkerTypes
    <3>3. Len(batch[w]) > 1 \/ Tail(batch[w]) = <<>>
      BY <1>2, <3>2, LenProperties, EmptySeq, HeadTailProperties
    <3> QED BY <3>1, <3>3 DEF InHand
  <2> QED BY <1>1, <2>1, <2>2
<1>4. SameHands({w})
  BY <1>1 DEF SameHands, InHand, OnlyWorker
<1>5. OnePlace' /\ Buffered' = Buffered /\ Beyond' = Beyond \ {h}
  BY <1>1, <1>2, <1>3, <1>4, DropMove DEF TaskInv
<1> HIDE DEF h
<1>6. h \notin Buffered
  <2>1. PICK p \in OffBuffer : h \in ToSet(At(p))
    BY <1>2, BeyondIs
  <2>2. p # Buffer /\ p \in Places /\ Buffer \in Places
    BY PlacesDiffer
  <2>3. ToSet(At(p)) \cap ToSet(At(Buffer)) = {}
    BY <2>2 DEF TaskInv, OnePlace
  <2> QED BY <2>1, <2>3, AtIs DEF Buffered
<1>7. Placed' = Placed \ {h} /\ h \in Placed
  BY <1>2, <1>5, <1>6 DEF Placed
<1>8. SubmittedInv'
  BY <1>1, <1>5 DEF TaskInv, SubmittedInv, OnlyWorker
<1>9. \A t : (Begun(t)' <=> Begun(t) /\ t # h) /\ (Ran(t)' <=> Ran(t))
  BY <1>1, <1>2, <1>3 DEF Begun, Ran, OnlyWorker, h
<1>10. Ran(h)
  BY <1>1 DEF TaskInv, RunsInv, h
<1>11. \A v \in Workers : /\ wpc'[v] = "body" => runs'[Head(batch'[v])] = 1
                          /\ wpc'[v] = "done" => Ran(Head(batch[v]))'
  BY <1>1, <1>3 DEF TaskInv, RunsInv, OnlyWorker, Ran
<1>12. RunsInv'
  <2>1. \A t \in Tasks : pc'[t] # "accepted" => runs'[t] = 0
    BY <1>1 DEF TaskInv, RunsInv, OnlyWorker
  <2>2. \A t \in Placed' : ~Begun(t)' => runs'[t] = 0
    BY <1>1, <1>7, <1>9 DEF TaskInv, RunsInv
  <2>3. \A t \in Tasks : pc'[t] = "accepted" /\ t \notin Placed' => Ran(t)'
    BY <1>1, <1>7, <1>9, <1>10 DEF TaskInv, RunsInv, OnlyWorker
  <2> QED BY <1>11, <2>1, <2>2, <2>3 DEF RunsInv
<1> QED BY <1>5, <1>7, <1>8, <1>12 DEF TaskInv, h
=============================================================================
