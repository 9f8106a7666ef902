------------------------------ MODULE Scaling ------------------------------
(***************************************************************************)
(* Rate sampling and scaling (statsSampler, sampleRates, scaleIfNeeded and *)
(* scaler of pool.go) with their arithmetic, against a pool reduced to     *)
(* counts: how many tasks wait in the shards and in the buffer, and how    *)
(* many workers have how many tasks in hand.  AgilePool has the same       *)
(* scaler with its races and without its arithmetic.                       *)
(***************************************************************************)
EXTENDS Integers, FiniteSetsExt

CONSTANTS
  Capacity,                \* workerNumCapacity
  ShardCap, BufferCap,     \* the slots of the shards and of the buffer
  Batch,                   \* the largest batch a worker takes
  MaxPending,              \* bound on the tasks in the pool at a time
  RateCap,                 \* bound on a rate counter
  RateBuckets, ExitBuckets, WindowSize,
  Decay,                   \* backlogDecayFactor, in percent
  MaxZeroConsumeScaleStep,
  ScalerPeriod, SamplePeriod

ASSUME ScalingAssumption ==
  /\ Capacity \in Nat \ {0} /\ Batch \in Nat \ {0} /\ RateCap \in Nat \ {0}
  /\ MaxZeroConsumeScaleStep \in Nat \ {0}
  /\ Decay \in 0 .. 100
  /\ ScalerPeriod \in Nat \ {0} /\ SamplePeriod \in Nat \ {0}

VARIABLES
  submitCount, consumeCount, exitCount, \* the counters of the sample window
  submitHist, consumeHist, exitHist,
  shardLen, bufLen,
  load,     \* load[k]: the running workers with k tasks in hand
  cooling,  \* zeroConsumeScaleInterval has not passed since the last growth
  closed,
  sampling, scaling \* the two goroutines have not returned

countVars == <<submitCount, consumeCount, exitCount>>
histVars == <<submitHist, consumeHist, exitHist>>
queueVars == <<shardLen, bufLen>>
stopVars == <<closed, sampling, scaling>>
vars == <<countVars, histVars, queueVars, load, cooling, stopVars>>

Rate == INSTANCE Histogram
          WITH Buckets <- RateBuckets, Samples <- 0 .. RateCap,
               hist <- submitHist, window <- <<>>
Exit == INSTANCE Histogram
          WITH Buckets <- ExitBuckets, Samples <- 0 .. RateCap,
               hist <- exitHist, window <- <<>>

Lesser(a, b) == IF a < b THEN a ELSE b
Greater(a, b) == IF a > b THEN a ELSE b

\* runningWorkersNum, queuedTasks and pendingTasks.
running ==
  LET sum[k \in 0 .. Batch] == load[k] + IF k = 0 THEN 0 ELSE sum[k - 1]
  IN sum[Batch]
queued == shardLen + bufLen
pending ==
  LET sum[k \in 0 .. Batch] == IF k = 0 THEN queued ELSE k * load[k] + sum[k - 1]
  IN sum[Batch]

\* A counter saturates at RateCap: one more would fall in the same bucket.
Count(n) == Lesser(n + 1, RateCap)

Moved(from, to) == [load EXCEPT ![from] = @ - 1, ![to] = @ + 1]

Init ==
  /\ submitCount = 0 /\ consumeCount = 0 /\ exitCount = 0
  /\ submitHist = Rate!newHistogram
  /\ consumeHist = Rate!newHistogram
  /\ exitHist = Exit!newHistogram
  /\ shardLen = 0 /\ bufLen = 0
  /\ load = [k \in 0 .. Batch |-> 0]
  /\ cooling = FALSE
  /\ closed = FALSE /\ sampling = TRUE /\ scaling = TRUE

----------------------------------------------------------------------------
(* The pool. *)

\* An accepted submission, with its cold start.
Submit ==
  /\ ~closed
  /\ pending < MaxPending
  /\ \/ shardLen < ShardCap /\ shardLen' = shardLen + 1 /\ UNCHANGED bufLen
     \/ shardLen = ShardCap /\ bufLen < BufferCap
        /\ bufLen' = bufLen + 1 /\ UNCHANGED shardLen
  /\ submitCount' = Count(submitCount)
  /\ load' = IF running = 0 THEN [load EXCEPT ![0] = 1] ELSE load
  /\ UNCHANGED <<consumeCount, exitCount, histVars, cooling, stopVars>>

\* A worker receives a task from a shard, or a batch from the buffer.
Take ==
  /\ load[0] > 0
  /\ \/ /\ shardLen > 0
        /\ shardLen' = shardLen - 1 /\ UNCHANGED bufLen
        /\ load' = Moved(0, 1)
     \/ LET n == Lesser(bufLen, Batch) IN
        /\ bufLen > 0
        /\ bufLen' = bufLen - n /\ UNCHANGED shardLen
        /\ load' = Moved(0, n)
  /\ consumeCount' = Count(consumeCount)
  /\ UNCHANGED <<submitCount, exitCount, histVars, cooling, stopVars>>

\* A task ends; the worker runs the next one of its batch.
End(k) ==
  /\ load[k] > 0
  /\ load' = Moved(k, k - 1)
  /\ consumeCount' = IF k > 1 THEN Count(consumeCount) ELSE consumeCount
  /\ UNCHANGED <<submitCount, exitCount, histVars, queueVars, cooling, stopVars>>

\* A worker that finds the queues empty stops.
Park ==
  /\ load[0] > 0 /\ queued = 0
  /\ load' = [load EXCEPT ![0] = @ - 1]
  /\ exitCount' = Count(exitCount)
  /\ UNCHANGED <<submitCount, consumeCount, histVars, queueVars, cooling, stopVars>>

Close ==
  /\ ~closed
  /\ closed' = TRUE
  /\ UNCHANGED <<countVars, histVars, queueVars, load, cooling, sampling, scaling>>

IntervalPasses ==
  /\ cooling
  /\ cooling' = FALSE
  /\ UNCHANGED <<countVars, histVars, queueVars, load, stopVars>>

----------------------------------------------------------------------------
(* The sampler and the scaler. *)

\* The test after each tick of statsSampler and scaler.
GoesOn == ~(closed /\ pending = 0)

\* Variant: Close alone ends the sampler.
SampleUntilClose ==
  /\ sampling
  /\ submitHist' = Rate!add(submitHist, submitCount)
  /\ consumeHist' = Rate!add(consumeHist, consumeCount)
  /\ exitHist' = Exit!add(exitHist, exitCount)
  /\ submitCount' = 0 /\ consumeCount' = 0 /\ exitCount' = 0
  /\ sampling' = ~closed
  /\ UNCHANGED <<queueVars, load, cooling, closed, scaling>>

\* One tick of statsSampler.
Sample ==
  /\ sampling
  /\ submitHist' = Rate!add(submitHist, submitCount)
  /\ consumeHist' = Rate!add(consumeHist, consumeCount)
  /\ exitHist' = Exit!add(exitHist, exitCount)
  /\ submitCount' = 0 /\ consumeCount' = 0 /\ exitCount' = 0
  /\ sampling' = GoesOn
  /\ UNCHANGED <<queueVars, load, cooling, closed, scaling>>

\* What scaleIfNeeded reads, the medians doubled.
Reading ==
  [submit |-> Rate!median(submitHist), consume |-> Rate!median(consumeHist),
   run |-> running, queued |-> queued, buf |-> bufLen, pending |-> pending]

\* submitMed * running / consumeMed
RateTarget(r) ==
  IF r.run > 0 /\ r.consume > 0 /\ r.submit > 0
    THEN (r.submit * r.run) \div r.consume ELSE 0

\* effectiveSubmit * running / consumeMed, where bufPressure is pressure over
\* whole: 15 percent for each cycle of bufDepth / consumeMed.
QueueTarget(r) ==
  LET whole == 100 * r.consume
      pressure == Lesser(whole, 2 * 15 * r.buf)
      dynamicDecay == Decay * whole + (100 - Decay) * pressure
  IN ((r.submit * 100 * whole + 2 * r.pending * dynamicDecay) * r.run)
       \div (100 * whole * r.consume)

\* The zero-consume fallback grows the pool.
Fallback(r) ==
  /\ r.run > 0 /\ r.consume = 0
  /\ r.queued > 0 /\ r.run < Capacity /\ ~cooling

Growth(r) ==
  Min({r.queued, Greater(1, r.run), MaxZeroConsumeScaleStep, Capacity - r.run})

\* Variant: no fallback.
WantedByRates(r) ==
  IF r.pending > 0 /\ r.run = 0 THEN r.pending
  ELSE IF r.pending > 0 /\ r.consume > 0 THEN Greater(RateTarget(r), QueueTarget(r))
  ELSE RateTarget(r)

\* The target before it is cut.
Wanted(r) ==
  IF r.pending > 0 /\ r.run = 0 THEN r.pending
  ELSE IF r.pending > 0 /\ r.consume > 0 THEN Greater(RateTarget(r), QueueTarget(r))
  ELSE IF Fallback(r) THEN r.run + Growth(r)
  ELSE RateTarget(r)

exitPerTick ==
  (Exit!median(exitHist) * ScalerPeriod) \div (2 * SamplePeriod)


\* How many workers a tick starts.
Spawn(r) ==
  LET target == Lesser(Lesser(Wanted(r), r.pending), Capacity) IN
  IF target <= r.run THEN 0
  ELSE Lesser(target - r.run + exitPerTick, Capacity - r.run)

\* One tick of scaler.
Scale ==
  /\ scaling
  /\ \E r \in {Reading} :
       /\ load' = [load EXCEPT ![0] = @ + Spawn(r)]
       /\ cooling' = (cooling \/ Fallback(r))
  /\ scaling' = GoesOn
  /\ UNCHANGED <<countVars, histVars, queueVars, closed, sampling>>

Next ==
  \/ Submit \/ Take \/ Park \/ Close \/ IntervalPasses \/ Sample \/ Scale
  \/ \E k \in 1 .. Batch : End(k)

\* The tickers tick, time passes and a worker in nextShardTask gets on; tasks
\* need not end.
Fairness ==
  /\ WF_vars(Take) /\ WF_vars(IntervalPasses)
  /\ WF_vars(Sample) /\ WF_vars(Scale)

Spec == Init /\ [][Next]_vars /\ Fairness

----------------------------------------------------------------------------
(* Properties. *)


\* The pool is never stuck below its capacity with work queued: even if the
\* tasks in hand never end, either tasks keep being taken or the queues are
\* empty or all workers there may be are running, again and again.  Medians
\* that stay as they were, before or after Close, must not blind the scaler.
GrowsWhenStuck ==
  []<><<Take>>_vars \/ []<>(queued = 0 \/ running >= Capacity)
=============================================================================
