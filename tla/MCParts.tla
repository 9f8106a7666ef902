------------------------------ MODULE MCParts ------------------------------
(***************************************************************************)
(* The components of the pool that can be checked alone, side by side: a   *)
(* behaviour is one of the component that part names, and the others stay  *)
(* in their initial state.                                                 *)
(***************************************************************************)
EXTENDS Integers, Sequences, SpinLock, DefaultPool

CONSTANTS Goroutines, Tasks, Ctxs, Background

VARIABLES
  part,
  kind, snapshot, mu, current, added, calls, invoked, dpc, known, begun,
  labels, parent, contextPool, using, tpc, ids, stored,
  spc, rpc, queued, pending, closed, log,
  hist, window,
  config,
  retryNum, round, attempts, failed, backOff, retryPc

----------------------------------------------------------------------------
(* The instances. *)

\* Three registrations, two of them for one event, and a dispatch of each event.
Events == [r1 |-> "started", r2 |-> "started", r3 |-> "completed",
           d1 |-> "started", d2 |-> "completed"]
HooksOf == INSTANCE Hooks
             WITH Registrars <- {"r1", "r2", "r3"}, Dispatchers <- {"d1", "d2"},
                  EventOf <- Events, Nobody <- Nil

ContextOf == INSTANCE PoolContext WITH None <- Nil

EventsOf == INSTANCE TaskEvents

\* The first buckets of submitBuckets, with values at both ends of each.
FirstBuckets == <<[low |-> 0, high |-> 0], [low |-> 1, high |-> 5],
                  [low |-> 6, high |-> 20], [low |-> 21, high |-> -1]>>
HistogramOf == INSTANCE Histogram
                 WITH Buckets <- FirstBuckets, WindowSize <- 4,
                      Samples <- {0, 1, 5, 6, 20, 21}

DefaultConfig ==
  [cleanPeriod |-> 1, taskQueueSize |-> 8, taskQueueShards |-> 0,
   workerNumCapacity |-> 1, statsSamplePeriod |-> 1, statsWindowSize |-> 1,
   scalerPeriod |-> 1, backlogDecayFactor |-> 30,
   zeroConsumeScaleInterval |-> 1, maxZeroConsumeScaleStep |-> 1]
ConfigOf == INSTANCE PoolConfig
              WITH Width <- 8, Defaults <- DefaultConfig,
                   Sizes <- {-1, 0, 1, 2, 3, 5, 8, 31, 64, 127},
                   Wants <- {-1, 0, 1, 2, 3, 5, 16, 17, 64, 65, 127},
                   Numbers <- {-1, 0, 1}, Procs <- 1 .. 6,
                   MinShardableQueueSize <- 4, MaxAutoShards <- 4

RetryOf == INSTANCE RetryTask
             WITH Width <- 4, RetryNums <- 0 .. 15, MinBackOff <- 1,
                  MaxBackOff <- 6, MaxAttempts <- 12

----------------------------------------------------------------------------
hookVars == <<kind, snapshot, mu, current, added, calls, invoked, dpc, known,
              begun>>
contextVars == <<labels, parent, contextPool, using, tpc, ids, stored>>
eventVars == <<spc, rpc, queued, pending, closed, log>>
histVars == <<hist, window>>
retryVars == <<retryNum, round, attempts, failed, backOff, retryPc>>
vars == <<part, lockVars, hookVars, contextVars, defaultVars, eventVars,
          histVars, config, retryVars>>

Parts == {"lock", "hooks", "context", "default", "events", "histogram",
          "config", "retry"}

Init ==
  /\ part \in Parts
  /\ NewSpinLock
  /\ HooksOf!NewHooks /\ (part # "hooks" => kind = "static")
  /\ ContextOf!ContextInit
  /\ DefaultInit
  /\ EventsOf!EventInit
  /\ HistogramOf!HistInit
  /\ ConfigOf!ConfigInit
  /\ RetryOf!RetryInit /\ (part # "retry" => retryNum = 0)

Step(p, Action, v) == IF part = p THEN Action ELSE UNCHANGED v

Next ==
  /\ UNCHANGED part
  /\ Step("lock", LockNext, lockVars)
  /\ Step("hooks", HooksOf!HookNext, hookVars)
  /\ Step("context", ContextOf!ContextNext, contextVars)
  /\ Step("default", DefaultNext, defaultVars)
  /\ Step("events", EventsOf!EventNext, eventVars)
  /\ Step("histogram", HistogramOf!HistNext, histVars)
  /\ Step("config", ConfigOf!ConfigNext, config)
  /\ Step("retry", RetryOf!RetryNext, retryVars)

Spec == Init /\ [][Next]_vars

----------------------------------------------------------------------------
(* Properties; those of SpinLock and DefaultPool are theirs. *)

\* Hooks: a dispatch invokes the callbacks registered when it began, all of
\* them, once, in order, whatever is registered meanwhile and whatever panics.
DispatchExact == HooksOf!DispatchExact

\* Dynamic hooks: no published registration is lost to a concurrent one.
SnapshotsGrow == HooksOf!SnapshotsGrow

\* Context: racing TraceID calls return one id.
TraceAgreement == ContextOf!TraceAgreement


\* Lifecycle events: each accepted task is announced exactly once per stage.
EventsExact == EventsOf!EventsExact

\* Lifecycle events: a drained pool has dispatched every Completed event.
DrainedObserved == EventsOf!DrainedObserved

\* Lifecycle events: the latencies computed from the stages are not negative,
\* the one from Enqueued to Started excepted.
LatenciesSound == EventsOf!LatenciesSound

\* Histogram: the counts are those of the sliding window.
CountsExact == HistogramOf!CountsExact

\* Histogram: the median is the midpoint of the middle element's bucket.
MedianExact == HistogramOf!MedianExact


\* Retry: a task that always fails runs RetryNum + 1 times.
AttemptsExact == RetryOf!AttemptsExact

\* Retry: the back-off doubles up to its maximum, beyond the range of Duration.
BackOffExact == RetryOf!BackOffExact
=============================================================================
