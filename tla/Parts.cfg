SPECIFICATION Spec
CONSTANTS
  Threads = {g1, g2, g3}
  FastSpinTries = 2
  MaxRounds = 2
  Callers = {g1, g2, g3}
  Goroutines = {g1, g2, g3}
  Tasks = {t1, t2}
  Pools = {p1, p2, p3}
  Ctxs = {c1, c2}
  Nil = nil
  Background = background
INVARIANTS
  MutualExclusion
  DispatchExact
  TraceAgreement
  
  DefaultLatest
  GetSound
  EventsExact
  DrainedObserved
  LatenciesSound
  CountsExact
  MedianExact
  
  AttemptsExact
  BackOffExact
PROPERTIES
  SnapshotsGrow
CHECK_DEADLOCK FALSE
