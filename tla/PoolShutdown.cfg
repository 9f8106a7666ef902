SPECIFICATION Spec
CONSTANTS
  Tasks = {t1, t2}
  CtxTasks = {}
  BeforeTasks = {}
  WrappedTasks = {}
  Parent <- NoParents
  Workers = {w1, w2}
  Waiters = {v1}
  Closers = {c1, c2}
  Capacity = 1
  NumShards = 1
  ShardCap = 1
  MaxChunkLen = 0
  BatchSize = 2
  NonBlock = FALSE
  MaxExit = 1
  None = None
SYMMETRY TaskCloserSymmetry
INVARIANTS PendingExact WaitSound ScalerStopsDrained ClosedOnce
CHECK_DEADLOCK FALSE
