SPECIFICATION Spec
CONSTANTS
  Tasks = {t1, t2, t3}
  CtxTasks = {}
  BeforeTasks = {}
  WrappedTasks = {}
  Parent <- NoParents
  Workers = {w1, w2}
  Waiters = {}
  Closers = {}
  Capacity = 2
  NumShards = 2
  ShardCap = 1
  MaxChunkLen = 1
  BatchSize = 2
  NonBlock = FALSE
  MaxExit = 1
  None = None
SYMMETRY TaskSymmetry
INVARIANTS TypeOK RunningExact RunningBound ExactlyOnce WorkerOwnedOnce
