SPECIFICATION Spec
CONSTANTS
  Tasks = {t1, t2}
  CtxTasks = {}
  BeforeTasks = {}
  WrappedTasks = {}
  Parent <- NoParents
  Workers = {w1, w2, w3}
  Waiters = {}
  Closers = {}
  Capacity = 1
  NumShards = 1
  ShardCap = 1
  MaxChunkLen = 1
  BatchSize = 2
  NonBlock = FALSE
  MaxExit = 1
  None = None
INVARIANT RunningWithinCapacity
