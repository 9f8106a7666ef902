SPECIFICATION ModesSpec
CONSTANTS
  Tasks = {t1, t2, t3}
  CtxTasks = {t1}
  BeforeTasks = {t2}
  WrappedTasks = {t3}
  Parent <- NoParents
  Workers = {w1}
  Waiters = {}
  Closers = {}
  Capacity = 1
  NumShards = 1
  ShardCap = 1
  MaxChunkLen = 1
  BatchSize = 2
  NonBlock = FALSE
  MaxExit = 0
  None = None
INVARIANTS ExactlyOnce PendingExact
