SPECIFICATION FairSpec
CONSTANTS
  Tasks = {t1, t2}
  CtxTasks = {}
  BeforeTasks = {}
  WrappedTasks = {}
  Parent <- NoParents
  Workers = {w1}
  Waiters = {}
  Closers = {c1}
  Capacity = 1
  NumShards = 1
  ShardCap = 1
  MaxChunkLen = 0
  BatchSize = 2
  NonBlock = FALSE
  MaxExit = 0
  None = None
PROPERTIES SubmitReturns GoroutinesStop
CHECK_DEADLOCK FALSE
