SPECIFICATION Spec
CONSTANTS
  Tasks = {t1, t2}
  CtxTasks = {t1}
  BeforeTasks = {}
  WrappedTasks = {}
  Parent <- NoParents
  Workers = {w1}
  Waiters = {v1}
  Closers = {c1}
  Capacity = 1
  NumShards = 1
  ShardCap = 1
  MaxChunkLen = 1
  BatchSize = 2
  NonBlock = FALSE
  MaxExit = 0
  None = None
PROPERTY RefinesContract
CHECK_DEADLOCK FALSE
