SPECIFICATION FairSpec
CONSTANTS
  Tasks = {t1, t2}
  CtxTasks = {}
  BeforeTasks = {}
  WrappedTasks = {}
  Parent <- NoParents
  Workers = {w1, w2}
  Waiters = {v1}
  Closers = {}
  Capacity = 1
  NumShards = 1
  ShardCap = 1
  MaxChunkLen = 1
  BatchSize = 2
  NonBlock = FALSE
  MaxExit = 0
  None = None
PROPERTIES AcceptedCompletes WaitReturns
