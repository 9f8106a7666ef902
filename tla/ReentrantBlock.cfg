SPECIFICATION FairSpec
CONSTANTS
  Tasks = {t1, t2, t3}
  CtxTasks = {}
  BeforeTasks = {}
  WrappedTasks = {}
  Parent <- OuterSubmitsInner
  Workers = {w1, w2}
  Waiters = {}
  Closers = {}
  Capacity = 1
  NumShards = 1
  ShardCap = 1
  MaxChunkLen = 0
  BatchSize = 2
  NonBlock = FALSE
  MaxExit = 0
  None = None
  Outer = t1
  Inner = t2
PROPERTY AcceptedCompletes
