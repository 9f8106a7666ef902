SPECIFICATION Spec
CONSTANTS
  Capacity = 3
  ShardCap = 1
  BufferCap = 2
  Batch = 2
  MaxPending = 4
  RateCap = 1
  RateBuckets <- FirstRateBuckets
  ExitBuckets <- FirstExitBuckets
  WindowSize = 2
  Decay = 30
  MaxZeroConsumeScaleStep = 2
  ScalerPeriod = 1
  SamplePeriod = 1
PROPERTIES
  
  GrowsWhenStuck
CHECK_DEADLOCK FALSE
