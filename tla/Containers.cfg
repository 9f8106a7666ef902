SPECIFICATION BothSpec
CONSTANTS
  Workers = {w1, w2, w3, w4}
  Expiry = 1
  MaxTime = 3
  DefaultCapacity = 2
  Priorities = {1, 2, 3}
  None = none
SYMMETRY WorkerSymmetry
INVARIANTS
  RecycledClean
  SizesExact
  StructureSound
PROPERTIES
  RefinesQueue
  RefinesContainer
