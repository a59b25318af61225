SPECIFICATION MCSpec
CONSTANTS
  Value = {v1, v2}
  NoValue = NoValue
  Capacity = 4
  Stride = 2
  Step = 3
  Gap = 1
  MaxAddress = 24
VIEW InUse
INVARIANTS
  TypeOK
  Chained
  LeavesBlock
PROPERTIES
  IsFifo
