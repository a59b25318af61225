SPECIFICATION Spec
CONSTANTS
  k1 = k1
  k2 = k2
  k3 = k3
  k4 = k4
  Key = {k1, k2, k3, k4}
  Value = {v1, v2}
  NoKey = NoKey
  NoValue = NoValue
  Bucket = {1, 2}
  Index <- MCIndex
  MaxPool = 2
VIEW UpToCells
INVARIANTS
  BucketsSound
  UnitsOwned
PROPERTIES
  IsMap
SYMMETRY Alike
CHECK_DEADLOCK FALSE
