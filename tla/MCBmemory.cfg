SPECIFICATION Spec
CONSTANTS
  UnitCount = 5
  Step = 2
  Request = {1, 2}
  MaxBlock = 2
INVARIANTS
  FreeListOrdered
  UsedListIsLive
  UnitsAccounted
PROPERTIES
  IsAllocator
