SPECIFICATION ItoaSpec
CONSTANTS
  Input <- Descriptors
  StrLen = 16
CHECK_DEADLOCK FALSE
INVARIANTS
  DropsInnerZeros
  OverrunsAtTen
