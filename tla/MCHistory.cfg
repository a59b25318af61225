SPECIFICATION FairSpec
CONSTANTS
  Fragment = {empty, a, b}
  Empty = empty
  Default = a
  Opened = {Bare, a}
  Bare = Bare
  Blank = Blank
  None = None
  Undefined = Undefined
  MaxMove = 4
CHECK_DEADLOCK FALSE
INVARIANTS
  InSync
  OwnMoveStands
  CurrentOnTop
PROPERTIES
  Settles
