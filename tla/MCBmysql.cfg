SPECIFICATION FairSpec
CONSTANTS
  Thread = {t1, t2, t3}
  ConnectorNum = 2
  NoConnector = NoConnector
CHECK_DEADLOCK FALSE
INVARIANTS
  TypeOK
  Ownership
PROPERTIES
  CallsReturn
