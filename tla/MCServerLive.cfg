SPECIFICATION MCFairSpec
CONSTANTS
  Buffer = {b1, b2}
  Consumer = {k1, k2}
  NoBuffer = NoBuffer
  Conn = {c1}
  NoConn = NoConn
  Payload <- EnterOnly
  Garbled <- NothingGarbled
  MaxClient = 1
  MaxSend = 2
  MaxCut = 1
  MaxTotal = 4
  RoomNum = 1
  TableNum = 1
CHECK_DEADLOCK FALSE
PROPERTIES
  EveryRequestAnswered
