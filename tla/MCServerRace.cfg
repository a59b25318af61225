SPECIFICATION Spec
CONSTANTS
  Buffer = {b1, b2}
  Consumer = {k1, k2}
  NoBuffer = NoBuffer
  Conn = {c1}
  NoConn = NoConn
  Payload <- TwoPayloads
  MaxClient = 1
  Garbled <- SomeGarbled
  MaxSend = 1
  MaxCut = 0
  MaxTotal = 1
  RoomNum = 1
  TableNum = 1
CHECK_DEADLOCK FALSE
INVARIANTS
  MessagesHaveConnections
