SPECIFICATION QuietSpec
VIEW MessagesInUse
CONSTANTS
  Buffer = {b1, b2}
  Consumer = {k1, k2}
  NoBuffer = NoBuffer
  Conn = {c1, c2, c3}
  NoConn = NoConn
  Payload <- AllPayloads
  Garbled <- SomeGarbled
  MaxClient = 2
  MaxSend = 2
  MaxCut = 1
  MaxTotal = 4
  RoomNum = 1
  TableNum = 1
SYMMETRY ThreadsAndClients
CHECK_DEADLOCK FALSE
INVARIANTS
  TypeOK
  HandlesWhatItHolds
  SingleOwner
  NoLeak
  SignalCoverage
  SlotsRegistered
  RepliesMatchRequests
  EffectBeforeReply
  ReplyBeforeSeat
