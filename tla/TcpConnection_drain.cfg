CONSTANTS
  User = {}
  Message = {m1}
  NoMessage = NoMessage
  m1 = m1
  MessageLength = 1
  HighWaterMark = 2
  MaxRemovals = 1
  BufferOutlivesSend = TRUE
  UsersKeepConnection = TRUE
SPECIFICATION DrainSpec
CHECK_DEADLOCK FALSE
PROPERTIES OutputDrains
