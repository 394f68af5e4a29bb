CONSTANTS
  User = {u1}
  Message = {m1}
  NoMessage = NoMessage
  u1 = u1
  m1 = m1
  MessageLength = 1
  HighWaterMark = 2
  MaxRemovals = 1
  BufferOutlivesSend = TRUE
  UsersKeepConnection = TRUE
SPECIFICATION Spec
CHECK_DEADLOCK FALSE
PROPERTIES RemovedForGood
