\* Callers drop their string and their connection as soon as send and shutdown return.
CONSTANTS
  User = {u1}
  Message = {m1}
  NoMessage = NoMessage
  u1 = u1
  m1 = m1
  MessageLength = 1
  HighWaterMark = 2
  MaxRemovals = 1
  BufferOutlivesSend = FALSE
  UsersKeepConnection = FALSE
SPECIFICATION Spec
CHECK_DEADLOCK FALSE
INVARIANTS TaskFindsArguments
