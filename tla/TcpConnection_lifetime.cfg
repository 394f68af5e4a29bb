\* No foreign users: the connection lives by the library's own references.
CONSTANTS
  User = {}
  Message = {m1, m2}
  NoMessage = NoMessage
  m1 = m1
  m2 = m2
  MessageLength = 2
  HighWaterMark = 3
  MaxRemovals = 2
  BufferOutlivesSend = FALSE
  UsersKeepConnection = TRUE
SPECIFICATION Spec
SYMMETRY Symmetry
CHECK_DEADLOCK FALSE
INVARIANTS RemovedBeforeDeath StreamIntegrity
PROPERTIES ImplementsLife
