\* A user and two messages, with one loop and with separate main and I/O loops.
CONSTANTS
  User = {u1}
  Message = {m1, m2}
  NoMessage = NoMessage
  u1 = u1
  m1 = m1
  m2 = m2
  MessageLength = 1
  HighWaterMark = 2
  MaxRemovals = 1
  BufferOutlivesSend = TRUE
  UsersKeepConnection = TRUE
SPECIFICATION FairSpec
CHECK_DEADLOCK FALSE
INVARIANTS TypeOK GracefulClose NoMessageAfterDown PollerConsistent NotRemovedInHandler DownIsReported UpIsWatched
PROPERTIES CloseReaped PeerCloseNoticed SendReachesStream OnlyShutdownDisconnects NoSendLost
