\* The owner alone, nothing to run.
CONSTANTS
  Thread = {Loop, Main}
  LoopThread = Loop
  Owner = Main
  Functor = {f1}
  IoChannel = {io}
  wakeupChannel_ = wakeup
  KInitEventListSize = 1
  QueueBeforeLoop = TRUE
SPECIFICATION ThreadFairSpec
CHECK_DEADLOCK FALSE
PROPERTY JoinReturns
