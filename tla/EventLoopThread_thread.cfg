\* The owner and one more user thread, two functors, one channel.
CONSTANTS
  Thread = {Loop, Main, t1}
  LoopThread = Loop
  Owner = Main
  Functor = {f1, f2}
  IoChannel = {io}
  wakeupChannel_ = wakeup
  KInitEventListSize = 1
  QueueBeforeLoop = TRUE
SPECIFICATION ThreadFairSpec
CHECK_DEADLOCK FALSE
INVARIANTS ThreadTypeOK TidKnown LoopIsLive ThreadEndsFirst WaiterIsOwed
PROPERTIES StartReturns DestroyReturns
