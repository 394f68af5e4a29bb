\* Two foreign threads, three functors, two I/O channels.  No symmetry: liveness.
CONSTANTS
  Thread = {Loop, t1, t2}
  LoopThread = Loop
  Functor = {f1, f2, f3}
  IoChannel = {io1, io2}
  wakeupChannel_ = wakeup
  KInitEventListSize = 1
  QueueBeforeLoop = FALSE
SPECIFICATION FairSpec
CHECK_DEADLOCK FALSE
INVARIANTS TypeOK NoLostWakeup
PROPERTIES ImplementsTaskQueue QuitEndsLoop IoServed
