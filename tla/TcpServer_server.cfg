\* Up to two I/O loops; three connections and one descriptor, or two and two.
CONSTANTS
  MaxThreads = 2
  MaxConn = 3
  MaxFds = 2
  MaxLoad = 4
  MaxRemovals = 1
SPECIFICATION FairSpec
CHECK_DEADLOCK FALSE
INVARIANTS TypeOK EvenShare RegisteredIsAlive ClosedIsLeaving
PROPERTIES CallbacksFindServer ImplementsLife BacklogServed CloseReleases DestructorReturns
