\* One I/O loop, one connection.
CONSTANTS
  MaxThreads = 1
  MaxConn = 1
  MaxFds = 2
  MaxLoad = 3
  MaxRemovals = 1
SPECIFICATION Spec
CHECK_DEADLOCK FALSE
INVARIANT CleanupRuns
