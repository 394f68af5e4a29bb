\* Prepend area of 1, room for 2, an extrabuf of 2, up to 4 bytes at a time.
CONSTANTS
  Byte = {0, 1}
  Zero = 0
  kCheapPrepend = 1
  kInitialSize = 2
  ExtraSize = 2
  MaxContent = 4
  MaxData = 3
SPECIFICATION Spec
INVARIANTS TypeOK IndicesInRange
PROPERTIES GrowsOnlyIfMust ImplementsByteQueue
