CONSTANTS
  BufSize = 2
  MaxWrite = 3
  MaxChars = 7
  Again = Again
SPECIFICATION Spec
INVARIANTS NothingLost
PROPERTY ImplementsByteStream
CHECK_DEADLOCK FALSE
