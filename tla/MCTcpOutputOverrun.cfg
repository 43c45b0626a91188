CONSTANTS
  BufSize = 2
  MaxWrite = 3
  MaxChars = 7
  Again = Again
SPECIFICATION Spec
INVARIANTS PutStaysInside
CHECK_DEADLOCK FALSE
