CONSTANTS
  BufSize = 2
  MaxBytes = 5
  MaxRead = 4
  MaxGiven = 7
SPECIFICATION InputSpec
INVARIANTS EofWhenClosed
CHECK_DEADLOCK FALSE
