CONSTANTS
  BufSize = 2
  MaxBytes = 5
  MaxRead = 4
  MaxGiven = 7
SPECIFICATION InputSpec
INVARIANTS InputTypeOK Conserved TrueWhileConnected
PROPERTIES ReadReturns InputIsByteStream
CHECK_DEADLOCK FALSE
