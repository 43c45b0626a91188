SPECIFICATION Spec
CONSTANTS
  Senders = {alice, bob}
  None = none
  MaxArrivals = 3
  MaxConnects = 2
SYMMETRY Symmetry
CHECK_DEADLOCK FALSE
INVARIANTS
  StrangersOnlyEarly
  ReturnedOnce
  ClosedByZero
  FlagIsRemote
