SPECIFICATION Spec
CONSTANTS
  Conns = {c1, c2}
  Itself = listener
  IntValues = 3
  MaxBuffer = 1
SYMMETRY Symmetry
CHECK_DEADLOCK FALSE
INVARIANTS
  TypeOK
  ListeningFlag
  AcceptedNoDelay
  OptionsHold
