CONSTANTS
  Addrs = {a1, a2, a3}
  Blocks = {b1, b2, b3}
  Null = Null
  FamilySize = 1
  MaxSize = 2
SYMMETRY Symmetry
SPECIFICATION Spec
INVARIANTS TypeOK InBounds Exclusive LeakOnlyAtEnd NoFault
CHECK_DEADLOCK FALSE
