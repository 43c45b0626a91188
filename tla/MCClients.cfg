CONSTANTS
  Objs = {o1, o2, o3}
  Fds = {f1, f2}
  Descs = {d1, d2}
  Invalid = Invalid
  None = None
SYMMETRY Symmetry
SPECIFICATION ClientsSpec
INVARIANTS FailureLeavesNothing ReturnsOpenSocket
CHECK_DEADLOCK FALSE
