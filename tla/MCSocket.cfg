CONSTANTS
  Objs = {o1, o2, o3}
  Fds = {f1, f2}
  Descs = {d1, d2}
  Invalid = Invalid
  None = None
SYMMETRY Symmetry
SPECIFICATION Spec
INVARIANTS TypeOK NoLeak ClosesOnlyItsOwn GuardedCallsStayHome ConnectedFlag
PROPERTY ImplementsOwnership
