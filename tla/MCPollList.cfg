CONSTANTS
  Objs = {o1, o2}
  Fds = {f1, f2}
  Descs = {d1, d2}
  Invalid = Invalid
  None = None
  Askable = {"in"}
  MaxEntries = 2
SYMMETRY Symmetry
SPECIFICATION ListSpec
INVARIANTS NoWildUse ResultIsOwn CountIsResults
CHECK_DEADLOCK FALSE
