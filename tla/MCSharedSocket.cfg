CONSTANTS
  Threads = {t1, t2}
SPECIFICATION Spec
INVARIANTS ClosedIsClosed StrayCloseOverlaps LateCallsRefused ErrorsThrow
PROPERTY WaitEnds
