SPECIFICATION FairSpec
CONSTANTS
  Src = {s1, s2}
  Session = {a, b}
  Caller = {k1, k2}
  None = None
INVARIANTS
  OneStream
  ClosedStaysClosed
  DemandIsMet
PROPERTIES
  EveryCallReturns
CHECK_DEADLOCK FALSE
