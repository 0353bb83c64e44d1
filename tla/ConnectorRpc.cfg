SPECIFICATION FairSpec
CONSTANTS
  Sock = {s1, s2}
  Req = {r1, r2}
  None = None
  MaxStarts = 2
INVARIANTS
  PendingIsOwned
  NeverGivesUp
  OneWatchedSocket
  StopIsFinal
PROPERTIES
  EveryRequestSettles
  HalfOpenIsDropped
