SPECIFICATION Spec
CONSTANTS
  m1 = m1
  k1 = k1
  k2 = k2
  c1 = c1
  c2 = c2
  NoConn = NoConn
  Machines <- OneMachine
  Conns <- TwoSockets
  Commands <- TwoCommands
  Target <- ToM1
  Dialer <- DialedByM1
  Coalesce = TRUE
  CountLives = FALSE
  MaxFaults = 2
  MaxRevocations = 0
SYMMETRY SafetySymmetry
INVARIANTS AckFollowsReply OneLiveSocket StartsInOrder NothingStranded
PROPERTY NeverResent
