SPECIFICATION FairSpec
CONSTANTS
  m1 = m1
  k1 = k1
  k2 = k2
  c1 = c1
  NoConn = NoConn
  Machines <- OneMachine
  Conns <- TwoSockets
  Dialer <- DialedByM1
  Commands <- OneCommand
  Target <- ToM1
  Coalesce = TRUE
  CountLives = TRUE
  MaxFaults = 2
  MaxRevocations = 2
INVARIANTS ListedIsRegistered RerunsArePaid
PROPERTIES RevokedGetsNothing ImplementsLedger EventuallyAnswered
