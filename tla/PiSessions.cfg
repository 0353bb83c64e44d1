SPECIFICATION FairSpec
CONSTANTS
  Warm = warm
  Requests = {r1, r2}
  Recorded = {old}
  Ids = {old, warm, r1, r2}
  Calls = {warm, r1, r2}
  Boot = boot
  NoFile = NoFile
  NoCall = NoCall
  NoId = NoId
INVARIANTS
  OneChatPerSession
  HandleIsLive
  OpenIsListed
  SerialIndexIsExact
PROPERTY
  EveryCallReturns
CHECK_DEADLOCK FALSE
