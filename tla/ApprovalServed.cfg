SPECIFICATION FairSpec
CONSTANTS
    c1 = c1
    c2 = c2
    s1 = s1
    s2 = s2
    r1 = r1
    r2 = r2
    Ids = {c1, c2}
    Sessions = {s1}
    Owner <- OneSession
    Reusable = {}
    MaxRequests = 2
    Reconnecters = {r1}
INVARIANTS
    AllowWasGiven
    FirstVerdictStands
PROPERTY
    TimedAskIsServed
