SPECIFICATION Spec
CONSTANTS
    c1 = c1
    c2 = c2
    s1 = s1
    s2 = s2
    r1 = r1
    r2 = r2
    Ids = {c1, c2}
    Sessions = {s1, s2}
    Owner <- TwoSessions
    Reusable = {c1}
    MaxRequests = 3
    Reconnecters = {}
INVARIANT
    ResolvedIsReleased
PROPERTY
    ImplementsDecisions
