SPECIFICATION Spec
CONSTANTS
    Callers = {c1, c2}
    e1 = e1
    e2 = e2
    NoId = NoId
    Null = Null
    Items = {e1}
    Pages <- ShortTimeline
    Bodies <- ShortBodies
    MaxSubs = 3
    MaxConns = 2
    ChanCap = 1
    AllowClose = FALSE
    MaxUpdates = 0
    MaxFaults = 1
    MaxMishaps = 1
INVARIANT
    NoPanic
CHECK_DEADLOCK FALSE
