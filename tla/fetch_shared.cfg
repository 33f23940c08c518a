SPECIFICATION Spec
CONSTANTS
    Callers = {c1, c2}
    e1 = e1
    e2 = e2
    NoId = NoId
    Null = Null
    Items = {e1, e2}
    Pages <- PairTimeline
    Bodies <- PairBodies
    MaxSubs = 3
    MaxConns = 2
    ChanCap = 1
    AllowClose = TRUE
    MaxUpdates = 1
    MaxFaults = 1
    MaxMishaps = 1
INVARIANTS
    DetailsAttributed
    NoPanicUntilFault
CHECK_DEADLOCK FALSE
SYMMETRY CallerSymmetry
