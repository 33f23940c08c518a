SPECIFICATION FairSpec
CONSTANTS
    Callers = {c1}
    e1 = e1
    e2 = e2
    NoId = NoId
    Null = Null
    Items = {e1, e2}
    Pages <- LongTimeline
    Bodies <- LongBodies
    MaxSubs = 4
    MaxConns = 2
    ChanCap = 1
    AllowClose = FALSE
    MaxUpdates = 1
    MaxFaults = 1
    MaxMishaps = 1
INVARIANTS
    TypeOK
    NoPanic
    CleanFetchComplete
    LeftoversAreMissing
    RepliesConserved
    DetailsAttributed
PROPERTIES
    FetchEndsUnlessStalled
    CanceledLoopEnds
    ImplementsPagedFetch
CHECK_DEADLOCK FALSE
