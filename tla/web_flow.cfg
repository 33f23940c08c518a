SPECIFICATION FairSpec
CONSTANTS
    Requests = {r1, r2}
    MaxSessions = 2
    MaxClients = 2
INVARIANTS
    TypeOK
    StageHasClient
    DoneHasResult
PROPERTIES
    ExpiredRemovedUnlessStalled
CHECK_DEADLOCK FALSE
