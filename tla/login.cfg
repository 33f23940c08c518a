SPECIFICATION FairSpec
CONSTANTS
    Completers = {w1, w2}
    MaxSessions = 3
    MaxFaults = 2
INVARIANTS
    TypeOK
    OkMeansApproved
    ApprovedNotRefused
PROPERTIES
    LosesNoSession
    UnsavedByDefault
    CompletionEnds
