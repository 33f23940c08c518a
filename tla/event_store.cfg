SPECIFICATION Spec
CONSTANTS
    MaxEvents = 3
    PageSize = 1
    Nameless = {2}
    Unparsable = {3}
INVARIANTS
    TypeOK
    FullRunRepairs
    PendingListed
    
PROPERTY
    MetadataIsLast
