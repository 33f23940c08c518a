SPECIFICATION Spec
CONSTANTS
    MaxEvents = 3
    PageSize = 2
    Nameless = {}
    Unparsable = {}
INVARIANT
    IncrementalCatchesUp
