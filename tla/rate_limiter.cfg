SPECIFICATION Spec
CONSTANTS
    IPs = {ip1, ip2}
    Limit = 2
    Window = 3
    MaxTime = 6
    MaxGrants = 5
INVARIANTS
    TypeOK
    NeverOverLimit
    DeniedOnlyAtLimit
CHECK_DEADLOCK FALSE
