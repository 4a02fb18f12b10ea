SPECIFICATION Spec
CONSTANTS
    Sessions = {s1, s2, s3}
    s1 = s1
    s2 = s2
    s3 = s3
    NoSession = NoSession
    MAX_CALLS = 2
    MAX_FAULTS = 2
    Faults <- AllFaults
INVARIANTS
    AtMostOneActive
    SidesAgree
    NoOrphanSession
PROPERTY
    StopReachesAgent
CHECK_DEADLOCK FALSE
