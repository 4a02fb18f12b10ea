SPECIFICATION Spec
CONSTANTS
    Sessions = {s1, s2}
    s1 = s1
    s2 = s2
    NoSession = NoSession
    MAX_CALLS = 1
    MAX_FAULTS = 1
    Faults <- LostPublish
INVARIANTS
    NoUnknownSession
CHECK_DEADLOCK FALSE
