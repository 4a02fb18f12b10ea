SPECIFICATION Spec
CONSTANTS
    SEQ_RANGE = 3
    SYNC_RETRIES = 2
    Sessions = {s1}
    NoSession = none
    MAX_COMMANDS = 4
    MAX_PROCESSES = 2
    MAX_FAULTS = 1
INVARIANTS
    AckIsOwn
    OnlyWaiterPending
    ForwardedOnce
PROPERTY
    PhasesEnd
CHECK_DEADLOCK FALSE
