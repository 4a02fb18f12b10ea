SPECIFICATION Spec
CONSTANTS
    Publishers = {p1, p2}
    p1 = p1
    p2 = p2
    Clients = {c1, c2}
    c1 = c1
    c2 = c2
    Sessions = {s1, s2}
    s1 = s1
    s2 = s2
    SessionOf <- AllInFirst
    NoClient = NoClient
    subscriberBuffer = 1
    dropThreshold = 2
    MAX_DROPPED = 2
INVARIANTS
    NoPanic
    EscalatedOnce
PROPERTIES
    PublishReturns
    SlowClientCut
CHECK_DEADLOCK FALSE
