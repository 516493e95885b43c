CONSTANTS
    t1 = t1
    t2 = t2
    Callers <- TwoCallers
    MaxEp = 3
    Dirs <- RecvOnly
    Features <- Removing
SPECIFICATION Spec
SYMMETRY Interchangeable
INVARIANTS
    EfdFollowsProtocol
    StopStaysVisible
    UsersPinSocket
CHECK_DEADLOCK FALSE
