CONSTANTS
    t1 = t1
    t2 = t2
    Callers <- OneCaller
    MaxEp = 2
    Dirs <- RecvOnly
    Features <- RacingAdd
SPECIFICATION Spec
INVARIANTS
    EpsEmptyWhenDrained
