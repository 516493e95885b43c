CONSTANTS
    t1 = t1
    t2 = t2
    Callers <- OneCaller
    MaxEp = 2
    Dirs <- RecvOnly
    Features <- Removing
SPECIFICATION Spec
INVARIANTS
    ListsEmptyWithoutEndpoints
CHECK_DEADLOCK FALSE
