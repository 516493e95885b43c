CONSTANTS
    t1 = t1
    t2 = t2
    Threads <- TwoThreads
    Users <- OnePerSocket
    Refusing <- Never
    Owner <- BindFirst
    MaxMsg = 1
    Limit = 2
    StartsTwice <- Never
SPECIFICATION Spec
INVARIANTS
    NoSentWhenStopped
