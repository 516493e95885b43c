CONSTANTS
    t1 = t1
    t2 = t2
    Threads <- TwoThreads
    Users <- OneThread
    Refusing <- Maybe
    Owner <- ConnectFirst
    MaxMsg = 1
    Limit = 2
    StartsTwice <- Never
SPECIFICATION Spec
INVARIANTS
    OnlyReceivedWhenDisconnected
