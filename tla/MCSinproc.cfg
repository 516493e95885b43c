CONSTANTS
    t1 = t1
    t2 = t2
    Threads <- TwoThreads
    Users <- AllUsers
    Refusing <- Maybe
    Owner <- BindFirst
    MaxMsg = 3
    Limit = 3
    StartsTwice <- Maybe
SPECIFICATION FairSpec
INVARIANTS
    TypeOK
    MessagesInOrder
    HandOver
    PipeFollowsQueue
    NoAssertionFails
PROPERTIES
    StopCompletes
    SenderReleased
