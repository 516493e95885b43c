CONSTANTS
    a = a
    b = b
    t1 = t1
    t2 = t2
    e1 = e1
    e2 = e2
    e3 = e3
    None = None
    Ctxs <- TwoContexts
    Threads <- TwoThreads
    Events <- ThreeEvents
    Fuel = 5
SPECIFICATION FairSpec
INVARIANTS
    TypeOK
    HoldsOnlyHere
    NothingStranded
    EventsConserved
PROPERTIES
    MailSpec
    EventsDelivered
