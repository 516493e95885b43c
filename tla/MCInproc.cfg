CONSTANTS
    t1 = t1
    t2 = t2
    b1 = b1
    b2 = b2
    c1 = c1
    c2 = c2
    Threads <- TwoThreads
    CallerSets <- OneOrBoth
    Binder <- Binders
    Connector <- Connectors
    Socket <- EpSocket
    Addr <- EpAddr
    Protos <- PairOrBus
    SlipSets <- AsMeantAndAsWritten
SPECIFICATION FairSpec
INVARIANTS
    TypeOK
    RegistryTrue
    OneConnection
    SettledEndsAgree
    NoAssertionFails
PROPERTIES
    StopCompletes
