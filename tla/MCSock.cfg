CONSTANTS
    t1 = t1
    t2 = t2
    Callers <- TwoCallers
    MaxEp = 2
    Dirs <- BothDirs
    Features <- NoFeatures
SPECIFICATION FairSpec
INVARIANTS
    TypeOK
    DrainedBeforeDestroy
    NoAssertionFails
PROPERTIES
    LifeSpec
    CloseCompletes
