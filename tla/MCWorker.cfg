CONSTANTS
    a = a
    b = b
    h1 = h1
    h2 = h2
    j = j
    None = None
    Timer <- Timers
    Handle <- Handles
    Job <- Jobs
    Delay <- Delays
    MaxTime = 1
    Budgets <- Few
SPECIFICATION FairSpec
INVARIANTS
    TypeOK
    NoAssertionFails
    StoppedTimerIsFree
    EventsWanted
PROPERTIES
    RingsAsPromised
    EverythingServed
