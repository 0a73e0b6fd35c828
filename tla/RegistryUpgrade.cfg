SPECIFICATION FairSpec
CONSTANTS
    t1 = t1
    t2 = t2
    o1 = o1
    o2 = o2
    NoObject = NoObject
    Threads <- TwoThreads
    Objects <- OneObject
    NumLibs = 2
    Entries <- Upgrades
    JavaSupport = TRUE
    DiskChanges = TRUE
    MaxOpens = 3
INVARIANT RaceFreeOnceLoaded
INVARIANT OrderedOnceLoaded
PROPERTY FrozenOnceLoaded
PROPERTY CallReturns
CHECK_DEADLOCK FALSE
