SPECIFICATION FairSpec
CONSTANTS
    t1 = t1
    t2 = t2
    Threads <- TwoThreads
    NumFiles = 2
    NumProviders = 2
    MaxObjects = 2
    Faults <- ThreeFaults
    WideLong = FALSE
INVARIANT TypeOK
INVARIANT ObjectLives
INVARIANT ListFollowsFiles
INVARIANT OnlyReplacedLeak
PROPERTY MethodReturns
CHECK_DEADLOCK FALSE
