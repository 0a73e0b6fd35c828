SPECIFICATION Spec
CONSTANTS
    t1 = t1
    t2 = t2
    Threads <- OneThread
    NumFiles = 1
    NumProviders = 2
    MaxObjects = 1
    Faults <- ThreeFaults
    WideLong = TRUE
INVARIANT EveryResultReturned
CHECK_DEADLOCK FALSE
