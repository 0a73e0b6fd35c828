SPECIFICATION Spec
CONSTANTS
    t1 = t1
    t2 = t2
    o1 = o1
    o2 = o2
    NoObject = NoObject
    Threads <- OneThread
    Objects <- OneObject
    NumLibs = 1
    Entries <- AllEntries
    JavaSupport = TRUE
    DiskChanges = FALSE
    MaxOpens = 3
INVARIANT GetProvidersReturns
CHECK_DEADLOCK FALSE
