SPECIFICATION Spec
CONSTANTS
    t1 = t1
    t2 = t2
    o1 = o1
    o2 = o2
    NoObject = NoObject
    Threads <- TwoThreads
    Objects <- TwoObjects
    NumLibs = 2
    Entries <- AllEntries
    JavaSupport = TRUE
    DiskChanges = FALSE
    MaxOpens = 4
SYMMETRY Symmetry
INVARIANT TypeOK
INVARIANT NoDanglingEvaluator
INVARIANT SoleOwner
INVARIANT PathIsHome
INVARIANT CompleteWhenQuiet
INVARIANT OnlyFailuresLeak
PROPERTY ClosedByOwner
PROPERTY IsCatalogue
CHECK_DEADLOCK FALSE
