SPECIFICATION FairSpec
CONSTANTS
    t1 = t1
    t2 = t2
    NoThread = NoThread
    Threads <- TwoThreads
    Plugins <- AllPlugins
    MaxCalls = 2
INVARIANT TypeOK
INVARIANT OnlyCreatorInside
INVARIANT AnswersOnce
INVARIANT NoJvmLeftBehind
PROPERTY HostJvmStays
PROPERTY EvalReturns
CHECK_DEADLOCK FALSE
