SPECIFICATION FairSpec
CONSTANTS
    Words <- SomeWords
    Shorts <- SomeShorts
    Longs <- SomeLongs
    Argvs <- SomeArgvs
    Lines <- SomeLines
    Installed <- SomeModalities
    Unopenable <- SomeUnopenable
INVARIANT OperandsLast
INVARIANT AsAsked
INVARIANT ListedAsAsked
PROPERTY ProcessEnds
CHECK_DEADLOCK FALSE
