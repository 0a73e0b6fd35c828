SPECIFICATION FairSpec
CONSTANTS
    N = N
    J = J
    K = K
    Lost = Lost
    Bare = Bare
    NoVm = NoVm
    face = face
    iris = iris
    t1 = t1
    NoThread = NoThread
    Names <- AllNames
    Modalities <- AllModalities
    Registries <- SomeRegistries
    Codes <- SomeCodes
    Garbage <- SomeCodes
    Thread = t1
    PluginOf <- PluginOfName
    MaxEvaluations = 6
INVARIANT FirstMachineAnswers
INVARIANT OnlyMissedOutlast
PROPERTY RequestReturns
CHECK_DEADLOCK FALSE
