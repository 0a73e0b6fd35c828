SPECIFICATION Spec
CONSTANTS
    N = N
    J = J
    K = K
    Lost = Lost
    Bare = Bare
    NoVm = NoVm
    face = face
    iris = iris
    t1 = t1
    NoThread = NoThread
    Names <- AllNames
    Modalities <- AllModalities
    Registries <- NativeAndJava
    Codes <- SomeCodes
    Garbage <- SomeCodes
    Thread = t1
    PluginOf <- PluginOfName
    MaxEvaluations = 4
INVARIANT ReadyProviderAnswers
CHECK_DEADLOCK FALSE
