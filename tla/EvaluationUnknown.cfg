SPECIFICATION Spec
CONSTANTS
    A = A
    B = B
    C = C
    face = face
    iris = iris
    Names <- AllNames
    Modalities <- AllModalities
    Registries <- SomeRegistries
    Codes <- SomeCodes
    Garbage <- SomeCodes
INVARIANT UnknownProviderIsError
