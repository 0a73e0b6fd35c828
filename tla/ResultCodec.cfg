SPECIFICATION Spec
CONSTANTS
    Keys <- SomeKeys
    Numbers <- SomeNumbers
    Infinities <- Infinity
    NaN = 4
    Zero = 0
    ToFloat <- Nearest
    Codes <- SomeCodes
    Strings <- SomeStrings
    Detections = 2
    ThisProvider = "MyProvider"
INVARIANT TypeOK
INVARIANT DetectionsArrive
INVARIANT AllOrNothing
INVARIANT RelayedFaithfully
CHECK_DEADLOCK FALSE
