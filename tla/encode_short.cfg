CONSTANTS
    Settings <- SomeSettings
    ILens = {2, 15}
    ArrayBytes = 16
    Fields <- MCFields
    Bind <- MCBind
    MaxCalls = 1
SPECIFICATION Spec
INVARIANT NoneMeansWhole
CHECK_DEADLOCK FALSE
