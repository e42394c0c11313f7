CONSTANTS
    Settings <- Widths
    ILens = {1, 2, 3, 4, 5, 7}
    ArrayBytes = 10
    Fields <- AnyFields
    Bind <- AnyBind
    MaxCalls = 1
SPECIFICATION Spec
PROPERTIES WithinArray EmitsABitString EncodeTerminates
CHECK_DEADLOCK FALSE
