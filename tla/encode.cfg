CONSTANTS
    Settings <- AllSettings
    ILens = {0, 1, 2, 3, 4, 5, 6, 7, 8, 9, 10, 11, 12, 13, 14, 15}
    ArrayBytes = 16
    Fields <- MCFields
    Bind <- MCBind
    MaxCalls = 2
SPECIFICATION Spec
INVARIANTS TypeOKEncode AssertionsHold RoomIsEnough ShortForPrefixes StaleErrorFails EncodesTheSameAgain
CONSTRAINT Explored
CHECK_DEADLOCK FALSE
