CONSTANTS
    MaxInstructionBytes = 15
    Inputs = {}
    Configs = {}
    ModrmCode <- MCModrm
    DispWidth <- MCDisp
    ImmWidth <- MCImm
    Forms <- MCForms
    Calls <- EvexCalls
    AddressMax <- MCAddressMax
    RegisterValue <- MCRegister
    SegmentBase <- MCSegment
    InvalidReg = 32
    RegRip = 33
    Asks <- MCAsks
    RealModes <- MCReal
SPECIFICATION SpecMemop
INVARIANTS EveryDispComesBack
CHECK_DEADLOCK FALSE
