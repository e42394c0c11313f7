CONSTANTS
    MaxInstructionBytes = 15
    Inputs <- Everything
    Configs = {}
    ModrmCode <- MCModrm
    DispWidth <- MCDisp
    ImmWidth <- MCImm
    MachineModes <- MCModes
    ChipTable <- MCChipTable
    InvalidChip = "INVALID"
    CpuidVectors <- MCCpuid
    Lookup <- MCLookup
    MaxCalls = 3
SPECIFICATION SpecDecode
INVARIANTS TypeOKDecode EncodingsOfTheChip AcceptedIsLegal
           SameQuestionSameAnswer LengthsAgree
CONSTRAINT Explored
CHECK_DEADLOCK FALSE
