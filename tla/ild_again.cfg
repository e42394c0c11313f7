CONSTANTS
    MaxInstructionBytes = 15
    PrefixSeqs <- TruncPrefixes
    HeadSeqs <- AllHeads
    Offers <- TruncOffers
    Inputs <- MCInputs
    Configs <- Chips
    ModrmCode <- MCModrm
    DispWidth <- MCDisp
    ImmWidth <- MCImm
    PatchWidths = {1, 2, 4, 8}
    PatchBytes = {0, 200}
SPECIFICATION SpecPatch
INVARIANTS MoreBytesKeepTheAnswer AsksOnlyWhenNeeded PatchKeepsTheRest PatchExactly
CHECK_DEADLOCK FALSE
