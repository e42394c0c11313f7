CONSTANTS
    MaxInstructionBytes = 15
    PrefixSeqs <- FewPrefixes
    HeadSeqs <- AllHeads
    Offers <- AllOffers
    Inputs <- AllInputs
    Configs <- Chips
    ModrmCode <- MCModrm
    DispWidth <- MCDisp
    ImmWidth <- MCImm
SPECIFICATION Spec
INVARIANTS TypeOK InBounds NoLookahead FieldsTile OutOfBytesMeaning VexRefusesPrefixes
           RexCounts RepChoice SegChoice NoTrackHint
PROPERTIES OutOfBytesSticks Terminates
CHECK_DEADLOCK FALSE
