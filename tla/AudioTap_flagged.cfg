SPECIFICATION Spec
CONSTANTS
    MaxPackets = 2
    SeqModulus = 4
    MayFail = FALSE
INVARIANTS
    FlaggedCallIsSilent
CHECK_DEADLOCK FALSE
