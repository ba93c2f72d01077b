SPECIFICATION FairSpec
CONSTANTS
    MaxPackets = 4
    SeqModulus = 4
    MayFail = TRUE
INVARIANTS
    IInv
    AudioHeardOnce
    OneRowPerIndex
    AudioIsAccountedFor
PROPERTIES
    StoppedCallIsScored
CHECK_DEADLOCK FALSE
