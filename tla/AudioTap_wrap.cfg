SPECIFICATION Spec
CONSTANTS
    MaxPackets = 3
    SeqModulus = 4
    MayFail = TRUE
INVARIANTS
    ChunkIsInOrder
CHECK_DEADLOCK FALSE
