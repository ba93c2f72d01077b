SPECIFICATION Spec
CONSTANTS
    ann = ann  ann_s = ann_s  ann_e = ann_e
    bob = bob  bob_s = bob_s  bob_e = bob_e
    ann_s_s = ann_s_s  ann_s_e = ann_s_e
    Channels <- DeepCaller
    SnoopOf <- SnoopNames
    ExtMediaOf <- ExtMediaNames
    Pool <- TwoPorts
    NoPort = 0
    NoChannel = NoChannel
    MaxEvents = 3
    Faults = {"rest", "db", "link", "crash"}
INVARIANTS
    IInv
    EachPortInOnePlace
    EndedCallIsOver
CHECK_DEADLOCK FALSE
