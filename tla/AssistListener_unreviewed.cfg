SPECIFICATION FairSpec
CONSTANTS
    ann = ann  ann_s = ann_s  ann_e = ann_e
    bob = bob  bob_s = bob_s  bob_e = bob_e
    ann_s_s = ann_s_s  ann_s_e = ann_s_e
    Channels <- OneCaller
    SnoopOf <- SnoopNames
    ExtMediaOf <- ExtMediaNames
    Pool <- OnePort
    NoPort = 0
    NoChannel = NoChannel
    MaxEvents = 2
    Faults = {"rest"}
PROPERTIES
    GoneCallIsEnded
CHECK_DEADLOCK FALSE
