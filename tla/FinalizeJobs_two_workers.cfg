\* Two workers race for one call's job; its evidence, and its coming to rest.
CONSTANTS
    Calls = {c1}
    Workers = {w1, w2}
    Forms = {f1, f2}
    MaxAttempts = 3
    NoCall = NoCall
    NoForm = NoForm
SPECIFICATION FairSpec
CHECK_DEADLOCK FALSE
INVARIANTS
    IInv
    EvidenceAtMostOnce
    EvidenceIsWhole
    SucceededHasEvidence
PROPERTIES
    EveryJobComesToRest
