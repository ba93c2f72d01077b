\* A second attempt after a billed analysis was rolled back.
CONSTANTS
    Calls = {c1}
    Workers = {w1}
    Forms = {f1}
    MaxAttempts = 2
    NoCall = NoCall
    NoForm = NoForm
SPECIFICATION Spec
CHECK_DEADLOCK FALSE
INVARIANTS
    CostIsMeasured
