\* The deployed worker, two calls: the refinement of OneShotFinalization.
CONSTANTS
    Calls = {c1, c2}
    Workers = {w1}
    Forms = {f1}
    MaxAttempts = 2
    NoCall = NoCall
    NoForm = NoForm
SPECIFICATION Spec
CHECK_DEADLOCK FALSE
PROPERTIES
    OneShotSpec
