\* A run slower than the fifteen-minute lock.
CONSTANTS
    Calls = {c1}
    Workers = {w1, w2}
    Forms = {f1}
    MaxAttempts = 2
    NoCall = NoCall
    NoForm = NoForm
SPECIFICATION Spec
CHECK_DEADLOCK FALSE
INVARIANTS
    HealthyJobNotReclaimed
