\* A worker that dies during the last attempt.
CONSTANTS
    Calls = {c1}
    Workers = {w1}
    Forms = {f1}
    MaxAttempts = 2
    NoCall = NoCall
    NoForm = NoForm
SPECIFICATION FairSpec
CHECK_DEADLOCK FALSE
PROPERTIES
    AbandonedJobIsRetried
