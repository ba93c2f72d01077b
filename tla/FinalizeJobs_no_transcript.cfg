\* Strict-local mode after the desktop uploaded its recording.
CONSTANTS
    Calls = {c1}
    Workers = {w1}
    Forms = {f1}
    MaxAttempts = 2
    NoCall = NoCall
    NoForm = NoForm
SPECIFICATION Spec
CHECK_DEADLOCK FALSE
INVARIANTS
    SucceededWroteTranscript
