\* A ringing call assigned by a supervisor.
CONSTANTS
    Calls = {c1}
    Agents = {a1}
    Members = {a1}
    NoAgent = NoAgent
    NoCall = NoCall
SPECIFICATION Spec
CHECK_DEADLOCK FALSE
INVARIANTS
    RefusedControlHasEnded
