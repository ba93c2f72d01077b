\* Two conversations, a queue member and an agent outside the queue.
CONSTANTS
    Calls = {c1, c2}
    Agents = {a1, a2}
    Members = {a1}
    NoAgent = NoAgent
    NoCall = NoCall
SPECIFICATION Spec
CHECK_DEADLOCK FALSE
SYMMETRY CallSymmetry
INVARIANTS
    IInv
    AssignedIffWorked
    OneJobPerCall
    LiveCallHasOwner
PROPERTIES
    CallLineSpec
