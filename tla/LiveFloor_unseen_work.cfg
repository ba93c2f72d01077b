SPECIFICATION Spec
CHECK_DEADLOCK FALSE
CONSTANTS
    Calls = {c1}
    Agents = {a1, a2}
    Members = {a1}
    NoAgent = NoAgent
    NoCall = NoCall
    Supervisors = {s1}
    Tabs = {p1, t1}
    Pages = {p1}
    NoUser = NoUser
    MaxMessages = 2
    MaxFetches = 1
    MaxEvents = 1
INVARIANT NewWorkAppears
