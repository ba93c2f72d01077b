\* The lists alone: two agents and a supervisor at a page, a second tab; one chat.
SPECIFICATION Spec
CHECK_DEADLOCK FALSE
VIEW Seen
CONSTANTS
    Calls = {c1}
    Agents = {a1, a2}
    Members = {a1}
    NoAgent = NoAgent
    NoCall = NoCall
    Supervisors = {s1}
    Tabs = {p1, t1}
    Pages = {p1}
    NoUser = NoUser
    MaxMessages = 2
    MaxFetches = 1
    MaxEvents = 1
INVARIANT ListsAreCurrent
INVARIANT PanelIsCurrent
