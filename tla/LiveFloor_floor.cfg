\* An agent's or a supervisor's page and two chats.  The view leaves out the desk's
\* columns that follow from the others or that no step of the floor reads.
SPECIFICATION FairSpec
CHECK_DEADLOCK FALSE
VIEW Seen
CONSTANTS
    Calls = {c1, c2}
    Agents = {a1}
    Members = {a1}
    NoAgent = NoAgent
    NoCall = NoCall
    Supervisors = {s1}
    Tabs = {p1}
    Pages = {p1}
    NoUser = NoUser
    MaxMessages = 2
    MaxFetches = 1
    MaxEvents = 1
INVARIANT ListsAreCurrent
INVARIANT PanelIsCurrent
PROPERTY AgentReadsAll
