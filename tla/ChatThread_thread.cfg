\* One chat, a member of the queue, an agent outside it and a supervisor.
SPECIFICATION FairSpec
CHECK_DEADLOCK FALSE
CONSTANTS
    Calls = {c1}
    Agents = {a1, a2}
    Members = {a1}
    NoAgent = NoAgent
    NoCall = NoCall
    Supervisors = {s1}
    Customer = Customer
    MaxMessages = 3
    MaxPolls = 2
INVARIANTS
    ThreadIsNumbered
    RatedIsResolved
PROPERTIES
    SpeakersMaySpeak
    CustomerReadsAll
