\* Every trial that leaves the agent in command of the line.
SPECIFICATION Spec
CHECK_DEADLOCK FALSE
CONSTANTS
  c1 = c1
  c2 = c2
  c3 = c3
  Me = me
  NoAgent = NoAgent
  NoCall = NoCall
  MaxChunks = 1
  MaxOps = 2
  Calls = {c1, c2}
  Trials = {"swift", "impatient", "distracted", "legless"}
VIEW Kept
SYMMETRY Symmetry
INVARIANT IInv
INVARIANT TalkingCallIsLive
INVARIANT TapedIsRecorded
INVARIANT AudioKeptOnce
