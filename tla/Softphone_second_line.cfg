\* A second caller rings during a call.
SPECIFICATION Spec
CHECK_DEADLOCK FALSE
CONSTANTS
  c1 = c1
  c2 = c2
  c3 = c3
  Me = me
  NoAgent = NoAgent
  NoCall = NoCall
  MaxChunks = 1
  MaxOps = 2
  Calls = {c1, c2}
  Trials = {"second_line"}
INVARIANT TalkingCallIsLive
