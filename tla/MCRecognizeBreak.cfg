SPECIFICATION Spec
CONSTANTS
  Streams = {s1}
  Stops = {c1}
  Session = session
  None = none
  Replies <- AllReplies
  MaxReplies = 2
  VadTimeouts = {0}
INVARIANTS
  BreakConsumesVars
CHECK_DEADLOCK FALSE
