SPECIFICATION Spec
CONSTANTS
  Replies <- PlainReplies
  MaxReplies = 2
  Frames = 1
  Batch = 2
INVARIANTS
  EndConsumesVars
CHECK_DEADLOCK FALSE
