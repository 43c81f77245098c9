SPECIFICATION Spec
CONSTANTS
  Streams = {s1, s2}
  Stops = {c1, c2}
  Session = session
  None = none
  Replies <- FinalReplies
  MaxReplies = 1
  VadTimeouts = {0}
SYMMETRY Symmetry
INVARIANTS
  OneCloser
  StopSilences
  StopReaches
  NothingLeft
  FinalReported
CHECK_DEADLOCK FALSE
