SPECIFICATION FairSpec
CONSTANTS
  Streams = {s1}
  Stops = {c1}
  Session = session
  None = none
  Replies <- AllReplies
  MaxReplies = 2
  VadTimeouts = {0, 2}
INVARIANTS
  NoUseAfterFree
  BargeInHonoured
  VarsInOrder
  VadBreaksInSilence
PROPERTIES
  StreamLives
  FinalEndsBug
  HangupDestroys
CHECK_DEADLOCK FALSE
