SPECIFICATION FairSpec
CONSTANTS
  Replies <- AllReplies
  MaxReplies = 3
  Frames = 2
  Batch = 2
INVARIANTS
  AudioAfterStop
  NoReaderLeft
PROPERTIES
  StreamLives
  ConversationEnds
CHECK_DEADLOCK FALSE
