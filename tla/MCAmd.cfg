SPECIFICATION FairSpec
CONSTANTS
  Results = {"human", "machine"}
  Positive = {"human", "undefined"}
INVARIANTS
  HangsUpOnVerdict
  PositiveHonest
PROPERTIES
  StreamLives
  VerdictReported
CHECK_DEADLOCK FALSE
