SPECIFICATION FairSpec
CONSTANTS
  Ttl = 4
  DeregisterTtl = 3
INVARIANTS
  PassingWhileServing
  TimerUsesLiveCluster
  NotAdvertisedDead
PROPERTIES
  UnloadCompletes
CHECK_DEADLOCK FALSE
