SPECIFICATION FairSpec
CONSTANTS
  a = a
  b = b
  pa = pa
  pb = pb
  r1 = r1
  r2 = r2
  Nobody = nobody
  Legs <- FourLegs
  Bridged <- TwoCalls
  Parking <- OneParks
  Recordable <- PartnersRecorded
  Requests <- TwoRequests
  Asks <- AllAsks
  MaxAsks <- OneThenTwo
INVARIANTS
  WorksOnLegs
  TransferLinked
  OriginateChecked
PROPERTIES
  RecordingGoesOn
  LegsFreed
CHECK_DEADLOCK FALSE
