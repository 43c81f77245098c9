SPECIFICATION FairSpec
CONSTANTS
  Legs <- TwoLegs
  Agent <- OneEavesdrops
  supervisor = supervisor
  agent = agent
  Nobody = nobody
  Oddities <- OddInOneWay
  Requests = {r1}
  MaxChanges <- ChangesTwice
  MaxQueue = 2
INVARIANTS
  ViewSettles
  LeaveIsLast
  RecordSpan
PROPERTIES
  HangupSettles
CHECK_DEADLOCK FALSE
