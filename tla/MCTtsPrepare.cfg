SPECIFICATION Spec
CONSTANTS
  MaxFiles = 3
  MaxUnavailable = 2
  Codes = {200, 404, 500}
INVARIANTS
  FileSettled
PROPERTIES
  AnswerEnds
CHECK_DEADLOCK FALSE
