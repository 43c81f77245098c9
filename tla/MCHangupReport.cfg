SPECIFICATION HangupSpec
CONSTANTS
  Causes = {"NORMAL_CLEARING", "ORIGINATOR_CANCEL", "ALLOTTED_TIMEOUT", "RECOVERY_ON_TIMER_EXPIRE", "USER_BUSY"}
  Codes = {200, 486}
INVARIANTS
  RightSideNamed
  OutcomeAgrees
CHECK_DEADLOCK FALSE
