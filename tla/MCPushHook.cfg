SPECIFICATION Spec
CONSTANTS
  Devices = {d1, d2}
  MaxHooks = 2
  PushWait = 2
INVARIANTS
  OneWaitEach
PROPERTIES
  TimeoutUnconfirmed
  HookEnds
CHECK_DEADLOCK FALSE
