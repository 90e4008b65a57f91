SPECIFICATION Spec
CONSTANTS
  MaxTime = 4
  Duration = 2
  Extend = 2
  MaxDelay = 4
  Attempts = 2
  AutoExtend = TRUE
  SetStatus = {}
  Request = {r1}
  None = None
CHECK_DEADLOCK FALSE
PROPERTY TimerEndsOnlyExpired
