SPECIFICATION Spec
CONSTANTS
  Run = {r1, r2}
  Request = {o1}
  None = None
  Environments <- OnlyHasty
PROPERTY DisconnectStops
CHECK_DEADLOCK FALSE
