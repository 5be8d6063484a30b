SPECIFICATION Spec
CONSTANTS
  Run = {r1, r2}
  Request = {o1}
  None = None
  Environments <- OnlyHasty
INVARIANT CleanRestarts
CHECK_DEADLOCK FALSE
