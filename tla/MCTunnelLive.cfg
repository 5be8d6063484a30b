SPECIFICATION FairSpec
CONSTANTS
  Run = {r1, r2}
  Request = {o1, o2}
  None = None
  Environments <- Liveness
PROPERTIES RequestReturns DeadIsUnrouted LiveIsRouted
CHECK_DEADLOCK FALSE
