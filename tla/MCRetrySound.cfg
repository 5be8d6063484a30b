SPECIFICATION FairSpec
CONSTANTS
  Conn = {c1, c2, c3}
  p1 = p1
  p2 = p2
  p3 = p3
  Port <- Ports
  None = None
  maxRetries = 2
  Odd = {p2}
  Backends <- SomeLists
INVARIANTS TriesDistinct RefusedAfterRetries RoundRobin
PROPERTY ImplementsSocks
CHECK_DEADLOCK FALSE
