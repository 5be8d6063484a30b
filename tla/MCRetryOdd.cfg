SPECIFICATION Spec
CONSTANTS
  Conn = {c1}
  p1 = p1
  p2 = p2
  p3 = p3
  Port <- Ports
  None = None
  maxRetries = 2
  Odd = {p2}
  Backends <- SomeLists
INVARIANT RetriesFailed
CHECK_DEADLOCK FALSE
