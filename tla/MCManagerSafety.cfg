SPECIFICATION Spec
CONSTANTS
  Name = {n1, n2}
  Client = {c1, c2}
  basePort = 10
  Environments <- Safety
SYMMETRY Symmetry
INVARIANTS PortsIncrease NoUnlistedProcess ListMatchesDisk 
PROPERTY DeletesWhatItStopped
CHECK_DEADLOCK FALSE
