SPECIFICATION Spec
CONSTANTS
  Run = {r1, r2, r3}
  Request = {o1, o2}
  None = None
  Environments <- Safety
SYMMETRY Symmetry
INVARIANTS TypeOK StartingHasStarter StopHasCloser NoPanic NoOrphan NoTempLeak
CHECK_DEADLOCK FALSE
