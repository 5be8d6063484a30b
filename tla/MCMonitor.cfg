SPECIFICATION MonitorSpec
CONSTANTS
  t1 = t1
  t2 = t2
  d1 = d1
  d2 = d2
  b1 = b1
  b2 = b2
  Tunnels <- TwoTunnels
  Every = 2
  Limit = 1
  Slot = {d1, d2}
  MaxLooks = 2
  Environments <- Cases
  Watcher = {b1, b2}
  QueueLimit = 2
  Nobody = Nobody
  Blank = Blank
PROPERTIES GoldLearns GoldForgets StopReturns ViewCatchesUp ClientLeaves
CHECK_DEADLOCK FALSE
