SPECIFICATION Spec
CONSTANTS
  Name = {n1, n2}
  Key = {k1, k2, k3}
  Host <- Hosts
  Route = {eth0, eth1}
  None = None
  MaxStarts = 3
  Environments <- Various
SYMMETRY Symmetry
INVARIANTS TypeOK UniquePeers RevokedIsGone OnlyListedAdmitted AckedAdmitted
  AckedDurable StopCleansUp KeyLoaded
CHECK_DEADLOCK FALSE
