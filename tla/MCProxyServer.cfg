SPECIFICATION FairSpec
CONSTANTS
  c1 = c1
  c2 = c2
  t1 = t1
  t2 = t2
  t3 = t3
  NL = NL
  US = US
  None = None
  Conn = {c1, c2}
  Tunnels <- ThreeTunnels
  Country = {NL, US}
  country <- TheirCountries
  Environments <- Cases
INVARIANTS RoundRobin MappingServes
PROPERTIES LoopsEnd ImplementsSocks
CHECK_DEADLOCK FALSE
