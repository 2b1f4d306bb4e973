SPECIFICATION FairSpec
CONSTANTS
  n1 = n1
  n2 = n2
  n3 = n3
  Nodes = {n1, n2, n3}
  Seeds <- MCSeeds
  Crashing = {n3}
  Handlers = {h1}
  MaxPiggyback = 2
  Factor = 1
  MaxFaults = 2
  MaxInFlight = 1
INVARIANTS TypeOK DeathsHeard
PROPERTIES  SeedsReadmit EventsRunOut
CHECK_DEADLOCK FALSE
