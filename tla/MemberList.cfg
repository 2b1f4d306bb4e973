SPECIFICATION FairSpec
CONSTANTS
  Self = self
  Peers = {p1, p2}
  Host <- MCHost
  Port <- MCPort
  Handlers = {h1}
  Capacity = 1
  MaxJoins = 2
  MaxDeaths = 2
INVARIANTS TypeOK DeathsHeard PoolFollows Inv
PROPERTY CallsFinish
CHECK_DEADLOCK FALSE
