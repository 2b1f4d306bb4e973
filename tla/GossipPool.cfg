SPECIFICATION Spec
CONSTANTS
  Self = self
  Peers = {p1, p2}
  Host <- MCHost
  Port <- MCPort
  Handlers = {h1}
  Capacity = 1
  MaxJoins = 2
  MaxDeaths = 2
INVARIANT GossipsWithMembers
CHECK_DEADLOCK FALSE
