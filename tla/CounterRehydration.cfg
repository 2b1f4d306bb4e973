SPECIFICATION RestartSpec
CONSTANTS
  Nodes = {n1, n2}
  Keys = {k1}
  Pools <- Mesh
  Host <- MCHost
  Departing = {}
  Crashing = {n2}
  MaxInFlight = 1
  MaxAcks = 1
  MaxUint = 3
  Ops = {"inc"}
  Amounts = {1}
  MaxIssued = 1
INVARIANT Rehydrated
CHECK_DEADLOCK FALSE
