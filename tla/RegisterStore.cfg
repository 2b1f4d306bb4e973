SPECIFICATION Spec
CONSTANTS
  v1 = v1
  v2 = v2
  Nodes = {1, 2}
  Keys = {k1}
  Values = {v1, v2}
  Rank <- MCRank
  Pools <- Mesh
  Host <- MCHost
  Departing = {1}
  MaxInFlight = 1
  MaxAcks = 1
  Starts = {1}
  WallSteps = {1, 2}
  MaxTime = 3
  MaxTicks = 2
  MaxWrites = 3
INVARIANTS SilenceJustified QuietConverged LastWriteWins Inv
PROPERTIES ImplementsStateBased
CHECK_DEADLOCK FALSE
SYMMETRY ValueSymmetry
