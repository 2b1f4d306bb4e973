SPECIFICATION FairSpec
CONSTANTS
  Nodes = {n1, n2}
  Keys = {k1}
  Pools <- Mesh
  Host <- MCHost
  Departing = {n1}
  MaxInFlight = 2
  MaxAcks = 1
  MaxUint = 3
  Ops = {"inc", "dec"}
  Amounts = {3}
  MaxIssued = 6
INVARIANTS TypeOK Inv IncrementsExact OwnSlotDominates NothingForgotten SilenceJustified CausalDeltaMerging QuietConverged QuietValues
PROPERTIES Converges GossipSubsides ImplementsStateBased
CHECK_DEADLOCK FALSE
