SPECIFICATION Spec
CONSTANTS
  n1 = n1
  n2 = n2
  c1 = c1
  a = a
  Nodes = {n1, n2}
  Keys = {k1}
  Elements = {a}
  Clients = {c1, c2}
  Reach <- Home
  Bodies <- OneElement
  MaxRequests = 2
  Pools <- Mesh
  Host <- MCHost
  Departing = {n1}
  MaxInFlight = 1
  MaxAcks = 1
INVARIANTS SiblingsExact SkipHarmless CausalDeltaMerging QuietConverged Inv
PROPERTIES ImplementsStateBased
CHECK_DEADLOCK FALSE
