SPECIFICATION Spec
CONSTANTS
  n1 = n1
  n2 = n2
  n3 = n3
  Nodes = {n1, n2, n3}
  SubgroupSize = 1
  Periods <- MCPeriods
  Crashing = {}
  MaxSlips = 0
INVARIANT FallbackSaves
CHECK_DEADLOCK FALSE
