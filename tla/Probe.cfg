SPECIFICATION Spec
CONSTANTS
  n1 = n1
  n2 = n2
  n3 = n3
  Nodes = {n1, n2, n3}
  SubgroupSize = 1
  Periods <- MCPeriods
  Crashing = {n3}
  MaxSlips = 1
INVARIANTS TypeOK Inv VerdictEvidenced OneSlipTolerated
ACTION_CONSTRAINT EarlyCrash
CHECK_DEADLOCK FALSE
