SPECIFICATION Spec
CONSTANTS
  n1 = n1
  n2 = n2
  n3 = n3
  c1 = c1
  c2 = c2
  Nodes = {n1, n2, n3}
  Elements = {a}
  Clients = {c1}
  Reach <- Anywhere
  MaxOperations = 4
INVARIANT ReadsConverge
SYMMETRY Symmetry
CHECK_DEADLOCK FALSE
