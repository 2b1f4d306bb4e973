SPECIFICATION Spec
CONSTANTS
  n1 = n1
  n2 = n2
  n3 = n3
  c1 = c1
  c2 = c2
  Nodes = {n1, n2, n3}
  Elements = {a}
  Clients = {c1, c2}
  Reach <- Home
  MaxOperations = 4
INVARIANTS SiblingsExact ExchangesConverge Inv
SYMMETRY Swap
CHECK_DEADLOCK FALSE
