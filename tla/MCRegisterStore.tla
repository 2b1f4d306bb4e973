-------------------------- MODULE MCRegisterStore ---------------------------
EXTENDS RegisterStore, TLC
CONSTANTS v1, v2
MCHost == [n \in Nodes |-> n]
MCRank == [n \in Nodes |-> n]
Mesh == [n \in Nodes |-> Nodes \ {n}]
ValueSymmetry == Permutations(Values)
=============================================================================
