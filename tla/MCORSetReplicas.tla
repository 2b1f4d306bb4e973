-------------------------- MODULE MCORSetReplicas ---------------------------
EXTENDS ORSetReplicas, TLC
CONSTANTS n1, n2, n3, c1, c2
Home == [c \in Clients |-> IF c = c1 THEN {n1} ELSE {n2}]
Anywhere == [c \in Clients |-> Nodes]
Swap == {(n1 :> n2) @@ (n2 :> n1) @@ (c1 :> c2) @@ (c2 :> c1)}
Symmetry == Permutations(Nodes)
=============================================================================
