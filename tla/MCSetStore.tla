---------------------------- MODULE MCSetStore ------------------------------
EXTENDS SetStore
CONSTANTS n1, n2, c1, a
MCHost == [n \in Nodes |-> n]
Mesh == [n \in Nodes |-> Nodes \ {n}]
Home == [c \in Clients |-> IF c = c1 THEN {n1} ELSE {n2}]
OneElement == {[remove |-> <<>>, add |-> <<a>>],
               [remove |-> <<a>>, add |-> <<>>],
               [remove |-> <<a>>, add |-> <<a>>]}
=============================================================================
