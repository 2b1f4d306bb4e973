--------------------------- MODULE MCCounterStore ---------------------------
EXTENDS CounterStore
MCHost == [n \in Nodes |-> n]
Mesh == [n \in Nodes |-> Nodes \ {n}]
=============================================================================
