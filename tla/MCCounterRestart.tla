-------------------------- MODULE MCCounterRestart --------------------------
EXTENDS CounterRestart
MCHost == [n \in Nodes |-> n]
Mesh == [n \in Nodes |-> Nodes \ {n}]
=============================================================================
