------------------------------ MODULE NodeIDs ------------------------------
(***************************************************************************)
(* The node identifiers of a commute cluster (type crdt.NodeID).  Every    *)
(* module that talks about nodes extends this one, so that a data type and *)
(* the gossip transport range over the same set.                           *)
(***************************************************************************)
EXTENDS Naturals, FiniteSets

CONSTANT Nodes

ASSUME NodesAssumption == IsFiniteSet(Nodes) /\ Nodes # {}
=============================================================================
