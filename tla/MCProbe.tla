------------------------------ MODULE MCProbe -------------------------------
EXTENDS Probe, TLC
CONSTANTS n1, n2, n3
MCPeriods == (n1 :> 2) @@ (n2 :> 1) @@ (n3 :> 0)

(***************************************************************************)
(* A bound on the run: a crash comes before any node's second period.      *)
(***************************************************************************)
EarlyCrash ==
  up' # up /\ panicked' = panicked => \A n \in Nodes : period[n] <= 1
=============================================================================
