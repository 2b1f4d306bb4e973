------------------------------- MODULE MCSwim -------------------------------
EXTENDS Swim, TLC
CONSTANTS n1, n2, n3
MCSeeds == (n1 :> {n2}) @@ (n2 :> {n1}) @@ (n3 :> {n1})

(***************************************************************************)
(* The limit grows with the list, so that the limit of some length of the  *)
(* list, which TypeOK has, is no more than the limit of the longest one.   *)
(***************************************************************************)
ASSUME LimitsGrow ==
  \A k \in 1 .. 8 : MaxDisseminations(k - 1) <= MaxDisseminations(k)
=============================================================================
