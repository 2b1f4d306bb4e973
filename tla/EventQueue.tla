----------------------------- MODULE EventQueue -----------------------------
(***************************************************************************)
(* The queue of membership events of internal/swim/event.go: a bag of      *)
(* items, each an event with the number of messages that carried it.  The  *)
(* heap gives those with the lowest counts, in any order among equals.     *)
(***************************************************************************)
EXTENDS Naturals, Bags

CONSTANTS
  MaxPiggyback,  \* events a message has room for (8 in the code)
  Factor         \* Config.DisseminationFactor (3 unless configured)

Item(e) == [event |-> e, count |-> 0]

Push(q, items) == q (+) items

(***************************************************************************)
(* EventQueue.Pop: the bags of items that one call may return.             *)
(***************************************************************************)
Parts(q) == UNION {[S -> 1 .. BagCardinality(q)] : S \in SUBSET BagToSet(q)}

Pop(q, n) ==
  LET size == IF BagCardinality(q) < n THEN BagCardinality(q) ELSE n
  IN  {b \in Parts(q) :
         /\ b \sqsubseteq q
         /\ BagCardinality(b) = size
         /\ \A i \in BagToSet(b), j \in BagToSet(q (-) b) : i.count <= j.count}

(***************************************************************************)
(* ceil(Factor * log2(n + 1)) for a list of n peers.                       *)
(***************************************************************************)
MaxDisseminations(n) ==
  CHOOSE d \in 0 .. Factor * n :
    /\ (n + 1) ^ Factor <= 2 ^ d
    /\ d = 0 \/ 2 ^ (d - 1) < (n + 1) ^ Factor

Sent(i) == [i EXCEPT !.count = @ + 1]

\* Mutant: the count stays what it was.
RequeuedMutantUncounted(b, n) == b

(***************************************************************************)
(* Member.sendToAddr: what goes back into the queue of a node with n peers *)
(* when a message with the items of b was written.  (When writing fails,   *)
(* all of b does, unchanged.)                                              *)
(***************************************************************************)
Requeued(b, n) ==
  LET due == {i \in BagToSet(b) : i.count + 1 < MaxDisseminations(n)}
  IN  BagOfAll(Sent, [i \in due |-> b[i]])
=============================================================================
