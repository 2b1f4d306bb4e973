---------------------------- MODULE LWWRegister -----------------------------
(***************************************************************************)
(* The last-writer-wins register of internal/crdt/crdt.go.  An entry is a  *)
(* value with the time it was written and its writer.                      *)
(*                                                                         *)
(* A Go time read from the clock carries two readings: the wall clock's    *)
(* and the monotonic clock's.  Two times that both have a monotonic        *)
(* reading are compared by it; otherwise the wall clock decides.  Encoding *)
(* a time as JSON drops the monotonic reading, so only a node's own writes *)
(* have one (mono > 0), and only at that node.                             *)
(***************************************************************************)
EXTENDS NodeIDs

CONSTANTS
  Values,  \* the JSON values clients write
  Rank     \* Rank[n]: the place of node ID n in string order

ASSUME LWWAssumption ==
  /\ Rank \in [Nodes -> Nat \ {0}]
  /\ \A n, p \in Nodes : Rank[n] = Rank[p] => n = p

Entries == [wall : Nat \ {0}, mono : Nat, rank : Nat \ {0}, value : Values]

(***************************************************************************)
(* NewLWWRegister: the zero time, before all others, and the empty writer  *)
(* ID.  It stands for a key without a register, too.                       *)
(***************************************************************************)
NoEntry == [wall |-> 0, mono |-> 0, rank |-> 0, value |-> "none"]

\* Mutant: equal timestamps are not ordered by writer.
AfterMutantNoTieBreak(e, f) == e.wall > f.wall

\* Mutant: each time is compared by its monotonic reading if it has one.
AfterMutantMonoFirst(e, f) ==
  LET te == IF e.mono > 0 THEN e.mono ELSE e.wall
      tf == IF f.mono > 0 THEN f.mono ELSE f.wall
  IN  te > tf \/ (te = tf /\ e.rank > f.rank)

(***************************************************************************)
(* lwwEntry.After, with the comparisons of Go's time package.              *)
(***************************************************************************)
After(e, f) ==
  LET local == e.mono > 0 /\ f.mono > 0
      te == IF local THEN e.mono ELSE e.wall
      tf == IF local THEN f.mono ELSE f.wall
  IN  te > tf \/ (te = tf /\ e.rank > f.rank)

(***************************************************************************)
(* LWWRegister.Set returns a delta; Merge and IsLessOrEqual compare.       *)
(***************************************************************************)
Set(n, w, m, v) == [wall |-> w, mono |-> m, rank |-> Rank[n], value |-> v]

\* Mutant: merging overwrites.
LWWMergeMutantReplaces(e, f) == f

LWWMerge(e, f) == IF After(f, e) THEN f ELSE e

LWWLessOrEqual(e, f) == ~After(e, f)

(***************************************************************************)
(* MarshalJSON followed by UnmarshalJSON.                                  *)
(***************************************************************************)
Wire(e) == [e EXCEPT !.mono = 0]
=============================================================================
