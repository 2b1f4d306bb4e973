------------------------------- MODULE DVVSet -------------------------------
(***************************************************************************)
(* The dotted version vector sets of internal/crdt/dvvset.go.  A DVVSet    *)
(* has an entry per node: how many events of that node it knows, and the   *)
(* values of the newest of them that nothing has superseded, newest first: *)
(* the value at j stands for the event (node, counter - j + 1).            *)
(*                                                                         *)
(* Entries are created with a positive counter, so a node without one is   *)
(* written here as the entry (0, << >>), as the code's comments do.        *)
(***************************************************************************)
EXTENDS NodeIDs, Integers, Sequences

CONSTANT Values  \* what the events of a DVVSet record

VV == [Nodes -> Nat]

DVVSets == [Nodes -> [counter : Nat, values : Seq(Values)]]

NewDVVSet == [i \in Nodes |-> [counter |-> 0, values |-> <<>>]]

EmptyVV == [i \in Nodes |-> 0]

Join(ds) == [i \in Nodes |-> ds[i].counter]

(***************************************************************************)
(* The first n values of l, or all of them if there are fewer.             *)
(***************************************************************************)
First(n, l) == SubSeq(l, 1, IF n < Len(l) THEN n ELSE Len(l))

\* Mutant: off by one.
discardMutantKeeps(ds, vv) ==
  [i \in Nodes |-> [ds[i] EXCEPT !.values = First(ds[i].counter - vv[i] + 1, @)]]

(***************************************************************************)
(* discard drops the siblings that vv covers.                              *)
(***************************************************************************)
discard(ds, vv) ==
  [i \in Nodes |-> [ds[i] EXCEPT !.values = First(ds[i].counter - vv[i], @)]]

(***************************************************************************)
(* event gives the value a new dot of node n; the other entries there are  *)
(* catch up with vv.  A node that only vv knows gets no entry.             *)
(***************************************************************************)
event(ds, n, vv, v) ==
  [i \in Nodes |->
     IF i = n
       THEN [counter |-> ds[n].counter + 1, values |-> <<v>> \o ds[n].values]
       ELSE IF 0 < ds[i].counter /\ ds[i].counter < vv[i]
              THEN [ds[i] EXCEPT !.counter = vv[i]]
              ELSE ds[i]]

Update(ds, n, vv, v) == event(discard(ds, vv), n, vv, v)

\* Mutant: siblings both sides hold are dropped.
SyncEntryMutantForgets(e, f) == [e EXCEPT !.values = First(e.counter - f.counter, @)]

(***************************************************************************)
(* Sync keeps the entry with the higher counter, without the siblings the  *)
(* other side knows of and no longer has.                                  *)
(***************************************************************************)
SyncEntry(e, f) ==
  [e EXCEPT !.values = First(e.counter - f.counter + Len(f.values), @)]

Sync(ds, other) ==
  [i \in Nodes |-> IF ds[i].counter >= other[i].counter
                     THEN SyncEntry(ds[i], other[i])
                     ELSE SyncEntry(other[i], ds[i])]

\* Mutant: one entry suffices.
DVVLessOrEqualMutantSome(ds, other) == \E i \in Nodes : ds[i].counter <= other[i].counter

DVVLessOrEqual(ds, other) == \A i \in Nodes : ds[i].counter <= other[i].counter
=============================================================================
