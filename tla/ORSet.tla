------------------------------- MODULE ORSet --------------------------------
(***************************************************************************)
(* The observed-remove set of internal/crdt/crdt.go: a DVVSet of add (TRUE)*)
(* and remove (FALSE) markers per element.  The DVVSet of an element that  *)
(* was added once is never empty again, so an element the program has no   *)
(* DVVSet for is one with an empty DVVSet here.                            *)
(***************************************************************************)
EXTENDS NodeIDs, Integers, Sequences

CONSTANT Elements

D == INSTANCE DVVSet WITH Values <- BOOLEAN

ORSets == [Elements -> D!DVVSets]

Contexts == [Elements -> D!VV]

NewORSet == [e \in Elements |-> D!NewDVVSet]

NoContexts == [e \in Elements |-> D!EmptyVV]

CausalContexts(or) == [e \in Elements |-> D!Join(or[e])]

ORContains(or, e) == \E i \in Nodes : \E j \in DOMAIN or[e][i].values : or[e][i].values[j]

SetValues(or) == {e \in Elements : ORContains(or, e)}

(***************************************************************************)
(* ORSet.Add and ORSet.Remove return deltas: the whole DVVSet of the one   *)
(* element.                                                                *)
(***************************************************************************)
ORAdd(or, n, e, vv) == [NewORSet EXCEPT ![e] = D!Update(or[e], n, vv, TRUE)]

ORRemove(or, n, e, vv) ==
  IF or[e] = D!NewDVVSet THEN NewORSet
  ELSE [NewORSet EXCEPT ![e] = D!Update(or[e], n, vv, FALSE)]

ORMerge(or, other) == [e \in Elements |-> D!Sync(or[e], other[e])]

ORLessOrEqual(or, other) == \A e \in Elements : D!DVVLessOrEqual(or[e], other[e])

-----------------------------------------------------------------------------
(***************************************************************************)
(* What the markers should be, from the history of a set: its operations,  *)
(* each with its dot, whether it was an add, and the context (seen) its    *)
(* client supplied.                                                        *)
(***************************************************************************)
Operations == [elem : Elements, node : Nodes, dot : Nat \ {0}, add : BOOLEAN, seen : D!VV]

OperationOf(n, e, d, add, vv) ==
  [elem |-> e, node |-> n, dot |-> d[e][n].counter, add |-> add, seen |-> vv]

Knows(or, x) == x.dot <= or[x.elem][x.node].counter

Supersedes(x, y) == x.elem = y.elem /\ y.dot <= x.seen[y.node]

(***************************************************************************)
(* The markers a set should hold: those of the operations it knows that no *)
(* operation it knows had observed.                                        *)
(***************************************************************************)
Expected(or, history) ==
  {x \in history : Knows(or, x) /\ ~\E y \in history : Knows(or, y) /\ Supersedes(y, x)}

(***************************************************************************)
(* The markers it holds: by the layout of an entry, the value at j has the *)
(* dot (i, counter - j + 1).                                               *)
(***************************************************************************)
MarkerOf(or, e, i, j, x) ==
  /\ x.elem = e /\ x.node = i
  /\ x.dot = or[e][i].counter - j + 1
  /\ x.add = or[e][i].values[j]

Markers(or, history) ==
  {x \in history : \E j \in DOMAIN or[x.elem][x.node].values : MarkerOf(or, x.elem, x.node, j, x)}

NoStrayMarkers(or, history) ==
  \A e \in Elements, i \in Nodes : \A j \in DOMAIN or[e][i].values :
    \E x \in history : MarkerOf(or, e, i, j, x)

MarkersExact(or, history) ==
  NoStrayMarkers(or, history) /\ Markers(or, history) = Expected(or, history)

(***************************************************************************)
(* Why the markers are exact.  An entry holds the values of a node's       *)
(* newest events, so one number says what has been dropped: the newest     *)
(* event whose value is gone.                                              *)
(***************************************************************************)
Gone(entry) == entry.counter - Len(entry.values)

(***************************************************************************)
(* A set is closed under a history if everything an operation it knows had *)
(* observed is gone, and nothing else is.  Then its counters alone say     *)
(* what it holds, which is all IsLessOrEqual compares.                     *)
(***************************************************************************)
Closed(or, history) ==
  /\ \A e \in Elements, i \in Nodes : Gone(or[e][i]) >= 0
  /\ NoStrayMarkers(or, history)
  /\ \A x \in history : Knows(or, x) => \A i \in Nodes : x.seen[i] <= Gone(or[x.elem][i])
  /\ \A e \in Elements, i \in Nodes : Gone(or[e][i]) = 0 \/
       \E x \in history : x.elem = e /\ Knows(or, x) /\ Gone(or[e][i]) <= x.seen[i]

DotsUnique(history) ==
  \A x, y \in history : x.elem = y.elem /\ x.node = y.node /\ x.dot = y.dot => x = y
=============================================================================
