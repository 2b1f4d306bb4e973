---------------------------- MODULE ORSetProofs -----------------------------
(***************************************************************************)
(* Machine-checked facts about the observed-remove set, for any nodes,     *)
(* elements and histories: merging is the join of a lattice in which a set *)
(* is determined by its counters.                                          *)
(***************************************************************************)
EXTENDS ORSet, TLAPS, SequenceTheorems

(***************************************************************************)
(* Counters are compared in chains.                                        *)
(***************************************************************************)
LEMMA Transitive == \A j, k, l \in Nat : j <= k /\ k <= l => j <= l
OBVIOUS

Entries == [counter : Nat, values : Seq(BOOLEAN)]

(***************************************************************************)
(* First cuts a list of values.                                            *)
(***************************************************************************)
LEMMA FirstValues ==
  ASSUME NEW l \in Seq(BOOLEAN), NEW m \in Nat
  PROVE  /\ D!First(m, l) \in Seq(BOOLEAN)
         /\ Len(D!First(m, l)) = IF m < Len(l) THEN m ELSE Len(l)
         /\ \A j \in 1 .. Len(D!First(m, l)) : j \in 1 .. Len(l) /\ D!First(m, l)[j] = l[j]
         /\ m >= Len(l) => D!First(m, l) = l
<1>1. PICK b \in Nat : b = IF m < Len(l) THEN m ELSE Len(l)
  OBVIOUS
<1>2. D!First(m, l) = SubSeq(l, 1, b)
  BY <1>1 DEF D!First
<1>3. b <= Len(l) /\ Len(l) \in Nat
  BY <1>1
<1>4. /\ SubSeq(l, 1, b) \in Seq(BOOLEAN)
      /\ Len(SubSeq(l, 1, b)) = b
      /\ \A j \in 1 .. b : SubSeq(l, 1, b)[j] = l[j]
  BY <1>3, SubSeqProperties
<1>5. m >= Len(l) => SubSeq(l, 1, b) = l
  <2> SUFFICES ASSUME m >= Len(l) PROVE SubSeq(l, 1, b) = l
    OBVIOUS
  <2>1. b = Len(l)
    BY <1>1, <1>3
  <2> QED BY <1>3, <1>4, <2>1
<1> QED BY <1>1, <1>2, <1>3, <1>4, <1>5

(***************************************************************************)
(* Sync of two entries knows what either knows and drops what either has   *)
(* dropped; its values are those of the side with the higher counter.      *)
(***************************************************************************)
Synced(e, f) == IF e.counter >= f.counter THEN D!SyncEntry(e, f) ELSE D!SyncEntry(f, e)

(***************************************************************************)
(* Sync of an entry with an older one: the older one can only cut it.      *)
(***************************************************************************)
LEMMA SyncEntryCuts ==
  ASSUME NEW e \in Entries, NEW f \in Entries, Gone(e) >= 0, Gone(f) >= 0,
         e.counter >= f.counter
  PROVE  /\ D!SyncEntry(e, f) \in Entries
         /\ D!SyncEntry(e, f).counter = e.counter
         /\ Gone(D!SyncEntry(e, f)) = IF Gone(e) >= Gone(f) THEN Gone(e) ELSE Gone(f)
         /\ \A j \in 1 .. Len(D!SyncEntry(e, f).values) :
              j \in 1 .. Len(e.values) /\ D!SyncEntry(e, f).values[j] = e.values[j]
         /\ Gone(e) >= Gone(f) => D!SyncEntry(e, f) = e
<1>1. /\ e.counter \in Nat /\ f.counter \in Nat /\ e.values \in Seq(BOOLEAN)
      /\ Len(e.values) \in Nat /\ Len(f.values) \in Nat
  BY DEF Entries
<1>2. PICK m \in Nat : m = e.counter - f.counter + Len(f.values)
  BY <1>1
<1>3. PICK l : l = D!First(m, e.values)
  OBVIOUS
<1>4. D!SyncEntry(e, f) = [e EXCEPT !.values = l]
  BY <1>2, <1>3 DEF D!SyncEntry
<1>5. /\ l \in Seq(BOOLEAN)
      /\ Len(l) = IF m < Len(e.values) THEN m ELSE Len(e.values)
      /\ \A j \in 1 .. Len(l) : j \in 1 .. Len(e.values) /\ l[j] = e.values[j]
      /\ m >= Len(e.values) => l = e.values
  BY <1>1, <1>3, FirstValues
<1>6. /\ [e EXCEPT !.values = l] \in Entries
      /\ [e EXCEPT !.values = l].counter = e.counter
      /\ [e EXCEPT !.values = l].values = l
      /\ l = e.values => [e EXCEPT !.values = l] = e
  BY <1>5 DEF Entries
<1>7. Gone([e EXCEPT !.values = l]) = IF Gone(e) >= Gone(f) THEN Gone(e) ELSE Gone(f)
  BY <1>1, <1>2, <1>5, <1>6 DEF Gone
<1>8. Gone(e) >= Gone(f) => m >= Len(e.values)
  BY <1>1, <1>2 DEF Gone
<1> QED BY <1>4, <1>5, <1>6, <1>7, <1>8

(***************************************************************************)
(* Sync of any two entries is the join of their counters and of what is gone. *)
(***************************************************************************)
LEMMA SyncedJoin ==
  ASSUME NEW e \in Entries, NEW f \in Entries, Gone(e) >= 0, Gone(f) >= 0
  PROVE  /\ Synced(e, f) \in Entries
         /\ Synced(e, f).counter = IF e.counter >= f.counter THEN e.counter ELSE f.counter
         /\ Gone(Synced(e, f)) = IF Gone(e) >= Gone(f) THEN Gone(e) ELSE Gone(f)
         /\ \A j \in 1 .. Len(Synced(e, f).values) :
              \/ /\ Synced(e, f).counter = e.counter
                 /\ j \in 1 .. Len(e.values) /\ Synced(e, f).values[j] = e.values[j]
              \/ /\ Synced(e, f).counter = f.counter
                 /\ j \in 1 .. Len(f.values) /\ Synced(e, f).values[j] = f.values[j]
         /\ e.counter >= f.counter /\ Gone(e) >= Gone(f) => Synced(e, f) = e
<1>1. e.counter \in Nat /\ f.counter \in Nat /\ Gone(e) \in Int /\ Gone(f) \in Int
  BY DEF Entries, Gone
<1>2. CASE e.counter >= f.counter
  <2>1. Synced(e, f) = D!SyncEntry(e, f)
    BY <1>2 DEF Synced
  <2> QED BY <1>2, <2>1, SyncEntryCuts
<1>3. CASE ~(e.counter >= f.counter)
  <2>1. Synced(e, f) = D!SyncEntry(f, e) /\ f.counter >= e.counter
    BY <1>1, <1>3 DEF Synced
  <2>2. /\ D!SyncEntry(f, e) \in Entries
        /\ D!SyncEntry(f, e).counter = f.counter
        /\ Gone(D!SyncEntry(f, e)) = IF Gone(f) >= Gone(e) THEN Gone(f) ELSE Gone(e)
        /\ \A j \in 1 .. Len(D!SyncEntry(f, e).values) :
             j \in 1 .. Len(f.values) /\ D!SyncEntry(f, e).values[j] = f.values[j]
    BY <2>1, SyncEntryCuts
  <2> QED BY <1>1, <1>3, <2>1, <2>2
<1> QED BY <1>2, <1>3

-----------------------------------------------------------------------------
(***************************************************************************)
(* The same of whole sets.                                                 *)
(***************************************************************************)
LEMMA SetEntries ==
  ASSUME NEW or \in ORSets, NEW e \in Elements, NEW i \in Nodes
  PROVE  /\ or[e] \in [Nodes -> Entries] /\ or[e][i] \in Entries
         /\ or[e][i].counter \in Nat /\ or[e][i].values \in Seq(BOOLEAN)
         /\ Len(or[e][i].values) \in Nat /\ Gone(or[e][i]) \in Int
         /\ DOMAIN or[e][i].values = 1 .. Len(or[e][i].values)
<1>1. or[e] \in [Nodes -> Entries] /\ or[e][i] \in Entries
  BY DEF ORSets, D!DVVSets, Entries
<1> QED BY <1>1 DEF Entries, Gone

(***************************************************************************)
(* ORSet.Merge joins the sets entry by entry.                              *)
(***************************************************************************)
LEMMA MergeJoin ==
  ASSUME NEW a \in ORSets, NEW b \in ORSets,
         \A e \in Elements, i \in Nodes : Gone(a[e][i]) >= 0 /\ Gone(b[e][i]) >= 0
  PROVE  /\ ORMerge(a, b) \in ORSets
         /\ \A e \in Elements, i \in Nodes :
              /\ ORMerge(a, b)[e][i] = Synced(a[e][i], b[e][i])
              /\ ORMerge(a, b)[e][i].counter =
                   IF a[e][i].counter >= b[e][i].counter THEN a[e][i].counter ELSE b[e][i].counter
              /\ Gone(ORMerge(a, b)[e][i]) =
                   IF Gone(a[e][i]) >= Gone(b[e][i]) THEN Gone(a[e][i]) ELSE Gone(b[e][i])
<1>1. \A e \in Elements, i \in Nodes : ORMerge(a, b)[e][i] = Synced(a[e][i], b[e][i])
  BY DEF ORMerge, D!Sync, Synced
<1>2. \A e \in Elements, i \in Nodes : a[e][i] \in Entries /\ b[e][i] \in Entries
  BY SetEntries
<1>3. \A e \in Elements, i \in Nodes : Synced(a[e][i], b[e][i]) \in Entries
  BY <1>2, SyncedJoin
<1>4. ORMerge(a, b) \in ORSets
  <2>1. ORMerge(a, b) = [e \in Elements |-> [i \in Nodes |-> Synced(a[e][i], b[e][i])]]
    BY DEF ORMerge, D!Sync, Synced
  <2>2. [e \in Elements |-> [i \in Nodes |-> Synced(a[e][i], b[e][i])]] \in [Elements -> [Nodes -> Entries]]
    BY <1>3
  <2> QED BY <2>1, <2>2 DEF ORSets, D!DVVSets, Entries
<1>5. ASSUME NEW e \in Elements, NEW i \in Nodes
      PROVE  /\ ORMerge(a, b)[e][i].counter =
                  IF a[e][i].counter >= b[e][i].counter THEN a[e][i].counter ELSE b[e][i].counter
             /\ Gone(ORMerge(a, b)[e][i]) =
                  IF Gone(a[e][i]) >= Gone(b[e][i]) THEN Gone(a[e][i]) ELSE Gone(b[e][i])
  <2>1. PICK x \in Entries, y \in Entries : x = a[e][i] /\ y = b[e][i]
    BY <1>2
  <2>2. /\ Synced(x, y).counter = IF x.counter >= y.counter THEN x.counter ELSE y.counter
        /\ Gone(Synced(x, y)) = IF Gone(x) >= Gone(y) THEN Gone(x) ELSE Gone(y)
    BY <2>1, SyncedJoin
  <2> QED BY <1>1, <2>1, <2>2
<1> QED BY <1>1, <1>4, <1>5

(***************************************************************************)
(* Merging sets that are closed under a history gives one that is.         *)
(***************************************************************************)
LEMMA ClosedMerge ==
  ASSUME NEW a \in ORSets, NEW b \in ORSets, NEW H \in SUBSET Operations,
         Closed(a, H), Closed(b, H)
  PROVE  /\ ORMerge(a, b) \in ORSets
         /\ Closed(ORMerge(a, b), H)
         /\ \A e \in Elements, i \in Nodes : ORMerge(a, b)[e][i].counter =
              IF a[e][i].counter >= b[e][i].counter THEN a[e][i].counter ELSE b[e][i].counter
<1>1. \A e \in Elements, i \in Nodes : Gone(a[e][i]) >= 0 /\ Gone(b[e][i]) >= 0
  BY DEF Closed
<1>2. PICK g \in ORSets : g = ORMerge(a, b)
  BY <1>1, MergeJoin
<1>3. ASSUME NEW e \in Elements, NEW i \in Nodes
      PROVE  /\ g[e][i] = Synced(a[e][i], b[e][i])
             /\ g[e][i].counter = IF a[e][i].counter >= b[e][i].counter THEN a[e][i].counter ELSE b[e][i].counter
             /\ Gone(g[e][i]) = IF Gone(a[e][i]) >= Gone(b[e][i]) THEN Gone(a[e][i]) ELSE Gone(b[e][i])
             /\ a[e][i].counter \in Nat /\ b[e][i].counter \in Nat
             /\ Gone(a[e][i]) \in Int /\ Gone(b[e][i]) \in Int
  <2>1. /\ ORMerge(a, b)[e][i] = Synced(a[e][i], b[e][i])
        /\ ORMerge(a, b)[e][i].counter =
             IF a[e][i].counter >= b[e][i].counter THEN a[e][i].counter ELSE b[e][i].counter
        /\ Gone(ORMerge(a, b)[e][i]) =
             IF Gone(a[e][i]) >= Gone(b[e][i]) THEN Gone(a[e][i]) ELSE Gone(b[e][i])
    BY <1>1, MergeJoin
  <2>2. /\ a[e][i].counter \in Nat /\ b[e][i].counter \in Nat
        /\ Gone(a[e][i]) \in Int /\ Gone(b[e][i]) \in Int
    BY SetEntries
  <2> QED BY <1>2, <2>1, <2>2
<1>4. \A e \in Elements, i \in Nodes : Gone(g[e][i]) >= 0
  BY <1>1, <1>3
<1>5. NoStrayMarkers(g, H)
  <2> SUFFICES ASSUME NEW e \in Elements, NEW i \in Nodes, NEW j \in DOMAIN g[e][i].values
               PROVE  \E x \in H : MarkerOf(g, e, i, j, x)
    BY DEF NoStrayMarkers
  <2>1. j \in 1 .. Len(g[e][i].values) /\ DOMAIN a[e][i].values = 1 .. Len(a[e][i].values)
        /\ DOMAIN b[e][i].values = 1 .. Len(b[e][i].values)
        /\ a[e][i] \in Entries /\ b[e][i] \in Entries
    BY SetEntries
  <2>2. \/ /\ g[e][i].counter = a[e][i].counter
           /\ j \in DOMAIN a[e][i].values /\ g[e][i].values[j] = a[e][i].values[j]
        \/ /\ g[e][i].counter = b[e][i].counter
           /\ j \in DOMAIN b[e][i].values /\ g[e][i].values[j] = b[e][i].values[j]
    <3>1. PICK y \in Entries, z \in Entries : y = a[e][i] /\ z = b[e][i]
      BY <2>1
    <3>2. g[e][i] = Synced(y, z) /\ Gone(y) >= 0 /\ Gone(z) >= 0
      BY <1>1, <1>3, <3>1
    <3>3. \/ /\ Synced(y, z).counter = y.counter
             /\ j \in 1 .. Len(y.values) /\ Synced(y, z).values[j] = y.values[j]
          \/ /\ Synced(y, z).counter = z.counter
             /\ j \in 1 .. Len(z.values) /\ Synced(y, z).values[j] = z.values[j]
      BY <2>1, <3>2, SyncedJoin
    <3> QED BY <2>1, <3>1, <3>2, <3>3
  <2> QED BY <2>2 DEF Closed, NoStrayMarkers, MarkerOf
<1>6. ASSUME NEW x \in H
      PROVE  /\ Knows(g, x) <=> Knows(a, x) \/ Knows(b, x)
             /\ x.elem \in Elements /\ x.node \in Nodes /\ \A i \in Nodes : x.seen[i] \in Nat
  <2>1. x.elem \in Elements /\ x.node \in Nodes /\ x.dot \in Nat /\ x.seen \in [Nodes -> Nat]
    BY DEF Operations, D!VV
  <2> QED BY <1>3, <2>1 DEF Knows
<1>7. ASSUME NEW x \in H, Knows(g, x), NEW i \in Nodes
      PROVE  x.seen[i] <= Gone(g[x.elem][i])
  <2>1. x.seen[i] <= Gone(a[x.elem][i]) \/ x.seen[i] <= Gone(b[x.elem][i])
    BY <1>6, <1>7 DEF Closed
  <2> QED BY <1>3, <1>6, <2>1
<1>8. ASSUME NEW e \in Elements, NEW i \in Nodes, Gone(g[e][i]) # 0
      PROVE  \E x \in H : x.elem = e /\ Knows(g, x) /\ Gone(g[e][i]) <= x.seen[i]
  <2>1. CASE Gone(g[e][i]) = Gone(a[e][i])
    <3>1. PICK x \in H : x.elem = e /\ Knows(a, x) /\ Gone(a[e][i]) <= x.seen[i]
      BY <1>8, <2>1 DEF Closed
    <3> QED BY <1>6, <2>1, <3>1
  <2>2. CASE Gone(g[e][i]) = Gone(b[e][i])
    <3>1. PICK x \in H : x.elem = e /\ Knows(b, x) /\ Gone(b[e][i]) <= x.seen[i]
      BY <1>8, <2>2 DEF Closed
    <3> QED BY <1>6, <2>2, <3>1
  <2> QED BY <1>3, <2>1, <2>2
<1>9. Closed(g, H)
  BY <1>4, <1>5, <1>7, <1>8 DEF Closed
<1> QED BY <1>2, <1>3, <1>9

(***************************************************************************)
(* What IsLessOrEqual relies on: a closed set whose counters are covered   *)
(* has dropped nothing the other still holds, so merging it is idle.       *)
(***************************************************************************)
LEMMA CoveredIsIdle ==
  ASSUME NEW a \in ORSets, NEW b \in ORSets, NEW H \in SUBSET Operations,
         Closed(a, H), Closed(b, H), ORLessOrEqual(a, b)
  PROVE  /\ \A e \in Elements, i \in Nodes : Gone(a[e][i]) <= Gone(b[e][i])
         /\ ORMerge(b, a) = b
<1>1. ASSUME NEW e \in Elements, NEW i \in Nodes
      PROVE  /\ a[e][i] \in Entries /\ b[e][i] \in Entries
             /\ a[e][i].counter \in Nat /\ b[e][i].counter \in Nat
             /\ Gone(a[e][i]) \in Int /\ Gone(b[e][i]) \in Int
             /\ a[e][i].counter <= b[e][i].counter
             /\ Gone(a[e][i]) >= 0 /\ Gone(b[e][i]) >= 0
  BY SetEntries DEF ORLessOrEqual, D!DVVLessOrEqual, Closed
<1>2. ASSUME NEW e \in Elements, NEW i \in Nodes
      PROVE  Gone(a[e][i]) <= Gone(b[e][i])
  <2>1. CASE Gone(a[e][i]) = 0
    BY <1>1, <2>1
  <2>2. CASE Gone(a[e][i]) # 0
    <3>1. PICK x \in H : x.elem = e /\ Knows(a, x) /\ Gone(a[e][i]) <= x.seen[i]
      BY <2>2 DEF Closed
    <3>2. x.node \in Nodes /\ x.dot \in Nat /\ x.seen[i] \in Nat
      BY DEF Operations, D!VV
    <3>3. Knows(b, x)
      BY <1>1, <3>1, <3>2 DEF Knows
    <3>4. x.seen[i] <= Gone(b[e][i])
      BY <3>1, <3>3 DEF Closed
    <3> QED BY <1>1, <3>1, <3>2, <3>4
  <2> QED BY <2>1, <2>2
<1>3. ASSUME NEW e \in Elements, NEW i \in Nodes
      PROVE  ORMerge(b, a)[e][i] = b[e][i]
  <2>1. ORMerge(b, a)[e][i] = Synced(b[e][i], a[e][i])
    BY DEF ORMerge, D!Sync, Synced
  <2>2. b[e][i].counter >= a[e][i].counter /\ Gone(b[e][i]) >= Gone(a[e][i])
    BY <1>1, <1>2
  <2> QED BY <1>1, <2>1, <2>2, SyncedJoin
<1>4. ORMerge(b, a) = b
  <2>1. \A e \in Elements : b[e] = [i \in Nodes |-> b[e][i]]
    BY DEF ORSets, D!DVVSets
  <2>2. \A e \in Elements : ORMerge(b, a)[e] = b[e]
    BY <1>3, <2>1 DEF ORMerge, D!Sync
  <2> QED BY <2>2 DEF ORMerge, ORSets
<1> QED BY <1>2, <1>4

(***************************************************************************)
(* Closed sets with the same counters are equal.                           *)
(***************************************************************************)
LEMMA CountersDecide ==
  ASSUME NEW a \in ORSets, NEW b \in ORSets, NEW H \in SUBSET Operations, DotsUnique(H),
         Closed(a, H), Closed(b, H), ORLessOrEqual(a, b), ORLessOrEqual(b, a)
  PROVE  a = b
<1>1. ORMerge(b, a) = b /\ ORMerge(a, b) = a
  BY CoveredIsIdle
<1>2. ASSUME NEW e \in Elements, NEW i \in Nodes
      PROVE  a[e][i] = b[e][i]
  <2>1. /\ a[e][i] \in Entries /\ b[e][i] \in Entries
        /\ a[e][i].counter \in Nat /\ b[e][i].counter \in Nat
        /\ Len(a[e][i].values) \in Nat /\ Len(b[e][i].values) \in Nat
        /\ a[e][i].values \in Seq(BOOLEAN) /\ b[e][i].values \in Seq(BOOLEAN)
        /\ DOMAIN a[e][i].values = 1 .. Len(a[e][i].values)
        /\ DOMAIN b[e][i].values = 1 .. Len(b[e][i].values)
    BY SetEntries
  <2>2. a[e][i].counter = b[e][i].counter
    BY <2>1 DEF ORLessOrEqual, D!DVVLessOrEqual
  <2>3. Gone(a[e][i]) <= Gone(b[e][i]) /\ Gone(b[e][i]) <= Gone(a[e][i])
    BY CoveredIsIdle
  <2>4. Len(a[e][i].values) = Len(b[e][i].values)
    BY <2>1, <2>2, <2>3 DEF Gone
  <2>5. ASSUME NEW j \in 1 .. Len(a[e][i].values)
        PROVE  a[e][i].values[j] = b[e][i].values[j]
    <3>1. PICK x \in H : MarkerOf(a, e, i, j, x)
      BY <2>1 DEF Closed, NoStrayMarkers
    <3>2. PICK y \in H : MarkerOf(b, e, i, j, y)
      BY <2>1, <2>4 DEF Closed, NoStrayMarkers
    <3>3. x = y
      BY <2>2, <3>1, <3>2 DEF MarkerOf, DotsUnique
    <3> QED BY <3>1, <3>2, <3>3 DEF MarkerOf
  <2>6. a[e][i].values = b[e][i].values
    BY <2>1, <2>4, <2>5
  <2> QED BY <2>1, <2>2, <2>6 DEF Entries
<1> QED BY <1>2 DEF ORSets, D!DVVSets

(***************************************************************************)
(* The markers of a closed set are exactly those of the operations it      *)
(* knows that none it knows had observed.                                  *)
(***************************************************************************)
LEMMA ClosedExact ==
  ASSUME NEW a \in ORSets, NEW H \in SUBSET Operations, DotsUnique(H), Closed(a, H)
  PROVE  MarkersExact(a, H)
<1>1. ASSUME NEW x \in H
      PROVE  (\E j \in DOMAIN a[x.elem][x.node].values : MarkerOf(a, x.elem, x.node, j, x))
             <=> Knows(a, x) /\ ~\E y \in H : Knows(a, y) /\ Supersedes(y, x)
  <2>1. /\ x.elem \in Elements /\ x.node \in Nodes /\ x.dot \in Nat \ {0}
        /\ \A y \in H : y.seen[x.node] \in Nat
    BY DEF Operations, D!VV
  <2>2. PICK en \in Entries : en = a[x.elem][x.node]
    BY <2>1, SetEntries
  <2>3. /\ en.counter \in Nat /\ Len(en.values) \in Nat
        /\ DOMAIN en.values = 1 .. Len(en.values)
        /\ Gone(en) >= 0 /\ Gone(en) = en.counter - Len(en.values)
    BY <2>1, <2>2, SetEntries DEF Closed, Gone
  <2>4. ASSUME NEW j \in DOMAIN en.values, MarkerOf(a, x.elem, x.node, j, x)
        PROVE  Knows(a, x) /\ Gone(en) < x.dot
    BY <2>2, <2>3, <2>4 DEF MarkerOf, Knows
  <2>5. ASSUME Knows(a, x), Gone(en) < x.dot
        PROVE  \E j \in DOMAIN en.values : MarkerOf(a, x.elem, x.node, j, x)
    <3>1. PICK j \in DOMAIN en.values : x.dot = en.counter - j + 1
      <4>1. x.dot <= en.counter
        BY <2>2, <2>5 DEF Knows
      <4>2. en.counter - x.dot + 1 \in 1 .. Len(en.values)
            /\ x.dot = en.counter - (en.counter - x.dot + 1) + 1
        BY <2>1, <2>3, <2>5, <4>1
      <4> QED BY <2>3, <4>2
    <3>2. PICK y \in H : MarkerOf(a, x.elem, x.node, j, y)
      BY <2>1, <2>2 DEF Closed, NoStrayMarkers
    <3>3. y = x
      BY <2>2, <3>1, <3>2 DEF MarkerOf, DotsUnique
    <3> QED BY <3>2, <3>3
  <2>6. ASSUME NEW y \in H, Knows(a, y), Supersedes(y, x)
        PROVE  x.dot <= Gone(en)
    <3>1. x.dot <= y.seen[x.node] /\ y.elem = x.elem
      BY <2>6 DEF Supersedes
    <3>2. y.seen[x.node] <= Gone(en)
      BY <2>1, <2>2, <2>6, <3>1 DEF Closed
    <3> QED BY <2>1, <2>3, <3>1, <3>2
  <2>7. ASSUME ~(Gone(en) < x.dot)
        PROVE  \E y \in H : Knows(a, y) /\ Supersedes(y, x)
    <3>1. Gone(en) # 0 /\ x.dot <= Gone(en)
      BY <2>1, <2>3, <2>7
    <3>2. PICK y \in H : y.elem = x.elem /\ Knows(a, y) /\ Gone(en) <= y.seen[x.node]
      BY <2>1, <2>2, <3>1 DEF Closed
    <3>3. x.dot <= y.seen[x.node]
      BY <2>1, <2>3, <3>1, <3>2
    <3> QED BY <3>2, <3>3 DEF Supersedes
  <2>8. Gone(en) < x.dot \/ x.dot <= Gone(en)
    BY <2>1, <2>3
  <2>9. ~(Gone(en) < x.dot /\ x.dot <= Gone(en))
    BY <2>1, <2>3
  <2> QED BY <2>2, <2>4, <2>5, <2>6, <2>7, <2>8, <2>9
<1>2. Markers(a, H) = Expected(a, H)
  BY <1>1 DEF Markers, Expected
<1> QED BY <1>2 DEF MarkersExact, Closed

(***************************************************************************)
(* The empty set is closed.                                                *)
(***************************************************************************)
LEMMA ClosedNew ==
  ASSUME NEW H \in SUBSET Operations
  PROVE  /\ NewORSet \in ORSets
         /\ Closed(NewORSet, H)
         /\ \A e \in Elements, i \in Nodes : NewORSet[e][i].counter = 0
<1>1. ASSUME NEW e \in Elements, NEW i \in Nodes
      PROVE  NewORSet[e][i] = [counter |-> 0, values |-> <<>>]
  BY DEF NewORSet, D!NewDVVSet
<1>2. NewORSet \in ORSets
  <2>1. [counter |-> 0, values |-> <<>>] \in [counter : Nat, values : Seq(BOOLEAN)]
    OBVIOUS
  <2> QED BY <2>1 DEF NewORSet, D!NewDVVSet, ORSets, D!DVVSets
<1>3. \A e \in Elements, i \in Nodes :
        /\ NewORSet[e][i].counter = 0 /\ Gone(NewORSet[e][i]) = 0
        /\ DOMAIN NewORSet[e][i].values = {}
  BY <1>1 DEF Gone
<1>4. \A x \in H : ~Knows(NewORSet, x)
  <2>1. \A x \in H : x.elem \in Elements /\ x.node \in Nodes /\ x.dot \in Nat \ {0}
    BY DEF Operations
  <2> QED BY <1>3, <2>1 DEF Knows
<1> QED BY <1>2, <1>3, <1>4 DEF Closed, NoStrayMarkers

(***************************************************************************)
(* An operation a set does not know leaves it closed.                      *)
(***************************************************************************)
LEMMA ClosedGrows ==
  ASSUME NEW a, NEW H, NEW x, Closed(a, H), ~Knows(a, x)
  PROVE  Closed(a, H \cup {x})
<1>1. NoStrayMarkers(a, H \cup {x})
  BY DEF Closed, NoStrayMarkers
<1> QED BY <1>1 DEF Closed

(***************************************************************************)
(* Add and Remove with a context that is not ahead of the set: the delta   *)
(* is closed under the history with the new operation, and its counters    *)
(* are those of the set but for the new dot.                               *)
(***************************************************************************)
IsUpdate(or, H, n, e, vv, v, d, x) ==
  /\ or \in ORSets /\ H \in SUBSET Operations /\ Closed(or, H)
  /\ n \in Nodes /\ e \in Elements /\ vv \in D!VV /\ v \in BOOLEAN
  /\ \A i \in Nodes : vv[i] <= or[e][i].counter
  /\ \A y \in H : y.elem = e /\ y.node = n => y.dot <= or[e][n].counter
  /\ d = [NewORSet EXCEPT ![e] = D!Update(or[e], n, vv, v)]
  /\ x = OperationOf(n, e, d, v, vv)

Updated(or, H, n, e, d, x) ==
  /\ d \in ORSets /\ x \in Operations /\ x.elem = e /\ x.node = n
  /\ Closed(d, H \cup {x})
  /\ \E top \in Nat :
       /\ top = or[e][n].counter /\ x.dot = top + 1
       /\ \A i \in Nodes : d[e][i].counter = IF i = n THEN top + 1 ELSE or[e][i].counter
  /\ \A f \in Elements, i \in Nodes : f # e => d[f][i].counter = 0

\* An update adds one dot to a closed set and leaves it closed.
LEMMA UpdateClosed ==
  ASSUME NEW or, NEW H, NEW n, NEW e, NEW vv, NEW v, NEW d, NEW x,
         IsUpdate(or, H, n, e, vv, v, d, x)
  PROVE  Updated(or, H, n, e, d, x)
<1> SUFFICES
      ASSUME or \in ORSets, H \in SUBSET Operations, Closed(or, H),
             n \in Nodes, e \in Elements, vv \in D!VV, v \in BOOLEAN,
             \A i \in Nodes : vv[i] <= or[e][i].counter,
             \A y \in H : y.elem = e /\ y.node = n => y.dot <= or[e][n].counter,
             d = [NewORSet EXCEPT ![e] = D!Update(or[e], n, vv, v)],
             x = OperationOf(n, e, d, v, vv)
      PROVE  /\ d \in ORSets /\ x \in Operations /\ x.elem = e /\ x.node = n
             /\ Closed(d, H \cup {x})
             /\ \E top \in Nat :
                  /\ top = or[e][n].counter /\ x.dot = top + 1
                  /\ \A i \in Nodes : d[e][i].counter = IF i = n THEN top + 1 ELSE or[e][i].counter
             /\ \A f \in Elements, i \in Nodes : f # e => d[f][i].counter = 0
  BY DEF IsUpdate, Updated
<1>1. ASSUME NEW i \in Nodes
      PROVE  /\ or[e][i] \in Entries /\ or[e][i].counter \in Nat /\ or[e][i].values \in Seq(BOOLEAN)
             /\ Len(or[e][i].values) \in Nat /\ Gone(or[e][i]) \in Int /\ Gone(or[e][i]) >= 0
             /\ vv[i] \in Nat /\ or[e][i].counter - vv[i] \in Nat
  <2>1. vv[i] \in Nat /\ vv[i] <= or[e][i].counter
    BY DEF D!VV
  <2>2. /\ or[e][i] \in Entries /\ or[e][i].counter \in Nat /\ or[e][i].values \in Seq(BOOLEAN)
        /\ Len(or[e][i].values) \in Nat /\ Gone(or[e][i]) \in Int
    BY SetEntries
  <2>3. Gone(or[e][i]) >= 0
    BY DEF Closed
  <2> QED BY <2>1, <2>2, <2>3
<1> DEFINE kept(i) == D!First(or[e][i].counter - vv[i], or[e][i].values)
<1>2. ASSUME NEW i \in Nodes
      PROVE  /\ kept(i) \in Seq(BOOLEAN)
             /\ Len(kept(i)) \in Nat
             /\ or[e][i].counter - Len(kept(i)) = IF Gone(or[e][i]) >= vv[i] THEN Gone(or[e][i]) ELSE vv[i]
             /\ \A j \in 1 .. Len(kept(i)) :
                  j \in 1 .. Len(or[e][i].values) /\ kept(i)[j] = or[e][i].values[j]
  <2>1. PICK l \in Seq(BOOLEAN), m \in Nat : l = or[e][i].values /\ m = or[e][i].counter - vv[i]
    BY <1>1
  <2>2. /\ D!First(m, l) \in Seq(BOOLEAN)
        /\ Len(D!First(m, l)) = IF m < Len(l) THEN m ELSE Len(l)
        /\ \A j \in 1 .. Len(D!First(m, l)) : j \in 1 .. Len(l) /\ D!First(m, l)[j] = l[j]
    BY FirstValues
  <2>3. kept(i) = D!First(m, l)
    BY <2>1
  <2> HIDE DEF kept
  <2>4. PICK c \in Nat, w \in Nat : c = or[e][i].counter /\ w = vv[i] /\ m = c - w
    BY <1>1, <2>1
  <2>5. Gone(or[e][i]) = c - Len(l) /\ Len(l) \in Nat
    BY <1>1, <2>1, <2>4 DEF Gone
  <2>6. c - Len(D!First(m, l)) = IF c - Len(l) >= w THEN c - Len(l) ELSE w
    BY <2>2, <2>4, <2>5
  <2>7. Len(D!First(m, l)) \in Nat
    BY <2>2
  <2> QED BY <2>1, <2>2, <2>3, <2>4, <2>5, <2>6, <2>7
<1>3. ASSUME NEW i \in Nodes
      PROVE  d[e][i] = IF i = n THEN [counter |-> or[e][n].counter + 1, values |-> <<v>> \o kept(n)]
                       ELSE [or[e][i] EXCEPT !.values = kept(i)]
  <2>1. d[e] = D!Update(or[e], n, vv, v)
    BY ClosedNew DEF ORSets
  <2>2. PICK ds : ds = D!discard(or[e], vv)
    OBVIOUS
  <2>3. ds[i] = [or[e][i] EXCEPT !.values = kept(i)]
    BY <2>2 DEF D!discard
  <2> HIDE DEF kept
  <2>4. ds[i].counter = or[e][i].counter /\ ds[i].values = kept(i)
    BY <1>1, <2>3 DEF Entries
  <2>5. ~(ds[i].counter < vv[i])
    BY <1>1, <2>4
  <2>6. D!event(ds, n, vv, v)[i] =
          IF i = n THEN [counter |-> ds[n].counter + 1, values |-> <<v>> \o ds[n].values] ELSE ds[i]
    BY <2>5 DEF D!event
  <2>7. d[e][i] = D!event(ds, n, vv, v)[i]
    BY <2>1, <2>2 DEF D!Update
  <2> QED BY <2>3, <2>4, <2>6, <2>7
<1> HIDE DEF kept
<1>4. ASSUME NEW i \in Nodes
      PROVE  /\ d[e][i] \in Entries
             /\ d[e][i].counter = IF i = n THEN or[e][n].counter + 1 ELSE or[e][i].counter
             /\ d[e][i].values = IF i = n THEN <<v>> \o kept(n) ELSE kept(i)
             /\ Gone(d[e][i]) = IF Gone(or[e][i]) >= vv[i] THEN Gone(or[e][i]) ELSE vv[i]
  <2>1. CASE i = n
    <3>1. d[e][i] = [counter |-> or[e][n].counter + 1, values |-> <<v>> \o kept(n)]
      BY <1>3, <2>1
    <3>2. PICK l \in Seq(BOOLEAN) : l = <<v>> \o kept(n) /\ Len(l) = 1 + Len(kept(n))
      <4>1. PICK t \in Seq(BOOLEAN) : t = kept(n)
        BY <1>2
      <4>2. <<v>> \in Seq(BOOLEAN) /\ Len(<<v>>) = 1
        OBVIOUS
      <4>3. <<v>> \o t \in Seq(BOOLEAN) /\ Len(<<v>> \o t) = 1 + Len(t)
        BY <4>2, ConcatProperties
      <4> QED BY <4>1, <4>3
    <3>3. PICK c \in Nat : c = or[e][n].counter
      BY <1>1
    <3>4. d[e][i] = [counter |-> c + 1, values |-> l]
      BY <3>1, <3>2, <3>3
    <3>5. d[e][i] \in Entries /\ d[e][i].counter = c + 1 /\ d[e][i].values = l
      BY <3>4 DEF Entries
    <3>6. Gone(d[e][i]) = c - Len(kept(n))
      <4>1. PICK h \in Nat : h = Len(kept(n))
        BY <1>2
      <4>2. Gone(d[e][i]) = (c + 1) - (1 + h)
        BY <3>2, <3>5, <4>1 DEF Gone
      <4> QED BY <4>1, <4>2
    <3>7. c - Len(kept(n)) = IF Gone(or[e][i]) >= vv[i] THEN Gone(or[e][i]) ELSE vv[i]
      BY <1>2, <2>1, <3>3
    <3> QED BY <2>1, <3>2, <3>3, <3>5, <3>6, <3>7
  <2>2. CASE i # n
    <3>1. d[e][i] = [or[e][i] EXCEPT !.values = kept(i)]
      BY <1>3, <2>2
    <3>2. PICK l \in Seq(BOOLEAN), en \in Entries : l = kept(i) /\ en = or[e][i]
      BY <1>1, <1>2
    <3>3. d[e][i] \in Entries /\ d[e][i].counter = en.counter /\ d[e][i].values = l
      BY <3>1, <3>2 DEF Entries
    <3>4. Gone(d[e][i]) = en.counter - Len(l)
      BY <3>3 DEF Gone
    <3>5. en.counter - Len(l) = IF Gone(or[e][i]) >= vv[i] THEN Gone(or[e][i]) ELSE vv[i]
      BY <1>2, <3>2
    <3> QED BY <2>2, <3>2, <3>3, <3>4, <3>5
  <2> QED BY <2>1, <2>2
<1>5. \A f \in Elements : f # e => d[f] = NewORSet[f]
  BY ClosedNew DEF ORSets
<1>6. d \in ORSets
  <2>1. D!Update(or[e], n, vv, v) \in [Nodes -> Entries]
    <3>1. d[e] = D!Update(or[e], n, vv, v)
      BY ClosedNew DEF ORSets
    <3> QED BY <1>4, <3>1 DEF D!Update, D!event
  <2> QED BY <2>1, ClosedNew DEF ORSets, D!DVVSets, Entries
<1>7. /\ x = [elem |-> e, node |-> n, dot |-> or[e][n].counter + 1, add |-> v, seen |-> vv]
      /\ x \in Operations
  BY <1>1, <1>4 DEF OperationOf, Operations
<1>8. x.elem = e /\ x.node = n /\ x.dot = or[e][n].counter + 1 /\ x.add = v /\ x.seen = vv
  BY ONLY <1>7
<1>9. Closed(NewORSet, H \cup {x}) /\ \A f \in Elements, i \in Nodes : NewORSet[f][i].counter = 0
  BY <1>7, ClosedNew
<1>10. \A f \in Elements, i \in Nodes : Gone(d[f][i]) >= 0
  <2>1. \A i \in Nodes : Gone(d[e][i]) >= 0
    BY <1>1, <1>4
  <2> QED BY <1>5, <1>9, <2>1 DEF Closed
<1>11. NoStrayMarkers(d, H \cup {x})
  <2> SUFFICES ASSUME NEW f \in Elements, NEW i \in Nodes, NEW j \in DOMAIN d[f][i].values
               PROVE  \E y \in H \cup {x} : MarkerOf(d, f, i, j, y)
    BY DEF NoStrayMarkers
  <2>1. CASE f # e
    <3>1. d[f][i] = NewORSet[f][i]
      BY <1>5, <2>1
    <3>2. \E y \in H \cup {x} : MarkerOf(NewORSet, f, i, j, y)
      BY <1>9, <3>1 DEF Closed, NoStrayMarkers
    <3> QED BY <3>1, <3>2 DEF MarkerOf
  <2>2. CASE f = e /\ i # n
    <3>1. d[e][i].values = kept(i) /\ d[e][i].counter = or[e][i].counter
      BY <1>4, <2>2
    <3>2. j \in DOMAIN or[e][i].values /\ d[e][i].values[j] = or[e][i].values[j]
      <4>1. j \in 1 .. Len(kept(i))
        BY <1>2, <2>2, <3>1
      <4>2. DOMAIN or[e][i].values = 1 .. Len(or[e][i].values)
        BY <1>1
      <4> QED BY <1>2, <3>1, <4>1, <4>2
    <3>3. PICK y \in H : MarkerOf(or, e, i, j, y)
      BY <3>2 DEF Closed, NoStrayMarkers
    <3> QED BY <2>2, <3>1, <3>2, <3>3 DEF MarkerOf
  <2>3. CASE f = e /\ i = n /\ j = 1
    <3>1. d[e][n].counter = or[e][n].counter + 1 /\ d[e][n].values = <<v>> \o kept(n)
      BY <1>4
    <3>2. d[e][n].values[1] = v
      BY <1>2, <3>1
    <3>3. or[e][n].counter + 1 = d[e][n].counter - 1 + 1
      BY <1>1, <3>1
    <3> QED BY <1>8, <2>3, <3>2, <3>3 DEF MarkerOf
  <2>4. CASE f = e /\ i = n /\ j # 1
    <3>1. d[e][n].counter = or[e][n].counter + 1 /\ d[e][n].values = <<v>> \o kept(n)
      BY <1>4
    <3>2. PICK h \in 1 .. Len(kept(n)) : j = h + 1
      <4>1. j \in 1 .. (1 + Len(kept(n)))
        BY <1>2, <2>4, <3>1
      <4>2. j - 1 \in 1 .. Len(kept(n)) /\ j = (j - 1) + 1
        BY <1>2, <2>4, <4>1
      <4> QED BY <4>2
    <3>3. d[e][n].values[j] = kept(n)[h] /\ h \in DOMAIN or[e][n].values
          /\ kept(n)[h] = or[e][n].values[h]
      BY <1>1, <1>2, <3>1, <3>2
    <3>4. PICK y \in H : MarkerOf(or, e, n, h, y)
      BY <3>3 DEF Closed, NoStrayMarkers
    <3>5. d[e][n].counter - j + 1 = or[e][n].counter - h + 1
      <4>1. PICK c \in Nat : c = or[e][n].counter
        BY <1>1
      <4>2. (c + 1) - (h + 1) + 1 = c - h + 1
        BY <1>2
      <4> QED BY <3>1, <3>2, <4>1, <4>2
    <3> QED BY <2>4, <3>3, <3>4, <3>5 DEF MarkerOf
  <2> QED BY <2>1, <2>2, <2>3, <2>4
<1>12. ASSUME NEW y \in H \cup {x}, Knows(d, y)
       PROVE  y.elem = e /\ (y = x \/ (y \in H /\ Knows(or, y)))
  <2>1. y \in Operations /\ y.elem \in Elements /\ y.node \in Nodes /\ y.dot \in Nat \ {0}
    BY <1>7 DEF Operations
  <2>2. y.elem = e
    BY <1>5, <1>9, <1>12, <2>1 DEF Knows
  <2>3. CASE y \in H /\ y.node = n
    BY <2>2, <2>3 DEF Knows
  <2>4. CASE y \in H /\ y.node # n
    BY <1>4, <1>12, <2>1, <2>2, <2>4 DEF Knows
  <2> QED BY <2>2, <2>3, <2>4
<1>13. ASSUME NEW y \in H \cup {x}, Knows(d, y), NEW i \in Nodes
       PROVE  y.seen[i] <= Gone(d[y.elem][i])
  <2>1. CASE y = x
    BY <1>1, <1>4, <1>8, <2>1
  <2>2. CASE y \in H /\ Knows(or, y)
    <3>1. y.elem = e /\ y.seen[i] \in Nat
      BY <1>12, <1>13, <2>2 DEF Operations, D!VV
    <3>2. y.seen[i] <= Gone(or[e][i])
      BY <2>2, <3>1 DEF Closed
    <3> QED BY <1>1, <1>4, <3>1, <3>2
  <2> QED BY <1>12, <1>13, <2>1, <2>2
<1>14. ASSUME NEW f \in Elements, NEW i \in Nodes, Gone(d[f][i]) # 0
       PROVE  \E y \in H \cup {x} : y.elem = f /\ Knows(d, y) /\ Gone(d[f][i]) <= y.seen[i]
  <2>1. f = e
    <3>1. f # e => Gone(d[f][i]) = 0
      BY <1>5, ClosedNew, <1>9 DEF Gone, NewORSet, D!NewDVVSet
    <3> QED BY <1>14, <3>1
  <2>2. CASE Gone(d[e][i]) = vv[i]
    <3>1. Knows(d, x)
      BY <1>1, <1>4, <1>8 DEF Knows
    <3>2. Gone(d[e][i]) <= vv[i]
      BY <1>1, <2>2
    <3> QED BY <1>8, <2>1, <3>1, <3>2
  <2>3. CASE Gone(d[e][i]) = Gone(or[e][i])
    <3>1. PICK y \in H : y.elem = e /\ Knows(or, y) /\ Gone(or[e][i]) <= y.seen[i]
      BY <1>14, <2>1, <2>3 DEF Closed
    <3>2. y.node \in Nodes /\ y.dot \in Nat
      BY DEF Operations
    <3>3. Knows(d, y)
      <4>1. y.dot <= or[e][y.node].counter
        BY <3>1 DEF Knows
      <4>2. or[e][y.node].counter <= d[e][y.node].counter /\ d[e][y.node].counter \in Nat
            /\ or[e][y.node].counter \in Nat
        <5>1. CASE y.node = n
          <6>1. PICK c \in Nat : c = or[e][n].counter
            BY <1>1
          <6>2. d[e][n].counter = c + 1
            BY <1>4, <6>1
          <6> QED BY <5>1, <6>1, <6>2
        <5>2. CASE y.node # n
          <6>1. PICK c \in Nat : c = or[e][y.node].counter
            BY <1>1, <3>2
          <6>2. d[e][y.node].counter = c
            BY <1>4, <3>2, <5>2, <6>1
          <6>3. c <= c
            OBVIOUS
          <6> QED BY <6>1, <6>2, <6>3
        <5> QED BY <5>1, <5>2
      <4>3. y.dot <= d[e][y.node].counter
        BY <3>2, <4>1, <4>2
      <4> QED BY <3>1, <4>3 DEF Knows
    <3> QED BY <2>1, <2>3, <3>1, <3>3
  <2> QED BY <1>4, <2>2, <2>3
<1>15. Closed(d, H \cup {x})
  BY <1>10, <1>11, <1>13, <1>14 DEF Closed
<1>16. \E top \in Nat :
         /\ top = or[e][n].counter /\ x.dot = top + 1
         /\ \A i \in Nodes : d[e][i].counter = IF i = n THEN top + 1 ELSE or[e][i].counter
  BY <1>1, <1>4, <1>8
<1>17. \A f \in Elements, i \in Nodes : f # e => d[f][i].counter = 0
  BY <1>5, <1>9
<1> QED BY <1>6, <1>7, <1>8, <1>15, <1>16, <1>17

-----------------------------------------------------------------------------
(***************************************************************************)
(* The contexts a client reads are the counters of the set.                *)
(***************************************************************************)
LEMMA ContextTypes ==
  /\ NoContexts \in Contexts
  /\ \A e \in Elements, i \in Nodes : NoContexts[e][i] = 0
  /\ \A or \in ORSets :
       /\ CausalContexts(or) \in Contexts
       /\ \A e \in Elements, i \in Nodes : CausalContexts(or)[e][i] = or[e][i].counter
<1>1. NoContexts \in Contexts /\ \A e \in Elements, i \in Nodes : NoContexts[e][i] = 0
  BY DEF NoContexts, Contexts, D!EmptyVV, D!VV
<1>2. ASSUME NEW or \in ORSets
      PROVE  /\ CausalContexts(or) \in Contexts
             /\ \A e \in Elements, i \in Nodes : CausalContexts(or)[e][i] = or[e][i].counter
  <2>1. \A e \in Elements, i \in Nodes : or[e][i].counter \in Nat
    BY SetEntries
  <2> QED BY <2>1 DEF CausalContexts, Contexts, D!Join, D!VV
<1> QED BY <1>1, <1>2

(***************************************************************************)
(* IsLessOrEqual orders sets, with the empty one below all others.         *)
(***************************************************************************)
LEMMA BelowOrder ==
  ASSUME NEW a \in ORSets, NEW b \in ORSets
  PROVE  /\ ORLessOrEqual(a, a)
         /\ ORLessOrEqual(NewORSet, a)
         /\ ORLessOrEqual(a, b) <=>
              \A e \in Elements, i \in Nodes : a[e][i].counter <= b[e][i].counter
         /\ \A c \in ORSets : ORLessOrEqual(a, b) /\ ORLessOrEqual(b, c) => ORLessOrEqual(a, c)
<1>1. \A d \in ORSets, e \in Elements, i \in Nodes : d[e][i].counter \in Nat
  BY SetEntries
<1>2. \A c, d : ORLessOrEqual(c, d) <=>
                  \A e \in Elements, i \in Nodes : c[e][i].counter <= d[e][i].counter
  BY DEF ORLessOrEqual, D!DVVLessOrEqual
<1>3. \A e \in Elements, i \in Nodes : NewORSet[e][i].counter = 0
  BY ClosedNew
<1>4. ORLessOrEqual(a, a) /\ ORLessOrEqual(NewORSet, a)
  BY <1>1, <1>2, <1>3
<1>5. ASSUME NEW c \in ORSets, ORLessOrEqual(a, b), ORLessOrEqual(b, c)
      PROVE  ORLessOrEqual(a, c)
  <2>1. ASSUME NEW e \in Elements, NEW i \in Nodes
        PROVE  a[e][i].counter <= c[e][i].counter
    <3>1. /\ a[e][i].counter \in Nat /\ b[e][i].counter \in Nat /\ c[e][i].counter \in Nat
          /\ a[e][i].counter <= b[e][i].counter /\ b[e][i].counter <= c[e][i].counter
      BY <1>1, <1>2, <1>5
    <3> QED BY <3>1, Transitive
  <2> QED BY <1>2, <2>1
<1> QED BY <1>2, <1>4, <1>5

(***************************************************************************)
(* Merge gives the least set above both.                                   *)
(***************************************************************************)
LEMMA MergeLeast ==
  ASSUME NEW a \in ORSets, NEW b \in ORSets, NEW H \in SUBSET Operations,
         Closed(a, H), Closed(b, H)
  PROVE  /\ ORMerge(a, b) \in ORSets /\ Closed(ORMerge(a, b), H)
         /\ ORLessOrEqual(a, ORMerge(a, b)) /\ ORLessOrEqual(b, ORMerge(a, b))
         /\ \A c \in ORSets : ORLessOrEqual(a, c) /\ ORLessOrEqual(b, c) =>
              ORLessOrEqual(ORMerge(a, b), c)
<1>1. PICK g \in ORSets :
        /\ g = ORMerge(a, b) /\ Closed(g, H)
        /\ \A e \in Elements, i \in Nodes : g[e][i].counter =
             IF a[e][i].counter >= b[e][i].counter THEN a[e][i].counter ELSE b[e][i].counter
  BY ClosedMerge
<1>2. \A e \in Elements, i \in Nodes : a[e][i].counter \in Nat /\ b[e][i].counter \in Nat
  BY SetEntries
<1>3. \A e \in Elements, i \in Nodes :
        a[e][i].counter <= g[e][i].counter /\ b[e][i].counter <= g[e][i].counter
  BY <1>1, <1>2
<1>4. ORLessOrEqual(a, g) /\ ORLessOrEqual(b, g)
  BY <1>3, BelowOrder
<1>5. ASSUME NEW c \in ORSets, ORLessOrEqual(a, c), ORLessOrEqual(b, c)
      PROVE  ORLessOrEqual(g, c)
  <2>1. \A e \in Elements, i \in Nodes :
          a[e][i].counter <= c[e][i].counter /\ b[e][i].counter <= c[e][i].counter
    BY <1>5, BelowOrder
  <2>2. \A e \in Elements, i \in Nodes : g[e][i].counter <= c[e][i].counter
    BY <1>1, <2>1
  <2> QED BY <2>2, BelowOrder
<1> QED BY <1>1, <1>4, <1>5
=============================================================================
