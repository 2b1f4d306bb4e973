------------------------ MODULE ORSetReplicasProofs -------------------------
(***************************************************************************)
(* Machine-checked proofs about ORSetReplicas, for any replicas, elements  *)
(* and clients that stay at one replica each.                              *)
(***************************************************************************)
EXTENDS ORSetReplicas, ORSetProofs

(***************************************************************************)
(* Empty replicas and clients without contexts satisfy the invariant.      *)
(***************************************************************************)
LEMMA InitInv == Init => Inv
<1> SUFFICES ASSUME Init PROVE Inv
  OBVIOUS
<1>1. /\ NewORSet \in ORSets /\ Closed(NewORSet, {})
      /\ \A e \in Elements, i \in Nodes : NewORSet[e][i].counter = 0
  BY ClosedNew
<1>2. /\ \A n \in Nodes : set[n] = NewORSet
      /\ \A c \in Clients : ctx[c] = NoContexts
      /\ history = {}
  BY DEF Init
<1>3. TypeOK
  BY <1>1, <1>2, ContextTypes DEF Init, TypeOK
<1>4. DotsUnique(history) /\ \A n \in Nodes : Closed(set[n], history)
  BY <1>1, <1>2 DEF DotsUnique
<1>5. DotsOwned
  BY <1>1, <1>2 DEF DotsOwned
<1>6. ContextsKnown
  <2>1. \A c \in Clients : Reach[c] \subseteq Nodes
    BY ORSetReplicasAssumption
  <2> QED BY <1>1, <1>2, <2>1, ContextTypes DEF ContextsKnown
<1> QED BY <1>3, <1>4, <1>5, <1>6 DEF Inv

(***************************************************************************)
(* A client that stays reads contexts of the one replica it writes to.     *)
(***************************************************************************)
LEMMA ReadInv ==
  ASSUME Inv, StickyClients, NEW c \in Clients, NEW n \in Nodes, Read(c, n)
  PROVE  Inv'
<1>1. set' = set /\ history' = history /\ n \in Reach[c]
      /\ ctx' = [ctx EXCEPT ![c] = CausalContexts(set[n])]
  BY DEF Read
<1>2. set[n] \in ORSets
  BY DEF Inv, TypeOK
<1>3. TypeOK'
  BY <1>1, <1>2, ContextTypes DEF Inv, TypeOK
<1>4. ContextsKnown'
  <2> SUFFICES ASSUME NEW b \in Clients, NEW p \in Reach[b], NEW e \in Elements, NEW i \in Nodes
               PROVE  ctx'[b][e][i] <= set'[p][e][i].counter
    BY DEF ContextsKnown
  <2>1. CASE b = c
    <3>1. p = n
      BY <1>1, <2>1 DEF StickyClients
    <3>2. ctx'[b] = CausalContexts(set[n])
      BY <1>1, <2>1 DEF Inv, TypeOK
    <3>3. ctx'[b][e][i] = set[n][e][i].counter /\ set[n][e][i].counter \in Nat
      BY <1>2, <3>2, ContextTypes, SetEntries
    <3> QED BY <1>1, <3>1, <3>3
  <2>2. CASE b # c
    <3>1. ctx'[b] = ctx[b]
      BY <1>1, <2>2 DEF Inv, TypeOK
    <3> QED BY <1>1, <3>1 DEF Inv, ContextsKnown
  <2> QED BY <2>1, <2>2
<1> QED BY <1>1, <1>3, <1>4 DEF Inv, DotsOwned

(***************************************************************************)
(* AddSet and RemoveSet: nobody knows the new dot yet, and the operation's *)
(* context is behind the replica.                                          *)
(***************************************************************************)
LEMMA OperateInv ==
  ASSUME Inv, NEW c \in Clients, NEW n \in Nodes, NEW e \in Elements, NEW add \in BOOLEAN,
         Operate(c, n, e, add)
  PROVE  Inv'
<1>1. PICK vv \in {ctx[c][e], NoContexts[e]} :
        LET d == IF add THEN ORAdd(set[n], n, e, vv) ELSE ORRemove(set[n], n, e, vv)
        IN  /\ d # NewORSet
            /\ set' = [set EXCEPT ![n] = ORMerge(@, d)]
            /\ history' = history \cup {OperationOf(n, e, d, add, vv)}
  BY DEF Operate
<1>2. n \in Reach[c] /\ ctx' = ctx
  BY DEF Operate
<1>3. PICK d, x :
        /\ d = [NewORSet EXCEPT ![e] = D!Update(set[n][e], n, vv, add)]
        /\ x = OperationOf(n, e, d, add, vv)
        /\ set' = [set EXCEPT ![n] = ORMerge(set[n], d)]
        /\ history' = history \cup {x}
  <2>1. CASE add
    BY <1>1, <2>1 DEF ORAdd
  <2>2. CASE ~add
    BY <1>1, <2>2 DEF ORRemove
  <2> QED BY <2>1, <2>2
<1>4. PICK or \in ORSets : or = set[n]
  BY DEF Inv, TypeOK
<1>5. /\ history \in SUBSET Operations
      /\ \A p \in Nodes : set[p] \in ORSets /\ Closed(set[p], history)
      /\ \A p, i \in Nodes, f \in Elements : set[p][f][i].counter \in Nat
  BY SetEntries DEF Inv, TypeOK
<1>6. vv \in D!VV /\ \A i \in Nodes : vv[i] <= or[e][i].counter
  <2>1. CASE vv = ctx[c][e]
    BY <1>2, <1>4, <2>1 DEF Inv, TypeOK, Contexts, ContextsKnown
  <2>2. CASE vv = NoContexts[e]
    <3>1. vv \in D!VV /\ \A i \in Nodes : vv[i] = 0
      BY <2>2, ContextTypes DEF Contexts
    <3> QED BY <1>4, <1>5, <3>1
  <2> QED BY <1>1, <2>1, <2>2
<1>7. \A y \in history : y.elem = e /\ y.node = n => y.dot <= or[e][n].counter
  BY <1>4 DEF Inv, DotsOwned
<1>8. IsUpdate(or, history, n, e, vv, add, d, x)
  <2>1. d = [NewORSet EXCEPT ![e] = D!Update(or[e], n, vv, add)] /\ Closed(or, history)
    BY <1>3, <1>4, <1>5
  <2> QED BY <1>3, <1>5, <1>6, <1>7, <2>1 DEF IsUpdate
<1>9. PICK top \in Nat :
        /\ d \in ORSets /\ x \in Operations /\ x.elem = e /\ x.node = n
        /\ Closed(d, history \cup {x})
        /\ top = or[e][n].counter /\ x.dot = top + 1
        /\ \A i \in Nodes : d[e][i].counter = IF i = n THEN top + 1 ELSE or[e][i].counter
        /\ \A f \in Elements, i \in Nodes : f # e => d[f][i].counter = 0
  <2>1. Updated(or, history, n, e, d, x)
    BY <1>8, UpdateClosed
  <2> QED BY <2>1 DEF Updated
<1>10. \A p \in Nodes : ~Knows(set[p], x)
  <2> SUFFICES ASSUME NEW p \in Nodes PROVE ~(x.dot <= set[p][e][n].counter)
    BY <1>9 DEF Knows
  <2>1. set[p][e][n].counter <= top /\ set[p][e][n].counter \in Nat
    BY <1>4, <1>5, <1>9 DEF Inv, DotsOwned
  <2> QED BY <1>9, <2>1
<1>11. PICK H \in SUBSET Operations : H = history \cup {x}
  BY <1>5, <1>9
<1>12. \A p \in Nodes : Closed(set[p], H)
  BY <1>5, <1>10, <1>11, ClosedGrows
<1>13. PICK g \in ORSets : g = ORMerge(or, d) /\ Closed(g, H)
         /\ \A f \in Elements, i \in Nodes : g[f][i].counter =
              IF or[f][i].counter >= d[f][i].counter THEN or[f][i].counter ELSE d[f][i].counter
  <2>1. Closed(or, H) /\ Closed(d, H)
    BY <1>4, <1>9, <1>11, <1>12
  <2> QED BY <1>9, <2>1, ClosedMerge
<1>14. ASSUME NEW f \in Elements, NEW i \in Nodes
       PROVE  g[f][i].counter = IF f = e /\ i = n THEN top + 1 ELSE or[f][i].counter
  <2>1. PICK k \in Nat : k = or[f][i].counter
    BY <1>4, <1>5
  <2>2. d[f][i].counter = IF f = e THEN IF i = n THEN top + 1 ELSE k ELSE 0
    BY <1>9, <2>1
  <2>3. f = e /\ i = n => k = top
    BY <1>9, <2>1
  <2> QED BY <1>13, <2>1, <2>2, <2>3
<1>15. set'[n] = g /\ \A p \in Nodes : p # n => set'[p] = set[p]
  BY <1>3, <1>4, <1>13 DEF Inv, TypeOK
<1>16. TypeOK'
  <2>1. set' \in [Nodes -> ORSets]
    BY <1>3, <1>4, <1>13 DEF Inv, TypeOK
  <2> QED BY <1>2, <1>3, <1>11, <2>1 DEF Inv, TypeOK
<1>17. \A p \in Nodes : Closed(set'[p], history')
  BY <1>3, <1>11, <1>12, <1>13, <1>15
<1>18. DotsUnique(history')
  <2>1. ASSUME NEW y \in history, y.elem = e, y.node = n
        PROVE  y.dot # x.dot
    <3>1. y.dot \in Nat /\ y.dot <= top
      BY <1>5, <1>7, <1>9, <2>1 DEF Operations
    <3> QED BY <1>9, <3>1
  <2> SUFFICES ASSUME NEW y \in history', NEW z \in history',
                      y.elem = z.elem, y.node = z.node, y.dot = z.dot
               PROVE  y = z
    BY DEF DotsUnique
  <2>2. CASE y \in history /\ z \in history
    BY <2>2 DEF Inv, DotsUnique
  <2>3. CASE y = x /\ z \in history
    BY <1>9, <2>1, <2>3
  <2>4. CASE y \in history /\ z = x
    BY <1>9, <2>1, <2>4
  <2> QED BY <1>3, <2>2, <2>3, <2>4
<1>19. \A p, i \in Nodes, f \in Elements :
         /\ set[p][f][i].counter <= set'[p][f][i].counter
         /\ set'[p][f][i].counter \in Nat
         /\ set'[p][f][i].counter = IF p = n /\ f = e /\ i = n THEN top + 1 ELSE set[p][f][i].counter
  <2> TAKE p, i \in Nodes, f \in Elements
  <2>1. set'[p][f][i].counter = IF p = n /\ f = e /\ i = n THEN top + 1 ELSE set[p][f][i].counter
    BY <1>4, <1>14, <1>15
  <2>2. p = n /\ f = e /\ i = n => set[p][f][i].counter = top
    BY <1>4, <1>9
  <2> QED BY <1>5, <2>1, <2>2
<1>20. DotsOwned'
  <2>1. ASSUME NEW p \in Nodes, NEW i \in Nodes, NEW f \in Elements
        PROVE  set'[p][f][i].counter <= set'[i][f][i].counter
    <3>1. CASE p = n /\ f = e /\ i = n
      BY <1>19, <3>1
    <3>2. CASE ~(p = n /\ f = e /\ i = n)
      <4>1. set'[p][f][i].counter = set[p][f][i].counter
        BY <1>19, <3>2
      <4>2. set[p][f][i].counter <= set[i][f][i].counter /\ set[i][f][i].counter <= set'[i][f][i].counter
        BY <1>19 DEF Inv, DotsOwned
      <4> QED BY <1>5, <1>19, <4>1, <4>2
    <3> QED BY <3>1, <3>2
  <2>2. ASSUME NEW y \in history'
        PROVE  y.dot <= set'[y.node][y.elem][y.node].counter
    <3>1. CASE y = x
      BY <1>9, <1>19, <3>1
    <3>2. CASE y \in history
      <4>1. y.dot \in Nat /\ y.node \in Nodes /\ y.elem \in Elements
        BY <1>5, <3>2 DEF Operations
      <4>2. y.dot <= set[y.node][y.elem][y.node].counter
        BY <3>2 DEF Inv, DotsOwned
      <4> QED BY <1>5, <1>19, <4>1, <4>2
    <3> QED BY <1>3, <3>1, <3>2
  <2> QED BY <2>1, <2>2 DEF DotsOwned
<1>21. ContextsKnown'
  <2> SUFFICES ASSUME NEW b \in Clients, NEW p \in Reach[b], NEW f \in Elements, NEW i \in Nodes
               PROVE  ctx'[b][f][i] <= set'[p][f][i].counter
    BY DEF ContextsKnown
  <2>1. p \in Nodes /\ ctx[b][f][i] \in Nat
    BY ORSetReplicasAssumption DEF Inv, TypeOK, Contexts, D!VV
  <2>2. ctx[b][f][i] <= set[p][f][i].counter
    BY DEF Inv, ContextsKnown
  <2> QED BY <1>2, <1>5, <1>19, <2>1, <2>2
<1> QED BY <1>16, <1>17, <1>18, <1>20, <1>21 DEF Inv


(***************************************************************************)
(* An exchange takes the larger counter of each entry, whether the merge   *)
(* is skipped or not, and keeps the set closed.                            *)
(***************************************************************************)
LEMMA MergeSetJoin ==
  ASSUME NEW a \in ORSets, NEW b \in ORSets, NEW H \in SUBSET Operations,
         Closed(a, H), Closed(b, H)
  PROVE  /\ MergeSet(a, b) \in ORSets
         /\ Closed(MergeSet(a, b), H)
         /\ \A e \in Elements, i \in Nodes : MergeSet(a, b)[e][i].counter =
              IF a[e][i].counter >= b[e][i].counter THEN a[e][i].counter ELSE b[e][i].counter
<1>1. CASE ORLessOrEqual(b, a)
  <2>1. MergeSet(a, b) = a
    BY <1>1 DEF MergeSet
  <2>2. ASSUME NEW e \in Elements, NEW i \in Nodes
        PROVE  a[e][i].counter >= b[e][i].counter
    <3>1. b[e][i].counter <= a[e][i].counter
      BY <1>1 DEF ORLessOrEqual, D!DVVLessOrEqual
    <3>2. a[e][i].counter \in Nat /\ b[e][i].counter \in Nat
      BY SetEntries
    <3> QED BY <3>1, <3>2
  <2> QED BY <2>1, <2>2
<1>2. CASE ~ORLessOrEqual(b, a)
  <2>1. MergeSet(a, b) = ORMerge(a, b)
    BY <1>2 DEF MergeSet
  <2> QED BY <2>1, ClosedMerge
<1> QED BY <1>1, <1>2

(***************************************************************************)
(* No replica learns more dots of another than that one has given out.     *)
(***************************************************************************)
LEMMA ExchangeInv ==
  ASSUME Inv, NEW n \in Nodes, NEW p \in Nodes, Exchange(n, p)
  PROVE  Inv'
<1>1. /\ set' = [set EXCEPT ![p] = MergeSet(set[p], set[n])]
      /\ ctx' = ctx /\ history' = history
  BY DEF Exchange
<1>2. /\ history \in SUBSET Operations
      /\ \A q \in Nodes : set[q] \in ORSets /\ Closed(set[q], history)
      /\ \A q, i \in Nodes, e \in Elements : set[q][e][i].counter \in Nat
  BY SetEntries DEF Inv, TypeOK
<1>3. PICK a \in ORSets, b \in ORSets, H \in SUBSET Operations :
        a = set[p] /\ b = set[n] /\ H = history
  BY <1>2
<1>4. Closed(a, H) /\ Closed(b, H)
  BY <1>2, <1>3
<1>5. PICK g \in ORSets :
        /\ g = MergeSet(a, b)
        /\ Closed(g, H)
        /\ \A e \in Elements, i \in Nodes : g[e][i].counter =
             IF a[e][i].counter >= b[e][i].counter THEN a[e][i].counter ELSE b[e][i].counter
  BY <1>4, MergeSetJoin
<1>6. set'[p] = g /\ \A q \in Nodes : q # p => set'[q] = set[q]
  BY <1>1, <1>3, <1>5 DEF Inv, TypeOK
<1>7. TypeOK'
  <2>1. set' \in [Nodes -> ORSets]
    BY <1>1, <1>3, <1>5 DEF Inv, TypeOK
  <2> QED BY <1>1, <2>1 DEF Inv, TypeOK
<1>8. \A q \in Nodes : Closed(set'[q], history')
  BY <1>1, <1>2, <1>3, <1>5, <1>6
<1>9. ASSUME NEW q \in Nodes, NEW i \in Nodes, NEW e \in Elements
      PROVE  /\ set'[q][e][i].counter \in Nat
             /\ set[q][e][i].counter <= set'[q][e][i].counter
             /\ \E r \in Nodes : set'[q][e][i].counter = set[r][e][i].counter
  <2>1. CASE q = p
    <3>1. PICK j \in Nat, k \in Nat : j = a[e][i].counter /\ k = b[e][i].counter
      BY <1>2, <1>3
    <3>2. g[e][i].counter = IF j >= k THEN j ELSE k
      BY <1>5, <3>1
    <3>3. set'[q][e][i].counter = g[e][i].counter /\ set[q][e][i].counter = j
          /\ set[n][e][i].counter = k
      BY <1>3, <1>6, <2>1, <3>1
    <3> QED BY <3>2, <3>3
  <2>2. CASE q # p
    <3>1. set'[q] = set[q] /\ set[q][e][i].counter \in Nat
      BY <1>2, <1>6, <2>2
    <3> QED BY <3>1
  <2> QED BY <2>1, <2>2
<1>10. DotsOwned'
  <2>1. ASSUME NEW q \in Nodes, NEW i \in Nodes, NEW e \in Elements
        PROVE  set'[q][e][i].counter <= set'[i][e][i].counter
    <3>1. PICK r \in Nodes : set'[q][e][i].counter = set[r][e][i].counter
      BY <1>9
    <3>2. set[r][e][i].counter <= set[i][e][i].counter
          /\ set[i][e][i].counter <= set'[i][e][i].counter
      BY <1>9 DEF Inv, DotsOwned
    <3>3. /\ set[r][e][i].counter \in Nat /\ set[i][e][i].counter \in Nat
          /\ set'[i][e][i].counter \in Nat
      BY <1>2, <1>9
    <3>4. set[r][e][i].counter <= set'[i][e][i].counter
      BY <3>2, <3>3, Transitive
    <3> QED BY <3>1, <3>4
  <2>2. ASSUME NEW y \in history'
        PROVE  y.dot <= set'[y.node][y.elem][y.node].counter
    <3>1. y \in history /\ y.dot \in Nat /\ y.node \in Nodes /\ y.elem \in Elements
      BY <1>1, <1>2 DEF Operations
    <3>2. y.dot <= set[y.node][y.elem][y.node].counter
      BY <3>1 DEF Inv, DotsOwned
    <3>3. /\ set[y.node][y.elem][y.node].counter \in Nat
          /\ set'[y.node][y.elem][y.node].counter \in Nat
          /\ set[y.node][y.elem][y.node].counter <= set'[y.node][y.elem][y.node].counter
      BY <1>2, <1>9, <3>1
    <3> QED BY <3>1, <3>2, <3>3, Transitive
  <2> QED BY <2>1, <2>2 DEF DotsOwned
<1>11. ContextsKnown'
  <2> SUFFICES ASSUME NEW c \in Clients, NEW q \in Reach[c], NEW e \in Elements, NEW i \in Nodes
               PROVE  ctx'[c][e][i] <= set'[q][e][i].counter
    BY DEF ContextsKnown
  <2>1. q \in Nodes /\ ctx[c][e][i] \in Nat
    BY ORSetReplicasAssumption DEF Inv, TypeOK, Contexts, D!VV
  <2>2. ctx[c][e][i] <= set[q][e][i].counter
    BY DEF Inv, ContextsKnown
  <2>3. /\ set[q][e][i].counter \in Nat /\ set'[q][e][i].counter \in Nat
        /\ set[q][e][i].counter <= set'[q][e][i].counter
    BY <1>2, <1>9, <2>1
  <2>4. ctx[c][e][i] <= set'[q][e][i].counter
    BY <2>1, <2>2, <2>3, Transitive
  <2> QED BY <1>1, <2>4
<1> QED BY <1>1, <1>7, <1>8, <1>10, <1>11 DEF Inv

(***************************************************************************)
(* The invariant is inductive.                                             *)
(***************************************************************************)
LEMMA NextInv ==
  ASSUME StickyClients, Inv, [Next]_vars
  PROVE  Inv'
<1>1. ASSUME NEW c \in Clients, NEW n \in Nodes, Read(c, n)
      PROVE  Inv'
  BY <1>1, ReadInv
<1>2. ASSUME NEW c \in Clients, NEW n \in Nodes, NEW e \in Elements, NEW add \in BOOLEAN,
             Operate(c, n, e, add)
      PROVE  Inv'
  BY <1>2, OperateInv
<1>3. ASSUME NEW n \in Nodes, NEW p \in Nodes, Exchange(n, p)
      PROVE  Inv'
  BY <1>3, ExchangeInv
<1>4. CASE UNCHANGED vars
  BY <1>4 DEF vars, Inv, TypeOK, DotsOwned, ContextsKnown
<1> QED BY <1>1, <1>2, <1>3, <1>4 DEF Next

-----------------------------------------------------------------------------
(***************************************************************************)
(* The invariant holds of any number of operations and exchanges, as long  *)
(* as every client stays at one replica.                                   *)
(***************************************************************************)
THEOREM Invariance ==
  ASSUME StickyClients
  PROVE  Spec => []Inv
<1>1. Inv /\ [Next]_vars => Inv'
  BY NextInv
<1> QED BY <1>1, InitInv, PTL DEF Spec

(***************************************************************************)
(* Type correctness: counters never leave the naturals, and an entry's     *)
(* values are always a list, however a delta was cut.                      *)
(***************************************************************************)
THEOREM TypeCorrect ==
  ASSUME StickyClients
  PROVE  Spec => []TypeOK
<1>1. Inv => TypeOK
  BY DEF Inv
<1> QED BY <1>1, Invariance, PTL

(***************************************************************************)
(* A replica holds the add and remove markers of exactly the operations it *)
(* knows that none it knows had observed: Sync and Update lose no          *)
(* concurrent add and resurrect nothing that was removed.                  *)
(***************************************************************************)
THEOREM SiblingsAreExact ==
  ASSUME StickyClients
  PROVE  Spec => []SiblingsExact
<1>1. Inv => SiblingsExact
  <2> SUFFICES ASSUME Inv, NEW n \in Nodes PROVE MarkersExact(set[n], history)
    BY DEF SiblingsExact
  <2>1. /\ set[n] \in ORSets /\ history \in SUBSET Operations
        /\ Closed(set[n], history) /\ DotsUnique(history)
    BY DEF Inv, TypeOK
  <2> QED BY <2>1, ClosedExact
<1> QED BY <1>1, Invariance, PTL

(***************************************************************************)
(* Replicas with nothing left to tell each other hold the same set: that   *)
(* Store.Merge compares counters only loses nothing.                       *)
(***************************************************************************)
THEOREM ExchangesMakeEqual ==
  ASSUME StickyClients
  PROVE  Spec => []ExchangesConverge
<1>1. Inv => ExchangesConverge
  <2> SUFFICES ASSUME Inv, \A n, p \in Nodes : MergeSet(set[p], set[n]) = set[p],
                      NEW n \in Nodes, NEW p \in Nodes
               PROVE  set[n] = set[p]
    BY DEF ExchangesConverge
  <2>1. PICK H \in SUBSET Operations : H = history /\ DotsUnique(H)
    BY DEF Inv, TypeOK
  <2>2. ASSUME NEW q \in Nodes, NEW r \in Nodes
        PROVE  ORLessOrEqual(set[q], set[r])
    <3>1. PICK a \in ORSets, b \in ORSets : a = set[r] /\ b = set[q]
      BY DEF Inv, TypeOK
    <3>2. Closed(a, H) /\ Closed(b, H) /\ MergeSet(a, b) = a
      BY <2>1, <3>1 DEF Inv
    <3>3. \A e \in Elements, i \in Nodes : a[e][i].counter =
            IF a[e][i].counter >= b[e][i].counter THEN a[e][i].counter ELSE b[e][i].counter
      BY <3>2, MergeSetJoin
    <3>4. \A e \in Elements, i \in Nodes : b[e][i].counter <= a[e][i].counter
      BY <3>3, SetEntries
    <3> QED BY <3>1, <3>4 DEF ORLessOrEqual, D!DVVLessOrEqual
  <2>3. PICK a \in ORSets, b \in ORSets : a = set[n] /\ b = set[p]
    BY DEF Inv, TypeOK
  <2>4. /\ Closed(a, H) /\ Closed(b, H)
        /\ ORLessOrEqual(a, b) /\ ORLessOrEqual(b, a)
    BY <2>1, <2>2, <2>3 DEF Inv
  <2> QED BY <2>1, <2>3, <2>4, CountersDecide
<1> QED BY <1>1, Invariance, PTL
=============================================================================
