------------------------- MODULE CounterStoreProofs -------------------------
(***************************************************************************)
(* Machine-checked proofs about CounterStore, for any finite set of nodes  *)
(* and keys, any width of the machine integer and any bounds.              *)
(***************************************************************************)
EXTENDS CounterStore, TLAPS, FiniteSetTheorems, SequenceTheorems, WellFoundedInduction

(***************************************************************************)
(* A bounded, non-empty set of naturals has a maximum, and Max returns it. *)
(***************************************************************************)
LEMMA MaxIsMaximum ==
  ASSUME NEW S \in SUBSET Nat, NEW b \in Nat, \A x \in S : x <= b, S # {}
  PROVE  Max(S) \in S /\ \A y \in S : y <= Max(S)
<1> DEFINE T == {b - x : x \in S}
           R == {ss \in Nat \X Nat : ss[1] < ss[2]}
<1>1. T \subseteq Nat OBVIOUS
<1>2. T # {}
  <2>1. PICK y \in S : TRUE OBVIOUS
  <2>2. b - y \in T OBVIOUS
  <2> QED BY <2>2
<1>3. IsWellFoundedOn(R, Nat)
  BY NatLessThanWellFounded DEF OpToRel
<1>4. PICK t \in T : \A u \in T : ~(<<u, t>> \in R)
  <2> HIDE DEF T, R
  <2> QED BY <1>1, <1>2, <1>3, WFMin, Zenon
<1>5. \A u \in T : t <= u
  <2> TAKE u \in T
  <2>1. u \in Nat /\ t \in Nat
    BY <1>1, <1>4
  <2>2. CASE u < t
    <3>1. <<u, t>> \in R
      BY <2>1, <2>2
    <3> QED BY <3>1, <1>4
  <2> QED BY <2>1, <2>2
<1>6. PICK x \in S : t = b - x
  BY <1>4
<1>7. \A y \in S : x >= y
  <2> TAKE y \in S
  <2>1. b - y \in T OBVIOUS
  <2> QED BY <2>1, <1>5, <1>6
<1> QED BY <1>7 DEF Max

-----------------------------------------------------------------------------
(***************************************************************************)
(* What the operators on counters return.                                  *)
(***************************************************************************)
LEMMA ZeroTypes == GZero \in GCounter /\ PNZero \in PNCounter
BY MaxUintAssumption DEF GZero, PNZero, GCounter, PNCounter, Uint

(***************************************************************************)
(* The delta of an increment is a counter: the sum wraps within the        *)
(* integer.                                                                *)
(***************************************************************************)
LEMMA GIncrementType ==
  ASSUME NEW g \in GCounter, NEW n \in Nodes, NEW v \in Uint
  PROVE  GIncrement(g, n, v) \in GCounter
<1>1. (g[n] + v) % (MaxUint + 1) \in Uint
  BY MaxUintAssumption DEF GCounter, Uint
<1> QED
  BY <1>1, ZeroTypes DEF GIncrement, GCounter

(***************************************************************************)
(* So is the delta of an increment or decrement of a PNCounter.            *)
(***************************************************************************)
LEMMA PNAddType ==
  ASSUME NEW pn \in PNCounter, NEW n \in Nodes, NEW s \in Signs, NEW v \in Uint
  PROVE  PNAdd(pn, n, s, v) \in PNCounter
<1>1. pn[s] \in GCounter
  BY DEF PNCounter
<1> QED
  BY <1>1, ZeroTypes, GIncrementType DEF PNAdd, PNCounter

(***************************************************************************)
(* Merging two counters gives a counter.                                   *)
(***************************************************************************)
LEMMA PNMergeType ==
  ASSUME NEW p \in PNCounter, NEW q \in PNCounter
  PROVE  PNMerge(p, q) \in PNCounter
BY DEF PNMerge, GMerge, PNCounter, GCounter

(***************************************************************************)
(* Entries of a counter can be compared as numbers.                        *)
(***************************************************************************)
LEMMA EntriesAreNat ==
  ASSUME NEW p \in PNCounter, NEW s \in Signs, NEW i \in Nodes
  PROVE  p[s][i] \in Nat
BY MaxUintAssumption DEF PNCounter, GCounter, Uint

(***************************************************************************)
(* The same of the entries of a store ...                                  *)
(***************************************************************************)
LEMMA StoreEntries ==
  ASSUME NEW st \in [Nodes -> Stores], NEW n \in Nodes, NEW k \in Keys
  PROVE  /\ st[n][k] \in PNCounter
         /\ \A s \in Signs, i \in Nodes : st[n][k][s][i] \in Nat
<1>1. st[n][k] \in PNCounter
  BY DEF Stores
<1> QED BY <1>1, EntriesAreNat

(***************************************************************************)
(* ... and of a log of deltas.                                             *)
(***************************************************************************)
LEMMA LogEntries ==
  ASSUME NEW lg \in [Nodes -> Seq(Deltas)], NEW n \in Nodes
  PROVE  /\ Len(lg[n]) \in Nat
         /\ DOMAIN lg[n] = 1 .. Len(lg[n])
         /\ \A j \in DOMAIN lg[n] :
              /\ lg[n][j].key \in Keys
              /\ lg[n][j].val \in PNCounter
              /\ \A s \in Signs, i \in Nodes : lg[n][j].val[s][i] \in Nat
<1>1. Len(lg[n]) \in Nat /\ DOMAIN lg[n] = 1 .. Len(lg[n])
  OBVIOUS
<1>2. \A j \in DOMAIN lg[n] : lg[n][j] \in Deltas
  OBVIOUS
<1> QED BY <1>1, <1>2, EntriesAreNat DEF Deltas

(***************************************************************************)
(* PNMerge is the pointwise maximum.                                       *)
(***************************************************************************)
LEMMA PNMergeMax ==
  ASSUME NEW p \in PNCounter, NEW q \in PNCounter, NEW s \in Signs, NEW i \in Nodes
  PROVE  /\ p[s][i] \in Nat /\ q[s][i] \in Nat
         /\ p[s][i] <= PNMerge(p, q)[s][i]
         /\ q[s][i] <= PNMerge(p, q)[s][i]
         /\ PNMerge(p, q)[s][i] \in {p[s][i], q[s][i]}
BY MaxUintAssumption DEF PNMerge, GMerge, PNCounter, GCounter, Uint

(***************************************************************************)
(* Interval joins what the log of n holds for a key from a on.             *)
(***************************************************************************)
LEMMA IntervalJoin ==
  ASSUME TypeOK, NEW n \in Nodes, NEW a \in Nat \ {0},
         NEW k \in Keys, NEW s \in Signs, NEW i \in Nodes
  PROVE  /\ Interval(n, a)[k][s][i] \in Uint
         /\ \A j \in DOMAIN delta[n] :
              a <= j /\ delta[n][j].key = k => delta[n][j].val[s][i] <= Interval(n, a)[k][s][i]
         /\ \/ Interval(n, a)[k][s][i] = 0
            \/ \E j \in DOMAIN delta[n] :
                 a <= j /\ delta[n][j].key = k /\ delta[n][j].val[s][i] = Interval(n, a)[k][s][i]
<1> DEFINE S == {0} \cup IntervalValues(n, a, k, s, i)
<1>1. delta[n] \in Seq(Deltas) /\ DOMAIN delta[n] = 1 .. Len(delta[n]) /\ Len(delta[n]) \in Nat
  BY DEF TypeOK
<1>2. \A j \in DOMAIN delta[n] : delta[n][j] \in Deltas
  BY <1>1
<1>3. \A j \in DOMAIN delta[n] : delta[n][j].val[s][i] \in Uint
  BY <1>2 DEF Deltas, PNCounter, GCounter
<1>4. \A j \in a .. Len(delta[n]) : j \in DOMAIN delta[n]
  BY <1>1
<1>5. \A x \in S : x \in Uint
  BY <1>3, <1>4, MaxUintAssumption DEF IntervalValues, Uint
<1>6. S \in SUBSET Nat /\ S # {} /\ MaxUint \in Nat /\ \A x \in S : x <= MaxUint
  <2>1. 0 \in S
    OBVIOUS
  <2> HIDE DEF S
  <2> QED BY <2>1, <1>5, MaxUintAssumption DEF Uint
<1>7. Max(S) \in S /\ \A y \in S : y <= Max(S)
  <2> HIDE DEF S
  <2> QED BY <1>6, MaxIsMaximum
<1>8. Interval(n, a)[k][s][i] = Max(S)
  BY DEF Interval
<1>9. ASSUME NEW j \in DOMAIN delta[n], a <= j, delta[n][j].key = k
      PROVE  delta[n][j].val[s][i] <= Max(S)
  <2>1. j \in a .. Len(delta[n])
    BY <1>1, <1>9
  <2>2. delta[n][j].val[s][i] \in S
    BY <2>1, <1>9 DEF IntervalValues
  <2> QED BY <2>2, <1>7
<1>10. \/ Max(S) = 0
       \/ \E j \in DOMAIN delta[n] : a <= j /\ delta[n][j].key = k /\ delta[n][j].val[s][i] = Max(S)
  <2>1. CASE Max(S) \in IntervalValues(n, a, k, s, i)
    <3>1. PICK j \in {j \in a .. Len(delta[n]) : delta[n][j].key = k} :
                 Max(S) = delta[n][j].val[s][i]
      BY <2>1 DEF IntervalValues
    <3>2. j \in DOMAIN delta[n] /\ a <= j
      BY <1>1, <1>4
    <3> HIDE DEF S
    <3> QED BY <3>1, <3>2
  <2>2. CASE Max(S) = 0
    BY <2>2
  <2>3. Max(S) \in {0} \cup IntervalValues(n, a, k, s, i)
    BY <1>7
  <2> HIDE DEF S
  <2> QED BY <2>1, <2>2, <2>3
<1> HIDE DEF S
<1> QED BY <1>5, <1>7, <1>8, <1>9, <1>10

(***************************************************************************)
(* Building an interval in place leaves the shape of the log alone, and    *)
(* its values only grow, never past what the node knows.                   *)
(***************************************************************************)
LEMMA AbsorbedLog ==
  ASSUME TypeOK, NEW n \in Nodes, NEW a \in Nat \ {0}
  PROVE  /\ Absorbed(n, a) \in Seq(Deltas)
         /\ Len(Absorbed(n, a)) = Len(delta[n])
         /\ \A j \in DOMAIN delta[n] :
              /\ Absorbed(n, a)[j].key = delta[n][j].key
              /\ \A s \in Signs, i \in Nodes :
                   /\ delta[n][j].val[s][i] <= Absorbed(n, a)[j].val[s][i]
                   /\ DeltasKnown => Absorbed(n, a)[j].val[s][i] <= store[n][delta[n][j].key][s][i]
<1>1. Len(delta[n]) \in Nat /\ DOMAIN delta[n] = 1 .. Len(delta[n])
  BY DEF TypeOK
<1>2. \A j \in DOMAIN delta[n] : delta[n][j] \in Deltas
  BY <1>1 DEF TypeOK
<1>3. ASSUME NEW k \in Keys
      PROVE  Interval(n, a)[k] \in PNCounter
  BY IntervalJoin DEF Interval, PNCounter, GCounter
<1>4. ASSUME NEW j \in DOMAIN delta[n]
      PROVE  Absorbed(n, a)[j] \in Deltas
  BY <1>1, <1>2, <1>3, ZeroTypes DEF Absorbed, Deltas, PNCounter
<1>5. Absorbed(n, a) \in Seq(Deltas) /\ Len(Absorbed(n, a)) = Len(delta[n])
  <2>1. Absorbed(n, a) \in [1 .. Len(delta[n]) -> Deltas]
    BY <1>1, <1>4 DEF Absorbed
  <2> QED BY <2>1, <1>1
<1>6. ASSUME NEW j \in DOMAIN delta[n], NEW s \in Signs, NEW i \in Nodes
      PROVE  /\ Absorbed(n, a)[j].key = delta[n][j].key
             /\ delta[n][j].val[s][i] <= Absorbed(n, a)[j].val[s][i]
             /\ DeltasKnown => Absorbed(n, a)[j].val[s][i] <= store[n][delta[n][j].key][s][i]
  <2> DEFINE k == delta[n][j].key
             d == delta[n][j].val[s][i]
  <2>1. k \in Keys /\ d \in Nat /\ store[n][k][s][i] \in Nat
    <3>1. k \in Keys /\ delta[n][j].val \in PNCounter
      BY <1>2 DEF Deltas
    <3>2. store[n][k] \in PNCounter
      BY <3>1 DEF TypeOK, Stores
    <3> QED BY <3>1, <3>2, EntriesAreNat
  <2>2. DeltasKnown => \A h \in DOMAIN delta[n] : delta[n][h].key = k =>
          delta[n][h].val[s][i] <= store[n][k][s][i]
    BY DEF DeltasKnown, PNLessOrEqual, GLessOrEqual
  <2>3. CASE FirstOfKey(n, a, j) /\ delta[n][j].val[s] # GZero
    <3>1. Absorbed(n, a)[j].key = k /\ Absorbed(n, a)[j].val[s][i] = Interval(n, a)[k][s][i]
      BY <2>3, <1>1 DEF Absorbed
    <3>2. a <= j
      BY <2>3 DEF FirstOfKey
    <3>3. d <= Interval(n, a)[k][s][i]
      BY <3>2, <2>1, IntervalJoin
    <3>4. DeltasKnown => Interval(n, a)[k][s][i] <= store[n][k][s][i]
      BY <2>1, <2>2, IntervalJoin
    <3> QED BY <3>1, <3>3, <3>4
  <2>4. CASE FirstOfKey(n, a, j) /\ delta[n][j].val[s] = GZero
    <3>1. Absorbed(n, a)[j].key = k /\ Absorbed(n, a)[j].val[s][i] = 0 /\ d = 0
      BY <2>4, <1>1 DEF Absorbed, GZero
    <3> QED BY <3>1, <2>1
  <2>5. CASE ~FirstOfKey(n, a, j)
    <3>1. Absorbed(n, a)[j] = delta[n][j]
      BY <2>5, <1>1 DEF Absorbed
    <3> QED BY <3>1, <2>1, <2>2
  <2> QED BY <2>3, <2>4, <2>5
<1>7. \A j \in DOMAIN delta[n] : Absorbed(n, a)[j].key = delta[n][j].key
  BY <1>1 DEF Absorbed
<1> QED BY <1>5, <1>6, <1>7

(***************************************************************************)
(* Merging a message appends one delta per key that was news.              *)
(***************************************************************************)
LEMMA LoggedNews ==
  ASSUME TypeOK, NEW m \in gossip,
         NEW order \in Surjection(1 .. Cardinality(News(m)), News(m))
  PROVE  /\ Logged(m.counters, order) \in Seq(Deltas)
         /\ \A j \in DOMAIN Logged(m.counters, order) :
              /\ Logged(m.counters, order)[j].key \in News(m)
              /\ Logged(m.counters, order)[j].val = m.counters[Logged(m.counters, order)[j].key]
         /\ \A k \in News(m) : \E j \in DOMAIN Logged(m.counters, order) :
              /\ Logged(m.counters, order)[j].key = k
              /\ Logged(m.counters, order)[j].val = m.counters[k]
<1> DEFINE c == Cardinality(News(m))
<1>1. News(m) \subseteq Keys
  BY DEF News
<1>2. c \in Nat
  BY <1>1, CounterStoreAssumption, FS_Subset, FS_CardinalityType
<1>3. order \in [1 .. c -> News(m)] /\ \A k \in News(m) : \E j \in 1 .. c : order[j] = k
  BY DEF Surjection
<1>4. m.counters \in [Keys -> PNCounter]
  BY DEF TypeOK, Messages, Stores
<1> HIDE DEF c
<1>5. Logged(m.counters, order) \in [1 .. c -> Deltas]
  BY <1>1, <1>3, <1>4 DEF Logged, Deltas
<1> QED BY <1>2, <1>3, <1>5 DEF Logged

-----------------------------------------------------------------------------
(***************************************************************************)
(* Type correctness.                                                       *)
(***************************************************************************)
LEMMA InitType == Init => TypeOK
BY ZeroTypes, GossipAssumption
   DEF Init, GossipInit, TypeOK, EmptyStore, Stores, Messages, Acks

(***************************************************************************)
(* IncrementCounter and DecrementCounter keep the types.                   *)
(***************************************************************************)
LEMMA WriteType ==
  ASSUME TypeOK, NEW n \in Nodes, NEW k \in Keys, NEW s \in Signs, NEW v \in Amounts,
         Write(n, k, s, v)
  PROVE  TypeOK'
<1> DEFINE d == PNAdd(store[n][k], n, s, v)
<1>1. v \in Uint
  BY CounterStoreAssumption
<1>2. store[n][k] \in PNCounter
  BY DEF TypeOK, Stores
<1>3. d \in PNCounter /\ PNMerge(store[n][k], d) \in PNCounter
  BY <1>1, <1>2, PNAddType, PNMergeType
<1> HIDE DEF d
<1>4. store' = [store EXCEPT ![n][k] = PNMerge(store[n][k], d)]
  BY DEF Write, d
<1>5. store' \in [Nodes -> Stores]
  BY <1>3, <1>4 DEF TypeOK, Stores
<1>6. [key |-> k, val |-> d] \in Deltas
  BY <1>3 DEF Deltas
<1>7. delta' = [delta EXCEPT ![n] = Append(delta[n], [key |-> k, val |-> d])]
  BY DEF Write, d
<1>8. delta' \in [Nodes -> Seq(Deltas)]
  BY <1>6, <1>7 DEF TypeOK
<1>9. issued' \in [Nodes -> [Keys -> [Signs -> Nat]]]
  <2>1. issued[n][k][s] + v \in Nat
    BY <1>1, MaxUintAssumption DEF TypeOK, Uint
  <2> QED BY <2>1 DEF TypeOK, Write
<1> QED BY <1>5, <1>8, <1>9 DEF Write, TypeOK, gossipVars

(***************************************************************************)
(* A tick of the gossip loop keeps the types, the log it writes into       *)
(* included.                                                               *)
(***************************************************************************)
LEMMA StartGossipType ==
  ASSUME TypeOK, NEW n \in Nodes, NEW p \in Nodes, StartGossip(n, p)
  PROVE  TypeOK'
<1>1. ack[n][p] \in Nat /\ store[n] \in Stores /\ counterSeq(n) \in Nat
  BY DEF TypeOK, counterSeq
<1>2. Delta(n, p) \in Stores
  <2>1. CASE ack[n][p] = 0
    BY <2>1, <1>1 DEF Delta
  <2>2. CASE ack[n][p] # 0
    <3>1. Interval(n, ack[n][p]) \in Stores
      BY <2>2, <1>1, IntervalJoin DEF Interval, Stores, PNCounter, GCounter
    <3> QED BY <3>1, <2>2 DEF Delta
  <2> QED BY <2>1, <2>2
<1>3. gossip' \subseteq Messages
  BY <1>1, <1>2 DEF StartGossip, SendGossip, TypeOK, Messages
<1>4. delta' \in [Nodes -> Seq(Deltas)]
  <2>1. CASE ack[n][p] = 0
    BY <2>1 DEF StartGossip, TypeOK
  <2>2. CASE ack[n][p] # 0
    <3>1. Absorbed(n, ack[n][p]) \in Seq(Deltas)
      BY <2>2, <1>1, AbsorbedLog
    <3> QED BY <3>1, <2>2 DEF StartGossip, TypeOK
  <2> QED BY <2>1, <2>2
<1> QED BY <1>3, <1>4 DEF StartGossip, SendGossip, TypeOK

(***************************************************************************)
(* Merging a gossip message keeps the types.                               *)
(***************************************************************************)
LEMMA PostGossipType ==
  ASSUME TypeOK, NEW m \in gossip, PostGossip(m)
  PROVE  TypeOK'
<1>1. m \in Messages
  BY DEF TypeOK
<1>2. m.dst \in Nodes /\ m.src \in Nodes /\ m.seq \in Nat /\ m.counters \in Stores
  BY <1>1 DEF Messages
<1>3. Merge(m.dst, m.counters, News(m)) \in Stores
  <2>1. ASSUME NEW k \in Keys
        PROVE  /\ store[m.dst][k] \in PNCounter
               /\ PNMerge(store[m.dst][k], m.counters[k]) \in PNCounter
    BY <1>2, PNMergeType DEF TypeOK, Stores
  <2> QED BY <2>1 DEF Merge, Stores
<1>4. store' \in [Nodes -> Stores]
  BY <1>2, <1>3 DEF PostGossip, TypeOK
<1>5. PICK order \in Surjection(1 .. Cardinality(News(m)), News(m)) :
        delta' = [delta EXCEPT ![m.dst] = delta[m.dst] \o Logged(m.counters, order)]
  BY DEF PostGossip
<1>6. Logged(m.counters, order) \in Seq(Deltas)
  BY LoggedNews
<1>7. delta' \in [Nodes -> Seq(Deltas)]
  BY <1>2, <1>5, <1>6 DEF TypeOK
<1>8. acks' \subseteq Acks
  BY <1>2 DEF PostGossip, ReceiveGossip, AckOf, Acks, TypeOK
<1> QED BY <1>4, <1>7, <1>8 DEF PostGossip, ReceiveGossip, TypeOK

(***************************************************************************)
(* Acknowledgements, losses and membership changes keep the types.         *)
(***************************************************************************)
LEMMA TransportType ==
  ASSUME TypeOK, Transport, UNCHANGED <<store, delta, issued>>
  PROVE  TypeOK'
<1>1. ASSUME NEW a \in acks, PostAck(a) PROVE TypeOK'
  <2>1. a.src \in Nodes /\ a.dst \in Nodes /\ a.seq \in Nat
    BY DEF TypeOK, Acks
  <2>2. ack' \in [Nodes -> [Nodes -> Nat]]
    BY <1>1, <2>1 DEF PostAck, Ack, TypeOK
  <2> QED BY <1>1, <2>2 DEF PostAck, TypeOK
<1>2. ASSUME NEW a \in acks, DropAck(a) PROVE TypeOK'
  BY <1>2 DEF DropAck, TypeOK
<1>3. ASSUME NEW m \in gossip, DropGossip(m) PROVE TypeOK'
  BY <1>3 DEF DropGossip, TypeOK
<1>4. CASE Membership
  <2>1. PICK n \in Nodes, p \in Departing : NotifyAlive(n, p) \/ NotifyDead(n, p)
    BY <1>4 DEF Membership
  <2>2. p \in Nodes /\ peers[n] \subseteq Nodes
    BY GossipAssumption DEF TypeOK
  <2>3. peers' \in [Nodes -> SUBSET Nodes]
    <3>1. CASE peers' = [peers EXCEPT ![n] = peers[n] \cup {p}]
      BY <3>1, <2>2 DEF TypeOK
    <3>2. CASE peers' = [peers EXCEPT ![n] = {q \in peers[n] : Host[q] # Host[p]}]
      <4>1. {q \in peers[n] : Host[q] # Host[p]} \in SUBSET Nodes
        BY <2>2
      <4> QED BY <3>2, <4>1 DEF TypeOK
    <3> QED BY <2>1, <3>1, <3>2 DEF NotifyAlive, NotifyDead
  <2> QED BY <2>1, <2>3 DEF NotifyAlive, NotifyDead, TypeOK
<1> QED BY <1>1, <1>2, <1>3, <1>4 DEF Transport

(***************************************************************************)
(* Every step keeps the types.                                             *)
(***************************************************************************)
LEMMA NextType ==
  ASSUME TypeOK, [Next]_vars
  PROVE  TypeOK'
<1>1. CASE ClientWrite
  <2>1. PICK n \in Nodes, k \in Keys, v \in Amounts :
          IncrementCounter(n, k, v) \/ DecrementCounter(n, k, v)
    BY <1>1 DEF ClientWrite
  <2>2. \E s \in Signs : Write(n, k, s, v)
    BY <2>1 DEF IncrementCounter, DecrementCounter, Signs
  <2> QED BY <2>2, WriteType
<1>2. ASSUME NEW n \in Nodes, NEW p \in Nodes, StartGossip(n, p) PROVE TypeOK'
  BY <1>2, StartGossipType
<1>3. ASSUME NEW m \in gossip, PostGossip(m) PROVE TypeOK'
  BY <1>3, PostGossipType
<1>4. CASE Transport /\ UNCHANGED <<store, delta, issued>>
  BY <1>4, TransportType
<1>5. CASE UNCHANGED vars
  BY <1>5 DEF vars, TypeOK
<1> QED BY <1>1, <1>2, <1>3, <1>4, <1>5 DEF Next

(***************************************************************************)
(* TypeCorrect: the variables of the store keep their types; in particular *)
(* counters stay within the machine integer.                               *)
(***************************************************************************)
THEOREM TypeCorrect == Spec => []TypeOK
BY InitType, NextType, PTL DEF Spec

-----------------------------------------------------------------------------
(***************************************************************************)
(* What every step does to the replicas: logs and counters only grow, and  *)
(* an entry grows only together with a new delta that carries it.          *)
(***************************************************************************)
Grows ==
  /\ \A n \in Nodes :
       /\ Len(delta[n]) <= Len(delta'[n])
       /\ \A j \in DOMAIN delta[n] :
            /\ delta'[n][j].key = delta[n][j].key
            /\ \A s \in Signs, i \in Nodes : delta[n][j].val[s][i] <= delta'[n][j].val[s][i]
  /\ \A n \in Nodes, k \in Keys, s \in Signs, i \in Nodes :
       /\ store[n][k][s][i] <= store'[n][k][s][i]
       /\ \/ store'[n][k][s][i] = store[n][k][s][i]
          \/ \E j \in DOMAIN delta'[n] : /\ Len(delta[n]) < j
                                        /\ delta'[n][j].key = k
                                        /\ store'[n][k][s][i] <= delta'[n][j].val[s][i]

(***************************************************************************)
(* So what is covered above a sequence number stays covered above it.      *)
(***************************************************************************)
LEMMA CoveredStable ==
  ASSUME TypeOK, TypeOK', Grows,
         NEW n \in Nodes, NEW p \in Nodes, NEW a \in Nat, a <= counterSeq(n),
         NEW k \in Keys, NEW s \in Signs, NEW i \in Nodes,
         Covered(n, p, a, k, s, i)
  PROVE  \/ store'[n][k][s][i] <= store'[p][k][s][i]
         \/ \E j \in DOMAIN delta'[n] : /\ a <= j
                                       /\ delta'[n][j].key = k
                                       /\ store'[n][k][s][i] <= delta'[n][j].val[s][i]
<1>0. /\ store \in [Nodes -> Stores] /\ store' \in [Nodes -> Stores]
      /\ delta \in [Nodes -> Seq(Deltas)] /\ delta' \in [Nodes -> Seq(Deltas)]
  BY DEF TypeOK
<1>1. \A q \in Nodes : store[q][k][s][i] \in Nat /\ store'[q][k][s][i] \in Nat
  BY <1>0, StoreEntries
<1>2. Len(delta[n]) \in Nat /\ Len(delta'[n]) \in Nat
      /\ DOMAIN delta[n] = 1 .. Len(delta[n]) /\ DOMAIN delta'[n] = 1 .. Len(delta'[n])
  BY <1>0, LogEntries
<1>3. CASE store'[n][k][s][i] = store[n][k][s][i]
  <2>1. CASE store[n][k][s][i] <= store[p][k][s][i]
    BY <2>1, <1>1, <1>3 DEF Grows
  <2>2. CASE Remembered(n, a, k, s, i)
    <3>1. PICK j \in DOMAIN delta[n] :
             a <= j /\ delta[n][j].key = k /\ store[n][k][s][i] <= delta[n][j].val[s][i]
      BY <2>2 DEF Remembered
    <3>2. j \in DOMAIN delta'[n] /\ delta'[n][j].key = k
          /\ delta[n][j].val[s][i] <= delta'[n][j].val[s][i]
      BY <3>1, <1>2 DEF Grows
    <3>3. delta[n][j].val[s][i] \in Nat /\ delta'[n][j].val[s][i] \in Nat
      BY <3>2, <1>0, LogEntries
    <3> QED BY <3>1, <3>2, <3>3, <1>1, <1>3
  <2> QED BY <2>1, <2>2 DEF Covered
<1>4. CASE store'[n][k][s][i] # store[n][k][s][i]
  <2>1. PICK j \in DOMAIN delta'[n] : /\ Len(delta[n]) < j
                                      /\ delta'[n][j].key = k
                                      /\ store'[n][k][s][i] <= delta'[n][j].val[s][i]
    BY <1>4 DEF Grows
  <2>2. a <= j
    BY <2>1, <1>2 DEF counterSeq
  <2> QED BY <2>1, <2>2
<1> QED BY <1>3, <1>4

(***************************************************************************)
(* A client write grows the replicas: the new delta is logged above every  *)
(* sequence number in use.                                                 *)
(***************************************************************************)
LEMMA WriteGrows ==
  ASSUME TypeOK, DeltasKnown,
         NEW n \in Nodes, NEW k \in Keys, NEW s \in Signs, NEW v \in Amounts,
         Write(n, k, s, v)
  PROVE  Grows /\ DeltasKnown'
<1> DEFINE d == PNAdd(store[n][k], n, s, v)
           L == Len(delta[n])
<1>1. store \in [Nodes -> Stores] /\ delta \in [Nodes -> Seq(Deltas)]
  BY DEF TypeOK
<1>2. \A q \in Nodes, c \in Keys : store[q][c] \in PNCounter
  BY <1>1, StoreEntries
<1>3. \A q \in Nodes, c \in Keys, t \in Signs, i \in Nodes : store[q][c][t][i] \in Nat
  BY <1>1, StoreEntries
<1>4. d \in PNCounter
  BY <1>2, CounterStoreAssumption, PNAddType
<1>5. L \in Nat /\ DOMAIN delta[n] = 1 .. L
  BY <1>1, LogEntries
<1>6. /\ store' = [store EXCEPT ![n][k] = PNMerge(store[n][k], d)]
      /\ delta' = [delta EXCEPT ![n] = Append(delta[n], [key |-> k, val |-> d])]
  BY DEF Write
<1> HIDE DEF d
<1>7. \A q \in Nodes \ {n} : store'[q] = store[q] /\ delta'[q] = delta[q]
  BY <1>1, <1>6
<1>8. /\ store'[n][k] = PNMerge(store[n][k], d)
      /\ \A c \in Keys \ {k} : store'[n][c] = store[n][c]
  BY <1>1, <1>6 DEF Stores
<1>9. /\ Len(delta'[n]) = L + 1
      /\ DOMAIN delta'[n] = 1 .. (L + 1)
      /\ \A j \in 1 .. L : delta'[n][j] = delta[n][j]
      /\ delta'[n][L + 1] = [key |-> k, val |-> d]
  BY <1>1, <1>5, <1>6
<1> HIDE DEF L
<1>10. \A t \in Signs, i \in Nodes :
         /\ store[n][k][t][i] <= store'[n][k][t][i]
         /\ d[t][i] <= store'[n][k][t][i]
         /\ store'[n][k][t][i] \in {store[n][k][t][i], d[t][i]}
  BY <1>2, <1>4, <1>8, PNMergeMax
<1>11. Grows
  <2>1. ASSUME NEW q \in Nodes
        PROVE  /\ Len(delta[q]) <= Len(delta'[q])
               /\ \A j \in DOMAIN delta[q] :
                    /\ delta'[q][j].key = delta[q][j].key
                    /\ \A t \in Signs, i \in Nodes : delta[q][j].val[t][i] <= delta'[q][j].val[t][i]
    <3>1. Len(delta[q]) \in Nat /\ \A j \in DOMAIN delta[q], t \in Signs, i \in Nodes :
            delta[q][j].val[t][i] \in Nat
      BY <1>1, LogEntries
    <3>2. CASE q = n
      BY <3>1, <3>2, <1>5, <1>9 DEF L
    <3>3. CASE q # n
      BY <3>1, <3>3, <1>7
    <3> QED BY <3>2, <3>3
  <2>2. ASSUME NEW q \in Nodes, NEW c \in Keys, NEW t \in Signs, NEW i \in Nodes
        PROVE  /\ store[q][c][t][i] <= store'[q][c][t][i]
               /\ \/ store'[q][c][t][i] = store[q][c][t][i]
                  \/ \E j \in DOMAIN delta'[q] : /\ Len(delta[q]) < j
                                                /\ delta'[q][j].key = c
                                                /\ store'[q][c][t][i] <= delta'[q][j].val[t][i]
    <3>1. CASE q # n \/ c # k
      BY <3>1, <1>3, <1>7, <1>8
    <3>2. CASE q = n /\ c = k
      <4>1. store'[n][k][t][i] \in Nat /\ d[t][i] \in Nat
        BY <1>3, <1>4, <1>10, EntriesAreNat
      <4>2. L + 1 \in DOMAIN delta'[n] /\ L < L + 1 /\ delta'[n][L + 1].key = k
            /\ delta'[n][L + 1].val = d
        BY <1>5, <1>9
      <4>3. CASE store'[n][k][t][i] = d[t][i]
        BY <3>2, <4>1, <4>2, <4>3, <1>10 DEF L
      <4> QED BY <3>2, <4>3, <1>10
    <3> QED BY <3>1, <3>2
  <2> QED BY <2>1, <2>2 DEF Grows
<1>12. DeltasKnown'
  <2> SUFFICES ASSUME NEW q \in Nodes, NEW j \in DOMAIN delta'[q],
                      NEW t \in Signs, NEW i \in Nodes
               PROVE  delta'[q][j].val[t][i] <= store'[q][delta'[q][j].key][t][i]
    BY DEF DeltasKnown, PNLessOrEqual, GLessOrEqual
  <2>1. CASE q = n /\ j = L + 1
    BY <2>1, <1>9, <1>10
  <2>2. CASE ~(q = n /\ j = L + 1)
    <3>1. j \in DOMAIN delta[q] /\ delta'[q][j] = delta[q][j]
      BY <2>2, <1>5, <1>7, <1>9
    <3>2. /\ delta[q][j].key \in Keys
          /\ delta[q][j].val[t][i] \in Nat
      BY <3>1, <1>1, LogEntries
    <3>3. delta[q][j].val[t][i] <= store[q][delta[q][j].key][t][i]
      BY <3>1 DEF DeltasKnown, PNLessOrEqual, GLessOrEqual
    <3>4. CASE q = n /\ delta[q][j].key = k
      <4>1. /\ store[q][k][t][i] \in Nat /\ store'[q][k][t][i] \in Nat
            /\ store[q][k][t][i] <= store'[q][k][t][i]
        BY <3>4, <1>3, <1>4, <1>10, EntriesAreNat
      <4> QED BY <3>1, <3>2, <3>3, <3>4, <4>1
    <3>5. CASE q # n \/ delta[q][j].key # k
      BY <3>1, <3>2, <3>3, <3>5, <1>7, <1>8
    <3> QED BY <3>4, <3>5
  <2> QED BY <2>1, <2>2
<1> QED BY <1>11, <1>12

(***************************************************************************)
(* Building a message grows the log where the aliasing writes into it, and *)
(* nothing else.                                                           *)
(***************************************************************************)
LEMMA StartGossipGrows ==
  ASSUME TypeOK, DeltasKnown, NEW n \in Nodes, NEW p \in Nodes, StartGossip(n, p)
  PROVE  /\ Grows /\ DeltasKnown'
         /\ \A q \in Nodes : Len(delta'[q]) = Len(delta[q])
<1>1. store \in [Nodes -> Stores] /\ delta \in [Nodes -> Seq(Deltas)]
  BY DEF TypeOK
<1>2. store' = store
  BY DEF StartGossip
<1>3. ASSUME NEW q \in Nodes
      PROVE  /\ Len(delta'[q]) = Len(delta[q]) /\ DOMAIN delta'[q] = DOMAIN delta[q]
             /\ \A j \in DOMAIN delta[q] :
                  /\ delta'[q][j].key = delta[q][j].key
                  /\ \A s \in Signs, i \in Nodes :
                       /\ delta[q][j].val[s][i] <= delta'[q][j].val[s][i]
                       /\ delta'[q][j].val[s][i] <= store[q][delta[q][j].key][s][i]
  <2>1. CASE delta'[q] = delta[q]
    <3>1. \A j \in DOMAIN delta[q], s \in Signs, i \in Nodes :
            /\ delta[q][j].val[s][i] \in Nat
            /\ delta[q][j].val[s][i] <= store[q][delta[q][j].key][s][i]
      BY <1>1, LogEntries DEF DeltasKnown, PNLessOrEqual, GLessOrEqual
    <3> QED BY <3>1, <2>1
  <2>2. CASE delta'[q] # delta[q]
    <3>1. ack[n][p] \in Nat \ {0} /\ q = n /\ delta'[n] = Absorbed(n, ack[n][p])
      BY <2>2, <1>1 DEF StartGossip, TypeOK
    <3> DEFINE w == Absorbed(n, ack[n][p])
    <3>2. w \in Seq(Deltas) /\ Len(w) = Len(delta[n])
      BY <3>1, AbsorbedLog
    <3>3. DOMAIN w = DOMAIN delta[n]
      BY <3>2, <1>1
    <3> HIDE DEF w
    <3>4. \A j \in DOMAIN delta[n] :
            /\ w[j].key = delta[n][j].key
            /\ \A s \in Signs, i \in Nodes :
                 /\ delta[n][j].val[s][i] <= w[j].val[s][i]
                 /\ w[j].val[s][i] <= store[n][delta[n][j].key][s][i]
      BY <3>1, AbsorbedLog DEF w
    <3> QED BY <3>1, <3>2, <3>3, <3>4 DEF w
  <2> QED BY <2>1, <2>2
<1>4. \A q \in Nodes, k \in Keys, s \in Signs, i \in Nodes : store[q][k][s][i] \in Nat
  BY <1>1, StoreEntries
<1>5. \A q \in Nodes : Len(delta[q]) \in Nat
  BY <1>1, LogEntries
<1>6. Grows
  BY <1>2, <1>3, <1>4, <1>5 DEF Grows
<1>7. DeltasKnown'
  BY <1>2, <1>3 DEF DeltasKnown, PNLessOrEqual, GLessOrEqual
<1> QED BY <1>3, <1>6, <1>7

(***************************************************************************)
(* Merging a message grows the receiver, which logs what it learns.        *)
(***************************************************************************)
LEMMA PostGossipGrows ==
  ASSUME TypeOK, DeltasKnown, NEW m \in gossip, PostGossip(m)
  PROVE  /\ Grows /\ DeltasKnown'
         /\ \A q \in Nodes \ {m.dst} : store'[q] = store[q] /\ delta'[q] = delta[q]
         /\ \A k \in Keys : store'[m.dst][k] = PNMerge(store[m.dst][k], m.counters[k])
<1> DEFINE n == m.dst
           L == Len(delta[n])
<1>1. store \in [Nodes -> Stores] /\ delta \in [Nodes -> Seq(Deltas)]
  BY DEF TypeOK
<1>2. n \in Nodes /\ m.counters \in [Keys -> PNCounter]
  BY DEF TypeOK, Messages, Stores
<1>3. PICK order \in Surjection(1 .. Cardinality(News(m)), News(m)) :
        delta' = [delta EXCEPT ![n] = delta[n] \o Logged(m.counters, order)]
  BY DEF PostGossip
<1> DEFINE w == Logged(m.counters, order)
<1>4. /\ w \in Seq(Deltas)
      /\ \A j \in DOMAIN w : w[j].key \in News(m) /\ w[j].val = m.counters[w[j].key]
      /\ \A k \in News(m) : \E j \in DOMAIN w : w[j].key = k /\ w[j].val = m.counters[k]
  BY LoggedNews
<1> HIDE DEF w
<1>5. delta' = [delta EXCEPT ![n] = delta[n] \o w]
  BY <1>3 DEF w
<1>6. L \in Nat /\ DOMAIN delta[n] = 1 .. L
  BY <1>1, <1>2, LogEntries
<1>7. Len(w) \in Nat /\ DOMAIN w = 1 .. Len(w)
  BY <1>4
<1>8. /\ Len(delta'[n]) = L + Len(w)
      /\ DOMAIN delta'[n] = 1 .. (L + Len(w))
      /\ \A j \in 1 .. L : delta'[n][j] = delta[n][j]
      /\ \A j \in 1 .. Len(w) : delta'[n][L + j] = w[j]
  <2>1. delta[n] \in Seq(Deltas) /\ delta'[n] = delta[n] \o w
    BY <1>1, <1>2, <1>5
  <2> QED BY <2>1, <1>4, <1>6, <1>7
<1>9. store' = [store EXCEPT ![n] = Merge(n, m.counters, News(m))]
  BY DEF PostGossip
<1>10. \A q \in Nodes \ {n} : store'[q] = store[q] /\ delta'[q] = delta[q]
  BY <1>1, <1>5, <1>9
<1> HIDE DEF L
<1>11. ASSUME NEW k \in Keys, NEW t \in Signs, NEW i \in Nodes
       PROVE  /\ store[n][k][t][i] \in Nat /\ m.counters[k][t][i] \in Nat
              /\ store'[n][k] = PNMerge(store[n][k], m.counters[k])
              /\ store'[n][k][t][i] \in Nat
              /\ store[n][k][t][i] <= store'[n][k][t][i]
              /\ m.counters[k][t][i] <= store'[n][k][t][i]
              /\ store'[n][k][t][i] \in {store[n][k][t][i], m.counters[k][t][i]}
              /\ k \notin News(m) => store'[n][k] = store[n][k]
  <2>1. store[n][k] \in PNCounter /\ m.counters[k] \in PNCounter
    BY <1>1, <1>2, StoreEntries
  <2>2. store'[n][k] = IF k \in News(m) THEN PNMerge(store[n][k], m.counters[k]) ELSE store[n][k]
    BY <1>1, <1>2, <1>9 DEF Merge
  <2>3. ASSUME k \notin News(m)
        PROVE  PNMerge(store[n][k], m.counters[k]) = store[n][k]
    <3>1. \A u \in Signs, x \in Nodes : m.counters[k][u][x] <= store[n][k][u][x]
      BY <2>3 DEF News, PNLessOrEqual, GLessOrEqual
    <3>2. \A u \in Signs, x \in Nodes : m.counters[k][u][x] \in Nat /\ store[n][k][u][x] \in Nat
      BY <2>1, EntriesAreNat
    <3>3. \A u \in Signs, x \in Nodes : ~(store[n][k][u][x] < m.counters[k][u][x])
      BY <3>1, <3>2
    <3>4. store[n][k] = [u \in Signs |-> [x \in Nodes |-> store[n][k][u][x]]]
      BY <2>1 DEF PNCounter, GCounter
    <3> QED BY <3>3, <3>4 DEF PNMerge, GMerge
  <2>4. store'[n][k] = PNMerge(store[n][k], m.counters[k])
    BY <2>2, <2>3
  <2> QED BY <2>1, <2>2, <2>4, PNMergeMax
<1>12. \A k \in Keys : store'[n][k] = PNMerge(store[n][k], m.counters[k])
  <2> TAKE k \in Keys
  <2>1. "inc" \in Signs BY DEF Signs
  <2>2. PICK i \in Nodes : TRUE BY <1>2
  <2> QED BY <2>1, <2>2, <1>11
<1>13. Grows
  <2>1. ASSUME NEW q \in Nodes
        PROVE  /\ Len(delta[q]) <= Len(delta'[q])
               /\ \A j \in DOMAIN delta[q] :
                    /\ delta'[q][j].key = delta[q][j].key
                    /\ \A t \in Signs, i \in Nodes : delta[q][j].val[t][i] <= delta'[q][j].val[t][i]
    <3>1. Len(delta[q]) \in Nat /\ \A j \in DOMAIN delta[q], t \in Signs, i \in Nodes :
            delta[q][j].val[t][i] \in Nat
      BY <1>1, LogEntries
    <3>2. CASE q = n
      BY <3>1, <3>2, <1>6, <1>7, <1>8 DEF L
    <3>3. CASE q # n
      BY <3>1, <3>3, <1>10
    <3> QED BY <3>2, <3>3
  <2>2. ASSUME NEW q \in Nodes, NEW c \in Keys, NEW t \in Signs, NEW i \in Nodes
        PROVE  /\ store[q][c][t][i] <= store'[q][c][t][i]
               /\ \/ store'[q][c][t][i] = store[q][c][t][i]
                  \/ \E j \in DOMAIN delta'[q] : /\ Len(delta[q]) < j
                                                /\ delta'[q][j].key = c
                                                /\ store'[q][c][t][i] <= delta'[q][j].val[t][i]
    <3>1. CASE q # n
      <4>1. store[q][c][t][i] \in Nat
        BY <1>1, StoreEntries
      <4>2. store'[q] = store[q]
        BY <3>1, <1>10
      <4> QED BY <4>1, <4>2
    <3>2. CASE q = n /\ c \notin News(m)
      BY <3>2, <1>11
    <3>3. CASE q = n /\ c \in News(m)
      <4>1. PICK j \in DOMAIN w : w[j].key = c /\ w[j].val = m.counters[c]
        BY <3>3, <1>4
      <4>2. L + j \in DOMAIN delta'[n] /\ L < L + j /\ delta'[n][L + j] = w[j]
        BY <1>6, <1>7, <1>8
      <4>3. CASE store'[n][c][t][i] = m.counters[c][t][i]
        BY <3>3, <4>1, <4>2, <4>3, <1>11 DEF L
      <4> QED BY <3>3, <4>3, <1>11
    <3> QED BY <3>1, <3>2, <3>3
  <2> QED BY <2>1, <2>2 DEF Grows
<1>14. DeltasKnown'
  <2> SUFFICES ASSUME NEW q \in Nodes, NEW j \in DOMAIN delta'[q],
                      NEW t \in Signs, NEW i \in Nodes
               PROVE  delta'[q][j].val[t][i] <= store'[q][delta'[q][j].key][t][i]
    BY DEF DeltasKnown, PNLessOrEqual, GLessOrEqual
  <2>1. CASE q = n /\ j > L
    <3>1. j - L \in DOMAIN w /\ delta'[n][j] = w[j - L]
      <4>1. j \in Nat /\ j - L \in 1 .. Len(w) /\ L + (j - L) = j
        BY <2>1, <1>6, <1>7, <1>8
      <4> QED BY <4>1, <1>7, <1>8
    <3>2. w[j - L].key \in Keys /\ w[j - L].val = m.counters[w[j - L].key]
      BY <3>1, <1>4 DEF News
    <3> QED BY <2>1, <3>1, <3>2, <1>11
  <2>2. CASE ~(q = n /\ j > L)
    <3>1. j \in DOMAIN delta[q] /\ delta'[q][j] = delta[q][j]
      BY <2>2, <1>6, <1>7, <1>8, <1>10
    <3>2. /\ delta[q][j].key \in Keys
          /\ delta[q][j].val[t][i] \in Nat
      BY <3>1, <1>1, LogEntries
    <3>3. delta[q][j].val[t][i] <= store[q][delta[q][j].key][t][i]
      BY <3>1 DEF DeltasKnown, PNLessOrEqual, GLessOrEqual
    <3>4. CASE q = n
      <4>1. /\ store[q][delta[q][j].key][t][i] \in Nat
            /\ store'[q][delta[q][j].key][t][i] \in Nat
            /\ store[q][delta[q][j].key][t][i] <= store'[q][delta[q][j].key][t][i]
        BY <3>2, <3>4, <1>11
      <4> QED BY <3>1, <3>2, <3>3, <4>1
    <3>5. CASE q # n
      BY <3>1, <3>2, <3>3, <3>5, <1>10
    <3> QED BY <3>4, <3>5
  <2> QED BY <2>1, <2>2
<1> QED BY <1>10, <1>12, <1>13, <1>14

-----------------------------------------------------------------------------
(***************************************************************************)
(* What was safe to skip or to merge stays so while replicas grow.         *)
(***************************************************************************)
LEMMA SkipStable ==
  ASSUME TypeOK, TypeOK', Grows,
         NEW n \in Nodes, NEW p \in Nodes, NEW a \in Nat, SafeToSkip(n, p, a)
  PROVE  SafeToSkip(n, p, a)'
<1>1. a <= Len(delta'[n]) + 1
  <2>1. Len(delta[n]) \in Nat /\ Len(delta'[n]) \in Nat
    BY LogEntries DEF TypeOK
  <2> QED BY <2>1 DEF SafeToSkip, counterSeq, Grows
<1>2. ASSUME NEW k \in Keys, NEW s \in Signs, NEW i \in Nodes
      PROVE  Covered(n, p, a, k, s, i)'
  <2>1. a <= counterSeq(n) /\ Covered(n, p, a, k, s, i)
    BY DEF SafeToSkip
  <2> QED BY <2>1, CoveredStable DEF Covered, Remembered
<1> QED BY <1>1, <1>2 DEF SafeToSkip, counterSeq

(***************************************************************************)
(* A message that was safe to merge stays safe while replicas grow.        *)
(***************************************************************************)
LEMMA MergeStable ==
  ASSUME TypeOK, TypeOK', Grows, NEW m \in gossip, SafeToMerge(m)
  PROVE  SafeToMerge(m)'
<1>1. m \in Messages /\ m.src \in Nodes /\ m.dst \in Nodes /\ m.seq \in Nat
  BY DEF TypeOK, Messages
<1>2. Len(delta[m.src]) \in Nat /\ Len(delta'[m.src]) \in Nat
  BY <1>1, LogEntries DEF TypeOK
<1>3. m.seq <= Len(delta'[m.src]) + 1
  BY <1>1, <1>2 DEF SafeToMerge, counterSeq, Grows
<1>4. ASSUME NEW k \in Keys, NEW s \in Signs, NEW i \in Nodes
      PROVE  /\ \/ store'[m.src][k][s][i] <= m.counters[k][s][i]
                \/ Covered(m.src, m.dst, m.seq, k, s, i)'
             /\ m.counters[k][s][i] <= m.snap[k][s][i]
             /\ m.snap[k][s][i] <= store'[m.src][k][s][i]
             /\ \/ m.snap[k][s][i] <= m.counters[k][s][i]
                \/ m.snap[k][s][i] <= store'[m.dst][k][s][i]
  <2>1. \A q \in Nodes : /\ store[q][k][s][i] \in Nat /\ store'[q][k][s][i] \in Nat
                         /\ store[q][k][s][i] <= store'[q][k][s][i]
    BY StoreEntries DEF TypeOK, Grows
  <2>2. m.counters[k][s][i] \in Nat /\ m.snap[k][s][i] \in Nat
    <3>1. m.counters[k] \in PNCounter /\ m.snap[k] \in PNCounter
      BY <1>1 DEF Messages, Stores
    <3> QED BY <3>1, EntriesAreNat
  <2>3. /\ m.counters[k][s][i] <= m.snap[k][s][i]
        /\ m.snap[k][s][i] <= store[m.src][k][s][i]
        /\ \/ m.snap[k][s][i] <= m.counters[k][s][i]
           \/ m.snap[k][s][i] <= store[m.dst][k][s][i]
    BY DEF SafeToMerge
  <2>4. /\ m.snap[k][s][i] <= store'[m.src][k][s][i]
        /\ \/ m.snap[k][s][i] <= m.counters[k][s][i]
           \/ m.snap[k][s][i] <= store'[m.dst][k][s][i]
    BY <2>1, <2>2, <2>3, <1>1
  <2>5. \/ store'[m.src][k][s][i] <= m.counters[k][s][i]
        \/ Covered(m.src, m.dst, m.seq, k, s, i)'
    <3>1. CASE Covered(m.src, m.dst, m.seq, k, s, i)
      <4>1. m.seq <= counterSeq(m.src)
        BY DEF SafeToMerge
      <4> QED BY <3>1, <4>1, <1>1, CoveredStable DEF Covered, Remembered
    <3>2. CASE store[m.src][k][s][i] <= m.counters[k][s][i]
      <4>1. CASE store'[m.src][k][s][i] = store[m.src][k][s][i]
        BY <3>2, <4>1
      <4>2. CASE store'[m.src][k][s][i] # store[m.src][k][s][i]
        <5>1. PICK j \in DOMAIN delta'[m.src] :
                /\ Len(delta[m.src]) < j
                /\ delta'[m.src][j].key = k
                /\ store'[m.src][k][s][i] <= delta'[m.src][j].val[s][i]
          BY <4>2, <1>1 DEF Grows
        <5>2. DOMAIN delta'[m.src] = 1 .. Len(delta'[m.src])
          BY <1>1, LogEntries DEF TypeOK
        <5>3. m.seq <= j
          BY <5>1, <5>2, <1>1, <1>2 DEF SafeToMerge, counterSeq
        <5> QED BY <5>1, <5>3 DEF Covered, Remembered
      <4> QED BY <4>1, <4>2
    <3> QED BY <3>1, <3>2 DEF SafeToMerge
  <2> QED BY <2>3, <2>4, <2>5
<1> QED BY <1>3, <1>4 DEF SafeToMerge, counterSeq

(***************************************************************************)
(* A node knows its own increments best, so what any message says of them  *)
(* is no news to it.                                                       *)
(***************************************************************************)
LEMMA MessageSlots ==
  ASSUME Inv, NEW m \in gossip, NEW k \in Keys, NEW s \in Signs, NEW i \in Nodes
  PROVE  m.counters[k][s][i] <= store[i][k][s][i]
<1>1. m.src \in Nodes /\ m.counters[k] \in PNCounter /\ m.snap[k] \in PNCounter
  BY DEF Inv, TypeOK, Messages, Stores
<1>2. /\ m.counters[k][s][i] \in Nat /\ m.snap[k][s][i] \in Nat
      /\ store[m.src][k][s][i] \in Nat /\ store[i][k][s][i] \in Nat
  BY <1>1, EntriesAreNat, StoreEntries DEF Inv, TypeOK
<1>3. /\ m.counters[k][s][i] <= m.snap[k][s][i]
      /\ m.snap[k][s][i] <= store[m.src][k][s][i]
  BY DEF Inv, SafeToMerge
<1>4. store[m.src][k][s][i] <= store[i][k][s][i]
  BY <1>1 DEF Inv, OwnSlotDominates
<1> QED BY <1>2, <1>3, <1>4

(***************************************************************************)
(* The part of the invariant about sequence numbers and messages, for any  *)
(* step that grows the replicas: only what the step itself puts in flight  *)
(* or takes out has to be looked at.                                       *)
(***************************************************************************)
LEMMA CoverageKept ==
  ASSUME Inv, TypeOK', Grows,
         \A n, p \in Nodes : \/ ack'[n][p] = ack[n][p]
                             \/ \E a \in acks : a.dst = n /\ a.src = p /\ a.seq = ack'[n][p],
         \A a \in acks' : a \in acks \/ SafeToSkip(a.dst, a.src, a.seq)',
         \A m \in gossip' : m \in gossip \/ SafeToMerge(m)'
  PROVE  /\ \A n, p \in Nodes : ack'[n][p] > 0 => SafeToSkip(n, p, ack[n][p])'
         /\ \A a \in acks' : SafeToSkip(a.dst, a.src, a.seq)'
         /\ \A m \in gossip' : SafeToMerge(m)'
<1>1. TypeOK
  BY DEF Inv
<1>2. ASSUME NEW a \in acks PROVE SafeToSkip(a.dst, a.src, a.seq)'
  <2>1. a.dst \in Nodes /\ a.src \in Nodes /\ a.seq \in Nat
    BY <1>1 DEF TypeOK, Acks
  <2>2. SafeToSkip(a.dst, a.src, a.seq)
    BY DEF Inv
  <2> QED BY <2>1, <2>2, <1>1, SkipStable
<1>3. ASSUME NEW n \in Nodes, NEW p \in Nodes, ack'[n][p] > 0
      PROVE  SafeToSkip(n, p, ack[n][p])'
  <2>1. CASE ack'[n][p] = ack[n][p]
    <3>1. ack[n][p] \in Nat /\ ack[n][p] > 0 /\ SafeToSkip(n, p, ack[n][p])
      BY <1>1, <1>3, <2>1 DEF Inv, TypeOK
    <3>2. PICK b \in Nat : b = ack[n][p]
      BY <3>1
    <3>3. SafeToSkip(n, p, b)'
      BY <3>1, <3>2, <1>1, SkipStable
    <3> QED BY <3>2, <3>3, <2>1 DEF SafeToSkip, Covered, Remembered
  <2>2. CASE \E a \in acks : a.dst = n /\ a.src = p /\ a.seq = ack'[n][p]
    <3>1. PICK a \in acks : a.dst = n /\ a.src = p /\ a.seq = ack'[n][p]
      BY <2>2
    <3>2. SafeToSkip(a.dst, a.src, a.seq)'
      BY <1>2
    <3> QED BY <3>1, <3>2
  <2> QED BY <2>1, <2>2
<1>4. ASSUME NEW m \in gossip PROVE SafeToMerge(m)'
  BY <1>1, MergeStable DEF Inv
<1> QED BY <1>2, <1>3, <1>4

-----------------------------------------------------------------------------
(***************************************************************************)
(* The invariant holds initially.                                          *)
(***************************************************************************)
LEMMA InitInv == Init => Inv
<1> SUFFICES ASSUME Init PROVE Inv
  OBVIOUS
<1>1. TypeOK
  BY InitType
<1>2. \A n \in Nodes, k \in Keys, s \in Signs, i \in Nodes : store[n][k][s][i] = 0
  BY DEF Init, EmptyStore, PNZero, GZero
<1>3. \A n \in Nodes, k \in Keys, s \in Signs : issued[n][k][s] = 0
  BY DEF Init
<1>4. OwnSlotDominates /\ IncrementsExact
  BY <1>2, <1>3 DEF OwnSlotDominates, IncrementsExact
<1>5. DeltasKnown
  BY DEF Init, DeltasKnown
<1> QED BY <1>1, <1>4, <1>5 DEF Inv, Init, GossipInit

(***************************************************************************)
(* A client write preserves the invariant: its own entry grows by exactly  *)
(* the amount unless the integer is exhausted.                             *)
(***************************************************************************)
LEMMA WriteInv ==
  ASSUME Inv, NEW n \in Nodes, NEW k \in Keys, NEW s \in Signs, NEW v \in Amounts,
         Write(n, k, s, v)
  PROVE  Inv'
<1>1. TypeOK /\ TypeOK' /\ DeltasKnown
  BY WriteType DEF Inv
<1>2. Grows /\ DeltasKnown'
  BY <1>1, WriteGrows
<1>3. ack' = ack /\ acks' = acks /\ gossip' = gossip
  BY DEF Write, gossipVars
<1>4. /\ \A q, p \in Nodes : ack'[q][p] > 0 => SafeToSkip(q, p, ack[q][p])'
      /\ \A a \in acks' : SafeToSkip(a.dst, a.src, a.seq)'
      /\ \A m \in gossip' : SafeToMerge(m)'
  BY <1>1, <1>2, <1>3, CoverageKept
<1> DEFINE d == PNAdd(store[n][k], n, s, v)
           x == store[n][k][s][n]
<1>5. store[n][k] \in PNCounter /\ v \in Uint \ {0} /\ x \in Uint
  BY <1>1, CounterStoreAssumption DEF TypeOK, Stores, PNCounter, GCounter
<1>6. d \in PNCounter
  BY <1>5, PNAddType
<1>7. \A t \in Signs, i \in Nodes : d[t][i] = IF t = s /\ i = n THEN (x + v) % (MaxUint + 1) ELSE 0
  BY <1>5 DEF PNAdd, GIncrement, PNZero, GZero, PNCounter, GCounter
<1> HIDE DEF d
<1>8. /\ store' = [store EXCEPT ![n][k] = PNMerge(store[n][k], d)]
      /\ issued' = [issued EXCEPT ![n][k][s] = issued[n][k][s] + v]
  BY DEF Write, d
<1>9. ASSUME NEW q \in Nodes, NEW c \in Keys, NEW t \in Signs, NEW i \in Nodes
      PROVE  /\ store'[q][c][t][i] \in Nat /\ store[q][c][t][i] \in Nat
             /\ ~(q = n /\ c = k /\ t = s /\ i = n) => store'[q][c][t][i] = store[q][c][t][i]
             /\ store[q][c][t][i] <= store'[q][c][t][i]
  <2>1. store'[q][c][t][i] \in Nat /\ store[q][c][t][i] \in Nat
    BY <1>1, StoreEntries DEF TypeOK
  <2>2. CASE q = n /\ c = k
    <3>1. store'[n][k] = PNMerge(store[n][k], d)
      BY <1>1, <1>8 DEF TypeOK, Stores
    <3>2. /\ store'[n][k][t][i] \in {store[n][k][t][i], d[t][i]}
          /\ store[n][k][t][i] <= store'[n][k][t][i]
      BY <3>1, <1>5, <1>6, PNMergeMax
    <3> QED BY <2>1, <2>2, <3>2, <1>7
  <2>3. CASE ~(q = n /\ c = k)
    <3>1. store'[q][c] = store[q][c]
      BY <2>3, <1>1, <1>8 DEF TypeOK, Stores
    <3> QED BY <2>1, <2>3, <3>1
  <2> QED BY <2>2, <2>3
<1>10. OwnSlotDominates'
  <2> SUFFICES ASSUME NEW i \in Nodes, NEW q \in Nodes, NEW c \in Keys, NEW t \in Signs
               PROVE  store'[q][c][t][i] <= store'[i][c][t][i]
    BY DEF OwnSlotDominates
  <2>1. store[q][c][t][i] <= store[i][c][t][i]
    BY DEF Inv, OwnSlotDominates
  <2>2. CASE q = i
    BY <2>2, <1>9
  <2>3. CASE q # i
    <3>1. store'[q][c][t][i] = store[q][c][t][i]
      BY <2>3, <1>9
    <3> QED BY <3>1, <2>1, <1>9
  <2> QED BY <2>2, <2>3
<1>11. IncrementsExact'
  <2> SUFFICES ASSUME NEW q \in Nodes, NEW c \in Keys, NEW t \in Signs,
                      issued'[q][c][t] <= MaxUint
               PROVE  store'[q][c][t][q] = issued'[q][c][t]
    BY DEF IncrementsExact
  <2>1. issued[q][c][t] \in Nat
    BY <1>1 DEF TypeOK
  <2>2. CASE q = n /\ c = k /\ t = s
    <3>1. issued'[n][k][s] = issued[n][k][s] + v
      BY <1>1, <1>8 DEF TypeOK
    <3>2. issued[n][k][s] <= MaxUint /\ v \in Nat
      BY <2>1, <2>2, <3>1, <1>5, MaxUintAssumption DEF Uint
    <3>3. x = issued[n][k][s]
      BY <3>2 DEF Inv, IncrementsExact
    <3>4. x + v \in 0 .. MaxUint
      BY <3>1, <3>2, <3>3, <2>1, <2>2, MaxUintAssumption
    <3>5. (x + v) % (MaxUint + 1) = x + v
      BY <3>4, MaxUintAssumption
    <3>6. d[s][n] = x + v
      BY <3>5, <1>7
    <3>7. store'[n][k] = PNMerge(store[n][k], d)
      BY <1>1, <1>8 DEF TypeOK, Stores
    <3>8. /\ store'[n][k][s][n] \in {x, x + v}
          /\ x + v <= store'[n][k][s][n]
      BY <3>6, <3>7, <1>5, <1>6, PNMergeMax
    <3>9. v > 0 /\ x \in Nat
      BY <1>5, MaxUintAssumption DEF Uint
    <3> QED BY <2>2, <3>1, <3>2, <3>3, <3>8, <3>9
  <2>3. CASE ~(q = n /\ c = k /\ t = s)
    <3>1. issued'[q][c][t] = issued[q][c][t]
      BY <2>3, <1>1, <1>8 DEF TypeOK
    <3>2. store'[q][c][t][q] = store[q][c][t][q]
      BY <2>3, <1>9
    <3> QED BY <3>1, <3>2 DEF Inv, IncrementsExact
  <2> QED BY <2>2, <2>3
<1> QED BY <1>1, <1>2, <1>4, <1>10, <1>11 DEF Inv

(***************************************************************************)
(* A message being sent: full, it is the sender's store; otherwise what it *)
(* leaves out is covered by the acknowledgement it was computed from.      *)
(***************************************************************************)
LEMMA StartGossipInv ==
  ASSUME Inv, NEW n \in Nodes, NEW p \in Nodes, StartGossip(n, p)
  PROVE  Inv'
<1> DEFINE m == [src |-> n, dst |-> p, seq |-> counterSeq(n),
                 counters |-> Delta(n, p), snap |-> store[n]]
<1>1. TypeOK /\ TypeOK' /\ DeltasKnown
  BY StartGossipType DEF Inv
<1>2. Grows /\ DeltasKnown' /\ \A q \in Nodes : Len(delta'[q]) = Len(delta[q])
  BY <1>1, StartGossipGrows
<1>3. store' = store /\ issued' = issued /\ ack' = ack /\ acks' = acks /\ gossip' = gossip \cup {m}
  BY DEF StartGossip, SendGossip
<1>4. ack[n][p] \in Nat /\ Len(delta[n]) \in Nat
  BY <1>1, LogEntries DEF TypeOK
<1>5. ASSUME NEW k \in Keys, NEW s \in Signs, NEW i \in Nodes
      PROVE  /\ store[n][k][s][i] \in Nat
             /\ Delta(n, p)[k][s][i] <= store[n][k][s][i]
             /\ \/ store[n][k][s][i] <= Delta(n, p)[k][s][i]
                \/ store[n][k][s][i] <= store[p][k][s][i]
  <2>1. store[n][k][s][i] \in Nat
    BY <1>1, StoreEntries DEF TypeOK
  <2>2. CASE ack[n][p] = 0
    BY <2>1, <2>2 DEF Delta
  <2>3. CASE ack[n][p] # 0
    <3> DEFINE y == Interval(n, ack[n][p])[k][s][i]
    <3>1. ack[n][p] \in Nat \ {0} /\ Delta(n, p)[k][s][i] = y
      BY <2>3, <1>4 DEF Delta
    <3>2. /\ y \in Nat
          /\ \A j \in DOMAIN delta[n] :
               ack[n][p] <= j /\ delta[n][j].key = k => delta[n][j].val[s][i] <= y
          /\ \/ y = 0
             \/ \E j \in DOMAIN delta[n] : delta[n][j].key = k /\ delta[n][j].val[s][i] = y
      BY <3>1, <1>1, IntervalJoin, MaxUintAssumption DEF Uint
    <3> HIDE DEF y
    <3>3. y <= store[n][k][s][i]
      BY <3>2, <2>1, <1>1 DEF DeltasKnown, PNLessOrEqual, GLessOrEqual
    <3>4. Covered(n, p, ack[n][p], k, s, i)
      BY <3>1 DEF Inv, SafeToSkip
    <3>5. CASE Remembered(n, ack[n][p], k, s, i)
      <4>1. PICK j \in DOMAIN delta[n] : /\ ack[n][p] <= j
                                         /\ delta[n][j].key = k
                                         /\ store[n][k][s][i] <= delta[n][j].val[s][i]
        BY <3>5 DEF Remembered
      <4>2. delta[n][j].val[s][i] \in Nat /\ delta[n][j].val[s][i] <= y
        BY <4>1, <3>2, <1>1, LogEntries DEF TypeOK
      <4> QED BY <4>1, <4>2, <3>1, <3>2, <3>3, <2>1
    <3> QED BY <2>1, <3>1, <3>3, <3>4, <3>5 DEF Covered
  <2> QED BY <2>2, <2>3
<1>6. PICK w : w = m
  OBVIOUS
<1>7. /\ w.src = n /\ w.dst = p /\ w.seq = counterSeq(n)
      /\ w.counters = Delta(n, p) /\ w.snap = store[n]
  BY <1>6
<1>8. SafeToMerge(w)'
  <2>1. counterSeq(n)' = counterSeq(n) /\ counterSeq(n) > 0 /\ counterSeq(n) \in Nat
    BY <1>2, <1>4 DEF counterSeq
  <2> QED BY <2>1, <1>3, <1>5, <1>7 DEF SafeToMerge, Covered
<1>9. \A g \in gossip' : g \in gossip \/ SafeToMerge(g)'
  BY <1>3, <1>6, <1>8
<1>10. /\ \A q, r \in Nodes : ack'[q][r] > 0 => SafeToSkip(q, r, ack[q][r])'
       /\ \A a \in acks' : SafeToSkip(a.dst, a.src, a.seq)'
       /\ \A g \in gossip' : SafeToMerge(g)'
  BY <1>1, <1>2, <1>3, <1>9, CoverageKept
<1>11. OwnSlotDominates' /\ IncrementsExact'
  BY <1>3 DEF Inv, OwnSlotDominates, IncrementsExact
<1> QED BY <1>1, <1>2, <1>10, <1>11 DEF Inv

(***************************************************************************)
(* A message being merged: its acknowledgement is safe to act on, and the  *)
(* receiver's own entries do not move.                                     *)
(***************************************************************************)
LEMMA PostGossipInv ==
  ASSUME Inv, NEW m \in gossip, PostGossip(m)
  PROVE  Inv'
<1> DEFINE n == m.dst
<1>1. TypeOK /\ TypeOK' /\ DeltasKnown
  BY PostGossipType DEF Inv
<1>2. m.src \in Nodes /\ n \in Nodes /\ m.seq \in Nat /\ m.counters \in [Keys -> PNCounter]
  BY <1>1 DEF TypeOK, Messages, Stores
<1>3. /\ Grows /\ DeltasKnown'
      /\ \A q \in Nodes \ {n} : store'[q] = store[q]
      /\ \A k \in Keys : store'[n][k] = PNMerge(store[n][k], m.counters[k])
  BY <1>1, PostGossipGrows
<1>4. ack' = ack /\ issued' = issued /\ gossip' \subseteq gossip /\ acks' = acks \cup {AckOf(m)}
  BY DEF PostGossip, ReceiveGossip
<1>5. ASSUME NEW q \in Nodes, NEW k \in Keys, NEW s \in Signs, NEW i \in Nodes
      PROVE  /\ store[q][k][s][i] \in Nat /\ store'[q][k][s][i] \in Nat
             /\ store[q][k][s][i] <= store'[q][k][s][i]
             /\ q # n => store'[q][k][s][i] = store[q][k][s][i]
             /\ m.counters[k][s][i] \in Nat
             /\ m.counters[k][s][i] <= store'[n][k][s][i]
             /\ store'[n][k][s][i] \in {store[n][k][s][i], m.counters[k][s][i]}
  <2>1. store[q][k][s][i] \in Nat /\ store'[q][k][s][i] \in Nat
    BY <1>1, StoreEntries DEF TypeOK
  <2>2. store[n][k] \in PNCounter /\ m.counters[k] \in PNCounter
    BY <1>1, <1>2, StoreEntries DEF TypeOK
  <2>3. /\ m.counters[k][s][i] \in Nat
        /\ m.counters[k][s][i] <= store'[n][k][s][i]
        /\ store'[n][k][s][i] \in {store[n][k][s][i], m.counters[k][s][i]}
    BY <2>2, <1>3, PNMergeMax
  <2>4. store[q][k][s][i] <= store'[q][k][s][i]
    BY <1>3 DEF Grows
  <2> QED BY <2>1, <2>3, <2>4, <1>3
<1>6. SafeToMerge(m)'
  BY <1>1, <1>3, MergeStable DEF Inv
<1>8. SafeToSkip(m.src, n, m.seq)'
  <2>1. ASSUME NEW k \in Keys, NEW s \in Signs, NEW i \in Nodes
        PROVE  Covered(m.src, n, m.seq, k, s, i)'
    <3>1. CASE store'[m.src][k][s][i] <= m.counters[k][s][i]
      <4>1. store'[m.src][k][s][i] <= store'[n][k][s][i]
        BY <3>1, <1>2, <1>5
      <4> QED BY <4>1 DEF Covered
    <3> QED BY <3>1, <1>6 DEF SafeToMerge
  <2> QED BY <2>1, <1>6 DEF SafeToMerge, SafeToSkip
<1>9. \A a \in acks' : a \in acks \/ SafeToSkip(a.dst, a.src, a.seq)'
  <2> SUFFICES ASSUME NEW a \in acks', a \notin acks
               PROVE  SafeToSkip(a.dst, a.src, a.seq)'
    OBVIOUS
  <2>1. a = [src |-> n, dst |-> m.src, seq |-> m.seq]
    BY <1>4 DEF AckOf
  <2>2. a.dst = m.src /\ a.src = n /\ a.seq = m.seq
    BY <2>1
  <2> QED BY <2>2, <1>8
<1>10. /\ \A q, r \in Nodes : ack'[q][r] > 0 => SafeToSkip(q, r, ack[q][r])'
       /\ \A a \in acks' : SafeToSkip(a.dst, a.src, a.seq)'
       /\ \A g \in gossip' : SafeToMerge(g)'
  BY <1>1, <1>3, <1>4, <1>9, CoverageKept
<1>11. OwnSlotDominates'
  <2> SUFFICES ASSUME NEW i \in Nodes, NEW q \in Nodes, NEW k \in Keys, NEW s \in Signs
               PROVE  store'[q][k][s][i] <= store'[i][k][s][i]
    BY DEF OwnSlotDominates
  <2>1. store[q][k][s][i] <= store[i][k][s][i]
    BY DEF Inv, OwnSlotDominates
  <2>2. m.counters[k][s][i] <= store[i][k][s][i]
    BY MessageSlots
  <2>3. CASE q # n
    BY <2>1, <2>3, <1>5
  <2>4. CASE q = n
    BY <2>1, <2>2, <2>4, <1>5
  <2> QED BY <2>3, <2>4
<1>12. IncrementsExact'
  <2> SUFFICES ASSUME NEW q \in Nodes, NEW k \in Keys, NEW s \in Signs
               PROVE  store'[q][k][s][q] = store[q][k][s][q]
    BY <1>4 DEF Inv, IncrementsExact
  <2>1. m.counters[k][s][q] <= store[q][k][s][q]
    BY MessageSlots
  <2>2. CASE q # n
    BY <2>2, <1>5
  <2>3. CASE q = n
    <3>1. /\ store[n][k][s][q] \in Nat /\ m.counters[k][s][q] \in Nat
          /\ store[n][k][s][q] <= store'[n][k][s][q]
          /\ store'[n][k][s][q] \in {store[n][k][s][q], m.counters[k][s][q]}
      BY <1>2, <1>5
    <3> QED BY <3>1, <2>1, <2>3
  <2> QED BY <2>2, <2>3
<1> QED BY <1>1, <1>3, <1>10, <1>11, <1>12 DEF Inv

(***************************************************************************)
(* Recording an acknowledgement, losing a request and changing a pool      *)
(* preserve the invariant.                                                 *)
(***************************************************************************)
LEMMA TransportInv ==
  ASSUME Inv, Transport, UNCHANGED <<store, delta, issued>>
  PROVE  Inv'
<1>1. TypeOK /\ TypeOK'
  BY TransportType DEF Inv
<1>2. Grows
  <2>1. store \in [Nodes -> Stores] /\ delta \in [Nodes -> Seq(Deltas)]
    BY <1>1 DEF TypeOK
  <2>2. \A n \in Nodes, k \in Keys, s \in Signs, i \in Nodes : store[n][k][s][i] \in Nat
    BY <2>1, StoreEntries
  <2>3. \A n \in Nodes : Len(delta[n]) \in Nat /\ \A j \in DOMAIN delta[n],
          s \in Signs, i \in Nodes : delta[n][j].val[s][i] \in Nat
    BY <2>1, LogEntries
  <2> QED BY <2>2, <2>3 DEF Grows
<1>3. \A n, p \in Nodes : \/ ack'[n][p] = ack[n][p]
                          \/ \E a \in acks : a.dst = n /\ a.src = p /\ a.seq = ack'[n][p]
  <2>1. CASE ack' = ack
    BY <2>1
  <2>2. ASSUME NEW a \in acks, PostAck(a), NEW n \in Nodes, NEW p \in Nodes
        PROVE  ack'[n][p] = ack[n][p] \/ (a.dst = n /\ a.src = p /\ a.seq = ack'[n][p])
    BY <2>2, <1>1 DEF PostAck, Ack, TypeOK, Acks
  <2>3. ack' = ack \/ \E a \in acks : PostAck(a)
    BY DEF Transport, DropAck, DropGossip, Membership, NotifyAlive, NotifyDead
  <2> QED BY <2>1, <2>2, <2>3
<1>4. acks' \subseteq acks /\ gossip' \subseteq gossip
  BY DEF Transport, PostAck, DropAck, DropGossip, Membership, NotifyAlive, NotifyDead
<1>5. /\ \A n, p \in Nodes : ack'[n][p] > 0 => SafeToSkip(n, p, ack[n][p])'
      /\ \A a \in acks' : SafeToSkip(a.dst, a.src, a.seq)'
      /\ \A m \in gossip' : SafeToMerge(m)'
  BY <1>1, <1>2, <1>3, <1>4, CoverageKept
<1>6. DeltasKnown' /\ OwnSlotDominates' /\ IncrementsExact'
  BY DEF Inv, DeltasKnown, OwnSlotDominates, IncrementsExact
<1> QED BY <1>1, <1>5, <1>6 DEF Inv

(***************************************************************************)
(* Every step preserves the invariant.                                     *)
(***************************************************************************)
LEMMA NextInv ==
  ASSUME Inv, [Next]_vars
  PROVE  Inv'
<1>1. CASE ClientWrite
  <2>1. PICK n \in Nodes, k \in Keys, v \in Amounts :
          IncrementCounter(n, k, v) \/ DecrementCounter(n, k, v)
    BY <1>1 DEF ClientWrite
  <2>2. \E s \in Signs : Write(n, k, s, v)
    BY <2>1 DEF IncrementCounter, DecrementCounter, Signs
  <2> QED BY <2>2, WriteInv
<1>2. ASSUME NEW n \in Nodes, NEW p \in Nodes, StartGossip(n, p) PROVE Inv'
  BY <1>2, StartGossipInv
<1>3. ASSUME NEW m \in gossip, PostGossip(m) PROVE Inv'
  BY <1>3, PostGossipInv
<1>4. CASE Transport /\ UNCHANGED <<store, delta, issued>>
  BY <1>4, TransportInv
<1>5. CASE UNCHANGED vars
  BY <1>5 DEF vars, Inv, TypeOK, DeltasKnown, SafeToSkip, SafeToMerge, Covered, Remembered,
              counterSeq, OwnSlotDominates, IncrementsExact
<1> QED BY <1>1, <1>2, <1>3, <1>4, <1>5 DEF Next

(***************************************************************************)
(* Invariance: the inductive invariant of the delta-interval protocol.     *)
(***************************************************************************)
THEOREM Invariance == Spec => []Inv
BY InitInv, NextInv, PTL DEF Spec

-----------------------------------------------------------------------------
(***************************************************************************)
(* What the invariant says of one state.                                   *)
(***************************************************************************)
LEMMA InvCovers == Inv => NothingForgotten
BY DEF Inv, NothingForgotten, SafeToSkip

(***************************************************************************)
(* A message in flight acts like the store it was built from.              *)
(***************************************************************************)
LEMMA InvMerges == Inv => CausalDeltaMerging
<1> SUFFICES ASSUME Inv, NEW m \in gossip, NEW k \in Keys
             PROVE  PNMerge(store[m.dst][k], m.counters[k]) = PNMerge(store[m.dst][k], m.snap[k])
  BY DEF CausalDeltaMerging
<1>1. m.dst \in Nodes /\ m.counters[k] \in PNCounter /\ m.snap[k] \in PNCounter
  BY DEF Inv, TypeOK, Messages, Stores
<1>2. store[m.dst][k] \in PNCounter
  BY <1>1, StoreEntries DEF Inv, TypeOK
<1>3. ASSUME NEW s \in Signs, NEW i \in Nodes
      PROVE  (IF store[m.dst][k][s][i] < m.counters[k][s][i]
                THEN m.counters[k][s][i] ELSE store[m.dst][k][s][i])
             = (IF store[m.dst][k][s][i] < m.snap[k][s][i]
                  THEN m.snap[k][s][i] ELSE store[m.dst][k][s][i])
  <2>1. /\ store[m.dst][k][s][i] \in Nat
        /\ m.counters[k][s][i] \in Nat /\ m.snap[k][s][i] \in Nat
    BY <1>1, <1>2, EntriesAreNat
  <2>2. /\ m.counters[k][s][i] <= m.snap[k][s][i]
        /\ \/ m.snap[k][s][i] <= m.counters[k][s][i]
           \/ m.snap[k][s][i] <= store[m.dst][k][s][i]
    BY DEF Inv, SafeToMerge
  <2> QED BY <2>1, <2>2
<1> QED BY <1>3 DEF PNMerge, GMerge

(***************************************************************************)
(* An acknowledged sequence number that is up to date leaves nothing to    *)
(* remember, so the peer knows it all.                                     *)
(***************************************************************************)
LEMMA InvSilence == Inv => SilenceJustified
<1> SUFFICES ASSUME Inv, NEW n \in Nodes, NEW p \in Nodes, ~HasNews(n, p),
                    NEW k \in Keys, NEW s \in Signs, NEW i \in Nodes
             PROVE  store[n][k][s][i] <= store[p][k][s][i]
  BY DEF SilenceJustified, PNLessOrEqual, GLessOrEqual
<1>1. ack[n][p] \in Nat /\ Len(delta[n]) \in Nat /\ DOMAIN delta[n] = 1 .. Len(delta[n])
  BY LogEntries DEF Inv, TypeOK
<1>2. ack[n][p] > 0 /\ ~(ack[n][p] < Len(delta[n]) + 1)
  BY <1>1 DEF HasNews, counterSeq
<1>3. Covered(n, p, ack[n][p], k, s, i)
  BY <1>2 DEF Inv, SafeToSkip
<1>4. ~Remembered(n, ack[n][p], k, s, i)
  BY <1>1, <1>2 DEF Remembered
<1> QED BY <1>3, <1>4 DEF Covered

(***************************************************************************)
(* If silence is justified, a silent and fully connected cluster agrees:   *)
(* each store is below each other one.                                     *)
(***************************************************************************)
LEMMA SilenceConverges == TypeOK /\ SilenceJustified => QuietConverged
<1> SUFFICES ASSUME TypeOK, SilenceJustified, Quiet, FullMembership,
                    NEW n \in Nodes, NEW p \in Nodes
             PROVE  store[n] = store[p]
  BY DEF QuietConverged, Converged
<1>1. CASE n = p
  BY <1>1
<1>2. CASE n # p
  <2>1. p \in peers[n] /\ n \in peers[p]
    BY <1>2 DEF FullMembership
  <2>2. ~HasNews(n, p) /\ ~HasNews(p, n)
    BY <2>1 DEF Quiet
  <2>3. ASSUME NEW k \in Keys, NEW s \in Signs, NEW i \in Nodes
        PROVE  store[n][k][s][i] = store[p][k][s][i]
    <3>1. store[n][k][s][i] \in Nat /\ store[p][k][s][i] \in Nat
      BY StoreEntries DEF TypeOK
    <3>2. store[n][k][s][i] <= store[p][k][s][i] /\ store[p][k][s][i] <= store[n][k][s][i]
      BY <2>2 DEF SilenceJustified, PNLessOrEqual, GLessOrEqual
    <3> QED BY <3>1, <3>2
  <2>4. ASSUME NEW k \in Keys, NEW s \in Signs
        PROVE  store[n][k][s] = store[p][k][s]
    <3>1. store[n][k][s] \in [Nodes -> Uint] /\ store[p][k][s] \in [Nodes -> Uint]
      BY DEF TypeOK, Stores, PNCounter, GCounter
    <3> QED BY <3>1, <2>3
  <2>5. ASSUME NEW k \in Keys
        PROVE  store[n][k] = store[p][k]
    <3>1. store[n][k] \in [Signs -> GCounter] /\ store[p][k] \in [Signs -> GCounter]
      BY DEF TypeOK, Stores, PNCounter
    <3> QED BY <3>1, <2>4
  <2>6. store[n] \in [Keys -> PNCounter] /\ store[p] \in [Keys -> PNCounter]
    BY DEF TypeOK, Stores
  <2> QED BY <2>5, <2>6
<1> QED BY <1>1, <1>2

(***************************************************************************)
(* NothingIsForgotten: the deltas below the sequence number a peer         *)
(* acknowledged may be skipped without losing anything: the peer knows it  *)
(* or a later delta has it.                                                *)
(***************************************************************************)
THEOREM NothingIsForgotten == Spec => []NothingForgotten
BY Invariance, InvCovers, PTL

(***************************************************************************)
(* DeltasMergeCausally: merging what Store.Delta sends has the effect of   *)
(* merging the whole store it was computed from, whenever it arrives.      *)
(***************************************************************************)
THEOREM DeltasMergeCausally == Spec => []CausalDeltaMerging
BY Invariance, InvMerges, PTL

(***************************************************************************)
(* SilenceIsJustified: if Store.Delta has nothing to send to a peer, the   *)
(* peer knows everything the node knows.                                   *)
(***************************************************************************)
THEOREM SilenceIsJustified == Spec => []SilenceJustified
BY Invariance, InvSilence, PTL

(***************************************************************************)
(* SilentClusterConverged: a fully connected cluster whose gossip loops    *)
(* have nothing left to send has converged.                                *)
(***************************************************************************)
THEOREM SilentClusterConverged == Spec => []QuietConverged
<1>1. Inv => QuietConverged
  BY InvSilence, SilenceConverges DEF Inv
<1> QED BY <1>1, Invariance, PTL

(***************************************************************************)
(* No replica overtakes a node on the node's own increments, and those are *)
(* exactly what clients asked of it until the integer is exhausted.        *)
(***************************************************************************)
THEOREM OwnEntriesExact == Spec => [](OwnSlotDominates /\ IncrementsExact)
<1>1. Inv => OwnSlotDominates /\ IncrementsExact
  BY DEF Inv
<1> QED BY <1>1, Invariance, PTL

(***************************************************************************)
(* OwnSlotsDominate: no replica holds more of a node's increments or       *)
(* decrements than the node itself, although GCounter.Merge treats a       *)
(* node's own entry like any other and integers wrap.                      *)
(***************************************************************************)
THEOREM OwnSlotsDominate == Spec => []OwnSlotDominates
BY OwnEntriesExact, PTL

-----------------------------------------------------------------------------
(***************************************************************************)
(* Induction over the natural numbers, for a set instead of a predicate:   *)
(* the least number outside it cannot exist.                               *)
(***************************************************************************)
LEMMA SetInduction ==
  ASSUME NEW S, 0 \in S, \A i \in Nat : i \in S => i + 1 \in S
  PROVE  \A i \in Nat : i \in S
<1> DEFINE T == {i \in Nat : i \notin S}
           R == {ss \in Nat \X Nat : ss[1] < ss[2]}
<1>1. SUFFICES ASSUME T # {} PROVE FALSE
  OBVIOUS
<1>2. IsWellFoundedOn(R, Nat)
  BY NatLessThanWellFounded DEF OpToRel
<1>3. PICK t \in T : \A u \in T : ~(<<u, t>> \in R)
  <2>1. T \subseteq Nat
    OBVIOUS
  <2> HIDE DEF T, R
  <2> QED BY <1>1, <1>2, <2>1, WFMin, Zenon
<1>4. t \in Nat /\ t # 0 /\ t - 1 \in Nat /\ t - 1 \notin T
  <2>1. t \in Nat /\ t # 0 /\ t - 1 \in Nat
    BY <1>3
  <2>2. <<t - 1, t>> \in R
    BY <2>1
  <2> QED BY <2>1, <2>2, <1>3
<1>5. (t - 1) + 1 \in S
  BY <1>4
<1> QED BY <1>3, <1>4, <1>5

(***************************************************************************)
(* GCounter.Value sums the entries of all nodes.  SumFunction is defined   *)
(* by a recursion over sets, of which one more member is picked each time. *)
(***************************************************************************)
Pick(s) == CHOOSE x \in s : TRUE

SumStep(fun, s, f) == IF s = {} THEN 0 ELSE fun[Pick(s)] + f[s \ {Pick(s)}]

Small(D, d) == {s \in SUBSET D : Cardinality(s) <= d}

SumsOn(fun, d, g) ==
  /\ g \in [Small(DOMAIN fun, d) -> Int]
  /\ \A s \in Small(DOMAIN fun, d) : g[s] = SumStep(fun, s, g)

(***************************************************************************)
(* What is picked from a non-empty set makes it smaller.                   *)
(***************************************************************************)
LEMMA PickSmaller ==
  ASSUME NEW D, IsFiniteSet(D), NEW d \in Nat, NEW s \in Small(D, d + 1), s # {}
  PROVE  Pick(s) \in D /\ s \ {Pick(s)} \in Small(D, d)
<1>1. s \in SUBSET D /\ IsFiniteSet(s) /\ Pick(s) \in s
  BY FS_Subset DEF Small, Pick
<1>2. IsFiniteSet(s \ {Pick(s)}) /\ Cardinality(s \ {Pick(s)}) = Cardinality(s) - 1
  BY <1>1, FS_RemoveElement
<1>3. Cardinality(s) \in Nat /\ Cardinality(s) <= d + 1
  BY <1>1, FS_CardinalityType DEF Small
<1>4. Cardinality(s \ {Pick(s)}) <= d
  BY <1>2, <1>3
<1> QED BY <1>1, <1>4 DEF Small

(***************************************************************************)
(* The recursion behind SumFunction has a solution, of integers.           *)
(***************************************************************************)
LEMMA SumsExist ==
  ASSUME NEW fun, IsFiniteSet(DOMAIN fun), \A x \in DOMAIN fun : fun[x] \in Int
  PROVE  \A d \in Nat : \E g : SumsOn(fun, d, g)
<1> DEFINE D == DOMAIN fun
           S == {d \in Nat : \E g : SumsOn(fun, d, g)}
<1>1. 0 \in S
  <2> DEFINE g == [s \in Small(D, 0) |-> 0]
  <2>1. ASSUME NEW s \in Small(D, 0) PROVE s = {}
    <3>1. IsFiniteSet(s) /\ Cardinality(s) <= 0
      BY FS_Subset DEF Small
    <3> QED BY <3>1, FS_CardinalityType, FS_EmptySet
  <2>2. SumsOn(fun, 0, g)
    BY <2>1 DEF SumsOn, SumStep
  <2> HIDE DEF g
  <2> QED BY <2>2
<1>2. ASSUME NEW d \in Nat, d \in S PROVE d + 1 \in S
  <2>1. PICK g : SumsOn(fun, d, g)
    BY <1>2
  <2> DEFINE h == [s \in Small(D, d + 1) |-> IF s \in Small(D, d) THEN g[s] ELSE SumStep(fun, s, g)]
  <2>2. ASSUME NEW s \in Small(D, d + 1)
        PROVE  h[s] = SumStep(fun, s, g) /\ h[s] = SumStep(fun, s, h) /\ h[s] \in Int
    <3>1. h[s] = SumStep(fun, s, g)
      BY <2>1 DEF SumsOn
    <3>2. CASE s = {}
      BY <3>1, <3>2 DEF SumStep
    <3>3. CASE s # {}
      <4>1. Pick(s) \in D /\ s \ {Pick(s)} \in Small(D, d)
        BY <3>3, PickSmaller
      <4>2. s \ {Pick(s)} \in Small(D, d + 1)
        <5>1. s \ {Pick(s)} \in SUBSET D /\ Cardinality(s \ {Pick(s)}) <= d
          BY <4>1 DEF Small
        <5>2. Cardinality(s \ {Pick(s)}) \in Nat
          BY <5>1, FS_Subset, FS_CardinalityType
        <5>3. Cardinality(s \ {Pick(s)}) <= d + 1
          BY <5>1, <5>2
        <5> QED BY <5>1, <5>3 DEF Small
      <4>3. h[s \ {Pick(s)}] = g[s \ {Pick(s)}] /\ g[s \ {Pick(s)}] \in Int /\ fun[Pick(s)] \in Int
        BY <2>1, <4>1, <4>2 DEF SumsOn
      <4> HIDE DEF h
      <4> QED BY <3>1, <3>3, <4>3 DEF SumStep
    <3> QED BY <3>1, <3>2, <3>3
  <2>3. h \in [Small(D, d + 1) -> Int]
    <3>1. h = [s \in Small(D, d + 1) |-> h[s]]
      OBVIOUS
    <3> HIDE DEF h
    <3> QED BY <2>2, <3>1
  <2> HIDE DEF h
  <2>4. SumsOn(fun, d + 1, h)
    BY <2>2, <2>3 DEF SumsOn
  <2> QED BY <2>4
<1>3. \A d \in Nat : d \in S
  <2> HIDE DEF S
  <2> QED BY <1>1, <1>2, SetInduction
<1> QED BY <1>3

(***************************************************************************)
(* SumFunction takes the value of a solution.                              *)
(***************************************************************************)
LEMMA SumUnfolds ==
  ASSUME NEW fun, NEW f, f = CHOOSE g : g = [s \in SUBSET DOMAIN fun |-> SumStep(fun, s, g)]
  PROVE  SumFunction(fun) = f[DOMAIN fun]
BY DEF SumFunction, SumFunctionOnSet, FoldFunctionOnSet, MapThenFoldSet, SumStep, Pick

(***************************************************************************)
(* So a sum of integers is an integer.                                     *)
(***************************************************************************)
LEMMA SumIsInt ==
  ASSUME NEW fun, IsFiniteSet(DOMAIN fun), \A x \in DOMAIN fun : fun[x] \in Int
  PROVE  SumFunction(fun) \in Int
<1> DEFINE D == DOMAIN fun
<1>1. PICK f : f = CHOOSE g : g = [s \in SUBSET D |-> SumStep(fun, s, g)]
  OBVIOUS
<1>2. Cardinality(D) \in Nat /\ Small(D, Cardinality(D)) = SUBSET D
  BY FS_Subset, FS_CardinalityType DEF Small
<1>3. \E g : g = [s \in SUBSET D |-> SumStep(fun, s, g)]
  <2>1. PICK g : SumsOn(fun, Cardinality(D), g)
    BY <1>2, SumsExist
  <2>2. g = [s \in SUBSET D |-> SumStep(fun, s, g)]
    BY <1>2, <2>1 DEF SumsOn
  <2> QED BY <2>2
<1>4. f = [s \in SUBSET D |-> SumStep(fun, s, f)]
  BY ONLY <1>1, <1>3
<1>5. \A s \in SUBSET D : f[s] = SumStep(fun, s, f)
  BY <1>4
<1> DEFINE S == {d \in Nat : \A s \in Small(D, d) : f[s] \in Int}
<1>6. 0 \in S
  <2> SUFFICES ASSUME NEW s \in Small(D, 0) PROVE f[s] \in Int
    OBVIOUS
  <2>1. IsFiniteSet(s) /\ Cardinality(s) <= 0 /\ s \in SUBSET D
    BY FS_Subset DEF Small
  <2>2. s = {}
    BY <2>1, FS_CardinalityType, FS_EmptySet
  <2>3. f[s] = SumStep(fun, s, f)
    BY <1>5, <2>1
  <2>4. SumStep(fun, s, f) = 0
    BY ONLY <2>2 DEF SumStep
  <2> QED BY ONLY <2>3, <2>4
<1>7. ASSUME NEW d \in Nat, d \in S PROVE d + 1 \in S
  <2> SUFFICES ASSUME NEW s \in Small(D, d + 1) PROVE f[s] \in Int
    OBVIOUS
  <2>1. s \in SUBSET D
    BY DEF Small
  <2>2. CASE s = {}
    BY <1>5, <2>1, <2>2 DEF SumStep
  <2>3. CASE s # {}
    <3>1. Pick(s) \in D /\ s \ {Pick(s)} \in Small(D, d)
      BY <2>3, PickSmaller
    <3>2. fun[Pick(s)] \in Int /\ f[s \ {Pick(s)}] \in Int
      BY <1>7, <3>1
    <3> QED BY <1>5, <2>1, <2>3, <3>2 DEF SumStep
  <2> QED BY <2>2, <2>3
<1>8. \A d \in Nat : d \in S
  <2> HIDE DEF S
  <2> QED BY <1>6, <1>7, SetInduction
<1>9. D \in Small(D, Cardinality(D))
  BY <1>2
<1>10. f[D] \in Int
  BY <1>2, <1>8, <1>9
<1> QED BY <1>1, <1>10, SumUnfolds

-----------------------------------------------------------------------------
(***************************************************************************)
(* Division with remainder.                                                *)
(***************************************************************************)
LEMMA Remainder ==
  ASSUME NEW x \in Int, NEW m \in Nat \ {0}
  PROVE  \E q \in Int : x = m * q + (x % m) /\ x % m \in 0 .. (m - 1)
<1>1. x \div m \in Int /\ x = m * (x \div m) + (x % m)
  OBVIOUS
<1>2. x % m \in 0 .. (m - 1)
  OBVIOUS
<1> QED BY <1>1, <1>2

(***************************************************************************)
(* A multiple of m that is nearer to 0 than m is 0.                        *)
(***************************************************************************)
LEMMA SmallMultiple ==
  ASSUME NEW m \in Nat \ {0}, NEW q \in Int, -m < m * q, m * q < m
  PROVE  q = 0
<1>1. CASE q >= 1
  <2>1. m * q >= m * 1
    BY <1>1
  <2> QED BY <2>1
<1>2. CASE q <= -1
  <2>1. m * q <= m * (-1)
    BY <1>2
  <2> QED BY <2>1
<1> QED BY <1>1, <1>2

(***************************************************************************)
(* Signed changes a number by a multiple of the width ...                  *)
(***************************************************************************)
LEMMA SignedShifts ==
  ASSUME NEW x \in Int
  PROVE  \E q \in Int : Signed(x) = x + (MaxUint + 1) * q
<1>1. PICK m \in Nat \ {0} : m = MaxUint + 1
  BY MaxUintAssumption
<1>2. PICK q \in Int : x = m * q + (x % m) /\ x % m \in 0 .. (m - 1)
  BY Remainder
<1>3. PICK r \in Int : r = x % m
  BY <1>2
<1>4. Signed(x) = r \/ Signed(x) = r - m
  BY <1>1, <1>3 DEF Signed
<1>5. m * (-q) = -(m * q) /\ m * (-q - 1) = -(m * q) - m
  OBVIOUS
<1>6. r = x + m * (-q) /\ r - m = x + m * (-q - 1)
  BY <1>2, <1>3, <1>5
<1> QED BY <1>1, <1>4, <1>6

(***************************************************************************)
(* ... and so finds the number of the signed range it was shifted from.    *)
(***************************************************************************)
LEMMA SignedFinds ==
  ASSUME NEW y \in -((MaxUint + 1) \div 2) .. MaxUint \div 2, NEW q \in Int
  PROVE  Signed(y + (MaxUint + 1) * q) = y
<1>1. PICK m \in Nat \ {0}, h \in Nat : /\ m = MaxUint + 1 /\ h = MaxUint \div 2
                                        /\ 2 * h <= m - 1 /\ m - 1 <= 2 * h + 1
                                        /\ y <= h /\ h < y + m /\ y \in Int
  BY MaxUintAssumption
<1>2. PICK x \in Int : x = y + m * q
  OBVIOUS
<1>3. PICK p \in Int : x = m * p + (x % m) /\ x % m \in 0 .. (m - 1)
  BY Remainder
<1>4. PICK r \in 0 .. (m - 1) : r = x % m
  BY <1>3
<1>5. Signed(x) = IF r <= h THEN r ELSE r - m
  BY <1>1, <1>4 DEF Signed
<1>6. m * (p - q) = m * p - m * q /\ m * (p - q + 1) = m * p - m * q + m
  OBVIOUS
<1>7. y - r = m * (p - q)
  <2>1. PICK a \in Int, b \in Int : a = m * p /\ b = m * q
    OBVIOUS
  <2>2. x = y + b /\ x = a + r /\ m * (p - q) = a - b
    BY <1>2, <1>3, <1>4, <1>6, <2>1
  <2> QED BY ONLY <2>2, <1>1, <1>4, x \in Int, a \in Int, b \in Int
<1>8. CASE y >= 0
  <2>1. p - q = 0
    BY <1>1, <1>4, <1>7, <1>8, SmallMultiple
  <2> QED BY <1>1, <1>2, <1>4, <1>5, <1>7, <2>1
<1>9. CASE y < 0
  <2>1. y + m - r = m * (p - q + 1)
    BY <1>6, <1>7
  <2>2. p - q + 1 = 0
    BY <1>1, <1>4, <1>9, <2>1, SmallMultiple
  <2>3. r = y + m
    BY <2>1, <2>2, <1>1, <1>4
  <2> QED BY <1>1, <1>2, <1>4, <1>5, <1>9, <2>3
<1> QED BY <1>1, <1>8, <1>9

(***************************************************************************)
(* Reading a sum of any size as a signed integer changes it by a multiple  *)
(* of the width.                                                           *)
(***************************************************************************)
LEMMA WrappedSum ==
  ASSUME NEW a \in Int
  PROVE  \E q \in Int : Signed(a % (MaxUint + 1)) = a + (MaxUint + 1) * q
<1>1. PICK m \in Nat \ {0} : m = MaxUint + 1
  BY MaxUintAssumption
<1>2. PICK p \in Int : a = m * p + (a % m) /\ a % m \in 0 .. (m - 1)
  BY Remainder
<1>3. PICK r \in Int : r = a % m
  BY <1>2
<1>4. PICK q \in Int : Signed(r) = r + m * q
  BY <1>1, SignedShifts
<1>5. PICK x \in Int, y \in Int : x = m * p /\ y = m * q /\ m * (q - p) = y - x
  OBVIOUS
<1>6. Signed(r) = r + y /\ a = x + r
  BY <1>2, <1>3, <1>4, <1>5
<1>7. Signed(r) = a + (y - x)
  BY ONLY <1>6, r \in Int, x \in Int, y \in Int
<1>8. q - p \in Int /\ Signed(a % (MaxUint + 1)) = a + (MaxUint + 1) * (q - p)
  BY <1>1, <1>3, <1>5, <1>7
<1> QED BY <1>8

(***************************************************************************)
(* So PNCounter.Value gives the difference of the two sums whenever the    *)
(* difference fits, even if the sums do not.                               *)
(***************************************************************************)
LEMMA ValueIsDifference ==
  ASSUME NEW a \in Int, NEW b \in Int,
         a - b \in -((MaxUint + 1) \div 2) .. MaxUint \div 2
  PROVE  Signed(Signed(a % (MaxUint + 1)) - Signed(b % (MaxUint + 1))) = a - b
<1>1. PICK m \in Nat : m = MaxUint + 1
  BY MaxUintAssumption
<1>2. PICK p \in Int : Signed(a % (MaxUint + 1)) = a + m * p
  BY <1>1, WrappedSum
<1>3. PICK q \in Int : Signed(b % (MaxUint + 1)) = b + m * q
  BY <1>1, WrappedSum
<1>4. PICK x \in Int, y \in Int : x = m * p /\ y = m * q /\ m * (p - q) = x - y
  OBVIOUS
<1>5. (a + x) - (b + y) = (a - b) + (x - y)
  OBVIOUS
<1>6. (a + m * p) - (b + m * q) = (a - b) + m * (p - q)
  BY <1>4, <1>5
<1>7. Signed((a - b) + (MaxUint + 1) * (p - q)) = a - b
  BY SignedFinds
<1> QED BY <1>1, <1>2, <1>3, <1>6, <1>7

(***************************************************************************)
(* When all replicas are equal and own entries exact, each replica holds   *)
(* exactly what clients had the nodes add.                                 *)
(***************************************************************************)
LEMMA InvQuietValues == Inv => QuietValues
<1> SUFFICES ASSUME Inv, Quiet, FullMembership, NEW n \in Nodes, NEW k \in Keys,
                    \A i \in Nodes, s \in Signs : issued[i][k][s] <= MaxUint,
                    IssuedTo(k, "inc") - IssuedTo(k, "dec")
                      \in -((MaxUint + 1) \div 2) .. MaxUint \div 2
             PROVE  PNValue(store[n][k]) = IssuedTo(k, "inc") - IssuedTo(k, "dec")
  BY DEF QuietValues
<1>1. \A i \in Nodes : store[n] = store[i]
  BY InvSilence, SilenceConverges DEF Inv, QuietConverged, Converged
<1>2. ASSUME NEW s \in Signs
      PROVE  /\ GValue(store[n][k][s]) = IssuedTo(k, s) % (MaxUint + 1)
             /\ IssuedTo(k, s) \in Int
  <2> DEFINE g == [i \in Nodes |-> issued[i][k][s]]
  <2>1. \A i \in Nodes : issued[i][k][s] \in Nat
    BY DEF Inv, TypeOK
  <2>2. \A i \in Nodes : store[i][k][s][i] = issued[i][k][s]
    BY DEF Inv, IncrementsExact
  <2>3. store[n][k][s] \in [Nodes -> Uint]
    BY DEF Inv, TypeOK, Stores, PNCounter, GCounter
  <2>4. \A i \in Nodes : store[n][k][s][i] = issued[i][k][s]
    BY <1>1, <2>2
  <2>5. store[n][k][s] = g
    BY <2>3, <2>4
  <2>6. DOMAIN g = Nodes /\ \A i \in Nodes : g[i] \in Int
    BY <2>1
  <2>7. IssuedTo(k, s) = SumFunction(g)
    BY DEF IssuedTo
  <2> HIDE DEF g
  <2>8. SumFunction(g) \in Int
    BY <2>6, SumIsInt, NodesAssumption
  <2> QED BY <2>5, <2>7, <2>8 DEF GValue
<1>3. PICK a \in Int, b \in Int :
        /\ a = IssuedTo(k, "inc") /\ GValue(store[n][k]["inc"]) = a % (MaxUint + 1)
        /\ b = IssuedTo(k, "dec") /\ GValue(store[n][k]["dec"]) = b % (MaxUint + 1)
  BY <1>2 DEF Signs
<1>4. Signed(Signed(a % (MaxUint + 1)) - Signed(b % (MaxUint + 1))) = a - b
  BY <1>3, ValueIsDifference
<1> QED BY <1>3, <1>4 DEF PNValue

(***************************************************************************)
(* QuietCountersExact: in a silent, fully connected cluster GetCounter     *)
(* reports, at every node, what was added less what was subtracted in the  *)
(* whole cluster, as long as each node's amounts fit the unsigned integer  *)
(* and the difference the signed one.                                      *)
(***************************************************************************)
THEOREM QuietCountersExact == Spec => []QuietValues
BY Invariance, InvQuietValues, PTL

-----------------------------------------------------------------------------
(***************************************************************************)
(* Delta-interval gossip implements state-based gossip, step by step.      *)
(***************************************************************************)
LEMMA RefinesInit == Init => SB!Init
BY DEF Init, GossipInit, EmptyStore, SB!Init
Flight == {[src |-> m.src, dst |-> m.dst, state |-> m.snap] : m \in gossip}

(***************************************************************************)
(* Every step of the delta gossip is a step of state-based gossip or a     *)
(* stutter.                                                                *)
(***************************************************************************)
LEMMA RefinesStep ==
  ASSUME Inv, [Next]_vars
  PROVE  [SB!Next]_<<store, Flight>>
<1>1. CASE ClientWrite
  <2>1. PICK n \in Nodes, k \in Keys, v \in Amounts :
          IncrementCounter(n, k, v) \/ DecrementCounter(n, k, v)
    BY <1>1 DEF ClientWrite
  <2>2. PICK s \in Signs : Write(n, k, s, v)
    BY <2>1 DEF IncrementCounter, DecrementCounter, Signs
  <2>3. store' = [store EXCEPT ![n][k] = PNMerge(store[n][k], PNAdd(store[n][k], n, s, v))]
    BY <2>2 DEF Write
  <2>4. PNAdd(store[n][k], n, s, v) \in CounterUpdates(n, store[n][k])
    BY DEF CounterUpdates
  <2>5. CASE store' = store
    BY <2>2, <2>5 DEF Write, gossipVars, Flight
  <2>6. CASE store' # store
    <3>1. SB!Write(n, k)
      BY <2>2, <2>3, <2>4, <2>6 DEF Write, gossipVars, SB!Write
    <3> QED BY <3>1 DEF SB!Next
  <2> QED BY <2>5, <2>6
<1>2. ASSUME NEW n \in Nodes, NEW p \in Nodes, StartGossip(n, p)
      PROVE  SB!Next
  <2>1. PICK w : /\ w.src = n /\ w.dst = p /\ w.snap = store[n]
                 /\ gossip' = gossip \cup {w}
    <3>1. PICK w : w = [src |-> n, dst |-> p, seq |-> counterSeq(n),
                        counters |-> Delta(n, p), snap |-> store[n]]
      OBVIOUS
    <3>2. gossip' = gossip \cup {w}
      BY <1>2, <3>1 DEF StartGossip, SendGossip
    <3> QED BY <3>1, <3>2
  <2>2. Flight' = Flight \cup {[src |-> n, dst |-> p, state |-> store[n]]}
    BY <2>1 DEF Flight
  <2>3. SB!Send(n, p)
    BY <1>2, <2>2 DEF StartGossip, SB!Send, Flight
  <2> QED BY <2>3 DEF SB!Next
<1>3. ASSUME NEW m \in gossip, PostGossip(m)
      PROVE  SB!Next
  <2> DEFINE f == [src |-> m.src, dst |-> m.dst, state |-> m.snap]
  <2>1. f \in Flight
    BY DEF Flight
  <2>2. TypeOK /\ DeltasKnown /\ m.dst \in Nodes
    BY DEF Inv, TypeOK, Messages
  <2>3. ASSUME NEW k \in Keys
        PROVE  store'[m.dst][k] = PNMerge(store[m.dst][k], m.snap[k])
    <3>1. store'[m.dst][k] = PNMerge(store[m.dst][k], m.counters[k])
      BY <1>3, <2>2, PostGossipGrows
    <3>2. PNMerge(store[m.dst][k], m.counters[k]) = PNMerge(store[m.dst][k], m.snap[k])
      BY InvMerges DEF CausalDeltaMerging
    <3> QED BY <3>1, <3>2
  <2>4. store' = [store EXCEPT ![m.dst] = [k \in Keys |-> PNMerge(store[m.dst][k], m.snap[k])]]
    <3>1. store' = [store EXCEPT ![m.dst] = Merge(m.dst, m.counters, News(m))]
      BY <1>3 DEF PostGossip
    <3>2. Merge(m.dst, m.counters, News(m)) = [k \in Keys |-> store'[m.dst][k]]
      BY <3>1, <2>2 DEF Merge, TypeOK
    <3> QED BY <3>1, <3>2, <2>3
  <2>5. Flight' = Flight \/ Flight' = Flight \ {f}
    <3>1. gossip' = gossip \ {m}
      BY <1>3 DEF PostGossip, ReceiveGossip
    <3> QED BY <3>1 DEF Flight
  <2>6. SB!Receive(f)
    BY <2>4, <2>5 DEF SB!Receive, Flight
  <2> QED BY <2>1, <2>6 DEF SB!Next, Flight
<1>4. CASE Transport /\ UNCHANGED <<store, delta, issued>>
  <2>1. CASE gossip' = gossip
    BY <2>1, <1>4 DEF Flight
  <2>2. ASSUME NEW m \in gossip, gossip' = gossip \ {m}
        PROVE  [SB!Next]_<<store, Flight>>
    <3> DEFINE f == [src |-> m.src, dst |-> m.dst, state |-> m.snap]
    <3>1. f \in Flight
      BY DEF Flight
    <3>2. Flight' = Flight \/ Flight' = Flight \ {f}
      BY <2>2 DEF Flight
    <3>3. CASE Flight' = Flight \ {f}
      <4>1. SB!Lose(f)
        BY <3>3, <1>4 DEF SB!Lose, Flight
      <4> QED BY <3>1, <4>1 DEF SB!Next, Flight
    <3> QED BY <3>2, <3>3, <1>4
  <2>3. gossip' = gossip \/ \E m \in gossip : gossip' = gossip \ {m}
    BY <1>4 DEF Transport, PostAck, DropAck, DropGossip, Membership, NotifyAlive, NotifyDead
  <2> QED BY <2>1, <2>2, <2>3
<1>5. CASE UNCHANGED vars
  BY <1>5 DEF vars, Flight
<1> QED BY <1>1, <1>2, <1>3, <1>4, <1>5 DEF Next

(***************************************************************************)
(* DeltaGossipIsStateBased: the README's claim that the protocol of        *)
(* Store.Delta and Store.Merge "is equivalent to a standard state-based    *)
(* CRDT", for every cluster.                                               *)
(***************************************************************************)
THEOREM DeltaGossipIsStateBased == Spec => ImplementsStateBased
<1>1. Inv /\ [Next]_vars => [SB!Next]_<<store, {[src |-> m.src, dst |-> m.dst, state |-> m.snap] : m \in gossip}>>
  BY RefinesStep DEF Flight
<1> QED BY <1>1, RefinesInit, Invariance, PTL DEF Spec, ImplementsStateBased, SB!Spec
=============================================================================
