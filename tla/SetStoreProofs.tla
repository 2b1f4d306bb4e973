-------------------------- MODULE SetStoreProofs ----------------------------
(***************************************************************************)
(* Machine-checked proofs about SetStore, for any finite set of nodes and  *)
(* keys, any elements, request bodies and bounds, and clients that stay at *)
(* one node each.                                                          *)
(***************************************************************************)
EXTENDS SetStore, ORSetProofs, FiniteSetTheorems, WellFoundedInduction

(***************************************************************************)
(* Induction over the natural numbers, for a set instead of a predicate:   *)
(* the least number outside it cannot exist.                               *)
(***************************************************************************)
LEMMA SetInduction ==
  ASSUME NEW S, 0 \in S, \A i \in Nat : i \in S => i + 1 \in S
  PROVE  \A i \in Nat : i \in S
<1> DEFINE T == {i \in Nat : i \notin S}
           R == {ss \in Nat \X Nat : ss[1] < ss[2]}
<1>1. SUFFICES ASSUME T # {} PROVE FALSE
  OBVIOUS
<1>2. IsWellFoundedOn(R, Nat)
  BY NatLessThanWellFounded DEF OpToRel
<1>3. PICK t \in T : \A u \in T : ~(<<u, t>> \in R)
  <2>1. T \subseteq Nat
    OBVIOUS
  <2> HIDE DEF T, R
  <2> QED BY <1>1, <1>2, <2>1, WFMin, Zenon
<1>4. t \in Nat /\ t # 0 /\ t - 1 \in Nat /\ t - 1 \notin T
  <2>1. t \in Nat /\ t # 0 /\ t - 1 \in Nat
    BY <1>3
  <2>2. <<t - 1, t>> \in R
    BY <2>1
  <2> QED BY <2>1, <2>2, <1>3
<1>5. (t - 1) + 1 \in S
  BY <1>4
<1> QED BY <1>3, <1>4, <1>5

-----------------------------------------------------------------------------
(***************************************************************************)
(* The loop of Store.Delta over the log.  The recursion in Joined has a    *)
(* solution for every length of the log.                                   *)
(***************************************************************************)
Step(log, a, k, i, e) ==
  IF i = a - 1 THEN NewORSet ELSE IF log[i].key = k THEN ORMerge(e, log[i].val) ELSE e

Loop(log, a, k, m, f) == f = [i \in (a - 1) .. m |-> Step(log, a, k, i, f[i - 1])]

(***************************************************************************)
(* By induction on the length of the log.                                  *)
(***************************************************************************)
LEMMA LoopExists ==
  ASSUME NEW log, NEW k, NEW a \in Nat \ {0}, NEW m \in Nat, a <= m + 1
  PROVE  \E f : Loop(log, a, k, m, f)
<1> DEFINE S == {d \in Nat : \E f : Loop(log, a, k, a - 1 + d, f)}
<1>1. 0 \in S
  <2> DEFINE f == [i \in (a - 1) .. (a - 1) |-> NewORSet]
  <2>1. Loop(log, a, k, a - 1, f)
    BY DEF Loop, Step
  <2>2. a - 1 + 0 = a - 1
    OBVIOUS
  <2> HIDE DEF f
  <2> QED BY <2>1, <2>2
<1>2. ASSUME NEW d \in Nat, d \in S
      PROVE  d + 1 \in S
  <2>1. PICK f : Loop(log, a, k, a - 1 + d, f)
    BY <1>2
  <2> DEFINE b == a + d
             g == [i \in (a - 1) .. b |-> IF i = b THEN Step(log, a, k, b, f[b - 1]) ELSE f[i]]
  <2>2. b \in Nat /\ a - 1 \in Nat /\ a - 1 <= b - 1 /\ b - 1 = a - 1 + d /\ a - 1 + (d + 1) = b
    OBVIOUS
  <2> HIDE DEF b
  <2>3. \A i \in (a - 1) .. (b - 1) : f[i] = Step(log, a, k, i, f[i - 1])
    BY <2>1, <2>2 DEF Loop
  <2>4. ASSUME NEW i \in (a - 1) .. b
        PROVE  g[i] = Step(log, a, k, i, g[i - 1])
    <3>1. CASE i = b
      <4>1. b - 1 \in (a - 1) .. b /\ b - 1 # b
        BY <2>2
      <4>2. g[i - 1] = f[b - 1]
        BY <3>1, <4>1
      <4> QED BY <3>1, <4>2
    <3>2. CASE i = a - 1 /\ i # b
      <4>1. i \in (a - 1) .. (b - 1)
        BY <3>2, <2>2
      <4>2. f[i] = NewORSet
        BY <4>1, <2>3, <3>2 DEF Step
      <4> QED BY <3>2, <4>2 DEF Step
    <3>3. CASE i # a - 1 /\ i # b
      <4>1. i \in (a - 1) .. (b - 1) /\ i - 1 \in (a - 1) .. b /\ i - 1 # b
        BY <3>3, <2>2
      <4>2. g[i] = f[i] /\ g[i - 1] = f[i - 1]
        BY <4>1, <3>3
      <4> QED BY <4>1, <4>2, <2>3
    <3> QED BY <3>1, <3>2, <3>3
  <2>5. Loop(log, a, k, b, g)
    <3>1. g = [i \in (a - 1) .. b |-> g[i]]
      OBVIOUS
    <3> HIDE DEF g
    <3> QED BY <2>4, <3>1 DEF Loop
  <2> HIDE DEF g
  <2> QED BY <2>2, <2>5
<1>3. \A d \in Nat : d \in S
  <2> HIDE DEF S
  <2> QED BY <1>1, <1>2, SetInduction
<1>4. m + 1 - a \in Nat /\ a - 1 + (m + 1 - a) = m
  OBVIOUS
<1> QED BY <1>3, <1>4

(***************************************************************************)
(* Joined takes the value of such a solution at the end of the log.        *)
(***************************************************************************)
LEMMA JoinedLoop ==
  ASSUME NEW log, NEW k, NEW a \in Nat \ {0}, Len(log) \in Nat, a <= Len(log) + 1
  PROVE  \E f : Loop(log, a, k, Len(log), f) /\ Joined(log, a, k) = f[Len(log)]
<1> DEFINE c == CHOOSE f : Loop(log, a, k, Len(log), f)
<1>1. Loop(log, a, k, Len(log), c)
  BY LoopExists
<1>2. Joined(log, a, k) = c[Len(log)]
  BY DEF Joined, Loop, Step
<1> HIDE DEF c
<1> QED BY <1>1, <1>2

(***************************************************************************)
(* What the loop finds: a closed set above the deltas of k in the interval *)
(* and below whatever all deltas of k are below.                           *)
(***************************************************************************)
JoinOf(log, a, k, m, H, top, g) ==
  /\ g \in ORSets /\ Closed(g, H) /\ ORLessOrEqual(g, top)
  /\ \A j \in a .. m : log[j].key = k => ORLessOrEqual(log[j].val, g)

(***************************************************************************)
(* By induction on how far the loop has come.                              *)
(***************************************************************************)
LEMMA JoinedJoin ==
  ASSUME NEW log \in Seq(Deltas), NEW k, NEW a \in Nat \ {0}, a <= Len(log) + 1,
         NEW H \in SUBSET Operations, NEW top \in ORSets,
         \A j \in DOMAIN log : log[j].key = k =>
           Closed(log[j].val, H) /\ ORLessOrEqual(log[j].val, top)
  PROVE  JoinOf(log, a, k, Len(log), H, top, Joined(log, a, k))
<1>1. PICK f : Loop(log, a, k, Len(log), f) /\ Joined(log, a, k) = f[Len(log)]
  BY JoinedLoop
<1>2. PICK len \in Nat : len = Len(log)
  OBVIOUS
<1>3. \A i \in (a - 1) .. len : f[i] = Step(log, a, k, i, f[i - 1])
  BY <1>1, <1>2 DEF Loop
<1>4. \A i \in 1 .. len : i \in DOMAIN log /\ log[i].val \in ORSets
  <2>1. \A i \in 1 .. len : i \in DOMAIN log /\ log[i] \in Deltas
    BY <1>2
  <2> QED BY <2>1 DEF Deltas
<1> DEFINE S == {d \in Nat : a - 1 + d <= len => JoinOf(log, a, k, a - 1 + d, H, top, f[a - 1 + d])}
<1>5. 0 \in S
  <2>1. a - 1 \in (a - 1) .. len /\ a - 1 + 0 = a - 1
    BY <1>2
  <2>2. f[a - 1] = NewORSet
    BY <2>1, <1>3 DEF Step
  <2>3. NewORSet \in ORSets /\ Closed(NewORSet, H) /\ ORLessOrEqual(NewORSet, top)
    BY ClosedNew, BelowOrder
  <2>4. JoinOf(log, a, k, a - 1, H, top, f[a - 1])
    BY <2>2, <2>3 DEF JoinOf
  <2> QED BY <2>1, <2>4
<1>6. ASSUME NEW d \in Nat, d \in S
      PROVE  d + 1 \in S
  <2>1. PICK b \in Nat \ {0} : b = a + d
    OBVIOUS
  <2>2. a - 1 + d = b - 1 /\ a - 1 + (d + 1) = b /\ a <= b
    BY <2>1
  <2>3. SUFFICES ASSUME b <= len PROVE JoinOf(log, a, k, b, H, top, f[b])
    BY <2>2
  <2>4. PICK g \in ORSets : g = f[b - 1] /\ JoinOf(log, a, k, b - 1, H, top, g)
    <3>1. JoinOf(log, a, k, b - 1, H, top, f[b - 1])
      BY <1>6, <2>2, <2>3
    <3> QED BY <3>1 DEF JoinOf
  <2>5. f[b] = Step(log, a, k, b, g) /\ b # a - 1
    BY <1>3, <2>2, <2>3, <2>4
  <2>6. \A i \in a .. b : i \in 1 .. len /\ (i = b \/ i \in a .. (b - 1))
    BY <2>2, <2>3
  <2>7. CASE log[b].key # k
    <3>1. f[b] = g
      BY <2>5, <2>7 DEF Step
    <3> QED BY <3>1, <2>4, <2>6, <2>7 DEF JoinOf
  <2>8. CASE log[b].key = k
    <3>1. f[b] = ORMerge(g, log[b].val)
      BY <2>5, <2>8 DEF Step
    <3>2. PICK v \in ORSets : v = log[b].val /\ Closed(v, H) /\ ORLessOrEqual(v, top)
      <4>1. b \in 1 .. len
        BY <2>3
      <4> QED BY <1>4, <2>8, <4>1
    <3>3. Closed(g, H) /\ ORLessOrEqual(g, top)
      BY <2>4 DEF JoinOf
    <3>4. PICK h \in ORSets :
            /\ h = ORMerge(g, v) /\ Closed(h, H) /\ ORLessOrEqual(g, h) /\ ORLessOrEqual(v, h)
            /\ ORLessOrEqual(h, top)
      BY <3>2, <3>3, MergeLeast
    <3>5. ASSUME NEW j \in a .. b, log[j].key = k
          PROVE  ORLessOrEqual(log[j].val, h)
      <4>1. CASE j = b
        BY <3>2, <3>4, <4>1
      <4>2. CASE j \in a .. (b - 1)
        <5>1. ORLessOrEqual(log[j].val, g) /\ log[j].val \in ORSets
          BY <1>4, <2>4, <2>6, <3>5, <4>2 DEF JoinOf
        <5> QED BY <3>4, <5>1, BelowOrder
      <4> QED BY <2>6, <4>1, <4>2
    <3>6. f[b] = h
      BY <3>1, <3>2, <3>4
    <3> QED BY <3>4, <3>5, <3>6 DEF JoinOf
  <2> QED BY <2>7, <2>8
<1>7. \A d \in Nat : d \in S
  <2> HIDE DEF S
  <2> QED BY <1>5, <1>6, SetInduction
<1>8. PICK d \in Nat : a - 1 + d = len
  <2>1. len + 1 - a \in Nat /\ a - 1 + (len + 1 - a) = len
    BY <1>2
  <2> QED BY <2>1
<1>9. JoinOf(log, a, k, len, H, top, f[len])
  <2>1. a - 1 + d <= len => JoinOf(log, a, k, a - 1 + d, H, top, f[a - 1 + d])
    BY <1>7
  <2>2. len <= len
    BY <1>2
  <2> HIDE DEF S
  <2> QED BY <1>8, <2>1, <2>2
<1> QED BY <1>1, <1>2, <1>9

-----------------------------------------------------------------------------
(***************************************************************************)
(* The types of what stores hold ...                                       *)
(***************************************************************************)
LEMMA StoreTypes ==
  ASSUME NEW st \in [Nodes -> Stores], NEW n \in Nodes, NEW k \in Keys
  PROVE  /\ st[n][k] \in ORSets
         /\ \A e \in Elements, i \in Nodes : st[n][k][e][i].counter \in Nat
<1>1. st[n][k] \in ORSets
  BY DEF Stores
<1> QED BY <1>1, SetEntries

(***************************************************************************)
(* ... of the deltas in a log ...                                          *)
(***************************************************************************)
LEMMA LogTypes ==
  ASSUME NEW lg \in [Nodes -> Seq(Deltas)], NEW n \in Nodes
  PROVE  /\ Len(lg[n]) \in Nat
         /\ DOMAIN lg[n] = 1 .. Len(lg[n])
         /\ \A j \in 1 .. Len(lg[n]) : lg[n][j].key \in Keys /\ lg[n][j].val \in ORSets
<1>1. Len(lg[n]) \in Nat /\ DOMAIN lg[n] = 1 .. Len(lg[n])
  OBVIOUS
<1>2. \A j \in 1 .. Len(lg[n]) : lg[n][j] \in Deltas
  OBVIOUS
<1> QED BY <1>1, <1>2 DEF Deltas

(***************************************************************************)
(* ... of a message in flight ...                                          *)
(***************************************************************************)
LEMMA MessageTypes ==
  ASSUME TypeOK, NEW m \in gossip
  PROVE  /\ m.src \in Nodes /\ m.dst \in Nodes /\ m.seq \in Nat
         /\ m.sets \in Stores /\ m.snap \in Stores
         /\ \A k \in Keys : m.sets[k] \in ORSets /\ m.snap[k] \in ORSets
BY DEF TypeOK, Messages, Stores

(***************************************************************************)
(* ... and of a request under way.                                         *)
(***************************************************************************)
LEMMA RequestTypes ==
  ASSUME TypeOK, NEW c \in Clients, req[c].busy
  PROVE  /\ req[c] \in Requests
         /\ req[c].node \in Nodes /\ req[c].key \in Keys /\ req[c].vvs \in Contexts
         /\ req[c].remove \in Seq(Elements) /\ req[c].add \in Seq(Elements)
<1>1. req[c] \in Requests \cup {Idle}
  BY DEF TypeOK
<1>2. ~Idle.busy
  BY DEF Idle
<1>3. req[c] \in Requests
  BY <1>1, <1>2
<1> QED BY <1>3 DEF Requests

-----------------------------------------------------------------------------
(***************************************************************************)
(* Every step lets sets grow and logs grow at their ends ...               *)
(***************************************************************************)
Grows ==
  /\ \A n \in Nodes, k \in Keys : ORLessOrEqual(store[n][k], store'[n][k])
  /\ \A n \in Nodes : /\ Len(delta[n]) <= Len(delta'[n])
                      /\ \A j \in 1 .. Len(delta[n]) : delta'[n][j] = delta[n][j]

(***************************************************************************)
(* ... so contexts stay behind ...                                         *)
(***************************************************************************)
LEMMA BehindStable ==
  ASSUME TypeOK, TypeOK', Grows, NEW n \in Nodes, NEW k \in Keys, NEW vvs \in Contexts,
         Behind(vvs, store[n][k])
  PROVE  Behind(vvs, store'[n][k])
<1>1. PICK a \in ORSets, b \in ORSets : a = store[n][k] /\ b = store'[n][k]
  BY StoreTypes DEF TypeOK
<1>2. ORLessOrEqual(a, b) /\ Behind(vvs, a)
  BY <1>1 DEF Grows
<1>3. ASSUME NEW e \in Elements, NEW i \in Nodes
      PROVE  vvs[e][i] <= b[e][i].counter
  <2>1. vvs[e][i] \in Nat /\ a[e][i].counter \in Nat /\ b[e][i].counter \in Nat
    BY SetEntries DEF Contexts, D!VV
  <2>2. vvs[e][i] <= a[e][i].counter /\ a[e][i].counter <= b[e][i].counter
    BY <1>2, BelowOrder DEF Behind
  <2> QED BY <2>1, <2>2, Transitive
<1> QED BY <1>1, <1>3 DEF Behind

(***************************************************************************)
(* ... and what is safe to skip stays so ...                               *)
(***************************************************************************)
LEMMA SkipStable ==
  ASSUME TypeOK, TypeOK', Grows, NEW n \in Nodes, NEW p \in Nodes, NEW a \in Nat,
         SafeToSkip(n, p, a)
  PROVE  SafeToSkip(n, p, a)'
<1>1. Len(delta[n]) \in Nat /\ Len(delta'[n]) \in Nat /\ Len(delta[n]) <= Len(delta'[n])
  BY LogTypes DEF TypeOK, Grows
<1>2. 0 < a /\ a <= Len(delta[n]) + 1
      /\ \A j \in 1 .. (a - 1) : ORLessOrEqual(delta[n][j].val, store[p][delta[n][j].key])
  BY DEF SafeToSkip, setsSeq
<1>3. ASSUME NEW j \in 1 .. (a - 1)
      PROVE  ORLessOrEqual(delta'[n][j].val, store'[p][delta'[n][j].key])
  <2>1. j \in 1 .. Len(delta[n]) /\ delta'[n][j] = delta[n][j]
    BY <1>1, <1>2 DEF Grows
  <2>2. delta[n][j].key \in Keys /\ delta[n][j].val \in ORSets
    BY <2>1, LogTypes DEF TypeOK
  <2>3. store[p][delta[n][j].key] \in ORSets /\ store'[p][delta[n][j].key] \in ORSets
    BY <2>2, StoreTypes DEF TypeOK
  <2>4. ORLessOrEqual(store[p][delta[n][j].key], store'[p][delta[n][j].key])
    BY <2>2 DEF Grows
  <2> QED BY <1>2, <2>1, <2>2, <2>3, <2>4, BelowOrder
<1> QED BY <1>1, <1>2, <1>3 DEF SafeToSkip, setsSeq

(***************************************************************************)
(* ... and what is safe to merge.                                          *)
(***************************************************************************)
LEMMA MergeStable ==
  ASSUME TypeOK, TypeOK', Grows, NEW m \in gossip, SafeToMerge(m)
  PROVE  SafeToMerge(m)'
<1>1. m.src \in Nodes /\ m.dst \in Nodes /\ m.seq \in Nat
  BY MessageTypes
<1>2. Len(delta[m.src]) \in Nat /\ Len(delta'[m.src]) \in Nat /\ Len(delta[m.src]) <= Len(delta'[m.src])
  BY <1>1, LogTypes DEF TypeOK, Grows
<1>3. 0 < m.seq /\ m.seq <= Len(delta[m.src]) + 1
  BY DEF SafeToMerge, setsSeq
<1>4. ASSUME NEW k \in Keys
      PROVE  store[m.dst][k] \in ORSets /\ store'[m.dst][k] \in ORSets
             /\ ORLessOrEqual(store[m.dst][k], store'[m.dst][k])
  BY <1>1, StoreTypes DEF TypeOK, Grows
<1>5. ASSUME NEW j \in 1 .. (m.seq - 1)
      PROVE  \/ ORLessOrEqual(delta'[m.src][j].val, m.sets[delta'[m.src][j].key])
             \/ ORLessOrEqual(delta'[m.src][j].val, store'[m.dst][delta'[m.src][j].key])
  <2>1. j \in 1 .. Len(delta[m.src]) /\ delta'[m.src][j] = delta[m.src][j]
    BY <1>1, <1>2, <1>3 DEF Grows
  <2>2. delta[m.src][j].key \in Keys /\ delta[m.src][j].val \in ORSets
    BY <1>1, <2>1, LogTypes DEF TypeOK
  <2>3. \/ ORLessOrEqual(delta[m.src][j].val, m.sets[delta[m.src][j].key])
        \/ ORLessOrEqual(delta[m.src][j].val, store[m.dst][delta[m.src][j].key])
    BY DEF SafeToMerge
  <2> QED BY <1>4, <2>1, <2>2, <2>3, BelowOrder
<1>6. (0 < m.seq /\ m.seq <= setsSeq(m.src))'
  BY <1>1, <1>2, <1>3 DEF setsSeq
<1> QED BY <1>5, <1>6, Zenon DEF SafeToMerge

LEMMA CompleteStable ==
  ASSUME TypeOK, TypeOK', Grows, NEW m \in gossip, Complete(m)
  PROVE  Complete(m)'
<1>1. m.src \in Nodes /\ m.dst \in Nodes /\ \A k \in Keys : m.sets[k] \in ORSets /\ m.snap[k] \in ORSets
  BY MessageTypes
<1>2. ASSUME NEW n \in Nodes, NEW k \in Keys
      PROVE  store[n][k] \in ORSets /\ store'[n][k] \in ORSets
             /\ ORLessOrEqual(store[n][k], store'[n][k])
  BY StoreTypes DEF TypeOK, Grows
<1>3. ASSUME NEW k \in Keys
      PROVE  ORLessOrEqual(m.sets[k], m.snap[k]) /\ ORLessOrEqual(m.snap[k], store'[m.src][k])
  <2>1. ORLessOrEqual(m.sets[k], m.snap[k]) /\ ORLessOrEqual(m.snap[k], store[m.src][k])
    BY DEF Complete
  <2> QED BY <1>1, <1>2, <2>1, BelowOrder
<1>4. ASSUME NEW k \in Keys, NEW e \in Elements, NEW i \in Nodes
      PROVE  \/ m.snap[k][e][i].counter <= m.sets[k][e][i].counter
             \/ m.snap[k][e][i].counter <= store'[m.dst][k][e][i].counter
  <2>1. /\ m.snap[k][e][i].counter \in Nat /\ store[m.dst][k][e][i].counter \in Nat
        /\ store'[m.dst][k][e][i].counter \in Nat
        /\ store[m.dst][k][e][i].counter <= store'[m.dst][k][e][i].counter
    BY <1>1, <1>2, SetEntries, BelowOrder
  <2>2. \/ m.snap[k][e][i].counter <= m.sets[k][e][i].counter
        \/ m.snap[k][e][i].counter <= store[m.dst][k][e][i].counter
    BY DEF Complete
  <2> QED BY <2>1, <2>2, Transitive
<1> QED BY <1>3, <1>4 DEF Complete

-----------------------------------------------------------------------------
(***************************************************************************)
(* What a step may add: deltas the node's set has caught up with, and      *)
(* knowledge that a delta in the log tells.                                *)
(***************************************************************************)
Learns ==
  /\ Grows
  /\ \A n \in Nodes : \A j \in 1 .. Len(delta'[n]) :
       j <= Len(delta[n]) \/ ORLessOrEqual(delta'[n][j].val, store'[n][delta'[n][j].key])
  /\ \A n \in Nodes, k \in Keys, e \in Elements, i \in Nodes :
       \/ store'[n][k][e][i].counter = store[n][k][e][i].counter
       \/ \E j \in 1 .. Len(delta'[n]) :
            delta'[n][j].key = k /\ store'[n][k][e][i].counter <= delta'[n][j].val[e][i].counter

(***************************************************************************)
(* Then nothing in a log or a message is ahead of its node ...             *)
(***************************************************************************)
LEMMA LearnsAhead ==
  ASSUME Inv, TypeOK', Learns,
         \A m \in gossip' : m \in gossip \/ \A k \in Keys : ORLessOrEqual(m.sets[k], store'[m.src][k])
  PROVE  NothingAhead'
<1>1. ASSUME NEW n \in Nodes, NEW j \in DOMAIN delta'[n]
      PROVE  ORLessOrEqual(delta'[n][j].val, store'[n][delta'[n][j].key])
  <2>1. j \in 1 .. Len(delta'[n]) /\ Len(delta[n]) \in Nat /\ DOMAIN delta[n] = 1 .. Len(delta[n])
    BY LogTypes DEF Inv, TypeOK
  <2>2. CASE j <= Len(delta[n])
    <3>1. j \in 1 .. Len(delta[n]) /\ delta'[n][j] = delta[n][j]
      BY <2>1, <2>2 DEF Learns, Grows
    <3>2. delta[n][j].key \in Keys /\ delta[n][j].val \in ORSets
      BY <3>1, LogTypes DEF Inv, TypeOK
    <3>3. store[n][delta[n][j].key] \in ORSets /\ store'[n][delta[n][j].key] \in ORSets
      BY <3>2, StoreTypes DEF Inv, TypeOK
    <3>4. ORLessOrEqual(delta[n][j].val, store[n][delta[n][j].key])
      BY <2>1, <3>1 DEF Inv, NothingAhead
    <3>5. ORLessOrEqual(store[n][delta[n][j].key], store'[n][delta[n][j].key])
      BY <3>2 DEF Learns, Grows
    <3> QED BY <3>1, <3>2, <3>3, <3>4, <3>5, BelowOrder
  <2>3. CASE ~(j <= Len(delta[n]))
    BY <2>1, <2>3 DEF Learns
  <2> QED BY <2>2, <2>3
<1>2. ASSUME NEW m \in gossip', NEW k \in Keys
      PROVE  ORLessOrEqual(m.sets[k], store'[m.src][k])
  <2>1. CASE m \in gossip
    <3>1. m.src \in Nodes /\ m.sets[k] \in ORSets
      BY <2>1, MessageTypes DEF Inv
    <3>2. store[m.src][k] \in ORSets /\ store'[m.src][k] \in ORSets
      BY <3>1, StoreTypes DEF Inv, TypeOK
    <3>3. ORLessOrEqual(m.sets[k], store[m.src][k]) /\ ORLessOrEqual(store[m.src][k], store'[m.src][k])
      BY <2>1, <3>1 DEF Inv, NothingAhead, Learns, Grows
    <3> QED BY <3>1, <3>2, <3>3, BelowOrder
  <2> QED BY <2>1
<1> QED BY <1>1, <1>2 DEF NothingAhead

(***************************************************************************)
(* ... and what a node knows is in its log.                                *)
(***************************************************************************)
LEMMA LearnsStores ==
  ASSUME Inv, TypeOK', Learns
  PROVE  StoresLogged'
<1> SUFFICES ASSUME NEW n \in Nodes, NEW k \in Keys, NEW e \in Elements, NEW i \in Nodes
             PROVE  \/ store'[n][k][e][i].counter = 0
                    \/ \E j \in DOMAIN delta'[n] : delta'[n][j].key = k
                         /\ store'[n][k][e][i].counter <= delta'[n][j].val[e][i].counter
  BY DEF StoresLogged
<1>1. /\ Len(delta[n]) \in Nat /\ DOMAIN delta[n] = 1 .. Len(delta[n])
      /\ Len(delta'[n]) \in Nat /\ DOMAIN delta'[n] = 1 .. Len(delta'[n])
  BY LogTypes DEF Inv, TypeOK
<1>2. CASE store'[n][k][e][i].counter = store[n][k][e][i].counter /\ store[n][k][e][i].counter # 0
  <2>1. PICK j \in DOMAIN delta[n] :
          delta[n][j].key = k /\ store[n][k][e][i].counter <= delta[n][j].val[e][i].counter
    BY <1>2 DEF Inv, StoresLogged
  <2>2. j \in DOMAIN delta'[n] /\ delta'[n][j] = delta[n][j]
    BY <1>1 DEF Learns, Grows
  <2> QED BY <1>2, <2>1, <2>2
<1>3. CASE store'[n][k][e][i].counter # store[n][k][e][i].counter
  BY <1>1, <1>3 DEF Learns
<1> QED BY <1>2, <1>3

(***************************************************************************)
(* Such a step keeps the invariant if the rest is what the invariant says. *)
(***************************************************************************)
LEMMA LearnsKeepsInv ==
  ASSUME Inv, TypeOK', Learns,
         \A k \in Keys : DotsUnique(history'[k]),
         AllClosed', DotsOwned', ContextsKnown',
         \A n, p \in Nodes : ack'[n][p] = ack[n][p] \/ SafeToSkip(n, p, ack[n][p])',
         \A a \in acks' : a \in acks \/ SafeToSkip(a.dst, a.src, a.seq)',
         \A m \in gossip' : \/ m \in gossip
                            \/ /\ SafeToMerge(m)' /\ Complete(m)'
                               /\ \A k \in Keys : ORLessOrEqual(m.sets[k], store'[m.src][k])
  PROVE  Inv'
<1>1. TypeOK /\ Grows
  BY DEF Inv, Learns
<1>2. ASSUME NEW n \in Nodes, NEW p \in Nodes, ack'[n][p] > 0
      PROVE  SafeToSkip(n, p, ack[n][p])'
  <2>1. CASE ack'[n][p] = ack[n][p]
    <3>1. PICK a \in Nat : a = ack[n][p]
      BY DEF Inv, TypeOK
    <3>2. SafeToSkip(n, p, a)
      BY <1>2, <2>1, <3>1 DEF Inv
    <3>3. SafeToSkip(n, p, a)'
      BY <1>1, <3>2, SkipStable
    <3> QED BY <2>1, <3>1, <3>3
  <2> QED BY <2>1
<1>3. ASSUME NEW a \in acks'
      PROVE  SafeToSkip(a.dst, a.src, a.seq)'
  <2>1. CASE a \in acks
    <3>1. a.dst \in Nodes /\ a.src \in Nodes /\ a.seq \in Nat /\ SafeToSkip(a.dst, a.src, a.seq)
      BY <2>1 DEF Inv, TypeOK, Acks
    <3> QED BY <1>1, <3>1, SkipStable
  <2> QED BY <2>1
<1>4. ASSUME NEW m \in gossip'
      PROVE  SafeToMerge(m)' /\ Complete(m)'
  <2>1. CASE m \in gossip
    <3>1. SafeToMerge(m) /\ Complete(m)
      BY <2>1 DEF Inv
    <3> QED BY <1>1, <2>1, <3>1, MergeStable, CompleteStable
  <2> QED BY <2>1
<1> QED BY <1>2, <1>3, <1>4, LearnsAhead, LearnsStores DEF Inv

(***************************************************************************)
(* A step that leaves the sets and logs alone adds nothing to them.        *)
(***************************************************************************)
LEMMA IdleLearns ==
  ASSUME Inv, store' = store, delta' = delta
  PROVE  Learns
<1>1. ASSUME NEW n \in Nodes, NEW k \in Keys
      PROVE  ORLessOrEqual(store[n][k], store'[n][k])
  BY StoreTypes, BelowOrder DEF Inv, TypeOK
<1>2. \A n \in Nodes : Len(delta[n]) \in Nat
  BY LogTypes DEF Inv, TypeOK
<1> QED BY <1>1, <1>2 DEF Learns, Grows

(***************************************************************************)
(* Nor does it matter to what is known, unless it sends a message.         *)
(***************************************************************************)
LEMMA IdleKeeps ==
  ASSUME Inv, store' = store, delta' = delta, history' = history,
         \A m \in gossip' : m \in gossip \/ \A k \in Keys :
           Closed(m.sets[k], history[k]) /\ Closed(m.snap[k], history[k])
  PROVE  (\A k \in Keys : DotsUnique(history'[k])) /\ AllClosed' /\ DotsOwned'
<1>1. DotsOwned'
  BY DEF Inv, DotsOwned
<1>2. AllClosed'
  BY DEF Inv, AllClosed
<1> QED BY <1>1, <1>2 DEF Inv

-----------------------------------------------------------------------------
(***************************************************************************)
(* Empty sets and logs, and clients without contexts or requests.          *)
(***************************************************************************)
LEMMA InitInv == Init => Inv
<1> SUFFICES ASSUME Init PROVE Inv
  OBVIOUS
<1>1. /\ NewORSet \in ORSets /\ Closed(NewORSet, {})
      /\ \A e \in Elements, i \in Nodes : NewORSet[e][i].counter = 0
  BY ClosedNew
<1>2. /\ \A n \in Nodes, k \in Keys : store[n][k] = NewORSet
      /\ \A n \in Nodes : DOMAIN delta[n] = {}
      /\ \A c \in Clients : req[c] = Idle /\ \A k \in Keys : ctx[c][k] = NoContexts
      /\ \A k \in Keys : history[k] = {}
      /\ gossip = {} /\ acks = {} /\ \A n, p \in Nodes : ack[n][p] = 0
  BY DEF Init, GossipInit
<1>3. TypeOK
  <2>1. store \in [Nodes -> Stores] /\ delta \in [Nodes -> Seq(Deltas)]
    BY <1>1 DEF Init, Stores
  <2>2. ctx \in [Clients -> [Keys -> Contexts]]
    BY ContextTypes DEF Init
  <2>3. history \in [Keys -> SUBSET Operations] /\ req \in [Clients -> Requests \cup {Idle}]
    BY DEF Init
  <2> QED BY <2>1, <2>2, <2>3, GossipAssumption DEF Init, GossipInit, TypeOK
<1>4. AllClosed /\ DotsOwned /\ NothingAhead /\ StoresLogged
  <2>1. AllClosed
    BY <1>1, <1>2 DEF AllClosed
  <2>2. DotsOwned
    <3>1. \A n, i \in Nodes, k \in Keys, e \in Elements : store[n][k][e][i].counter = 0
      BY <1>1, <1>2
    <3> QED BY <1>2, <3>1 DEF DotsOwned
  <2>3. NothingAhead
    BY <1>2 DEF NothingAhead
  <2>4. StoresLogged
    BY <1>1, <1>2 DEF StoresLogged
  <2> QED BY <2>1, <2>2, <2>3, <2>4
<1>5. ContextsKnown
  <2>1. Behind(NoContexts, NewORSet)
    BY <1>1, ContextTypes DEF Behind
  <2>2. \A c \in Clients : ~req[c].busy /\ Reach[c] \subseteq Nodes
    BY <1>2, SetStoreAssumption DEF Idle
  <2> QED BY <1>2, <2>1, <2>2 DEF ContextsKnown
<1> QED BY <1>2, <1>3, <1>4, <1>5 DEF Inv, DotsUnique

(***************************************************************************)
(* A client gets the contexts of the one node it talks to.                 *)
(***************************************************************************)
LEMMA ContextsRead ==
  ASSUME Inv, StickyClients, NEW c \in Clients, NEW n \in Reach[c], NEW k \in Keys,
         ctx' = [ctx EXCEPT ![c][k] = CausalContexts(store[n][k])],
         store' = store, req' = req \/ req' = [req EXCEPT ![c] = Idle]
  PROVE  /\ ctx' \in [Clients -> [Keys -> Contexts]]
         /\ req' \in [Clients -> Requests \cup {Idle}]
         /\ ContextsKnown'
<1>1. n \in Nodes
  BY SetStoreAssumption
<1>2. PICK or \in ORSets, vvs \in Contexts : or = store[n][k] /\ vvs = CausalContexts(or)
  BY <1>1, StoreTypes, ContextTypes DEF Inv, TypeOK
<1>3. Behind(vvs, or)
  BY <1>2, ContextTypes, SetEntries DEF Behind
<1>4. ctx \in [Clients -> [Keys -> Contexts]] /\ req \in [Clients -> Requests \cup {Idle}]
  BY DEF Inv, TypeOK
<1>5. /\ ctx' \in [Clients -> [Keys -> Contexts]]
      /\ ctx'[c][k] = vvs
      /\ \A b \in Clients, l \in Keys : b # c \/ l # k => ctx'[b][l] = ctx[b][l]
  BY <1>2, <1>4
<1>6. \A b \in Clients : req'[b] = req[b] \/ req'[b] = Idle
  BY <1>4
<1>7. ~Idle.busy
  BY DEF Idle
<1>8. ContextsKnown'
  <2>1. ASSUME NEW b \in Clients, NEW p \in Reach[b], NEW l \in Keys
        PROVE  Behind(ctx'[b][l], store'[p][l])
    <3>1. CASE b = c /\ l = k
      BY <1>2, <1>3, <1>5, <3>1 DEF StickyClients
    <3>2. CASE b # c \/ l # k
      BY <1>5, <3>2 DEF Inv, ContextsKnown
    <3> QED BY <3>1, <3>2
  <2>2. ASSUME NEW b \in Clients, req'[b].busy
        PROVE  req'[b].node \in Reach[b] /\ Behind(req'[b].vvs, store'[req'[b].node][req'[b].key])
    BY <1>6, <1>7, <2>2 DEF Inv, ContextsKnown
  <2> QED BY <2>1, <2>2 DEF ContextsKnown
<1> QED BY <1>4, <1>5, <1>8

(***************************************************************************)
(* getSet.                                                                 *)
(***************************************************************************)
LEMMA GetSetInv ==
  ASSUME Inv, StickyClients, NEW c \in Clients, NEW n \in Nodes, NEW k \in Keys, GetSet(c, n, k)
  PROVE  Inv'
<1>1. /\ n \in Reach[c] /\ ctx' = [ctx EXCEPT ![c][k] = CausalContexts(store[n][k])]
      /\ store' = store /\ delta' = delta /\ req' = req /\ history' = history
      /\ peers' = peers /\ ack' = ack /\ gossip' = gossip /\ acks' = acks
  BY DEF GetSet, gossipVars
<1>2. ctx' \in [Clients -> [Keys -> Contexts]] /\ ContextsKnown'
  BY <1>1, ContextsRead
<1>3. TypeOK'
  BY <1>1, <1>2 DEF Inv, TypeOK
<1> QED BY <1>1, <1>2, <1>3, IdleLearns, IdleKeeps, LearnsKeepsInv

(***************************************************************************)
(* The response to postSet.                                                *)
(***************************************************************************)
LEMMA RespondInv ==
  ASSUME Inv, StickyClients, NEW c \in Clients, Respond(c)
  PROVE  Inv'
<1>1. /\ req[c].busy /\ req' = [req EXCEPT ![c] = Idle]
      /\ store' = store /\ delta' = delta /\ history' = history
      /\ peers' = peers /\ ack' = ack /\ gossip' = gossip /\ acks' = acks
  BY DEF Respond, gossipVars
<1>2. PICK n \in Reach[c], k \in Keys : n = req[c].node /\ k = req[c].key
  BY <1>1, RequestTypes DEF Inv, ContextsKnown
<1>3. /\ ctx' \in [Clients -> [Keys -> Contexts]]
      /\ req' \in [Clients -> Requests \cup {Idle}]
      /\ ContextsKnown'
  <2>1. CASE ctx' = ctx
    <3>1. req \in [Clients -> Requests \cup {Idle}] /\ ~Idle.busy
      BY DEF Inv, TypeOK, Idle
    <3>2. \A b \in Clients : req'[b] = req[b] \/ req'[b] = Idle
      BY <1>1, <3>1
    <3>3. ContextsKnown'
      BY <1>1, <2>1, <3>1, <3>2 DEF Inv, ContextsKnown
    <3> QED BY <1>1, <2>1, <3>1, <3>3 DEF Inv, TypeOK
  <2>2. CASE ctx' = [ctx EXCEPT ![c][k] = CausalContexts(store[n][k])]
    BY <1>1, <2>2, ContextsRead
  <2> QED BY <1>2, <2>1, <2>2 DEF Respond
<1>4. TypeOK'
  BY <1>1, <1>3 DEF Inv, TypeOK
<1> QED BY <1>1, <1>3, <1>4, IdleLearns, IdleKeeps, LearnsKeepsInv

(***************************************************************************)
(* postSet takes a request with the contexts the client holds, or none.    *)
(***************************************************************************)
LEMMA PostSetInv ==
  ASSUME Inv, NEW c \in Clients, NEW n \in Nodes, NEW k \in Keys, NEW body \in Bodies,
         PostSet(c, n, k, body)
  PROVE  Inv'
<1>1. PICK vvs \in {ctx[c][k], NoContexts} :
        req' = [req EXCEPT ![c] = [busy |-> TRUE, node |-> n, key |-> k, vvs |-> vvs,
                                   remove |-> body.remove, add |-> body.add]]
  BY DEF PostSet
<1>2. /\ n \in Reach[c] /\ store' = store /\ delta' = delta /\ ctx' = ctx /\ history' = history
      /\ peers' = peers /\ ack' = ack /\ gossip' = gossip /\ acks' = acks
  BY DEF PostSet, gossipVars
<1>3. vvs \in Contexts /\ Behind(vvs, store[n][k])
  <2>1. CASE vvs = ctx[c][k]
    BY <1>2, <2>1 DEF Inv, TypeOK, ContextsKnown
  <2>2. CASE vvs = NoContexts
    <3>1. \A e \in Elements, i \in Nodes : store[n][k][e][i].counter \in Nat
      BY StoreTypes DEF Inv, TypeOK
    <3> QED BY <2>2, <3>1, ContextTypes DEF Behind
  <2> QED BY <1>1, <2>1, <2>2
<1>4. PICK r \in Requests :
        /\ r.busy /\ r.node = n /\ r.key = k /\ r.vvs = vvs
        /\ req' = [req EXCEPT ![c] = r]
  <2>1. body.remove \in Seq(Elements) /\ body.add \in Seq(Elements)
    BY SetStoreAssumption
  <2>2. [busy |-> TRUE, node |-> n, key |-> k, vvs |-> vvs,
         remove |-> body.remove, add |-> body.add] \in Requests
    BY <1>3, <2>1 DEF Requests
  <2> QED BY <1>1, <2>2
<1>5. req \in [Clients -> Requests \cup {Idle}]
  BY DEF Inv, TypeOK
<1>6. req' \in [Clients -> Requests \cup {Idle}] /\ req'[c] = r
      /\ \A b \in Clients : b # c => req'[b] = req[b]
  BY <1>4, <1>5
<1>7. TypeOK'
  BY <1>2, <1>6 DEF Inv, TypeOK
<1>8. ContextsKnown'
  <2>1. ASSUME NEW b \in Clients, req'[b].busy
        PROVE  req'[b].node \in Reach[b] /\ Behind(req'[b].vvs, store'[req'[b].node][req'[b].key])
    <3>1. CASE b = c
      BY <1>2, <1>3, <1>4, <1>6, <3>1
    <3>2. CASE b # c
      BY <1>2, <1>6, <2>1, <3>2 DEF Inv, ContextsKnown
    <3> QED BY <3>1, <3>2
  <2> QED BY <1>2, <2>1 DEF Inv, ContextsKnown
<1> QED BY <1>2, <1>7, <1>8, IdleLearns, IdleKeeps, LearnsKeepsInv

-----------------------------------------------------------------------------
(***************************************************************************)
(* A lost, refused or recorded request, and a change of the pool.          *)
(***************************************************************************)
LEMMA TransportInv ==
  ASSUME Inv, Transport, UNCHANGED setVars
  PROVE  Inv'
<1>1. store' = store /\ delta' = delta /\ ctx' = ctx /\ req' = req /\ history' = history
  BY DEF setVars
<1>2. Learns
  BY <1>1, IdleLearns
<1>3. ContextsKnown'
  BY <1>1 DEF Inv, ContextsKnown
<1>4. ASSUME gossip' \subseteq gossip
      PROVE  (\A k \in Keys : DotsUnique(history'[k])) /\ AllClosed' /\ DotsOwned'
  BY <1>1, <1>4, IdleKeeps
<1>5. CASE \E a \in acks : PostAck(a)
  <2>1. PICK a \in acks : PostAck(a)
    BY <1>5
  <2>2. a.src \in Nodes /\ a.dst \in Nodes /\ a.seq \in Nat /\ SafeToSkip(a.dst, a.src, a.seq)
    BY DEF Inv, TypeOK, Acks
  <2>3. ack' = [ack EXCEPT ![a.dst][a.src] = IF @ < a.seq THEN a.seq ELSE @]
        /\ acks' \subseteq acks /\ gossip' = gossip /\ peers' = peers
    BY <2>1 DEF PostAck, Ack
  <2>4. TypeOK'
    BY <1>1, <2>2, <2>3 DEF Inv, TypeOK
  <2>5. ASSUME NEW n \in Nodes, NEW p \in Nodes, ack'[n][p] # ack[n][p]
        PROVE  SafeToSkip(n, p, ack[n][p])'
    <3>1. n = a.dst /\ p = a.src /\ ack'[n][p] = a.seq
      BY <2>2, <2>3, <2>5 DEF Inv, TypeOK
    <3>2. SafeToSkip(n, p, a.seq)'
      BY <2>2, <2>4, <3>1, <1>2, SkipStable DEF Inv, Learns
    <3> QED BY <3>1, <3>2
  <2> QED BY <1>2, <1>3, <1>4, <2>3, <2>4, <2>5, LearnsKeepsInv
<1>6. CASE (\E a \in acks : DropAck(a)) \/ (\E m \in gossip : DropGossip(m))
  <2>1. ack' = ack /\ peers' = peers /\ acks' \subseteq acks /\ gossip' \subseteq gossip
    BY <1>6 DEF DropAck, DropGossip
  <2>2. TypeOK'
    BY <1>1, <2>1 DEF Inv, TypeOK
  <2> QED BY <1>2, <1>3, <1>4, <2>1, <2>2, LearnsKeepsInv
<1>7. CASE Membership
  <2>1. PICK n \in Nodes, p \in Departing : NotifyAlive(n, p) \/ NotifyDead(n, p)
    BY <1>7 DEF Membership
  <2>2. ack' = ack /\ acks' = acks /\ gossip' = gossip
    BY <2>1 DEF NotifyAlive, NotifyDead
  <2>3. peers' \in [Nodes -> SUBSET Nodes]
    <3>1. peers \in [Nodes -> SUBSET Nodes] /\ p \in Nodes
      BY GossipAssumption DEF Inv, TypeOK
    <3>2. CASE NotifyAlive(n, p)
      BY <3>1, <3>2 DEF NotifyAlive
    <3>3. CASE NotifyDead(n, p)
      <4>1. {q \in peers[n] : Host[q] # Host[p]} \in SUBSET Nodes
        BY <3>1
      <4>2. peers' = [peers EXCEPT ![n] = {q \in peers[n] : Host[q] # Host[p]}]
        BY <3>3 DEF NotifyDead
      <4> QED BY <3>1, <4>1, <4>2
    <3> QED BY <2>1, <3>2, <3>3
  <2>4. TypeOK'
    BY <1>1, <2>2, <2>3 DEF Inv, TypeOK
  <2> QED BY <1>2, <1>3, <1>4, <2>2, <2>4, LearnsKeepsInv
<1> QED BY <1>5, <1>6, <1>7 DEF Transport

(***************************************************************************)
(* What Store.Delta sends: the deltas not acknowledged, joined, or all the *)
(* node knows.  It is closed, behind the node, and covers the log together *)
(* with what the peer has acknowledged.                                    *)
(***************************************************************************)
LEMMA DeltaSafe ==
  ASSUME Inv, NEW n \in Nodes, NEW p \in Nodes, HasNews(n, p), NEW k \in Keys
  PROVE  /\ Delta(n, p)[k] \in ORSets
         /\ Closed(Delta(n, p)[k], history[k])
         /\ ORLessOrEqual(Delta(n, p)[k], store[n][k])
         /\ \A j \in 1 .. Len(delta[n]) : delta[n][j].key = k =>
              \/ ORLessOrEqual(delta[n][j].val, Delta(n, p)[k])
              \/ ORLessOrEqual(delta[n][j].val, store[p][k])
<1>1. PICK log \in Seq(Deltas), len \in Nat : log = delta[n] /\ len = Len(log)
  BY LogTypes DEF Inv, TypeOK
<1>2. PICK top \in ORSets, H \in SUBSET Operations : top = store[n][k] /\ H = history[k]
  BY StoreTypes DEF Inv, TypeOK
<1>3. \A j \in DOMAIN log : log[j].key = k => Closed(log[j].val, H) /\ ORLessOrEqual(log[j].val, top)
  BY <1>1, <1>2 DEF Inv, AllClosed, NothingAhead
<1>4. DOMAIN log = 1 .. len
  BY <1>1
<1>5. CASE ack[n][p] = 0
  <2>1. Delta(n, p)[k] = top
    BY <1>2, <1>5 DEF Delta
  <2>2. Closed(top, H) /\ ORLessOrEqual(top, top)
    BY <1>2, BelowOrder DEF Inv, AllClosed
  <2> QED BY <1>1, <1>2, <1>3, <1>4, <2>1, <2>2
<1>6. CASE ack[n][p] # 0
  <2>1. PICK a \in Nat \ {0} : a = ack[n][p]
    BY <1>6 DEF Inv, TypeOK
  <2>2. SafeToSkip(n, p, a)
    BY <2>1 DEF Inv
  <2>3. a <= len + 1
    BY <1>1, <2>2 DEF SafeToSkip, setsSeq
  <2>4. PICK g : g = Delta(n, p)[k] /\ JoinOf(log, a, k, len, H, top, g)
    <3>1. Delta(n, p)[k] = Joined(log, a, k)
      BY <1>1, <1>6, <2>1 DEF Delta, Interval
    <3>2. JoinOf(log, a, k, Len(log), H, top, Joined(log, a, k))
      BY <1>1, <1>3, <2>3, JoinedJoin
    <3> QED BY <1>1, <3>1, <3>2
  <2>5. ASSUME NEW j \in 1 .. len, log[j].key = k
        PROVE  ORLessOrEqual(log[j].val, g) \/ ORLessOrEqual(log[j].val, store[p][k])
    <3>1. CASE j \in 1 .. (a - 1)
      BY <1>1, <2>2, <2>5, <3>1 DEF SafeToSkip
    <3>2. CASE j \in a .. len
      BY <2>4, <2>5, <3>2 DEF JoinOf
    <3> QED BY <2>3, <3>1, <3>2
  <2> QED BY <1>1, <1>2, <2>4, <2>5 DEF JoinOf
<1> QED BY <1>5, <1>6

(***************************************************************************)
(* Together they tell all the node knows, because its log does.            *)
(***************************************************************************)
LEMMA DeltaComplete ==
  ASSUME Inv, NEW n \in Nodes, NEW p \in Nodes, HasNews(n, p), NEW k \in Keys,
         NEW e \in Elements, NEW i \in Nodes
  PROVE  \/ store[n][k][e][i].counter <= Delta(n, p)[k][e][i].counter
         \/ store[n][k][e][i].counter <= store[p][k][e][i].counter
<1>1. PICK a \in ORSets, b \in ORSets, g \in ORSets :
        a = store[n][k] /\ b = store[p][k] /\ g = Delta(n, p)[k]
  BY StoreTypes, DeltaSafe DEF Inv, TypeOK
<1>2. a[e][i].counter \in Nat /\ b[e][i].counter \in Nat /\ g[e][i].counter \in Nat
  BY SetEntries
<1>3. CASE a[e][i].counter = 0
  BY <1>1, <1>2, <1>3
<1>4. CASE a[e][i].counter # 0
  <2>1. PICK j \in 1 .. Len(delta[n]) :
          delta[n][j].key = k /\ a[e][i].counter <= delta[n][j].val[e][i].counter
    <3>1. DOMAIN delta[n] = 1 .. Len(delta[n])
      BY LogTypes DEF Inv, TypeOK
    <3> QED BY <1>1, <1>4, <3>1 DEF Inv, StoresLogged
  <2>2. PICK d \in ORSets : d = delta[n][j].val /\ (ORLessOrEqual(d, g) \/ ORLessOrEqual(d, b))
    BY <1>1, <2>1, DeltaSafe, LogTypes DEF Inv, TypeOK
  <2>3. d[e][i].counter \in Nat /\ a[e][i].counter <= d[e][i].counter
    BY <2>1, <2>2, SetEntries
  <2>4. d[e][i].counter <= g[e][i].counter \/ d[e][i].counter <= b[e][i].counter
    BY <2>2, BelowOrder
  <2> QED BY <1>1, <1>2, <2>3, <2>4, Transitive
<1> QED BY <1>3, <1>4

(***************************************************************************)
(* A turn of the gossip loop.                                              *)
(***************************************************************************)
LEMMA StartGossipInv ==
  ASSUME Inv, NEW n \in Nodes, NEW p \in Nodes, StartGossip(n, p)
  PROVE  Inv'
<1>1. PICK m : m = [src |-> n, dst |-> p, seq |-> setsSeq(n), sets |-> Delta(n, p), snap |-> store[n]]
  OBVIOUS
<1>2. /\ HasNews(n, p) /\ gossip' = gossip \cup {m}
      /\ peers' = peers /\ ack' = ack /\ acks' = acks
      /\ store' = store /\ delta' = delta /\ ctx' = ctx /\ req' = req /\ history' = history
  BY <1>1 DEF StartGossip, SendGossip, setVars
<1>3. PICK len \in Nat : len = Len(delta[n])
  BY LogTypes DEF Inv, TypeOK
<1>4. m.src = n /\ m.dst = p /\ m.seq = len + 1 /\ m.sets = Delta(n, p) /\ m.snap = store[n]
  BY <1>1, <1>3 DEF setsSeq
<1>5. \A k \in Keys : /\ m.sets[k] \in ORSets
                      /\ Closed(m.sets[k], history[k])
                      /\ ORLessOrEqual(m.sets[k], store[n][k])
  BY <1>2, <1>4, DeltaSafe
<1>6. m \in Messages
  <2>1. Delta(n, p) \in Stores
    <3>1. Delta(n, p) = [k \in Keys |-> Delta(n, p)[k]]
      BY DEF Delta, Interval, Inv, TypeOK, Stores
    <3> QED BY <1>4, <1>5, <3>1 DEF Stores
  <2>2. setsSeq(n) \in Nat
    BY <1>3 DEF setsSeq
  <2> QED BY <1>1, <2>1, <2>2 DEF Messages, Inv, TypeOK
<1>7. TypeOK'
  BY <1>2, <1>6 DEF Inv, TypeOK
<1>8. Learns
  BY <1>2, IdleLearns
<1>9. (\A k \in Keys : DotsUnique(history'[k])) /\ AllClosed' /\ DotsOwned'
  <2>1. \A k \in Keys : Closed(m.snap[k], history[k])
    BY <1>4 DEF Inv, AllClosed
  <2> QED BY <1>2, <1>5, <2>1, IdleKeeps
<1>10. ContextsKnown'
  BY <1>2 DEF Inv, ContextsKnown
<1>11. SafeToMerge(m)
  <2>1. 0 < m.seq /\ m.seq <= setsSeq(m.src)
    BY <1>3, <1>4 DEF setsSeq
  <2>2. ASSUME NEW j \in 1 .. (m.seq - 1)
        PROVE  \/ ORLessOrEqual(delta[m.src][j].val, m.sets[delta[m.src][j].key])
               \/ ORLessOrEqual(delta[m.src][j].val, store[m.dst][delta[m.src][j].key])
    <3>1. j \in 1 .. Len(delta[n])
      BY <1>3, <1>4
    <3>2. PICK k \in Keys : k = delta[n][j].key
      BY <3>1, LogTypes DEF Inv, TypeOK
    <3>3. ORLessOrEqual(delta[n][j].val, Delta(n, p)[k]) \/ ORLessOrEqual(delta[n][j].val, store[p][k])
      BY <1>2, <3>1, <3>2, DeltaSafe
    <3> QED BY <1>4, <3>2, <3>3
  <2> QED BY <2>1, <2>2 DEF SafeToMerge
<1>12. SafeToMerge(m)'
  BY <1>2, <1>11 DEF SafeToMerge, setsSeq
<1>13. \A k \in Keys : ORLessOrEqual(m.sets[k], store'[m.src][k])
  BY <1>2, <1>4, <1>5
<1>14. Complete(m)'
  <2>1. ASSUME NEW k \in Keys
        PROVE  /\ ORLessOrEqual(m.sets[k], m.snap[k]) /\ ORLessOrEqual(m.snap[k], store[n][k])
               /\ \A e \in Elements, i \in Nodes :
                    \/ m.snap[k][e][i].counter <= m.sets[k][e][i].counter
                    \/ m.snap[k][e][i].counter <= store[p][k][e][i].counter
    BY <1>2, <1>4, <1>5, DeltaComplete, StoreTypes, BelowOrder DEF Inv, TypeOK
  <2> QED BY <1>2, <1>4, <2>1 DEF Complete
<1> QED BY <1>2, <1>7, <1>8, <1>9, <1>10, <1>12, <1>13, <1>14, LearnsKeepsInv

-----------------------------------------------------------------------------
(***************************************************************************)
(* Merging a message appends one delta per key that was news.              *)
(***************************************************************************)
LEMMA LoggedNews ==
  ASSUME TypeOK, NEW m \in gossip,
         NEW order \in Surjection(1 .. Cardinality(News(m)), News(m))
  PROVE  /\ Logged(m.sets, order) \in Seq(Deltas)
         /\ \A j \in DOMAIN Logged(m.sets, order) :
              /\ Logged(m.sets, order)[j].key \in News(m)
              /\ Logged(m.sets, order)[j].val = m.sets[Logged(m.sets, order)[j].key]
         /\ \A k \in News(m) : \E j \in DOMAIN Logged(m.sets, order) :
              /\ Logged(m.sets, order)[j].key = k
              /\ Logged(m.sets, order)[j].val = m.sets[k]
<1> DEFINE c == Cardinality(News(m))
<1>1. News(m) \subseteq Keys /\ \A k \in Keys : m.sets[k] \in ORSets
  BY MessageTypes DEF News
<1>2. c \in Nat
  BY <1>1, SetStoreAssumption, FS_Subset, FS_CardinalityType
<1>3. order \in [1 .. c -> News(m)] /\ \A k \in News(m) : \E j \in 1 .. c : order[j] = k
  BY DEF Surjection
<1> HIDE DEF c
<1>4. Logged(m.sets, order) \in [1 .. c -> Deltas]
  BY <1>1, <1>3 DEF Logged, Deltas
<1> QED BY <1>2, <1>3, <1>4 DEF Logged

(***************************************************************************)
(* The set of a key after the merge, whether it was news or not.           *)
(***************************************************************************)
MergedSet(m, k) == IF k \in News(m) THEN ORMerge(store[m.dst][k], m.sets[k]) ELSE store[m.dst][k]

(***************************************************************************)
(* It is closed, above what it was and what came, and below all that are.  *)
(***************************************************************************)
LEMMA MergedSafe ==
  ASSUME Inv, NEW m \in gossip, NEW k \in Keys
  PROVE  /\ MergedSet(m, k) \in ORSets
         /\ Closed(MergedSet(m, k), history[k])
         /\ ORLessOrEqual(store[m.dst][k], MergedSet(m, k))
         /\ ORLessOrEqual(m.sets[k], MergedSet(m, k))
         /\ \A e \in Elements, i \in Nodes :
              \/ MergedSet(m, k)[e][i].counter = store[m.dst][k][e][i].counter
              \/ k \in News(m) /\ MergedSet(m, k)[e][i].counter = m.sets[k][e][i].counter
<1>1. PICK a \in ORSets, b \in ORSets, H \in SUBSET Operations :
        a = store[m.dst][k] /\ b = m.sets[k] /\ H = history[k]
  BY MessageTypes, StoreTypes DEF Inv, TypeOK
<1>2. Closed(a, H) /\ Closed(b, H)
  BY <1>1, MessageTypes DEF Inv, AllClosed
<1>3. CASE k \in News(m)
  <2>1. MergedSet(m, k) = ORMerge(a, b)
    BY <1>1, <1>3 DEF MergedSet
  <2>2. /\ ORMerge(a, b) \in ORSets /\ Closed(ORMerge(a, b), H)
        /\ ORLessOrEqual(a, ORMerge(a, b)) /\ ORLessOrEqual(b, ORMerge(a, b))
    BY <1>2, MergeLeast
  <2>3. \A e \in Elements, i \in Nodes : ORMerge(a, b)[e][i].counter =
          IF a[e][i].counter >= b[e][i].counter THEN a[e][i].counter ELSE b[e][i].counter
    BY <1>2, ClosedMerge
  <2>4. \A e \in Elements, i \in Nodes :
          ORMerge(a, b)[e][i].counter = a[e][i].counter \/ ORMerge(a, b)[e][i].counter = b[e][i].counter
    BY <2>3
  <2> QED BY <1>1, <1>3, <2>1, <2>2, <2>4
<1>4. CASE k \notin News(m)
  <2>1. MergedSet(m, k) = a /\ ORLessOrEqual(b, a)
    BY <1>1, <1>4 DEF MergedSet, News
  <2> QED BY <1>1, <1>2, <2>1, BelowOrder
<1> QED BY <1>3, <1>4

(***************************************************************************)
(* The receiver merges the message and acknowledges it.                    *)
(***************************************************************************)
LEMMA PostGossipInv ==
  ASSUME Inv, NEW m \in gossip, PostGossip(m)
  PROVE  Inv'
<1>1. PICK n \in Nodes : n = m.dst
  BY MessageTypes DEF Inv
<1>2. m.src \in Nodes /\ m.seq \in Nat /\ News(m) \subseteq Keys /\ \A k \in Keys : m.sets[k] \in ORSets
  BY MessageTypes DEF Inv, News
<1>3. PICK order \in Surjection(1 .. Cardinality(News(m)), News(m)) :
         delta' = [delta EXCEPT ![n] = delta[n] \o Logged(m.sets, order)]
  BY <1>1 DEF PostGossip
<1>4. PICK new \in Seq(Deltas) :
         /\ new = Logged(m.sets, order)
         /\ \A j \in DOMAIN new : new[j].key \in News(m) /\ new[j].val = m.sets[new[j].key]
         /\ \A k \in News(m) : \E j \in DOMAIN new : new[j].key = k /\ new[j].val = m.sets[k]
  BY LoggedNews DEF Inv
<1>5. PICK len \in Nat, more \in Nat : len = Len(delta[n]) /\ more = Len(new) /\ DOMAIN new = 1 .. more
  <2>1. Len(delta[n]) \in Nat
    BY LogTypes DEF Inv, TypeOK
  <2>2. Len(new) \in Nat /\ DOMAIN new = 1 .. Len(new)
    OBVIOUS
  <2> QED BY <2>1, <2>2
<1>6. /\ delta' \in [Nodes -> Seq(Deltas)]
      /\ Len(delta'[n]) = len + more
      /\ \A j \in 1 .. len : delta'[n][j] = delta[n][j]
      /\ \A j \in 1 .. more : delta'[n][len + j] = new[j]
      /\ \A p \in Nodes : p # n => delta'[p] = delta[p]
  <2>1. delta[n] \in Seq(Deltas) /\ delta' = [delta EXCEPT ![n] = delta[n] \o new]
    BY <1>3, <1>4 DEF Inv, TypeOK
  <2>2. PICK log \in Seq(Deltas) : log = delta[n] \o new
    <3>1. delta[n] \o new \in Seq(Deltas)
      BY <2>1, ConcatProperties
    <3> QED BY <3>1
  <2>3. Len(log) = len + more
    BY <1>5, <2>1, <2>2
  <2>4. \A j \in 1 .. len : log[j] = delta[n][j]
    BY <1>5, <2>1, <2>2
  <2>5. \A j \in 1 .. more : log[len + j] = new[j]
    BY <1>5, <2>1, <2>2
  <2>6. delta'[n] = log
    BY <2>1, <2>2 DEF Inv, TypeOK
  <2> QED BY <2>1, <2>2, <2>3, <2>4, <2>5, <2>6 DEF Inv, TypeOK
<1>7. /\ \A k \in Keys : store'[n][k] = MergedSet(m, k)
      /\ \A p \in Nodes : p # n => store'[p] = store[p]
      /\ store' \in [Nodes -> Stores]
  <2>1. store' = [store EXCEPT ![n] = Merge(n, m.sets, News(m))]
    BY <1>1 DEF PostGossip
  <2>2. Merge(n, m.sets, News(m)) = [k \in Keys |-> MergedSet(m, k)]
    BY <1>1 DEF Merge, MergedSet
  <2>3. Merge(n, m.sets, News(m)) \in Stores
    BY <2>2, MergedSafe DEF Stores
  <2> QED BY <2>1, <2>2, <2>3 DEF Inv, TypeOK
<1>8. /\ gossip' \subseteq gossip /\ acks' = acks \cup {AckOf(m)}
      /\ peers' = peers /\ ack' = ack /\ ctx' = ctx /\ req' = req /\ history' = history
  BY DEF PostGossip, ReceiveGossip
<1>9. AckOf(m) \in Acks
  BY <1>1, <1>2 DEF AckOf, Acks
<1>10. TypeOK'
  BY <1>6, <1>7, <1>8, <1>9 DEF Inv, TypeOK
<1>11. ASSUME NEW k \in Keys
       PROVE  /\ ORLessOrEqual(m.sets[k], store'[n][k]) /\ ORLessOrEqual(store[n][k], store'[n][k])
              /\ store[n][k] \in ORSets /\ store'[n][k] \in ORSets
              /\ Closed(store'[n][k], history[k])
  BY <1>1, <1>7, MergedSafe, StoreTypes DEF Inv, TypeOK
<1>12. Grows
  <2>1. ASSUME NEW p \in Nodes, NEW k \in Keys
        PROVE  ORLessOrEqual(store[p][k], store'[p][k])
    <3>1. store[p][k] \in ORSets /\ ORLessOrEqual(store[p][k], store[p][k])
      BY StoreTypes, BelowOrder DEF Inv, TypeOK
    <3> QED BY <1>7, <1>11, <3>1
  <2>2. ASSUME NEW p \in Nodes
        PROVE  /\ Len(delta[p]) <= Len(delta'[p])
               /\ \A j \in 1 .. Len(delta[p]) : delta'[p][j] = delta[p][j]
    <3>1. CASE p = n
      BY <3>1, <1>5, <1>6
    <3>2. CASE p # n
      <4>1. delta'[p] = delta[p] /\ Len(delta[p]) \in Nat
        BY <3>2, <1>6, LogTypes DEF Inv, TypeOK
      <4> QED BY <4>1
    <3> QED BY <3>1, <3>2
  <2> QED BY <2>1, <2>2 DEF Grows
<1>13. ASSUME NEW p \in Nodes, NEW j \in 1 .. Len(delta'[p]), ~(j <= Len(delta[p]))
       PROVE  \E k \in News(m) : p = n /\ delta'[p][j].key = k /\ delta'[p][j].val = m.sets[k]
  <2>1. p = n
    <3>1. p # n => Len(delta'[p]) = Len(delta[p]) /\ Len(delta[p]) \in Nat
      BY <1>6, LogTypes DEF Inv, TypeOK
    <3> QED BY <3>1, <1>13
  <2>2. PICK i \in 1 .. more : j = len + i
    <3>1. j - len \in 1 .. more /\ j = len + (j - len)
      BY <1>5, <1>6, <1>13, <2>1
    <3> QED BY <3>1
  <2>3. delta'[p][j] = new[i] /\ i \in DOMAIN new
    BY <1>5, <1>6, <2>1, <2>2
  <2> QED BY <1>4, <2>1, <2>3
<1>14. ASSUME NEW p \in Nodes, NEW k \in Keys, NEW e \in Elements, NEW i \in Nodes,
              store'[p][k][e][i].counter # store[p][k][e][i].counter
       PROVE  /\ p = n /\ k \in News(m) /\ store'[p][k][e][i].counter = m.sets[k][e][i].counter
              /\ \E j \in 1 .. Len(delta'[p]) : delta'[p][j].key = k
                   /\ store'[p][k][e][i].counter <= delta'[p][j].val[e][i].counter
  <2>1. p = n
    BY <1>7, <1>14
  <2>2. k \in News(m) /\ store'[p][k][e][i].counter = m.sets[k][e][i].counter
    BY <1>1, <1>7, <1>14, <2>1, MergedSafe
  <2>3. PICK h \in 1 .. more : new[h].key = k /\ new[h].val = m.sets[k]
    BY <1>4, <1>5, <2>2
  <2>4. len + h \in 1 .. Len(delta'[p]) /\ delta'[p][len + h] = new[h]
    BY <1>6, <2>1
  <2>5. m.sets[k][e][i].counter \in Nat
    BY <1>2, SetEntries
  <2>6. m.sets[k][e][i].counter <= m.sets[k][e][i].counter
    BY <2>5
  <2> QED BY <2>1, <2>2, <2>3, <2>4, <2>6
<1>15. Learns
  <2>1. ASSUME NEW p \in Nodes, NEW j \in 1 .. Len(delta'[p]), ~(j <= Len(delta[p]))
        PROVE  ORLessOrEqual(delta'[p][j].val, store'[p][delta'[p][j].key])
    BY <1>2, <1>11, <1>13, <2>1
  <2> QED BY <1>12, <1>14, <2>1 DEF Learns
<1>16. AllClosed'
  <2>1. \A p \in Nodes, k \in Keys : Closed(store'[p][k], history[k])
    BY <1>7, <1>11 DEF Inv, AllClosed
  <2>2. ASSUME NEW p \in Nodes, NEW j \in DOMAIN delta'[p]
        PROVE  Closed(delta'[p][j].val, history[delta'[p][j].key])
    <3>1. j \in 1 .. Len(delta'[p]) /\ Len(delta[p]) \in Nat /\ DOMAIN delta[p] = 1 .. Len(delta[p])
      BY <1>6, LogTypes DEF Inv, TypeOK
    <3>2. CASE j <= Len(delta[p])
      <4>1. j \in DOMAIN delta[p] /\ delta'[p][j] = delta[p][j]
        BY <1>12, <3>1, <3>2 DEF Grows
      <4> QED BY <4>1 DEF Inv, AllClosed
    <3>3. CASE ~(j <= Len(delta[p]))
      BY <1>2, <1>13, <3>1, <3>3 DEF Inv, AllClosed
    <3> QED BY <3>2, <3>3
  <2> QED BY <1>8, <2>1, <2>2 DEF Inv, AllClosed
<1>17. DotsOwned'
  <2>1. ASSUME NEW p \in Nodes, NEW i \in Nodes, NEW k \in Keys, NEW e \in Elements
        PROVE  /\ store[p][k][e][i].counter \in Nat /\ store'[p][k][e][i].counter \in Nat
               /\ store[p][k][e][i].counter <= store'[p][k][e][i].counter
               /\ store[p][k][e][i].counter <= store[i][k][e][i].counter
    <3>1. store[p][k] \in ORSets /\ store'[p][k] \in ORSets
      BY <1>7, StoreTypes DEF Inv, TypeOK
    <3>2. ORLessOrEqual(store[p][k], store'[p][k])
      BY <1>12 DEF Grows
    <3> QED BY <3>1, <3>2, BelowOrder, SetEntries DEF Inv, DotsOwned
  <2>2. ASSUME NEW p \in Nodes, NEW i \in Nodes, NEW k \in Keys, NEW e \in Elements
        PROVE  store'[p][k][e][i].counter <= store[i][k][e][i].counter
    <3>1. CASE store'[p][k][e][i].counter = store[p][k][e][i].counter
      BY <2>1, <3>1
    <3>2. CASE store'[p][k][e][i].counter # store[p][k][e][i].counter
      <4>1. store'[p][k][e][i].counter = m.sets[k][e][i].counter
        BY <1>14, <3>2
      <4>2. ORLessOrEqual(m.sets[k], store[m.src][k]) /\ store[m.src][k] \in ORSets
        BY <1>2, StoreTypes DEF Inv, TypeOK, NothingAhead
      <4>3. m.sets[k][e][i].counter <= store[m.src][k][e][i].counter
        BY <1>2, <4>2, BelowOrder
      <4>4. /\ store[m.src][k][e][i].counter \in Nat /\ store[i][k][e][i].counter \in Nat
            /\ m.sets[k][e][i].counter \in Nat
            /\ store[m.src][k][e][i].counter <= store[i][k][e][i].counter
        BY <1>2, <2>1, SetEntries
      <4> QED BY <4>1, <4>3, <4>4, Transitive
    <3> QED BY <3>1, <3>2
  <2>3. ASSUME NEW p \in Nodes, NEW i \in Nodes, NEW k \in Keys, NEW e \in Elements
        PROVE  store'[p][k][e][i].counter <= store'[i][k][e][i].counter
    BY <2>1, <2>2, Transitive
  <2>4. ASSUME NEW k \in Keys, NEW x \in history[k]
        PROVE  x.dot <= store'[x.node][k][x.elem][x.node].counter
    <3>1. x.dot \in Nat /\ x.node \in Nodes /\ x.elem \in Elements
      BY DEF Inv, TypeOK, Operations
    <3>2. x.dot <= store[x.node][k][x.elem][x.node].counter
      BY DEF Inv, DotsOwned
    <3> QED BY <2>1, <3>1, <3>2, Transitive
  <2> QED BY <1>8, <2>3, <2>4 DEF DotsOwned
<1>18. ContextsKnown'
  <2>1. ASSUME NEW c \in Clients, NEW p \in Reach[c], NEW k \in Keys
        PROVE  Behind(ctx[c][k], store'[p][k])
    <3>1. p \in Nodes /\ ctx[c][k] \in Contexts /\ Behind(ctx[c][k], store[p][k])
      BY SetStoreAssumption DEF Inv, TypeOK, ContextsKnown
    <3> QED BY <1>10, <1>12, <3>1, BehindStable DEF Inv
  <2>2. ASSUME NEW c \in Clients, req[c].busy
        PROVE  Behind(req[c].vvs, store'[req[c].node][req[c].key])
    <3>1. /\ req[c].node \in Nodes /\ req[c].key \in Keys /\ req[c].vvs \in Contexts
          /\ Behind(req[c].vvs, store[req[c].node][req[c].key])
      BY <2>2, RequestTypes DEF Inv, ContextsKnown
    <3> QED BY <1>10, <1>12, <3>1, BehindStable DEF Inv
  <2> QED BY <1>8, <2>1, <2>2 DEF Inv, ContextsKnown
<1>19. SafeToSkip(m.src, m.dst, m.seq)'
  <2>1. /\ 0 < m.seq /\ m.seq <= Len(delta[m.src]) + 1
        /\ \A j \in 1 .. (m.seq - 1) :
             \/ ORLessOrEqual(delta[m.src][j].val, m.sets[delta[m.src][j].key])
             \/ ORLessOrEqual(delta[m.src][j].val, store[m.dst][delta[m.src][j].key])
    BY DEF Inv, SafeToMerge, setsSeq
  <2>2. /\ Len(delta[m.src]) \in Nat /\ Len(delta'[m.src]) \in Nat
        /\ Len(delta[m.src]) <= Len(delta'[m.src])
    BY <1>2, <1>6, <1>12, LogTypes DEF Inv, TypeOK, Grows
  <2>3. ASSUME NEW j \in 1 .. (m.seq - 1)
        PROVE  ORLessOrEqual(delta'[m.src][j].val, store'[m.dst][delta'[m.src][j].key])
    <3>1. j \in 1 .. Len(delta[m.src]) /\ delta'[m.src][j] = delta[m.src][j]
      BY <1>2, <1>12, <2>1, <2>2 DEF Grows
    <3>2. PICK d : d = delta[m.src][j]
      OBVIOUS
    <3>3. d.key \in Keys /\ d.val \in ORSets
      BY <1>2, <3>1, <3>2, LogTypes DEF Inv, TypeOK
    <3>4. ORLessOrEqual(d.val, m.sets[d.key]) \/ ORLessOrEqual(d.val, store[n][d.key])
      BY <1>1, <2>1, <3>2
    <3>5. ORLessOrEqual(d.val, store'[n][d.key])
      BY <1>2, <1>11, <3>3, <3>4, BelowOrder
    <3> QED BY <1>1, <3>1, <3>2, <3>5
  <2> QED BY <1>2, <2>1, <2>2, <2>3 DEF SafeToSkip, setsSeq
<1>20. \A a \in acks' : a \in acks \/ SafeToSkip(a.dst, a.src, a.seq)'
  <2>1. AckOf(m).dst = m.src /\ AckOf(m).src = m.dst /\ AckOf(m).seq = m.seq
    BY DEF AckOf
  <2>2. SafeToSkip(AckOf(m).dst, AckOf(m).src, AckOf(m).seq)'
    BY <1>19, <2>1
  <2> QED BY <1>8, <2>2
<1>21. \A k \in Keys : DotsUnique(history'[k])
  BY <1>8 DEF Inv
<1> QED BY <1>8, <1>10, <1>15, <1>16, <1>17, <1>18, <1>20, <1>21, LearnsKeepsInv

-----------------------------------------------------------------------------
(***************************************************************************)
(* An operation of a client whose context is behind the node: nobody has   *)
(* the new dot yet, so every other set stays closed.                       *)
(***************************************************************************)
DeltaOf(or, n, e, vv, add, d) == d = [NewORSet EXCEPT ![e] = D!Update(or[e], n, vv, add)]

\* Merging and logging the delta of an operation keeps the invariant.
LEMMA ApplyInv ==
  ASSUME Inv, NEW n \in Nodes, NEW k \in Keys, NEW e \in Elements, NEW vv \in D!VV,
         NEW add \in BOOLEAN, \A i \in Nodes : vv[i] <= store[n][k][e][i].counter,
         NEW d, DeltaOf(store[n][k], n, e, vv, add, d),
         Apply(n, k, e, d, add, vv),
         TypeOK => req' \in [Clients -> Requests \cup {Idle}],
         \A c \in Clients : req'[c].busy => /\ req[c].busy /\ req'[c].node = req[c].node
                                            /\ req'[c].key = req[c].key /\ req'[c].vvs = req[c].vvs,
         UNCHANGED <<ctx, gossipVars>>
  PROVE  Inv'
<1>1. PICK x : /\ x = OperationOf(n, e, d, add, vv)
               /\ history' = [history EXCEPT ![k] = @ \cup {x}]
               /\ store' = [store EXCEPT ![n][k] = ORMerge(@, d)]
               /\ delta' = [delta EXCEPT ![n] = Append(@, [key |-> k, val |-> d])]
  BY DEF Apply
<1>2. /\ ctx' = ctx /\ peers' = peers /\ ack' = ack /\ gossip' = gossip /\ acks' = acks
      /\ req' \in [Clients -> Requests \cup {Idle}]
  BY DEF gossipVars, Inv
<1>3. PICK or \in ORSets, H0 \in SUBSET Operations : or = store[n][k] /\ H0 = history[k]
  BY StoreTypes DEF Inv, TypeOK
<1>4. \A p, i \in Nodes, l \in Keys, f \in Elements :
        store[p][l] \in ORSets /\ store[p][l][f][i].counter \in Nat
  BY StoreTypes DEF Inv, TypeOK
<1>5. IsUpdate(or, H0, n, e, vv, add, d, x)
  <2>1. Closed(or, H0)
    BY <1>3 DEF Inv, AllClosed
  <2>2. \A y \in H0 : y.elem = e /\ y.node = n => y.dot <= or[e][n].counter
    BY <1>3 DEF Inv, DotsOwned
  <2> QED BY <1>1, <1>3, <2>1, <2>2 DEF IsUpdate, DeltaOf
<1>6. PICK top \in Nat :
        /\ d \in ORSets /\ x \in Operations /\ x.elem = e /\ x.node = n
        /\ Closed(d, H0 \cup {x})
        /\ top = or[e][n].counter /\ x.dot = top + 1
        /\ \A i \in Nodes : d[e][i].counter = IF i = n THEN top + 1 ELSE or[e][i].counter
        /\ \A f \in Elements, i \in Nodes : f # e => d[f][i].counter = 0
  <2>1. Updated(or, H0, n, e, d, x)
    BY <1>5, UpdateClosed
  <2> QED BY <2>1 DEF Updated
<1>7. ASSUME NEW s \in ORSets, NEW p \in Nodes, ORLessOrEqual(s, store[p][k])
      PROVE  ~Knows(s, x)
  <2>1. s[e][n].counter <= store[p][k][e][n].counter
    BY <1>4, <1>7, BelowOrder
  <2>2. store[p][k][e][n].counter <= top /\ store[p][k][e][n].counter \in Nat
    BY <1>3, <1>4, <1>6 DEF Inv, DotsOwned
  <2>3. s[e][n].counter \in Nat
    BY SetEntries
  <2>4. s[e][n].counter <= top
    BY <2>1, <2>2, <2>3, Transitive
  <2>5. ~(x.dot <= s[e][n].counter)
    BY <1>6, <2>3, <2>4
  <2> QED BY <1>6, <2>5 DEF Knows
<1>8. PICK H \in SUBSET Operations : H = H0 \cup {x}
  BY <1>6
<1>9. /\ history' \in [Keys -> SUBSET Operations] /\ history'[k] = H
      /\ \A l \in Keys : l # k => history'[l] = history[l]
  BY <1>1, <1>3, <1>8 DEF Inv, TypeOK
<1>10. ASSUME NEW s \in ORSets, NEW p \in Nodes, NEW l \in Keys,
              Closed(s, history[l]), ORLessOrEqual(s, store[p][l])
       PROVE  Closed(s, history'[l])
  <2>1. CASE l = k
    <3>1. ~Knows(s, x) /\ Closed(s, H0)
      BY <1>3, <1>7, <1>10, <2>1
    <3> QED BY <1>8, <1>9, <2>1, <3>1, ClosedGrows
  <2>2. CASE l # k
    BY <1>9, <1>10, <2>2
  <2> QED BY <2>1, <2>2
<1>11. ASSUME NEW p \in Nodes, NEW l \in Keys
       PROVE  Closed(store[p][l], history'[l])
  <2>1. ORLessOrEqual(store[p][l], store[p][l])
    BY <1>4, BelowOrder
  <2> QED BY <1>4, <1>10, <2>1 DEF Inv, AllClosed
<1>12. PICK g \in ORSets : /\ g = ORMerge(or, d) /\ Closed(g, H)
                           /\ ORLessOrEqual(or, g) /\ ORLessOrEqual(d, g)
                           /\ \A f \in Elements, i \in Nodes : g[f][i].counter =
                                IF or[f][i].counter >= d[f][i].counter
                                  THEN or[f][i].counter ELSE d[f][i].counter
  <2>1. d \in ORSets /\ Closed(or, H) /\ Closed(d, H)
    <3>1. d \in ORSets /\ Closed(d, H)
      BY <1>6, <1>8
    <3>2. Closed(store[n][k], history'[k])
      BY <1>11
    <3>3. store[n][k] = or /\ history'[k] = H
      BY <1>3, <1>9
    <3> QED BY <3>1, <3>2, <3>3
  <2>2. PICK g \in ORSets : /\ g = ORMerge(or, d)
                            /\ \A f \in Elements, i \in Nodes : g[f][i].counter =
                                 IF or[f][i].counter >= d[f][i].counter
                                   THEN or[f][i].counter ELSE d[f][i].counter
    BY <2>1, ClosedMerge
  <2>3. Closed(g, H) /\ ORLessOrEqual(or, g) /\ ORLessOrEqual(d, g)
    BY <2>1, <2>2, MergeLeast
  <2> QED BY <2>2, <2>3
<1>13. ASSUME NEW f \in Elements, NEW i \in Nodes
       PROVE  g[f][i].counter = IF f = e /\ i = n THEN top + 1 ELSE or[f][i].counter
  <2>1. PICK j \in Nat : j = or[f][i].counter
    BY <1>3, <1>4
  <2>2. d[f][i].counter = IF f = e THEN IF i = n THEN top + 1 ELSE j ELSE 0
    BY <1>6, <2>1
  <2>3. f = e /\ i = n => j = top
    BY <1>6, <2>1
  <2> QED BY <1>12, <2>1, <2>2, <2>3
<1>14. /\ store' \in [Nodes -> Stores] /\ store'[n][k] = g
       /\ \A p \in Nodes, l \in Keys : p # n \/ l # k => store'[p][l] = store[p][l]
  <2>1. store \in [Nodes -> Stores] /\ store' = [store EXCEPT ![n][k] = g]
    BY <1>1, <1>3, <1>12 DEF Inv, TypeOK
  <2> QED BY <2>1 DEF Stores
<1>15. PICK len \in Nat :
         /\ len = Len(delta[n]) /\ Len(delta'[n]) = len + 1
         /\ delta' \in [Nodes -> Seq(Deltas)]
         /\ \A j \in 1 .. len : delta'[n][j] = delta[n][j]
         /\ delta'[n][len + 1].key = k /\ delta'[n][len + 1].val = d
         /\ \A p \in Nodes : p # n => delta'[p] = delta[p]
  <2>1. PICK log \in Seq(Deltas), new \in Deltas : log = delta[n] /\ new = [key |-> k, val |-> d]
    BY <1>6 DEF Inv, TypeOK, Deltas
  <2>2. delta' = [delta EXCEPT ![n] = Append(log, new)] /\ delta \in [Nodes -> Seq(Deltas)]
    BY <1>1, <2>1 DEF Inv, TypeOK
  <2>3. /\ Append(log, new) \in Seq(Deltas) /\ Len(log) \in Nat
        /\ Len(Append(log, new)) = Len(log) + 1
        /\ \A j \in 1 .. Len(log) : Append(log, new)[j] = log[j]
        /\ Append(log, new)[Len(log) + 1] = new
    OBVIOUS
  <2>4. new.key = k /\ new.val = d
    BY <2>1
  <2> QED BY <2>1, <2>2, <2>3, <2>4
<1>16. TypeOK'
  BY <1>2, <1>9, <1>14, <1>15 DEF Inv, TypeOK
<1>17. ASSUME NEW p \in Nodes, NEW l \in Keys, NEW f \in Elements, NEW i \in Nodes
       PROVE  /\ store'[p][l][f][i].counter \in Nat
              /\ store[p][l][f][i].counter <= store'[p][l][f][i].counter
              /\ store'[p][l][f][i].counter =
                   IF p = n /\ l = k /\ f = e /\ i = n THEN top + 1 ELSE store[p][l][f][i].counter
  <2>1. store'[p][l][f][i].counter =
          IF p = n /\ l = k /\ f = e /\ i = n THEN top + 1 ELSE store[p][l][f][i].counter
    BY <1>3, <1>13, <1>14
  <2>2. p = n /\ l = k /\ f = e /\ i = n => store[p][l][f][i].counter = top
    BY <1>3, <1>6
  <2> QED BY <1>4, <2>1, <2>2
<1>18. Grows
  <2>1. ASSUME NEW p \in Nodes, NEW l \in Keys
        PROVE  ORLessOrEqual(store[p][l], store'[p][l])
    <3>1. store[p][l] \in ORSets /\ store'[p][l] \in ORSets
      BY <1>4, <1>14, StoreTypes
    <3> QED BY <1>17, <3>1, BelowOrder
  <2>2. ASSUME NEW p \in Nodes
        PROVE  /\ Len(delta[p]) <= Len(delta'[p])
               /\ \A j \in 1 .. Len(delta[p]) : delta'[p][j] = delta[p][j]
    <3>1. CASE p = n
      BY <3>1, <1>15
    <3>2. CASE p # n
      <4>1. delta'[p] = delta[p] /\ Len(delta[p]) \in Nat
        BY <3>2, <1>15, LogTypes DEF Inv, TypeOK
      <4> QED BY <4>1
    <3> QED BY <3>1, <3>2
  <2> QED BY <2>1, <2>2 DEF Grows
<1>19. ASSUME NEW p \in Nodes, NEW j \in 1 .. Len(delta'[p]), ~(j <= Len(delta[p]))
       PROVE  p = n /\ delta'[p][j].key = k /\ delta'[p][j].val = d
  <2>1. p = n
    <3>1. p # n => Len(delta'[p]) = Len(delta[p]) /\ Len(delta[p]) \in Nat
      BY <1>15, LogTypes DEF Inv, TypeOK
    <3> QED BY <3>1, <1>19
  <2>2. j = len + 1
    BY <1>15, <1>19, <2>1
  <2> QED BY <1>15, <2>1, <2>2
<1>20. Learns
  <2>1. ASSUME NEW p \in Nodes, NEW j \in 1 .. Len(delta'[p]), ~(j <= Len(delta[p]))
        PROVE  ORLessOrEqual(delta'[p][j].val, store'[p][delta'[p][j].key])
    BY <1>12, <1>14, <1>19, <2>1
  <2>2. ASSUME NEW p \in Nodes, NEW l \in Keys, NEW f \in Elements, NEW i \in Nodes,
               store'[p][l][f][i].counter # store[p][l][f][i].counter
        PROVE  \E j \in 1 .. Len(delta'[p]) : delta'[p][j].key = l
                 /\ store'[p][l][f][i].counter <= delta'[p][j].val[f][i].counter
    <3>1. p = n /\ l = k /\ f = e /\ i = n /\ store'[p][l][f][i].counter = top + 1
      BY <1>17, <2>2
    <3>2. len + 1 \in 1 .. Len(delta'[p])
      BY <1>15, <3>1
    <3>3. delta'[p][len + 1].key = l /\ delta'[p][len + 1].val[f][i].counter = top + 1
      <4>1. d[e][n].counter = top + 1
        BY <1>6
      <4> QED BY <1>15, <3>1, <4>1
    <3>4. top + 1 <= top + 1
      OBVIOUS
    <3> QED BY <3>1, <3>2, <3>3, <3>4
  <2> QED BY <1>18, <2>1, <2>2 DEF Learns
<1>21. AllClosed'
  <2>1. ASSUME NEW p \in Nodes, NEW l \in Keys
        PROVE  Closed(store'[p][l], history'[l])
    <3>1. CASE p = n /\ l = k
      BY <1>9, <1>12, <1>14, <3>1
    <3>2. CASE p # n \/ l # k
      BY <1>11, <1>14, <3>2
    <3> QED BY <3>1, <3>2
  <2>2. ASSUME NEW p \in Nodes, NEW j \in DOMAIN delta'[p]
        PROVE  Closed(delta'[p][j].val, history'[delta'[p][j].key])
    <3>1. j \in 1 .. Len(delta'[p]) /\ Len(delta[p]) \in Nat /\ DOMAIN delta[p] = 1 .. Len(delta[p])
      BY <1>15, LogTypes DEF Inv, TypeOK
    <3>2. CASE j <= Len(delta[p])
      <4>1. j \in 1 .. Len(delta[p]) /\ delta'[p][j] = delta[p][j]
        BY <1>18, <3>1, <3>2 DEF Grows
      <4>2. PICK s \in ORSets, l \in Keys : s = delta[p][j].val /\ l = delta[p][j].key
        BY <4>1, LogTypes DEF Inv, TypeOK
      <4>3. Closed(s, history[l]) /\ ORLessOrEqual(s, store[p][l])
        BY <3>1, <4>1, <4>2 DEF Inv, AllClosed, NothingAhead
      <4> QED BY <1>10, <4>1, <4>2, <4>3
    <3>3. CASE ~(j <= Len(delta[p]))
      <4>1. delta'[p][j].key = k /\ delta'[p][j].val = d
        BY <1>19, <3>1, <3>3
      <4>2. Closed(d, history'[k])
        BY <1>6, <1>8, <1>9
      <4> QED BY <4>1, <4>2
    <3> QED BY <3>2, <3>3
  <2>3. ASSUME NEW m \in gossip, NEW l \in Keys
        PROVE  Closed(m.sets[l], history'[l]) /\ Closed(m.snap[l], history'[l])
    <3>1. m.src \in Nodes /\ m.sets[l] \in ORSets /\ m.snap[l] \in ORSets
      BY MessageTypes DEF Inv
    <3>2. Closed(m.sets[l], history[l]) /\ ORLessOrEqual(m.sets[l], store[m.src][l])
      BY DEF Inv, AllClosed, NothingAhead
    <3>3. Closed(m.snap[l], history[l]) /\ ORLessOrEqual(m.snap[l], store[m.src][l])
      BY DEF Inv, AllClosed, Complete
    <3> QED BY <1>10, <3>1, <3>2, <3>3
  <2> QED BY <1>2, <2>1, <2>2, <2>3 DEF AllClosed
<1>22. \A l \in Keys : DotsUnique(history'[l])
  <2>1. ASSUME NEW y \in H0, y.elem = e, y.node = n
        PROVE  y.dot # x.dot
    <3>1. y.dot \in Nat /\ y.dot <= top
      BY <1>3, <1>6, <2>1 DEF Operations, Inv, DotsOwned
    <3> QED BY <1>6, <3>1
  <2>2. ASSUME NEW y \in H, NEW z \in H, y.elem = z.elem, y.node = z.node, y.dot = z.dot
        PROVE  y = z
    <3>1. CASE y \in H0 /\ z \in H0
      BY <1>3, <2>2, <3>1 DEF Inv, DotsUnique
    <3>2. CASE y = x /\ z \in H0
      BY <1>6, <2>1, <2>2, <3>2
    <3>3. CASE y \in H0 /\ z = x
      BY <1>6, <2>1, <2>2, <3>3
    <3> QED BY <1>8, <2>2, <3>1, <3>2, <3>3
  <2>3. DotsUnique(H)
    BY <2>2 DEF DotsUnique
  <2> QED BY <1>9, <2>3 DEF Inv
<1>23. DotsOwned'
  <2>1. ASSUME NEW p \in Nodes, NEW i \in Nodes, NEW l \in Keys, NEW f \in Elements
        PROVE  store'[p][l][f][i].counter <= store'[i][l][f][i].counter
    <3>1. CASE p = n /\ l = k /\ f = e /\ i = n
      BY <1>17, <3>1
    <3>2. CASE ~(p = n /\ l = k /\ f = e /\ i = n)
      <4>1. store'[p][l][f][i].counter = store[p][l][f][i].counter
        BY <1>17, <3>2
      <4>2. store[p][l][f][i].counter <= store[i][l][f][i].counter
            /\ store[i][l][f][i].counter <= store'[i][l][f][i].counter
        BY <1>17 DEF Inv, DotsOwned
      <4>3. store[p][l][f][i].counter <= store'[i][l][f][i].counter
        BY <1>4, <1>17, <4>2, Transitive
      <4> QED BY <4>1, <4>3
    <3> QED BY <3>1, <3>2
  <2>2. ASSUME NEW l \in Keys, NEW y \in history'[l]
        PROVE  y.dot <= store'[y.node][l][y.elem][y.node].counter
    <3>1. CASE l = k /\ y = x
      BY <1>6, <1>17, <3>1
    <3>2. CASE y \in history[l]
      <4>1. y.dot \in Nat /\ y.node \in Nodes /\ y.elem \in Elements
        BY <3>2 DEF Inv, TypeOK, Operations
      <4>2. y.dot <= store[y.node][l][y.elem][y.node].counter
        BY <3>2 DEF Inv, DotsOwned
      <4> QED BY <1>4, <1>17, <4>1, <4>2, Transitive
    <3> QED BY <1>3, <1>8, <1>9, <3>1, <3>2
  <2> QED BY <2>1, <2>2 DEF DotsOwned
<1>24. ContextsKnown'
  <2>1. ASSUME NEW c \in Clients, NEW p \in Reach[c], NEW l \in Keys
        PROVE  Behind(ctx[c][l], store'[p][l])
    <3>1. p \in Nodes /\ ctx[c][l] \in Contexts /\ Behind(ctx[c][l], store[p][l])
      BY SetStoreAssumption DEF Inv, TypeOK, ContextsKnown
    <3> QED BY <1>16, <1>18, <3>1, BehindStable DEF Inv
  <2>2. ASSUME NEW c \in Clients, req'[c].busy
        PROVE  req'[c].node \in Reach[c] /\ Behind(req'[c].vvs, store'[req'[c].node][req'[c].key])
    <3>1. /\ req[c].node \in Nodes /\ req[c].key \in Keys /\ req[c].vvs \in Contexts
          /\ req[c].node \in Reach[c] /\ Behind(req[c].vvs, store[req[c].node][req[c].key])
      BY <2>2, RequestTypes DEF Inv, ContextsKnown
    <3>2. Behind(req[c].vvs, store'[req[c].node][req[c].key])
      BY <1>16, <1>18, <3>1, BehindStable DEF Inv
    <3> QED BY <2>2, <3>1, <3>2
  <2> QED BY <1>2, <2>1, <2>2 DEF ContextsKnown
<1> QED BY <1>2, <1>16, <1>20, <1>21, <1>22, <1>23, <1>24, LearnsKeepsInv

(***************************************************************************)
(* Taking an element off the request leaves the rest of it as it was.      *)
(***************************************************************************)
LEMMA RequestShrinks ==
  ASSUME TypeOK, NEW c \in Clients, req[c].busy, NEW rest \in Seq(Elements),
         req' = [req EXCEPT ![c].remove = rest] \/ req' = [req EXCEPT ![c].add = rest]
  PROVE  /\ req' \in [Clients -> Requests \cup {Idle}]
         /\ \A b \in Clients : req'[b].busy =>
              /\ req[b].busy /\ req'[b].node = req[b].node
              /\ req'[b].key = req[b].key /\ req'[b].vvs = req[b].vvs
<1>1. PICK r \in Requests : r = req[c]
  BY RequestTypes
<1>2. req \in [Clients -> Requests \cup {Idle}]
  BY DEF TypeOK
<1>3. ASSUME NEW s \in {[r EXCEPT !.remove = rest], [r EXCEPT !.add = rest]}
      PROVE  /\ s \in Requests /\ s.node = r.node /\ s.key = r.key /\ s.vvs = r.vvs
  BY DEF Requests
<1>4. PICK s \in Requests : /\ s.node = r.node /\ s.key = r.key /\ s.vvs = r.vvs
                            /\ req' = [req EXCEPT ![c] = s]
  <2>1. req' = [req EXCEPT ![c] = [r EXCEPT !.remove = rest]]
        \/ req' = [req EXCEPT ![c] = [r EXCEPT !.add = rest]]
    BY <1>1
  <2> QED BY <1>3, <2>1
<1>5. req'[c] = s /\ \A b \in Clients : b # c => req'[b] = req[b]
  BY <1>2, <1>4
<1>6. req' \in [Clients -> Requests \cup {Idle}]
  BY <1>2, <1>4
<1> QED BY <1>1, <1>4, <1>5, <1>6

(***************************************************************************)
(* Store.RemoveSet, which does nothing if the element is unknown.          *)
(***************************************************************************)
LEMMA RemoveStepInv ==
  ASSUME Inv, NEW c \in Clients, RemoveStep(c)
  PROVE  Inv'
<1>1. /\ req[c].busy /\ req[c].remove # <<>> /\ req' = [req EXCEPT ![c].remove = Tail(req[c].remove)]
      /\ ctx' = ctx /\ UNCHANGED gossipVars
  BY DEF RemoveStep
<1>2. PICK n \in Nodes, k \in Keys, vvs \in Contexts, l \in Seq(Elements) :
        /\ n = req[c].node /\ k = req[c].key /\ vvs = req[c].vvs /\ l = req[c].remove
        /\ Behind(vvs, store[n][k])
  BY <1>1, RequestTypes DEF Inv, ContextsKnown
<1>3. PICK e \in Elements, rest \in Seq(Elements) : e = Head(l) /\ rest = Tail(l)
  <2>1. l # <<>>
    BY <1>1, <1>2
  <2>2. Head(l) \in Elements /\ Tail(l) \in Seq(Elements)
    BY ONLY <2>1, l \in Seq(Elements)
  <2> QED BY <2>2
<1>4. /\ req' \in [Clients -> Requests \cup {Idle}]
      /\ \A b \in Clients : req'[b].busy =>
           /\ req[b].busy /\ req'[b].node = req[b].node
           /\ req'[b].key = req[b].key /\ req'[b].vvs = req[b].vvs
  BY <1>1, <1>2, <1>3, RequestShrinks DEF Inv
<1>5. PICK vv \in D!VV : vv = vvs[e] /\ \A i \in Nodes : vv[i] <= store[n][k][e][i].counter
  BY <1>2 DEF Contexts, Behind
<1>6. PICK d : d = ORRemove(store[n][k], n, e, vv)
  OBVIOUS
<1>7. IF d = NewORSet THEN UNCHANGED <<store, delta, history>> ELSE Apply(n, k, e, d, FALSE, vv)
  BY <1>2, <1>3, <1>5, <1>6 DEF RemoveStep, RemoveSet
<1>8. CASE d = NewORSet
  <2>1. store' = store /\ delta' = delta /\ history' = history
    BY <1>7, <1>8
  <2>2. peers' = peers /\ ack' = ack /\ gossip' = gossip /\ acks' = acks
    BY <1>1 DEF gossipVars
  <2>3. TypeOK'
    BY <1>1, <1>4, <2>1, <2>2 DEF Inv, TypeOK
  <2>4. ContextsKnown'
    BY <1>1, <1>4, <2>1 DEF Inv, ContextsKnown
  <2> QED BY <2>1, <2>2, <2>3, <2>4, IdleLearns, IdleKeeps, LearnsKeepsInv
<1>9. CASE d # NewORSet
  <2>1. DeltaOf(store[n][k], n, e, vv, FALSE, d) /\ Apply(n, k, e, d, FALSE, vv)
    BY <1>6, <1>7, <1>9 DEF ORRemove, DeltaOf
  <2> QED BY <1>1, <1>4, <1>5, <2>1, ApplyInv
<1> QED BY <1>8, <1>9

(***************************************************************************)
(* Store.AddSet.                                                           *)
(***************************************************************************)
LEMMA AddStepInv ==
  ASSUME Inv, NEW c \in Clients, AddStep(c)
  PROVE  Inv'
<1>1. /\ req[c].busy /\ req[c].add # <<>> /\ req' = [req EXCEPT ![c].add = Tail(req[c].add)]
      /\ ctx' = ctx /\ UNCHANGED gossipVars
  BY DEF AddStep
<1>2. PICK n \in Nodes, k \in Keys, vvs \in Contexts, l \in Seq(Elements) :
        /\ n = req[c].node /\ k = req[c].key /\ vvs = req[c].vvs /\ l = req[c].add
        /\ Behind(vvs, store[n][k])
  BY <1>1, RequestTypes DEF Inv, ContextsKnown
<1>3. PICK e \in Elements, rest \in Seq(Elements) : e = Head(l) /\ rest = Tail(l)
  <2>1. l # <<>>
    BY <1>1, <1>2
  <2>2. Head(l) \in Elements /\ Tail(l) \in Seq(Elements)
    BY ONLY <2>1, l \in Seq(Elements)
  <2> QED BY <2>2
<1>4. /\ req' \in [Clients -> Requests \cup {Idle}]
      /\ \A b \in Clients : req'[b].busy =>
           /\ req[b].busy /\ req'[b].node = req[b].node
           /\ req'[b].key = req[b].key /\ req'[b].vvs = req[b].vvs
  BY <1>1, <1>2, <1>3, RequestShrinks DEF Inv
<1>5. PICK vv \in D!VV : vv = vvs[e] /\ \A i \in Nodes : vv[i] <= store[n][k][e][i].counter
  BY <1>2 DEF Contexts, Behind
<1>6. PICK d : d = ORAdd(store[n][k], n, e, vv)
  OBVIOUS
<1>7. Apply(n, k, e, d, TRUE, vv)
  BY <1>2, <1>3, <1>5, <1>6 DEF AddStep, AddSet
<1>8. DeltaOf(store[n][k], n, e, vv, TRUE, d)
  BY <1>6 DEF ORAdd, DeltaOf
<1> QED BY <1>1, <1>4, <1>5, <1>7, <1>8, ApplyInv

-----------------------------------------------------------------------------
(***************************************************************************)
(* Every step keeps the invariant.                                         *)
(***************************************************************************)
LEMMA NextInv ==
  ASSUME StickyClients, Inv, [Next]_vars
  PROVE  Inv'
<1>1. ASSUME NEW c \in Clients, Client(c)
      PROVE  Inv'
  BY <1>1, GetSetInv, PostSetInv, RemoveStepInv, AddStepInv, RespondInv DEF Client
<1>2. CASE \E n, p \in Nodes : StartGossip(n, p)
  BY <1>2, StartGossipInv
<1>3. CASE \E m \in gossip : PostGossip(m)
  BY <1>3, PostGossipInv
<1>4. CASE Transport /\ UNCHANGED setVars
  BY <1>4, TransportInv
<1>5. CASE UNCHANGED vars
  <2>1. /\ store' = store /\ delta' = delta /\ ctx' = ctx /\ req' = req /\ history' = history
        /\ peers' = peers /\ ack' = ack /\ gossip' = gossip /\ acks' = acks
    BY <1>5 DEF vars, setVars, gossipVars
  <2>2. TypeOK'
    BY <2>1 DEF Inv, TypeOK
  <2>3. ContextsKnown'
    BY <2>1 DEF Inv, ContextsKnown
  <2> QED BY <2>1, <2>2, <2>3, IdleLearns, IdleKeeps, LearnsKeepsInv
<1> QED BY <1>1, <1>2, <1>3, <1>4, <1>5 DEF Next

(***************************************************************************)
(* The inductive invariant: every set in a store, a log or a message is    *)
(* closed under the history, and what a peer acknowledged it knows.        *)
(***************************************************************************)
THEOREM Invariance ==
  ASSUME StickyClients
  PROVE  Spec => []Inv
<1>1. Inv /\ [Next]_vars => Inv'
  BY NextInv
<1> QED BY <1>1, InitInv, PTL DEF Spec

(***************************************************************************)
(* Sets, logs, contexts, requests and messages keep their types: a counter *)
(* never leaves the naturals, and postSet never runs out of its body.      *)
(***************************************************************************)
THEOREM TypeCorrect ==
  ASSUME StickyClients
  PROVE  Spec => []TypeOK
<1>1. Inv => TypeOK
  BY DEF Inv
<1> QED BY <1>1, Invariance, PTL

(***************************************************************************)
(* What is left of an element at a node are exactly the adds and removes   *)
(* it knows of that none it knows of had observed, whatever was lost,      *)
(* repeated or overtaken on the way there.                                 *)
(***************************************************************************)
THEOREM SiblingsAreExact ==
  ASSUME StickyClients
  PROVE  Spec => []SiblingsExact
<1>1. Inv => SiblingsExact
  <2> SUFFICES ASSUME Inv, NEW n \in Nodes, NEW k \in Keys
               PROVE  MarkersExact(store[n][k], history[k])
    BY DEF SiblingsExact
  <2>1. /\ store[n][k] \in ORSets /\ history[k] \in SUBSET Operations
        /\ Closed(store[n][k], history[k]) /\ DotsUnique(history[k])
    BY StoreTypes DEF Inv, TypeOK, AllClosed
  <2> QED BY <2>1, ClosedExact
<1> QED BY <1>1, Invariance, PTL

(***************************************************************************)
(* A set Store.Merge skips, because its counters tell nothing new, would   *)
(* have changed nothing.                                                   *)
(***************************************************************************)
THEOREM SkippingIsHarmless ==
  ASSUME StickyClients
  PROVE  Spec => []SkipHarmless
<1>1. Inv => SkipHarmless
  <2> SUFFICES ASSUME Inv, NEW m \in gossip, NEW k \in Keys \ News(m)
               PROVE  ORMerge(store[m.dst][k], m.sets[k]) = store[m.dst][k]
    BY DEF SkipHarmless
  <2>1. PICK a \in ORSets, b \in ORSets, H \in SUBSET Operations :
          a = m.sets[k] /\ b = store[m.dst][k] /\ H = history[k]
    BY MessageTypes, StoreTypes DEF Inv, TypeOK
  <2>2. Closed(a, H) /\ Closed(b, H) /\ ORLessOrEqual(a, b)
    BY <2>1, MessageTypes DEF Inv, AllClosed, News
  <2> QED BY <2>1, <2>2, CoveredIsIdle
<1> QED BY <1>1, Invariance, PTL

(***************************************************************************)
(* A peer that acknowledged the whole log knows all the node knows.        *)
(***************************************************************************)
LEMMA SilenceKnown ==
  ASSUME Inv, NEW n \in Nodes, NEW p \in Nodes, ~HasNews(n, p), NEW k \in Keys
  PROVE  ORLessOrEqual(store[n][k], store[p][k])
<1>1. PICK a \in ORSets, b \in ORSets : a = store[n][k] /\ b = store[p][k]
  BY StoreTypes DEF Inv, TypeOK
<1>2. PICK len \in Nat : len = Len(delta[n]) /\ DOMAIN delta[n] = 1 .. len
  BY LogTypes DEF Inv, TypeOK
<1>3. \A j \in 1 .. len : ORLessOrEqual(delta[n][j].val, store[p][delta[n][j].key])
  <2>1. ack[n][p] \in Nat /\ ack[n][p] # 0 /\ ~(ack[n][p] < len + 1)
    BY <1>2 DEF HasNews, setsSeq, Inv, TypeOK
  <2>2. SafeToSkip(n, p, ack[n][p])
    BY <2>1 DEF Inv
  <2>3. ack[n][p] = len + 1
    BY <1>2, <2>1, <2>2 DEF SafeToSkip, setsSeq
  <2> QED BY <2>2, <2>3 DEF SafeToSkip
<1>4. ASSUME NEW e \in Elements, NEW i \in Nodes
      PROVE  a[e][i].counter <= b[e][i].counter
  <2>1. a[e][i].counter \in Nat /\ b[e][i].counter \in Nat
    BY SetEntries
  <2>2. CASE a[e][i].counter = 0
    BY <2>1, <2>2
  <2>3. CASE a[e][i].counter # 0
    <3>1. PICK j \in 1 .. len :
            delta[n][j].key = k /\ a[e][i].counter <= delta[n][j].val[e][i].counter
      BY <1>1, <1>2, <2>3 DEF Inv, StoresLogged
    <3>2. delta[n][j].val \in ORSets
      BY <1>2, LogTypes DEF Inv, TypeOK
    <3>3. ORLessOrEqual(delta[n][j].val, b)
      BY <1>1, <1>3, <3>1
    <3>4. delta[n][j].val[e][i].counter <= b[e][i].counter
          /\ delta[n][j].val[e][i].counter \in Nat
      BY <3>2, <3>3, BelowOrder, SetEntries
    <3> QED BY <2>1, <3>1, <3>4, Transitive
  <2> QED BY <2>2, <2>3
<1> QED BY <1>1, <1>4, BelowOrder

(***************************************************************************)
(* In a fully connected cluster with nothing left to send all nodes hold   *)
(* the same sets, markers and all.                                         *)
(***************************************************************************)
THEOREM SilentClusterConverged ==
  ASSUME StickyClients
  PROVE  Spec => []QuietConverged
<1>1. Inv => QuietConverged
  <2> SUFFICES ASSUME Inv, Quiet, FullMembership, NEW n \in Nodes, NEW p \in Nodes
               PROVE  store[n] = store[p]
    BY DEF QuietConverged
  <2>1. CASE n = p
    BY <2>1
  <2>2. CASE n # p
    <3>1. ~HasNews(n, p) /\ ~HasNews(p, n)
      BY <2>2 DEF Quiet, FullMembership
    <3>2. ASSUME NEW k \in Keys
          PROVE  store[n][k] = store[p][k]
      <4>1. PICK a \in ORSets, b \in ORSets, H \in SUBSET Operations :
              a = store[n][k] /\ b = store[p][k] /\ H = history[k]
        BY StoreTypes DEF Inv, TypeOK
      <4>2. Closed(a, H) /\ Closed(b, H) /\ DotsUnique(H)
        BY <4>1 DEF Inv, AllClosed
      <4>3. ORLessOrEqual(a, b) /\ ORLessOrEqual(b, a)
        BY <3>1, <4>1, SilenceKnown
      <4> QED BY <4>1, <4>2, <4>3, CountersDecide
    <3> QED BY <3>2 DEF Inv, TypeOK, Stores
  <2> QED BY <2>1, <2>2
<1> QED BY <1>1, Invariance, PTL
-----------------------------------------------------------------------------
(***************************************************************************)
(* The causal delta-merging condition: merging a message has the effect of *)
(* merging the store it was built from, however late it arrives.  Both     *)
(* merges are closed and have the same counters.                           *)
(***************************************************************************)
LEMMA MergesSnapshot ==
  ASSUME Inv, NEW m \in gossip, NEW k \in Keys
  PROVE  ORMerge(store[m.dst][k], m.sets[k]) = ORMerge(store[m.dst][k], m.snap[k])
<1>1. PICK a \in ORSets, b \in ORSets, c \in ORSets, H \in SUBSET Operations :
        a = store[m.dst][k] /\ b = m.sets[k] /\ c = m.snap[k] /\ H = history[k]
  BY MessageTypes, StoreTypes DEF Inv, TypeOK
<1>2. Closed(a, H) /\ Closed(b, H) /\ Closed(c, H) /\ DotsUnique(H)
  BY <1>1, MessageTypes DEF Inv, AllClosed
<1>3. ASSUME NEW e \in Elements, NEW i \in Nodes
      PROVE  /\ b[e][i].counter <= c[e][i].counter
             /\ c[e][i].counter <= b[e][i].counter \/ c[e][i].counter <= a[e][i].counter
  <2>1. ORLessOrEqual(b, c) /\ (c[e][i].counter <= b[e][i].counter \/ c[e][i].counter <= a[e][i].counter)
    BY <1>1 DEF Inv, Complete
  <2> QED BY <2>1, BelowOrder
<1>4. PICK g \in ORSets : /\ g = ORMerge(a, b) /\ Closed(g, H)
                          /\ \A e \in Elements, i \in Nodes : g[e][i].counter =
                               IF a[e][i].counter >= b[e][i].counter
                                 THEN a[e][i].counter ELSE b[e][i].counter
  BY <1>2, ClosedMerge, MergeLeast
<1>5. PICK h \in ORSets : /\ h = ORMerge(a, c) /\ Closed(h, H)
                          /\ \A e \in Elements, i \in Nodes : h[e][i].counter =
                               IF a[e][i].counter >= c[e][i].counter
                                 THEN a[e][i].counter ELSE c[e][i].counter
  BY <1>2, ClosedMerge, MergeLeast
<1>6. ASSUME NEW e \in Elements, NEW i \in Nodes
      PROVE  g[e][i].counter = h[e][i].counter /\ g[e][i].counter \in Nat
  <2>1. a[e][i].counter \in Nat /\ b[e][i].counter \in Nat /\ c[e][i].counter \in Nat
    BY SetEntries
  <2> QED BY <1>3, <1>4, <1>5, <2>1
<1>7. ORLessOrEqual(g, h) /\ ORLessOrEqual(h, g)
  BY <1>6, BelowOrder
<1>8. g = h
  BY <1>2, <1>4, <1>5, <1>7, CountersDecide
<1> QED BY <1>1, <1>4, <1>5, <1>8

(***************************************************************************)
(* DeltasMergeCausally.  ... so it may be old, and leave out what its      *)
(* receiver acknowledged.                                                  *)
(***************************************************************************)
THEOREM DeltasMergeCausally ==
  ASSUME StickyClients
  PROVE  Spec => []CausalDeltaMerging
<1>1. Inv => CausalDeltaMerging
  BY MergesSnapshot DEF CausalDeltaMerging
<1> QED BY <1>1, Invariance, PTL

Flight == {[src |-> m.src, dst |-> m.dst, state |-> m.snap] : m \in gossip}

(***************************************************************************)
(* An operation with a context that is behind its node is a write of the   *)
(* state-based set.                                                        *)
(***************************************************************************)
LEMMA RefinesApply ==
  ASSUME Inv, NEW n \in Nodes, NEW k \in Keys, NEW e \in Elements, NEW vv \in D!VV,
         \A i \in Nodes : vv[i] <= store[n][k][e][i].counter,
         NEW d \in {ORAdd(store[n][k], n, e, vv), ORRemove(store[n][k], n, e, vv)},
         store' = [store EXCEPT ![n][k] = ORMerge(@, d)], gossip' = gossip
  PROVE  [SB!Next]_<<store, Flight>>
<1>1. \A i \in Nodes : store[n][k][e][i].counter \in Nat
  BY StoreTypes DEF Inv, TypeOK
<1>2. vv \in Past(store[n][k], e)
  <2>1. vv \in [Nodes -> Nat]
    BY DEF D!VV
  <2>2. \A i \in Nodes : vv[i] \in 0 .. store[n][k][e][i].counter
    BY <1>1, <2>1
  <2>3. vv \in [Nodes -> UNION {0 .. store[n][k][e][i].counter : i \in Nodes}]
    BY <2>1, <2>2
  <2> QED BY <2>3 DEF Past
<1>3. d \in SetUpdates(n, store[n][k])
  BY <1>2 DEF SetUpdates
<1>4. CASE store' = store
  BY <1>4 DEF Flight
<1>5. CASE store' # store
  <2>1. SB!Write(n, k)
    BY <1>3, <1>5 DEF SB!Write
  <2> QED BY <2>1 DEF SB!Next
<1> QED BY <1>4, <1>5

(***************************************************************************)
(* The steps of a client: operations, and what changes no set.             *)
(***************************************************************************)
LEMMA RefinesClient ==
  ASSUME Inv, NEW c \in Clients, Client(c)
  PROVE  [SB!Next]_<<store, Flight>>
<1>1. gossip' = gossip
  BY DEF Client, GetSet, PostSet, RemoveStep, AddStep, Respond, gossipVars
<1>2. CASE store' = store
  BY <1>1, <1>2 DEF Flight
<1>3. ASSUME req[c].busy
      PROVE  \E n \in Nodes, k \in Keys, vvs \in Contexts, rem \in Seq(Elements), ad \in Seq(Elements) :
               /\ n = req[c].node /\ k = req[c].key /\ vvs = req[c].vvs
               /\ rem = req[c].remove /\ ad = req[c].add /\ Behind(vvs, store[n][k])
  BY <1>3, RequestTypes DEF Inv, ContextsKnown
<1>4. CASE RemoveStep(c) /\ store' # store
  <2>1. PICK n \in Nodes, k \in Keys, vvs \in Contexts, l \in Seq(Elements) :
          /\ n = req[c].node /\ k = req[c].key /\ vvs = req[c].vvs /\ l = req[c].remove
          /\ l # <<>> /\ Behind(vvs, store[n][k])
    BY <1>3, <1>4 DEF RemoveStep
  <2>2. PICK e \in Elements : e = Head(l)
    BY <2>1
  <2>3. PICK vv \in D!VV : vv = vvs[e] /\ \A i \in Nodes : vv[i] <= store[n][k][e][i].counter
    BY <2>1 DEF Contexts, Behind
  <2>4. PICK d : d = ORRemove(store[n][k], n, e, vv)
    OBVIOUS
  <2>5. store' = [store EXCEPT ![n][k] = ORMerge(@, d)]
    BY <1>4, <2>1, <2>2, <2>3, <2>4 DEF RemoveStep, RemoveSet, Apply
  <2> QED BY <1>1, <2>3, <2>4, <2>5, RefinesApply
<1>5. CASE AddStep(c)
  <2>1. PICK n \in Nodes, k \in Keys, vvs \in Contexts, l \in Seq(Elements) :
          /\ n = req[c].node /\ k = req[c].key /\ vvs = req[c].vvs /\ l = req[c].add
          /\ l # <<>> /\ Behind(vvs, store[n][k])
    BY <1>3, <1>5 DEF AddStep
  <2>2. PICK e \in Elements : e = Head(l)
    BY <2>1
  <2>3. PICK vv \in D!VV : vv = vvs[e] /\ \A i \in Nodes : vv[i] <= store[n][k][e][i].counter
    BY <2>1 DEF Contexts, Behind
  <2>4. PICK d : d = ORAdd(store[n][k], n, e, vv)
    OBVIOUS
  <2>5. store' = [store EXCEPT ![n][k] = ORMerge(@, d)]
    BY <1>5, <2>1, <2>2, <2>3, <2>4 DEF AddStep, AddSet, Apply
  <2> QED BY <1>1, <2>3, <2>4, <2>5, RefinesApply
<1>6. RemoveStep(c) \/ AddStep(c) \/ store' = store
  BY DEF Client, GetSet, PostSet, Respond
<1> QED BY <1>2, <1>4, <1>5, <1>6

(***************************************************************************)
(* Every step of the delta gossip of sets is a step of state-based gossip  *)
(* or a stutter.                                                           *)
(***************************************************************************)
LEMMA RefinesStep ==
  ASSUME Inv, [Next]_vars
  PROVE  [SB!Next]_<<store, Flight>>
<1>1. CASE \E c \in Clients : Client(c)
  BY <1>1, RefinesClient
<1>2. ASSUME NEW n \in Nodes, NEW p \in Nodes, StartGossip(n, p)
      PROVE  SB!Next
  <2>1. PICK w : /\ w.src = n /\ w.dst = p /\ w.snap = store[n]
                 /\ gossip' = gossip \cup {w}
    <3>1. PICK w : w = [src |-> n, dst |-> p, seq |-> setsSeq(n), sets |-> Delta(n, p), snap |-> store[n]]
      OBVIOUS
    <3>2. gossip' = gossip \cup {w}
      BY <1>2, <3>1 DEF StartGossip, SendGossip
    <3> QED BY <3>1, <3>2
  <2>2. Flight' = Flight \cup {[src |-> n, dst |-> p, state |-> store[n]]}
    BY <2>1 DEF Flight
  <2>3. SB!Send(n, p)
    BY <1>2, <2>2 DEF StartGossip, setVars, SB!Send, Flight
  <2> QED BY <2>3 DEF SB!Next
<1>3. ASSUME NEW m \in gossip, PostGossip(m)
      PROVE  SB!Next
  <2> DEFINE f == [src |-> m.src, dst |-> m.dst, state |-> m.snap]
  <2>1. f \in Flight
    BY DEF Flight
  <2>2. ASSUME NEW k \in Keys
        PROVE  Merge(m.dst, m.sets, News(m))[k] = ORMerge(store[m.dst][k], m.snap[k])
    <3>1. CASE k \in News(m)
      BY <3>1, MergesSnapshot DEF Merge
    <3>2. CASE k \notin News(m)
      <4>1. PICK a \in ORSets, b \in ORSets, H \in SUBSET Operations :
              a = m.sets[k] /\ b = store[m.dst][k] /\ H = history[k]
        BY MessageTypes, StoreTypes DEF Inv, TypeOK
      <4>2. Closed(a, H) /\ Closed(b, H) /\ ORLessOrEqual(a, b)
        BY <3>2, <4>1, MessageTypes DEF Inv, AllClosed, News
      <4>3. ORMerge(b, a) = b
        BY <4>2, CoveredIsIdle
      <4>4. Merge(m.dst, m.sets, News(m))[k] = store[m.dst][k]
        BY <3>2 DEF Merge
      <4> QED BY <4>1, <4>3, <4>4, MergesSnapshot
    <3> QED BY <3>1, <3>2
  <2>3. Merge(m.dst, m.sets, News(m)) = [k \in Keys |-> ORMerge(store[m.dst][k], m.snap[k])]
    <3>1. Merge(m.dst, m.sets, News(m)) = [k \in Keys |-> Merge(m.dst, m.sets, News(m))[k]]
      BY DEF Merge
    <3> QED BY <2>2, <3>1
  <2>4. store' = [store EXCEPT ![m.dst] = [k \in Keys |-> ORMerge(store[m.dst][k], m.snap[k])]]
    BY <1>3, <2>3 DEF PostGossip
  <2>5. Flight' = Flight \/ Flight' = Flight \ {f}
    <3>1. gossip' = gossip \ {m}
      BY <1>3 DEF PostGossip, ReceiveGossip
    <3> QED BY <3>1 DEF Flight
  <2>6. SB!Receive(f)
    BY <2>4, <2>5 DEF SB!Receive, Flight
  <2> QED BY <2>1, <2>6 DEF SB!Next, Flight
<1>4. CASE Transport /\ UNCHANGED setVars
  <2>1. store' = store
    BY <1>4 DEF setVars
  <2>2. ASSUME NEW m \in gossip, gossip' = gossip \ {m}
        PROVE  [SB!Next]_<<store, Flight>>
    <3> DEFINE f == [src |-> m.src, dst |-> m.dst, state |-> m.snap]
    <3>1. f \in Flight
      BY DEF Flight
    <3>2. Flight' = Flight \/ Flight' = Flight \ {f}
      BY <2>2 DEF Flight
    <3>3. CASE Flight' = Flight \ {f}
      <4>1. SB!Lose(f)
        BY <2>1, <3>3 DEF SB!Lose, Flight
      <4> QED BY <3>1, <4>1 DEF SB!Next, Flight
    <3> QED BY <2>1, <3>2, <3>3
  <2>3. gossip' = gossip \/ \E m \in gossip : gossip' = gossip \ {m}
    BY <1>4 DEF Transport, PostAck, DropAck, DropGossip, Membership, NotifyAlive, NotifyDead
  <2>4. CASE gossip' = gossip
    BY <2>1, <2>4 DEF Flight
  <2> QED BY <2>2, <2>3, <2>4
<1>5. CASE UNCHANGED vars
  BY <1>5 DEF vars, setVars, gossipVars, Flight
<1> QED BY <1>1, <1>2, <1>3, <1>4, <1>5 DEF Next

LEMMA RefinesInit == Init => SB!Init
BY DEF Init, GossipInit, SB!Init

(***************************************************************************)
(* DeltaGossipIsStateBased.  The README's claim that the gossip protocol   *)
(* "is equivalent to a standard state-based CRDT", for the sets of every   *)
(* cluster whose clients stay at one node each: requests that release the  *)
(* lock, and intervals of deltas that come late, twice or never, do what   *)
(* single operations and whole stores would have done.                     *)
(***************************************************************************)
THEOREM DeltaGossipIsStateBased ==
  ASSUME StickyClients
  PROVE  Spec => ImplementsStateBased
<1>1. Inv /\ [Next]_vars => [SB!Next]_<<store, {[src |-> m.src, dst |-> m.dst, state |-> m.snap] : m \in gossip}>>
  BY RefinesStep DEF Flight
<1> QED BY <1>1, RefinesInit, Invariance, PTL DEF Spec, ImplementsStateBased, SB!Spec
=============================================================================
