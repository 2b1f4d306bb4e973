------------------------ MODULE RegisterStoreProofs -------------------------
(***************************************************************************)
(* Machine-checked proofs about RegisterStore, for any finite set of nodes *)
(* and keys, any values, any skew of the clocks, any steps by which wall   *)
(* clocks advance, and any bounds.                                         *)
(***************************************************************************)
EXTENDS RegisterStore, TLAPS, FiniteSetTheorems, SequenceTheorems, WellFoundedInduction

(***************************************************************************)
(* Induction over the natural numbers, for a set instead of a predicate:   *)
(* the least number outside it cannot exist.                               *)
(***************************************************************************)
LEMMA SetInduction ==
  ASSUME NEW S, 0 \in S, \A i \in Nat : i \in S => i + 1 \in S
  PROVE  \A i \in Nat : i \in S
<1> DEFINE T == {i \in Nat : i \notin S}
           R == {ss \in Nat \X Nat : ss[1] < ss[2]}
<1>1. SUFFICES ASSUME T # {} PROVE FALSE
  OBVIOUS
<1>2. IsWellFoundedOn(R, Nat)
  BY NatLessThanWellFounded DEF OpToRel
<1>3. PICK t \in T : \A u \in T : ~(<<u, t>> \in R)
  <2>1. T \subseteq Nat
    OBVIOUS
  <2> HIDE DEF T, R
  <2> QED BY <1>1, <1>2, <2>1, WFMin, Zenon
<1>4. t \in Nat /\ t # 0 /\ t - 1 \in Nat /\ t - 1 \notin T
  <2>1. t \in Nat /\ t # 0 /\ t - 1 \in Nat
    BY <1>3
  <2>2. <<t - 1, t>> \in R
    BY <2>1
  <2> QED BY <2>1, <2>2, <1>3
<1>5. (t - 1) + 1 \in S
  BY <1>4
<1> QED BY <1>3, <1>4, <1>5

-----------------------------------------------------------------------------
(***************************************************************************)
(* The order of entries.  Peers order them by wall clock and writer ...    *)
(***************************************************************************)
Slots == Entries \cup {NoEntry}

(***************************************************************************)
(* The fields of an entry, and what encoding it for the wire keeps.        *)
(***************************************************************************)
LEMMA SlotTypes ==
  ASSUME NEW e \in Slots
  PROVE  /\ e.wall \in Nat /\ e.mono \in Nat /\ e.rank \in Nat
         /\ Wire(e) \in Slots /\ Wire(e).mono = 0
         /\ Wire(e).wall = e.wall /\ Wire(e).rank = e.rank /\ Wire(e).value = e.value
         /\ e \in Entries => Wire(e) \in Entries
         /\ e = NoEntry => Wire(e) = NoEntry
         /\ e \in Entries <=> e.wall # 0
BY DEF Slots, Entries, NoEntry, Wire

(***************************************************************************)
(* The order peers see, spelt out.                                         *)
(***************************************************************************)
LEMMA PeerOrder ==
  ASSUME NEW e \in Slots, NEW f \in Slots
  PROVE  NotLater(e, f) <=> e.wall < f.wall \/ (e.wall = f.wall /\ e.rank <= f.rank)
<1>1. Wire(e).mono = 0 /\ Wire(f).mono = 0
  BY SlotTypes
<1>2. NotLater(e, f) <=> ~(e.wall > f.wall \/ (e.wall = f.wall /\ e.rank > f.rank))
  BY <1>1, SlotTypes DEF NotLater, After
<1> QED BY <1>2, SlotTypes

(***************************************************************************)
(* ... which is a total preorder with the missing entry at the bottom.     *)
(***************************************************************************)
LEMMA PeerOrderTotal ==
  /\ \A e \in Slots : NotLater(e, e) /\ NotLater(NoEntry, e)
  /\ \A e, f \in Slots : NotLater(e, f) \/ NotLater(f, e)
  /\ \A e, f \in Slots : NotLater(e, f) /\ NotLater(f, e) <=> SameTime(e, f)
  /\ \A e, f, g \in Slots : NotLater(e, f) /\ NotLater(f, g) => NotLater(e, g)
<1>1. NoEntry \in Slots /\ NoEntry.wall = 0 /\ NoEntry.rank = 0
  BY DEF Slots, NoEntry
<1>2. \A e \in Slots : NotLater(e, e) /\ NotLater(NoEntry, e)
  BY <1>1, PeerOrder, SlotTypes
<1>3. \A e, f \in Slots : NotLater(e, f) \/ NotLater(f, e)
  BY PeerOrder, SlotTypes
<1>4. \A e, f \in Slots : NotLater(e, f) /\ NotLater(f, e) <=> SameTime(e, f)
  BY PeerOrder, SlotTypes DEF SameTime
<1>5. \A e, f, g \in Slots : NotLater(e, f) /\ NotLater(f, g) => NotLater(e, g)
  BY PeerOrder, SlotTypes
<1> QED BY <1>2, <1>3, <1>4, <1>5

(***************************************************************************)
(* A node compares two of its own times by the monotonic clock; as both    *)
(* clocks move forward only, that makes no difference.                     *)
(***************************************************************************)
LEMMA NodeOrder ==
  ASSUME NEW n \in Nodes, clock[n] \in Seq(Int), Forward(n),
         NEW e \in Slots, NEW f \in Slots, OwnClock(n, e), OwnClock(n, f)
  PROVE  After(e, f) <=> ~NotLater(e, f)
<1>1. e.wall \in Nat /\ e.mono \in Nat /\ e.rank \in Nat
  BY SlotTypes
<1>2. f.wall \in Nat /\ f.mono \in Nat /\ f.rank \in Nat
  BY SlotTypes
<1>3. NotLater(e, f) <=> e.wall < f.wall \/ (e.wall = f.wall /\ e.rank <= f.rank)
  BY PeerOrder
<1>4. CASE e.mono > 0 /\ f.mono > 0
  <2>1. /\ e.mono \in DOMAIN clock[n] /\ e.wall = clock[n][e.mono]
        /\ f.mono \in DOMAIN clock[n] /\ f.wall = clock[n][f.mono]
        /\ e.rank = f.rank
    BY <1>1, <1>2, <1>4 DEF OwnClock, Mono
  <2>2. /\ e.mono < f.mono => e.wall < f.wall
        /\ f.mono < e.mono => f.wall < e.wall
        /\ e.mono = f.mono => e.wall = f.wall
    BY <2>1 DEF Forward
  <2> QED BY <1>1, <1>2, <1>3, <1>4, <2>1, <2>2 DEF After
<1>5. CASE ~(e.mono > 0 /\ f.mono > 0)
  BY <1>1, <1>2, <1>3, <1>5 DEF After
<1> QED BY <1>4, <1>5

-----------------------------------------------------------------------------
(***************************************************************************)
(* The loop of Store.Delta over the log.  The recursion in Joined has a    *)
(* solution for every length of the log.                                   *)
(***************************************************************************)
Step(log, a, k, i, e) ==
  IF i = a - 1 THEN NoEntry ELSE IF log[i].key = k THEN LWWMerge(e, log[i].val) ELSE e

Loop(log, a, k, m, f) == f = [i \in (a - 1) .. m |-> Step(log, a, k, i, f[i - 1])]

(***************************************************************************)
(* By induction on the length of the log.                                  *)
(***************************************************************************)
LEMMA LoopExists ==
  ASSUME NEW log, NEW k, NEW a \in Nat \ {0}, NEW m \in Nat, a <= m + 1
  PROVE  \E f : Loop(log, a, k, m, f)
<1> DEFINE S == {d \in Nat : \E f : Loop(log, a, k, a - 1 + d, f)}
<1>1. 0 \in S
  <2> DEFINE f == [i \in (a - 1) .. (a - 1) |-> NoEntry]
  <2>1. Loop(log, a, k, a - 1, f)
    BY DEF Loop, Step
  <2>2. a - 1 + 0 = a - 1
    OBVIOUS
  <2> HIDE DEF f
  <2> QED BY <2>1, <2>2
<1>2. ASSUME NEW d \in Nat, d \in S
      PROVE  d + 1 \in S
  <2>1. PICK f : Loop(log, a, k, a - 1 + d, f)
    BY <1>2
  <2> DEFINE b == a + d
             g == [i \in (a - 1) .. b |-> IF i = b THEN Step(log, a, k, b, f[b - 1]) ELSE f[i]]
  <2>2. b \in Nat /\ a - 1 \in Nat /\ a - 1 <= b - 1 /\ b - 1 = a - 1 + d /\ a - 1 + (d + 1) = b
    OBVIOUS
  <2> HIDE DEF b
  <2>3. \A i \in (a - 1) .. (b - 1) : f[i] = Step(log, a, k, i, f[i - 1])
    BY <2>1, <2>2 DEF Loop
  <2>4. ASSUME NEW i \in (a - 1) .. b
        PROVE  g[i] = Step(log, a, k, i, g[i - 1])
    <3>1. CASE i = b
      <4>1. b - 1 \in (a - 1) .. b /\ b - 1 # b
        BY <2>2
      <4>2. g[i - 1] = f[b - 1]
        BY <3>1, <4>1
      <4> QED BY <3>1, <4>2
    <3>2. CASE i = a - 1 /\ i # b
      <4>1. i \in (a - 1) .. (b - 1)
        BY <3>2, <2>2
      <4>2. f[i] = NoEntry
        BY <4>1, <2>3, <3>2 DEF Step
      <4> QED BY <3>2, <4>2 DEF Step
    <3>3. CASE i # a - 1 /\ i # b
      <4>1. i \in (a - 1) .. (b - 1) /\ i - 1 \in (a - 1) .. b /\ i - 1 # b
        BY <3>3, <2>2
      <4>2. g[i] = f[i] /\ g[i - 1] = f[i - 1]
        BY <4>1, <3>3
      <4> QED BY <4>1, <4>2, <2>3
    <3> QED BY <3>1, <3>2, <3>3
  <2>5. Loop(log, a, k, b, g)
    <3>1. g = [i \in (a - 1) .. b |-> g[i]]
      OBVIOUS
    <3> HIDE DEF g
    <3> QED BY <2>4, <3>1 DEF Loop
  <2> HIDE DEF g
  <2> QED BY <2>2, <2>5
<1>3. \A d \in Nat : d \in S
  <2> HIDE DEF S
  <2> QED BY <1>1, <1>2, SetInduction
<1>4. m + 1 - a \in Nat /\ a - 1 + (m + 1 - a) = m
  OBVIOUS
<1> QED BY <1>3, <1>4

(***************************************************************************)
(* Joined takes the value of such a solution at the end of the log.        *)
(***************************************************************************)
LEMMA JoinedLoop ==
  ASSUME NEW log, NEW k, NEW a \in Nat \ {0}, Len(log) \in Nat, a <= Len(log) + 1
  PROVE  \E f : Loop(log, a, k, Len(log), f) /\ Joined(log, a, k) = f[Len(log)]
<1> DEFINE c == CHOOSE f : Loop(log, a, k, Len(log), f)
<1>1. Loop(log, a, k, Len(log), c)
  BY LoopExists
<1>2. Joined(log, a, k) = c[Len(log)]
  BY DEF Joined, Loop, Step
<1> HIDE DEF c
<1> QED BY <1>1, <1>2

(***************************************************************************)
(* What the loop finds: the first of the latest entries of k in the        *)
(* interval, if there is any.                                              *)
(***************************************************************************)
FirstLatest(log, a, k, m, e) ==
  \/ e = NoEntry /\ \A i \in a .. m : log[i].key # k
  \/ \E j \in a .. m :
       /\ log[j].key = k /\ log[j].val = e
       /\ \A i \in a .. m : log[i].key = k => NotLater(log[i].val, e)
       /\ \A i \in a .. (j - 1) : log[i].key = k => ~NotLater(e, log[i].val)

(***************************************************************************)
(* By induction on how far the loop has come.                              *)
(***************************************************************************)
LEMMA JoinedFirstLatest ==
  ASSUME NEW log \in Seq(Deltas), NEW k, NEW a \in Nat \ {0}, a <= Len(log) + 1,
         \A i, j \in DOMAIN log :
           After(log[i].val, log[j].val) <=> ~NotLater(log[i].val, log[j].val)
  PROVE  FirstLatest(log, a, k, Len(log), Joined(log, a, k))
<1>1. PICK f : Loop(log, a, k, Len(log), f) /\ Joined(log, a, k) = f[Len(log)]
  BY JoinedLoop
<1>2. PICK len \in Nat : len = Len(log)
  OBVIOUS
<1>3. \A i \in (a - 1) .. len : f[i] = Step(log, a, k, i, f[i - 1])
  BY <1>1, <1>2 DEF Loop
<1>4. \A i \in 1 .. len : i \in DOMAIN log /\ log[i].val \in Entries /\ log[i].val \in Slots
  <2>1. \A i \in 1 .. len : i \in DOMAIN log /\ log[i] \in Deltas
    BY <1>2
  <2> QED BY <2>1 DEF Deltas, Slots
<1> DEFINE S == {d \in Nat : a - 1 + d <= len => FirstLatest(log, a, k, a - 1 + d, f[a - 1 + d])}
<1>5. 0 \in S
  <2>1. a - 1 \in (a - 1) .. len /\ a - 1 + 0 = a - 1
    BY <1>2
  <2>2. f[a - 1] = NoEntry
    BY <2>1, <1>3 DEF Step
  <2>3. FirstLatest(log, a, k, a - 1, f[a - 1])
    BY <2>2 DEF FirstLatest
  <2> QED BY <2>1, <2>3
<1>6. ASSUME NEW d \in Nat, d \in S
      PROVE  d + 1 \in S
  <2>1. PICK b \in Nat \ {0} : b = a + d
    OBVIOUS
  <2>2. a - 1 + d = b - 1 /\ a - 1 + (d + 1) = b /\ a <= b
    BY <2>1
  <2>3. SUFFICES ASSUME b <= len PROVE FirstLatest(log, a, k, b, f[b])
    BY <2>2
  <2>4. FirstLatest(log, a, k, b - 1, f[b - 1])
    BY <1>6, <2>2, <2>3
  <2>5. f[b] = Step(log, a, k, b, f[b - 1]) /\ b # a - 1
    BY <1>3, <2>2, <2>3
  <2>6. \A i \in a .. b : i \in 1 .. len /\ (i = b \/ i \in a .. (b - 1))
    BY <2>2, <2>3
  <2>7. CASE log[b].key # k
    <3>1. f[b] = f[b - 1]
      BY <2>5, <2>7 DEF Step
    <3> QED BY <3>1, <2>4, <2>6, <2>7 DEF FirstLatest
  <2>8. CASE log[b].key = k
    <3>1. f[b] = IF After(log[b].val, f[b - 1]) THEN log[b].val ELSE f[b - 1]
      BY <2>5, <2>8 DEF Step, LWWMerge
    <3>2. b \in a .. b /\ b \in 1 .. len
      BY <2>2, <2>3
    <3>3. log[b].val \in Entries /\ log[b].val \in Slots /\ NotLater(log[b].val, log[b].val)
      BY <3>2, <1>4, PeerOrderTotal
    <3>4. CASE f[b - 1] = NoEntry /\ \A i \in a .. (b - 1) : log[i].key # k
      <4>1. After(log[b].val, NoEntry)
        BY <3>3 DEF After, NoEntry, Entries
      <4>2. f[b] = log[b].val
        BY <3>1, <3>4, <4>1
      <4> QED BY <3>2, <3>3, <3>4, <4>2, <2>6, <2>8 DEF FirstLatest
    <3>5. CASE \E j \in a .. (b - 1) :
                 /\ log[j].key = k /\ log[j].val = f[b - 1]
                 /\ \A i \in a .. (b - 1) : log[i].key = k => NotLater(log[i].val, f[b - 1])
                 /\ \A i \in a .. (j - 1) : log[i].key = k => ~NotLater(f[b - 1], log[i].val)
      <4>1. PICK j \in a .. (b - 1) :
                 /\ log[j].key = k /\ log[j].val = f[b - 1]
                 /\ \A i \in a .. (b - 1) : log[i].key = k => NotLater(log[i].val, f[b - 1])
                 /\ \A i \in a .. (j - 1) : log[i].key = k => ~NotLater(f[b - 1], log[i].val)
        BY <3>5
      <4>2. j \in a .. b /\ j \in 1 .. len
        BY <2>2, <2>3
      <4>3. f[b - 1] \in Slots /\ (After(log[b].val, f[b - 1]) <=> ~NotLater(log[b].val, f[b - 1]))
        BY <4>1, <4>2, <3>2, <1>4
      <4>4. CASE NotLater(log[b].val, f[b - 1])
        <5>1. f[b] = f[b - 1]
          BY <3>1, <4>3, <4>4
        <5> QED BY <4>1, <4>2, <4>4, <5>1, <2>6 DEF FirstLatest
      <4>5. CASE ~NotLater(log[b].val, f[b - 1])
        <5>1. f[b] = log[b].val
          BY <3>1, <4>3, <4>5
        <5>2. \A i \in a .. (b - 1) : log[i].key = k => log[i].val \in Slots /\ NotLater(log[i].val, f[b - 1])
          BY <4>1, <2>6, <1>4
        <5>3. NotLater(f[b - 1], log[b].val)
          BY <3>3, <4>3, <4>5, PeerOrderTotal
        <5>4. \A i \in a .. (b - 1) : log[i].key = k =>
                NotLater(log[i].val, log[b].val) /\ ~NotLater(log[b].val, log[i].val)
          BY <3>3, <4>3, <4>5, <5>2, <5>3, PeerOrderTotal
        <5> QED BY <3>2, <3>3, <5>1, <5>4, <2>6, <2>8 DEF FirstLatest
      <4> QED BY <4>4, <4>5
    <3> QED BY <2>4, <3>4, <3>5 DEF FirstLatest
  <2> QED BY <2>7, <2>8
<1>7. \A d \in Nat : d \in S
  <2> HIDE DEF S
  <2> QED BY <1>5, <1>6, SetInduction
<1>8. PICK d \in Nat : a - 1 + d = len
  <2>1. len + 1 - a \in Nat /\ a - 1 + (len + 1 - a) = len
    BY <1>2
  <2> QED BY <2>1
<1>9. FirstLatest(log, a, k, len, f[len])
  <2>1. a - 1 + d <= len => FirstLatest(log, a, k, a - 1 + d, f[a - 1 + d])
    BY <1>7
  <2>2. len <= len
    BY <1>2
  <2> HIDE DEF S
  <2> QED BY <1>8, <2>1, <2>2
<1> QED BY <1>1, <1>2, <1>9

-----------------------------------------------------------------------------
(***************************************************************************)
(* The types of what stores and logs hold.                                 *)
(***************************************************************************)
LEMMA StoreSlots ==
  ASSUME NEW st \in [Nodes -> Stores], NEW n \in Nodes, NEW k \in Keys
  PROVE  st[n][k] \in Slots
BY DEF Stores, Slots

(***************************************************************************)
(* The same of the deltas in a log ...                                     *)
(***************************************************************************)
LEMMA LogTypes ==
  ASSUME NEW lg \in [Nodes -> Seq(Deltas)], NEW n \in Nodes
  PROVE  /\ Len(lg[n]) \in Nat
         /\ DOMAIN lg[n] = 1 .. Len(lg[n])
         /\ \A j \in 1 .. Len(lg[n]) :
              lg[n][j].key \in Keys /\ lg[n][j].val \in Entries /\ lg[n][j].val \in Slots
<1>1. Len(lg[n]) \in Nat /\ DOMAIN lg[n] = 1 .. Len(lg[n])
  OBVIOUS
<1>2. \A j \in 1 .. Len(lg[n]) : lg[n][j] \in Deltas
  OBVIOUS
<1> QED BY <1>1, <1>2 DEF Deltas, Slots

(***************************************************************************)
(* ... and of a message in flight.                                         *)
(***************************************************************************)
LEMMA MessageTypes ==
  ASSUME TypeOK, NEW m \in gossip
  PROVE  /\ m.src \in Nodes /\ m.dst \in Nodes /\ m.seq \in Nat
         /\ m.registers \in Stores
         /\ \A k \in Keys : m.registers[k] \in Slots /\ m.snap[k] \in Slots
BY DEF TypeOK, Messages, Stores, Slots

(***************************************************************************)
(* At one node the order of entries is the order its peers see.            *)
(***************************************************************************)
LEMMA NodeOrders ==
  ASSUME Inv, NEW n \in Nodes, NEW e \in Slots, NEW f \in Slots,
         OwnClock(n, e), OwnClock(n, f)
  PROVE  After(e, f) <=> ~NotLater(e, f)
<1>1. clock[n] \in Seq(Int) /\ Forward(n)
  BY RegisterStoreAssumption DEF Inv, TypeOK
<1> QED BY <1>1, NodeOrder

(***************************************************************************)
(* The readings of a node's clock.                                         *)
(***************************************************************************)
LEMMA ClockTypes ==
  ASSUME TypeOK, NEW n \in Nodes
  PROVE  /\ Mono(n) \in Nat \ {0} /\ DOMAIN clock[n] = 1 .. Mono(n)
         /\ Wall(n) \in 1 .. MaxTime /\ Wall(n) \in Nat \ {0}
<1>1. clock[n] \in Seq(1 .. MaxTime) /\ clock[n] # <<>>
  BY DEF TypeOK
<1>2. Mono(n) \in Nat \ {0} /\ DOMAIN clock[n] = 1 .. Mono(n)
  BY <1>1 DEF Mono
<1>3. Wall(n) \in 1 .. MaxTime
  <2>1. PICK c \in Seq(1 .. MaxTime), len \in Nat \ {0} : c = clock[n] /\ len = Len(c)
    BY <1>1, <1>2 DEF Mono
  <2>2. len \in 1 .. Len(c)
    BY <2>1
  <2>3. c[len] \in 1 .. MaxTime
    BY <2>2, ElementOfSeq
  <2> QED BY <2>1, <2>3 DEF Wall, Mono
<1> QED BY <1>2, <1>3, RegisterStoreAssumption

(***************************************************************************)
(* Two genuine entries of a key with the same time and writer are equal.   *)
(***************************************************************************)
LEMMA GenuineUnique ==
  ASSUME TypeOK, NEW k \in Keys, NEW e \in Slots, NEW f \in Slots,
         Genuine(k, e), Genuine(k, f), SameTime(e, f)
  PROVE  Wire(e) = Wire(f)
<1>1. PICK n \in Nodes : \E j \in DOMAIN delta[n] :
         /\ e.rank = Rank[n]
         /\ delta[n][j].key = k
         /\ Wire(delta[n][j].val) = Wire(e)
         /\ \A i \in 1 .. (j - 1) : delta[n][i].key = k => ~SameTime(delta[n][i].val, e)
  BY DEF Genuine
<1>2. PICK p \in Nodes : \E j \in DOMAIN delta[p] :
         /\ f.rank = Rank[p]
         /\ delta[p][j].key = k
         /\ Wire(delta[p][j].val) = Wire(f)
         /\ \A i \in 1 .. (j - 1) : delta[p][i].key = k => ~SameTime(delta[p][i].val, f)
  BY DEF Genuine
<1>3. n = p
  BY <1>1, <1>2, LWWAssumption DEF SameTime
<1>4. Len(delta[n]) \in Nat /\ DOMAIN delta[n] = 1 .. Len(delta[n])
      /\ \A j \in 1 .. Len(delta[n]) : delta[n][j].val \in Slots
  BY LogTypes DEF TypeOK
<1>5. PICK i \in 1 .. Len(delta[n]) :
         /\ delta[n][i].key = k
         /\ Wire(delta[n][i].val) = Wire(e)
         /\ \A h \in 1 .. (i - 1) : delta[n][h].key = k => ~SameTime(delta[n][h].val, e)
  BY <1>1, <1>4
<1>6. PICK j \in 1 .. Len(delta[n]) :
         /\ delta[n][j].key = k
         /\ Wire(delta[n][j].val) = Wire(f)
         /\ \A h \in 1 .. (j - 1) : delta[n][h].key = k => ~SameTime(delta[n][h].val, f)
  BY <1>2, <1>3, <1>4
<1>7. SameTime(delta[n][i].val, f) /\ SameTime(delta[n][j].val, e)
  <2>1. delta[n][i].val.wall = e.wall /\ delta[n][i].val.rank = e.rank
    BY <1>4, <1>5, SlotTypes
  <2>2. delta[n][j].val.wall = f.wall /\ delta[n][j].val.rank = f.rank
    BY <1>4, <1>6, SlotTypes
  <2> QED BY <2>1, <2>2 DEF SameTime
<1>8. i = j
  BY <1>4, <1>5, <1>6, <1>7
<1> QED BY <1>5, <1>6, <1>8

-----------------------------------------------------------------------------
(***************************************************************************)
(* Every step lets registers move on and logs grow at their ends ...       *)
(***************************************************************************)
Grows ==
  /\ \A n \in Nodes, k \in Keys : NotLater(store[n][k], store'[n][k])
  /\ \A n \in Nodes : /\ Len(delta[n]) <= Len(delta'[n])
                      /\ \A j \in 1 .. Len(delta[n]) : delta'[n][j] = delta[n][j]

(***************************************************************************)
(* ... so what is genuine stays so ...                                     *)
(***************************************************************************)
LEMMA GenuineStable ==
  ASSUME TypeOK, TypeOK', Grows, NEW k, NEW e, Genuine(k, e)
  PROVE  Genuine(k, e)'
<1>1. PICK n \in Nodes : \E j \in DOMAIN delta[n] :
         /\ e.rank = Rank[n]
         /\ delta[n][j].key = k
         /\ Wire(delta[n][j].val) = Wire(e)
         /\ \A i \in 1 .. (j - 1) : delta[n][i].key = k => ~SameTime(delta[n][i].val, e)
  BY DEF Genuine
<1>2. Len(delta[n]) \in Nat /\ DOMAIN delta[n] = 1 .. Len(delta[n])
  BY LogTypes DEF TypeOK
<1>3. Len(delta'[n]) \in Nat /\ DOMAIN delta'[n] = 1 .. Len(delta'[n])
  BY LogTypes DEF TypeOK
<1>4. PICK j \in 1 .. Len(delta[n]) :
         /\ e.rank = Rank[n]
         /\ delta[n][j].key = k
         /\ Wire(delta[n][j].val) = Wire(e)
         /\ \A i \in 1 .. (j - 1) : delta[n][i].key = k => ~SameTime(delta[n][i].val, e)
  BY <1>1, <1>2
<1>5. \A i \in 1 .. j : delta'[n][i] = delta[n][i]
  BY <1>2 DEF Grows
<1>6. j \in DOMAIN delta'[n]
  BY <1>2, <1>3 DEF Grows
<1>7. \A i \in 1 .. (j - 1) : delta'[n][i].key = k => ~SameTime(delta'[n][i].val, e)
  BY <1>4, <1>5, <1>2
<1> QED BY <1>4, <1>5, <1>6, <1>7, <1>2 DEF Genuine

(***************************************************************************)
(* ... and so does what is safe to skip ...                                *)
(***************************************************************************)
LEMMA SkipStable ==
  ASSUME TypeOK, TypeOK', Grows, NEW n \in Nodes, NEW p \in Nodes, NEW a \in Nat,
         SafeToSkip(n, p, a)
  PROVE  SafeToSkip(n, p, a)'
<1>1. Len(delta[n]) \in Nat /\ Len(delta'[n]) \in Nat /\ Len(delta[n]) <= Len(delta'[n])
  BY LogTypes DEF TypeOK, Grows
<1>2. 0 < a /\ a <= Len(delta[n]) + 1
      /\ \A j \in 1 .. (a - 1) : NotLater(delta[n][j].val, store[p][delta[n][j].key])
  BY DEF SafeToSkip, registersSeq
<1>3. ASSUME NEW j \in 1 .. (a - 1)
      PROVE  NotLater(delta'[n][j].val, store'[p][delta'[n][j].key])
  <2>1. j \in 1 .. Len(delta[n]) /\ delta'[n][j] = delta[n][j]
    BY <1>1, <1>2 DEF Grows
  <2>2. delta[n][j].key \in Keys /\ delta[n][j].val \in Slots
    BY <2>1, LogTypes DEF TypeOK
  <2>3. store[p][delta[n][j].key] \in Slots /\ store'[p][delta[n][j].key] \in Slots
    BY <2>2, StoreSlots DEF TypeOK
  <2>4. NotLater(store[p][delta[n][j].key], store'[p][delta[n][j].key])
    BY <2>2 DEF Grows
  <2> QED BY <1>2, <2>1, <2>2, <2>3, <2>4, PeerOrderTotal
<1> QED BY <1>1, <1>2, <1>3 DEF SafeToSkip, registersSeq

(***************************************************************************)
(* ... and what is safe to merge.                                          *)
(***************************************************************************)
LEMMA MergeStable ==
  ASSUME TypeOK, TypeOK', Grows, NEW m \in gossip, SafeToMerge(m)
  PROVE  SafeToMerge(m)'
<1>1. m.src \in Nodes /\ m.dst \in Nodes /\ m.seq \in Nat /\ \A k \in Keys : m.registers[k] \in Slots
  BY MessageTypes
<1>2. Len(delta[m.src]) \in Nat /\ Len(delta'[m.src]) \in Nat /\ Len(delta[m.src]) <= Len(delta'[m.src])
  BY <1>1, LogTypes DEF TypeOK, Grows
<1>3. 0 < m.seq /\ m.seq <= Len(delta[m.src]) + 1
  BY DEF SafeToMerge, registersSeq
<1>4. ASSUME NEW k \in Keys
      PROVE  store[m.dst][k] \in Slots /\ store'[m.dst][k] \in Slots
             /\ NotLater(store[m.dst][k], store'[m.dst][k])
  BY <1>1, StoreSlots DEF TypeOK, Grows
<1>5. ASSUME NEW j \in 1 .. (m.seq - 1)
      PROVE  \/ NotLater(delta'[m.src][j].val, m.registers[delta'[m.src][j].key])
             \/ NotLater(delta'[m.src][j].val, store'[m.dst][delta'[m.src][j].key])
  <2>1. j \in 1 .. Len(delta[m.src]) /\ delta'[m.src][j] = delta[m.src][j]
    BY <1>1, <1>2, <1>3 DEF Grows
  <2>2. delta[m.src][j].key \in Keys /\ delta[m.src][j].val \in Slots
    BY <1>1, <2>1, LogTypes DEF TypeOK
  <2>3. \/ NotLater(delta[m.src][j].val, m.registers[delta[m.src][j].key])
        \/ NotLater(delta[m.src][j].val, store[m.dst][delta[m.src][j].key])
    BY DEF SafeToMerge
  <2> QED BY <1>4, <2>1, <2>2, <2>3, PeerOrderTotal
<1>6. ASSUME NEW k \in Keys
      PROVE  /\ m.registers[k].mono = 0
             /\ NotLater(m.registers[k], store'[m.dst][k]) \/ Genuine(k, m.registers[k])'
  <2>1. m.registers[k].mono = 0
    BY DEF SafeToMerge
  <2>2. NotLater(m.registers[k], store[m.dst][k]) => NotLater(m.registers[k], store'[m.dst][k])
    BY <1>1, <1>4, PeerOrderTotal
  <2>3. PICK e : e = m.registers[k]
    OBVIOUS
  <2>4. Genuine(k, e) => Genuine(k, e)'
    BY GenuineStable
  <2>5. Genuine(k, m.registers[k]) => Genuine(k, m.registers[k])'
    BY <2>3, <2>4
  <2>6. NotLater(m.registers[k], store[m.dst][k]) \/ Genuine(k, m.registers[k])
    BY DEF SafeToMerge
  <2> QED BY <2>1, <2>2, <2>5, <2>6
<1>7. (0 < m.seq /\ m.seq <= registersSeq(m.src))'
  BY <1>1, <1>2, <1>3 DEF registersSeq
<1> QED BY <1>5, <1>6, <1>7, Zenon DEF SafeToMerge

(***************************************************************************)
(* What a message lacks of the registers it was built from stays known.    *)
(***************************************************************************)
LEMMA CompleteStable ==
  ASSUME TypeOK, TypeOK', Grows, NEW m \in gossip, Complete(m)
  PROVE  Complete(m)'
<1>1. m.dst \in Nodes /\ \A k \in Keys : m.registers[k] \in Slots /\ m.snap[k] \in Slots
  BY MessageTypes
<1>2. ASSUME NEW k \in Keys
      PROVE  \/ m.registers[k] = m.snap[k]
             \/ NotLater(m.registers[k], store'[m.dst][k]) /\ NotLater(m.snap[k], store'[m.dst][k])
  <2>1. store[m.dst][k] \in Slots /\ store'[m.dst][k] \in Slots
        /\ NotLater(store[m.dst][k], store'[m.dst][k])
    BY <1>1, StoreSlots DEF TypeOK, Grows
  <2>2. \/ m.registers[k] = m.snap[k]
        \/ NotLater(m.registers[k], store[m.dst][k]) /\ NotLater(m.snap[k], store[m.dst][k])
    BY DEF Complete
  <2> QED BY <1>1, <2>1, <2>2, PeerOrderTotal
<1> QED BY <1>2, Zenon DEF Complete

-----------------------------------------------------------------------------
(***************************************************************************)
(* The clock of a node forgets no reading, and moves forward.              *)
(***************************************************************************)
ClockRuns(n) ==
  /\ Mono(n) <= Mono(n)'
  /\ \A t \in 1 .. Mono(n) : clock'[n][t] = clock[n][t]
  /\ Forward(n)'

(***************************************************************************)
(* What a step may add: entries whose monotonic reading is the node's own, *)
(* that the node's register has caught up with, and that are genuine or    *)
(* the node's own; a register changes to a genuine entry that is logged.   *)
(***************************************************************************)
Learns ==
  /\ Grows
  /\ \A n \in Nodes : ClockRuns(n)
  /\ \A n \in Nodes : \A j \in 1 .. Len(delta'[n]) :
       \/ j <= Len(delta[n])
       \/ /\ OwnClock(n, delta[n][j].val)'
          /\ NotLater(delta'[n][j].val, store'[n][delta'[n][j].key])
          /\ delta'[n][j].val.rank = Rank[n] \/ Genuine(delta[n][j].key, delta[n][j].val)'
  /\ \A n \in Nodes, k \in Keys :
       \/ store'[n][k] = store[n][k]
       \/ /\ OwnClock(n, store[n][k])'
          /\ Genuine(k, store[n][k])'
          /\ \E j \in 1 .. Len(delta'[n]) :
               delta'[n][j].key = k /\ NotLater(store'[n][k], delta'[n][j].val)

(***************************************************************************)
(* Then monotonic readings stay with their nodes ...                       *)
(***************************************************************************)
LEMMA LearnsClocks ==
  ASSUME Inv, TypeOK', Learns
  PROVE  ClocksAgree'
<1>1. ASSUME NEW n \in Nodes, NEW e \in Slots, OwnClock(n, e)
      PROVE  OwnClock(n, e)'
  <2>1. e.mono \in Nat /\ Mono(n) \in Nat /\ Mono(n)' \in Nat
    <3>1. clock'[n] \in Seq(1 .. MaxTime)
      BY DEF TypeOK
    <3> QED BY <3>1, SlotTypes, ClockTypes DEF Inv, Mono
  <2>2. ClockRuns(n)
    BY DEF Learns
  <2> QED BY <1>1, <2>1, <2>2 DEF OwnClock, ClockRuns
<1>2. ASSUME NEW n \in Nodes, NEW k \in Keys
      PROVE  OwnClock(n, store[n][k])'
  <2>1. CASE store'[n][k] = store[n][k]
    <3>1. PICK e \in Slots : e = store[n][k]
      BY StoreSlots DEF Inv, TypeOK
    <3>2. OwnClock(n, e)
      BY <3>1 DEF Inv, ClocksAgree
    <3> QED BY <1>1, <2>1, <3>1, <3>2
  <2>2. CASE store'[n][k] # store[n][k]
    BY <2>2 DEF Learns
  <2> QED BY <2>1, <2>2
<1>3. ASSUME NEW n \in Nodes, NEW j \in DOMAIN delta'[n]
      PROVE  OwnClock(n, delta[n][j].val)'
  <2>1. j \in 1 .. Len(delta'[n]) /\ Len(delta[n]) \in Nat /\ DOMAIN delta[n] = 1 .. Len(delta[n])
    BY LogTypes DEF Inv, TypeOK
  <2>2. CASE j <= Len(delta[n])
    <3>1. j \in DOMAIN delta[n] /\ delta'[n][j] = delta[n][j]
      BY <2>1, <2>2 DEF Learns, Grows
    <3>2. PICK e \in Slots : e = delta[n][j].val
      BY <2>1, <3>1, LogTypes DEF Inv, TypeOK
    <3>3. OwnClock(n, e)
      BY <3>1, <3>2 DEF Inv, ClocksAgree
    <3> QED BY <1>1, <3>1, <3>2, <3>3
  <2>3. CASE ~(j <= Len(delta[n]))
    BY <2>1, <2>3 DEF Learns
  <2> QED BY <2>2, <2>3
<1> QED BY <1>2, <1>3 DEF ClocksAgree

(***************************************************************************)
(* ... logs stay true ...                                                  *)
(***************************************************************************)
LEMMA LearnsLogs ==
  ASSUME Inv, TypeOK', Learns
  PROVE  LogsTrue'
<1> SUFFICES ASSUME NEW n \in Nodes, NEW j \in DOMAIN delta'[n]
             PROVE  /\ NotLater(delta'[n][j].val, store'[n][delta'[n][j].key])
                    /\ delta'[n][j].val.rank = Rank[n] \/ Genuine(delta[n][j].key, delta[n][j].val)'
  BY DEF LogsTrue
<1>1. j \in 1 .. Len(delta'[n]) /\ Len(delta[n]) \in Nat /\ DOMAIN delta[n] = 1 .. Len(delta[n])
  BY LogTypes DEF Inv, TypeOK
<1>2. CASE j <= Len(delta[n])
  <2>1. j \in DOMAIN delta[n] /\ delta'[n][j] = delta[n][j]
    BY <1>1, <1>2 DEF Learns, Grows
  <2>2. PICK d : d = delta[n][j]
    OBVIOUS
  <2>3. d.key \in Keys /\ d.val \in Slots
    BY <1>1, <2>1, <2>2, LogTypes DEF Inv, TypeOK
  <2>4. NotLater(d.val, store[n][d.key]) /\ (d.val.rank = Rank[n] \/ Genuine(d.key, d.val))
    BY <2>1, <2>2 DEF Inv, LogsTrue
  <2>5. Genuine(d.key, d.val) => Genuine(d.key, d.val)'
    BY GenuineStable DEF Inv, Learns
  <2>6. store[n][d.key] \in Slots /\ store'[n][d.key] \in Slots
        /\ NotLater(store[n][d.key], store'[n][d.key])
    BY <2>3, StoreSlots DEF Inv, TypeOK, Learns, Grows
  <2>7. NotLater(d.val, store'[n][d.key])
    BY <2>3, <2>4, <2>6, PeerOrderTotal
  <2> QED BY <2>1, <2>2, <2>4, <2>5, <2>7
<1>3. CASE ~(j <= Len(delta[n]))
  BY <1>1, <1>3 DEF Learns
<1> QED BY <1>2, <1>3

(***************************************************************************)
(* ... registers stay genuine and logged ...                               *)
(***************************************************************************)
LEMMA LearnsStores ==
  ASSUME Inv, TypeOK', Learns
  PROVE  StoresLogged'
<1> SUFFICES ASSUME NEW n \in Nodes, NEW k \in Keys
             PROVE  \/ store'[n][k] = NoEntry
                    \/ /\ Genuine(k, store[n][k])'
                       /\ \E j \in DOMAIN delta'[n] :
                            delta'[n][j].key = k /\ NotLater(store'[n][k], delta'[n][j].val)
  BY DEF StoresLogged
<1>1. /\ Len(delta[n]) \in Nat /\ DOMAIN delta[n] = 1 .. Len(delta[n])
      /\ Len(delta'[n]) \in Nat /\ DOMAIN delta'[n] = 1 .. Len(delta'[n])
  BY LogTypes DEF Inv, TypeOK
<1>2. CASE store'[n][k] = store[n][k] /\ store[n][k] # NoEntry
  <2>1. PICK e : e = store[n][k]
    OBVIOUS
  <2>2. Genuine(k, e) /\ \E j \in DOMAIN delta[n] : delta[n][j].key = k /\ NotLater(e, delta[n][j].val)
    BY <1>2, <2>1 DEF Inv, StoresLogged
  <2>3. Genuine(k, e)'
    BY <2>2, GenuineStable DEF Inv, Learns
  <2>4. PICK j \in 1 .. Len(delta[n]) : delta[n][j].key = k /\ NotLater(e, delta[n][j].val)
    BY <1>1, <2>2
  <2>5. j \in DOMAIN delta'[n] /\ delta'[n][j] = delta[n][j]
    BY <1>1 DEF Learns, Grows
  <2> QED BY <1>2, <2>1, <2>3, <2>4, <2>5
<1>3. CASE store'[n][k] # store[n][k]
  BY <1>1, <1>3 DEF Learns
<1> QED BY <1>2, <1>3

(***************************************************************************)
(* ... and no write is forgotten.                                          *)
(***************************************************************************)
LEMMA LearnsWritten ==
  ASSUME Inv, TypeOK', Learns, NEW e \in written
  PROVE  \E n \in Nodes : NotLater(e.val, store'[n][e.key])
<1>1. PICK n \in Nodes : NotLater(e.val, store[n][e.key])
  BY DEF Inv
<1>2. e.key \in Keys /\ e.val \in Slots
  BY DEF Inv, TypeOK, Deltas, Slots
<1>3. store[n][e.key] \in Slots /\ store'[n][e.key] \in Slots
      /\ NotLater(store[n][e.key], store'[n][e.key])
  BY <1>2, StoreSlots DEF Inv, TypeOK, Learns, Grows
<1> QED BY <1>1, <1>2, <1>3, PeerOrderTotal

(***************************************************************************)
(* Such a step keeps the invariant if the acknowledgements and messages it *)
(* adds, and the writes it records, are what the invariant says.           *)
(***************************************************************************)
LEMMA LearnsKeepsInv ==
  ASSUME Inv, TypeOK', Learns,
         \A n, p \in Nodes : ack'[n][p] = ack[n][p] \/ SafeToSkip(n, p, ack[n][p])',
         \A a \in acks' : a \in acks \/ SafeToSkip(a.dst, a.src, a.seq)',
         \A m \in gossip' : m \in gossip \/ (SafeToMerge(m)' /\ Complete(m)'),
         \A e \in written' : e \in written \/ \E n \in Nodes : NotLater(e.val, store'[n][e.key])
  PROVE  Inv'
<1>1. TypeOK /\ Grows
  BY DEF Inv, Learns
<1>2. ASSUME NEW n \in Nodes, NEW p \in Nodes, ack'[n][p] > 0
      PROVE  SafeToSkip(n, p, ack[n][p])'
  <2>1. CASE ack'[n][p] = ack[n][p]
    <3>1. PICK a \in Nat : a = ack[n][p]
      BY DEF Inv, TypeOK
    <3>2. SafeToSkip(n, p, a)
      BY <1>2, <2>1, <3>1 DEF Inv
    <3>3. SafeToSkip(n, p, a)'
      BY <1>1, <3>2, SkipStable
    <3> QED BY <2>1, <3>1, <3>3
  <2> QED BY <2>1
<1>3. ASSUME NEW a \in acks'
      PROVE  SafeToSkip(a.dst, a.src, a.seq)'
  <2>1. CASE a \in acks
    <3>1. a.dst \in Nodes /\ a.src \in Nodes /\ a.seq \in Nat /\ SafeToSkip(a.dst, a.src, a.seq)
      BY <2>1 DEF Inv, TypeOK, Acks
    <3> QED BY <1>1, <3>1, SkipStable
  <2> QED BY <2>1
<1>4. ASSUME NEW m \in gossip'
      PROVE  SafeToMerge(m)' /\ Complete(m)'
  <2>1. CASE m \in gossip
    <3>1. SafeToMerge(m) /\ Complete(m)
      BY <2>1 DEF Inv
    <3> QED BY <1>1, <2>1, <3>1, MergeStable, CompleteStable
  <2> QED BY <2>1
<1>5. \A e \in written' : \E n \in Nodes : NotLater(e.val, store'[n][e.key])
  BY LearnsWritten
<1>6. \A n \in Nodes : Forward(n)'
  BY DEF Learns, ClockRuns
<1> QED BY <1>2, <1>3, <1>4, <1>5, <1>6, LearnsClocks, LearnsLogs, LearnsStores DEF Inv

(***************************************************************************)
(* A clock that stands still.                                              *)
(***************************************************************************)
LEMMA ClockStands ==
  ASSUME Inv, clock' = clock
  PROVE  \A n \in Nodes : ClockRuns(n)
<1> SUFFICES ASSUME NEW n \in Nodes PROVE ClockRuns(n)
  OBVIOUS
<1>1. Mono(n) \in Nat /\ Mono(n)' = Mono(n)
  BY ClockTypes DEF Inv, Mono
<1>2. Forward(n)'
  BY DEF Inv, Forward
<1> QED BY <1>1, <1>2 DEF ClockRuns

(***************************************************************************)
(* A step that leaves the registers and logs alone adds nothing.           *)
(***************************************************************************)
LEMMA IdleLearns ==
  ASSUME Inv, store' = store, delta' = delta, \A n \in Nodes : ClockRuns(n)
  PROVE  Learns
<1>1. ASSUME NEW n \in Nodes, NEW k \in Keys
      PROVE  NotLater(store[n][k], store'[n][k])
  BY StoreSlots, PeerOrderTotal DEF Inv, TypeOK
<1>2. \A n \in Nodes : Len(delta[n]) \in Nat
  BY LogTypes DEF Inv, TypeOK
<1> QED BY <1>1, <1>2 DEF Learns, Grows

-----------------------------------------------------------------------------
(***************************************************************************)
(* Empty registers and logs, and clocks that start anywhere.               *)
(***************************************************************************)
LEMMA InitInv == Init => Inv
<1> SUFFICES ASSUME Init PROVE Inv
  OBVIOUS
<1>1. store \in [Nodes -> Stores] /\ \A n \in Nodes, k \in Keys : store[n][k] = NoEntry
  BY DEF Init, Stores
<1>2. \A n \in Nodes : delta[n] = <<>> /\ DOMAIN delta[n] = {} /\ Len(delta[n]) = 0
  BY DEF Init
<1>3. TypeOK
  <2>1. delta \in [Nodes -> Seq(Deltas)]
    BY DEF Init
  <2>2. clock \in [Nodes -> Seq(1 .. MaxTime) \ {<<>>}]
    <3>1. \A t \in Starts : <<t>> \in Seq(1 .. MaxTime) /\ <<t>> # <<>>
      BY RegisterStoreAssumption
    <3>2. \A n \in Nodes : clock[n] \in {<<t>> : t \in Starts}
      BY DEF Init
    <3>3. \A n \in Nodes : clock[n] \in Seq(1 .. MaxTime) \ {<<>>}
      BY <3>1, <3>2
    <3>4. clock = [p \in Nodes |-> clock[p]]
      BY DEF Init
    <3> QED BY <3>3, <3>4
  <2> QED BY <1>1, <2>1, <2>2, GossipAssumption DEF Init, GossipInit, TypeOK
<1>4. ClocksAgree /\ LogsTrue /\ StoresLogged
  BY <1>1, <1>2 DEF ClocksAgree, LogsTrue, StoresLogged, OwnClock, NoEntry
<1>5. ASSUME NEW n \in Nodes
      PROVE  Forward(n)
  <2>1. PICK t \in Starts : clock[n] = <<t>>
    BY DEF Init
  <2>2. DOMAIN clock[n] = 1 .. 1
    BY <2>1
  <2> QED BY <2>2 DEF Forward
<1> QED BY <1>3, <1>4, <1>5 DEF Inv, Init, GossipInit

(***************************************************************************)
(* Both clocks of a node advance, by steps of their own.                   *)
(***************************************************************************)
LEMMA TickInv ==
  ASSUME ClocksAdvance, Inv, NEW n \in Nodes, Tick(n)
  PROVE  Inv'
<1>1. PICK w \in WallSteps : /\ Wall(n) + w \in 1 .. MaxTime
                            /\ clock' = [clock EXCEPT ![n] = Append(clock[n], Wall(n) + w)]
  BY DEF Tick
<1>2. PICK c \in Seq(1 .. MaxTime), u \in 1 .. MaxTime :
        c = clock[n] /\ u = Wall(n) + w /\ c # <<>>
  BY <1>1 DEF Inv, TypeOK
<1>3. PICK len \in Nat \ {0} : len = Len(c) /\ c[len] < u
  <2>1. Len(c) \in Nat \ {0} /\ Wall(n) = c[Len(c)] /\ Wall(n) \in Nat
    BY <1>2, ClockTypes DEF Wall, Mono, Inv
  <2>2. w \in Int /\ w > 0
    BY RegisterStoreAssumption DEF ClocksAdvance
  <2> QED BY <1>2, <2>1, <2>2
<1>4. /\ clock'[n] = Append(c, u)
      /\ \A p \in Nodes : p # n => clock'[p] = clock[p]
  BY <1>1, <1>2 DEF Inv, TypeOK
<1>5. /\ Append(c, u) \in Seq(1 .. MaxTime) /\ Len(Append(c, u)) = len + 1
      /\ DOMAIN Append(c, u) = 1 .. (len + 1)
      /\ Append(c, u)[len + 1] = u
      /\ \A t \in 1 .. len : Append(c, u)[t] = c[t]
  BY <1>3
<1>6. Append(c, u) # <<>>
  BY <1>3, <1>5
<1>7. store' = store /\ delta' = delta /\ written' = written
      /\ peers' = peers /\ ack' = ack /\ acks' = acks /\ gossip' = gossip
  BY DEF Tick, storeVars, gossipVars
<1>8. TypeOK'
  <2>1. clock' \in [Nodes -> Seq(1 .. MaxTime) \ {<<>>}]
    BY <1>1, <1>2, <1>5, <1>6 DEF Inv, TypeOK
  <2> QED BY <1>7, <2>1 DEF Inv, TypeOK
<1>9. Forward(n)'
  <2>1. \A i, j \in 1 .. len : i < j => c[i] < c[j]
    BY <1>2, <1>3 DEF Inv, Forward
  <2>2. \A i \in 1 .. len : c[i] <= c[len] /\ c[i] \in Int
    <3>1. \A i \in 1 .. len : c[i] \in Int /\ (i = len \/ i < len) /\ len \in 1 .. len
      BY <1>2, <1>3, RegisterStoreAssumption
    <3> QED BY <2>1, <3>1
  <2>3. u \in Int
    BY RegisterStoreAssumption
  <2>4. ASSUME NEW i \in 1 .. (len + 1), NEW j \in 1 .. (len + 1), i < j
        PROVE  Append(c, u)[i] < Append(c, u)[j]
    <3>1. i \in 1 .. len /\ (j = len + 1 \/ j \in 1 .. len)
      BY <2>4
    <3>2. CASE j = len + 1
      BY <1>3, <1>5, <2>2, <2>3, <3>1, <3>2
    <3>3. CASE j \in 1 .. len
      BY <1>5, <2>1, <2>4, <3>1, <3>3
    <3> QED BY <3>1, <3>2, <3>3
  <2> QED BY <1>4, <1>5, <2>4 DEF Forward
<1>10. ASSUME NEW p \in Nodes
       PROVE  ClockRuns(p)
  <2>1. CASE p = n
    <3>1. Mono(p) = len /\ Mono(p)' = len + 1
      BY <1>2, <1>3, <1>4, <1>5, <2>1 DEF Mono
    <3> QED BY <1>2, <1>3, <1>4, <1>5, <1>9, <2>1, <3>1 DEF ClockRuns
  <2>2. CASE p # n
    <3>1. clock'[p] = clock[p] /\ Mono(p) \in Nat /\ Forward(p)
      BY <1>4, <2>2, ClockTypes DEF Inv
    <3> QED BY <3>1 DEF ClockRuns, Mono, Forward
  <2> QED BY <2>1, <2>2
<1>11. Learns
  BY <1>7, <1>10, IdleLearns
<1> QED BY <1>7, <1>8, <1>11, LearnsKeepsInv

(***************************************************************************)
(* A lost, refused or recorded request, and a change of the pool.          *)
(***************************************************************************)
LEMMA TransportInv ==
  ASSUME Inv, Transport, UNCHANGED <<storeVars, clock>>
  PROVE  Inv'
<1>1. store' = store /\ delta' = delta /\ written' = written /\ clock' = clock
  BY DEF storeVars
<1>2. Learns
  BY <1>1, ClockStands, IdleLearns
<1>3. CASE \E a \in acks : PostAck(a)
  <2>1. PICK a \in acks : PostAck(a)
    BY <1>3
  <2>2. a.src \in Nodes /\ a.dst \in Nodes /\ a.seq \in Nat /\ SafeToSkip(a.dst, a.src, a.seq)
    BY DEF Inv, TypeOK, Acks
  <2>3. ack' = [ack EXCEPT ![a.dst][a.src] = IF @ < a.seq THEN a.seq ELSE @]
        /\ acks' \subseteq acks /\ gossip' = gossip /\ peers' = peers
    BY <2>1 DEF PostAck, Ack
  <2>4. TypeOK'
    BY <1>1, <2>2, <2>3 DEF Inv, TypeOK
  <2>5. ASSUME NEW n \in Nodes, NEW p \in Nodes, ack'[n][p] # ack[n][p]
        PROVE  SafeToSkip(n, p, ack[n][p])'
    <3>1. n = a.dst /\ p = a.src /\ ack'[n][p] = a.seq
      BY <2>2, <2>3, <2>5 DEF Inv, TypeOK
    <3>2. SafeToSkip(n, p, a.seq)'
      BY <2>2, <2>4, <3>1, <1>2, SkipStable DEF Inv, Learns
    <3> QED BY <3>1, <3>2
  <2> QED BY <1>1, <1>2, <2>3, <2>4, <2>5, LearnsKeepsInv
<1>4. CASE (\E a \in acks : DropAck(a)) \/ (\E m \in gossip : DropGossip(m))
  <2>1. ack' = ack /\ peers' = peers /\ acks' \subseteq acks /\ gossip' \subseteq gossip
    BY <1>4 DEF DropAck, DropGossip
  <2>2. TypeOK'
    BY <1>1, <2>1 DEF Inv, TypeOK
  <2> QED BY <1>1, <1>2, <2>1, <2>2, LearnsKeepsInv
<1>5. CASE Membership
  <2>1. PICK n \in Nodes, p \in Departing : NotifyAlive(n, p) \/ NotifyDead(n, p)
    BY <1>5 DEF Membership
  <2>2. ack' = ack /\ acks' = acks /\ gossip' = gossip
    BY <2>1 DEF NotifyAlive, NotifyDead
  <2>3. peers' \in [Nodes -> SUBSET Nodes]
    <3>1. peers \in [Nodes -> SUBSET Nodes] /\ p \in Nodes
      BY GossipAssumption DEF Inv, TypeOK
    <3>2. CASE NotifyAlive(n, p)
      BY <3>1, <3>2 DEF NotifyAlive
    <3>3. CASE NotifyDead(n, p)
      <4>1. {q \in peers[n] : Host[q] # Host[p]} \in SUBSET Nodes
        BY <3>1
      <4>2. peers' = [peers EXCEPT ![n] = {q \in peers[n] : Host[q] # Host[p]}]
        BY <3>3 DEF NotifyDead
      <4> QED BY <3>1, <4>1, <4>2
    <3> QED BY <2>1, <3>2, <3>3
  <2>4. TypeOK'
    BY <1>1, <2>2, <2>3 DEF Inv, TypeOK
  <2> QED BY <1>1, <1>2, <2>2, <2>4, LearnsKeepsInv
<1> QED BY <1>3, <1>4, <1>5 DEF Transport

(***************************************************************************)
(* A client's write.  If it is later than the register held, nobody has an *)
(* entry with its time and writer yet, and it becomes the genuine one.     *)
(***************************************************************************)
LEMMA SetRegisterInv ==
  ASSUME Inv, NEW n \in Nodes, NEW k \in Keys, NEW v \in Values, SetRegister(n, k, v)
  PROVE  Inv'
<1>1. PICK d : d = Set(n, Wall(n), Mono(n), v)
  OBVIOUS
<1>2. /\ store' = [store EXCEPT ![n][k] = LWWMerge(store[n][k], d)]
      /\ delta' = [delta EXCEPT ![n] = Append(delta[n], [key |-> k, val |-> d])]
      /\ written' = written \cup {[key |-> k, val |-> Wire(d)]}
      /\ clock' = clock
      /\ peers' = peers /\ ack' = ack /\ gossip' = gossip /\ acks' = acks
  BY <1>1 DEF SetRegister, gossipVars
<1>3. /\ Wall(n) \in Nat \ {0} /\ Mono(n) \in Nat \ {0} /\ Rank[n] \in Nat \ {0}
  BY ClockTypes, LWWAssumption DEF Inv
<1>4. d \in Entries /\ d.rank = Rank[n] /\ OwnClock(n, d)
  BY <1>1, <1>3 DEF Set, Entries, OwnClock, Wall
<1>5. d \in Slots /\ Wire(d) \in Entries /\ Wire(d) \in Slots /\ Wire(Wire(d)) = Wire(d)
  BY <1>4, SlotTypes DEF Slots, Wire, Entries
<1>6. PICK e \in Slots : e = store[n][k]
  BY StoreSlots DEF Inv, TypeOK
<1>7. OwnClock(n, e)
  BY <1>6 DEF Inv, ClocksAgree
<1>8. After(d, e) <=> ~NotLater(d, e)
  BY <1>4, <1>5, <1>7, NodeOrders
<1>9. PICK g \in Slots : g = LWWMerge(e, d)
  BY <1>5 DEF LWWMerge
<1>10. /\ NotLater(d, g) /\ NotLater(e, g)
       /\ g = e \/ (g = d /\ ~NotLater(d, e))
  BY <1>5, <1>8, <1>9, PeerOrderTotal DEF LWWMerge
<1>11. /\ store'[n][k] = g
       /\ \A p \in Nodes, q \in Keys : p # n \/ q # k => store'[p][q] = store[p][q]
       /\ store' \in [Nodes -> Stores]
  <2>1. store' = [store EXCEPT ![n][k] = g]
    BY <1>2, <1>6, <1>9
  <2> QED BY <2>1 DEF Inv, TypeOK, Stores, Slots
<1>12. /\ [key |-> k, val |-> d] \in Deltas
       /\ [key |-> k, val |-> Wire(d)] \in Deltas
  BY <1>4, <1>5 DEF Deltas
<1>13. PICK len \in Nat : len = Len(delta[n])
  BY LogTypes DEF Inv, TypeOK
<1>14. /\ delta' \in [Nodes -> Seq(Deltas)]
       /\ Len(delta'[n]) = len + 1
       /\ delta'[n][len + 1] = [key |-> k, val |-> d]
       /\ \A j \in 1 .. len : delta'[n][j] = delta[n][j]
       /\ \A p \in Nodes : p # n => delta'[p] = delta[p]
  BY <1>2, <1>12, <1>13 DEF Inv, TypeOK
<1>15. TypeOK'
  BY <1>2, <1>11, <1>12, <1>14 DEF Inv, TypeOK
<1>16. Grows
  <2>1. ASSUME NEW p \in Nodes, NEW q \in Keys
        PROVE  NotLater(store[p][q], store'[p][q])
    <3>1. CASE p = n /\ q = k
      BY <3>1, <1>6, <1>10, <1>11
    <3>2. CASE p # n \/ q # k
      <4>1. store'[p][q] = store[p][q] /\ store[p][q] \in Slots
        BY <3>2, <1>11, StoreSlots DEF Inv, TypeOK
      <4> QED BY <4>1, PeerOrderTotal
    <3> QED BY <3>1, <3>2
  <2>2. ASSUME NEW p \in Nodes
        PROVE  /\ Len(delta[p]) <= Len(delta'[p])
               /\ \A j \in 1 .. Len(delta[p]) : delta'[p][j] = delta[p][j]
    <3>1. CASE p = n
      BY <3>1, <1>13, <1>14
    <3>2. CASE p # n
      <4>1. delta'[p] = delta[p] /\ Len(delta[p]) \in Nat
        BY <3>2, <1>14, LogTypes DEF Inv, TypeOK
      <4> QED BY <4>1
    <3> QED BY <3>1, <3>2
  <2> QED BY <2>1, <2>2 DEF Grows
<1>17. OwnClock(n, d)'
  BY <1>2, <1>4 DEF OwnClock, Mono
<1>18. ASSUME g # e
       PROVE  Genuine(k, g)'
  <2>1. g = d /\ ~NotLater(d, e)
    BY <1>10, <1>18
  <2>2. ASSUME NEW i \in 1 .. len, delta'[n][i].key = k
        PROVE  ~SameTime(delta'[n][i].val, d)
    <3>1. PICK f : f = delta[n][i].val
      OBVIOUS
    <3>2. i \in DOMAIN delta[n] /\ delta[n][i].key = k /\ delta'[n][i].val = f /\ f \in Slots
      BY <2>2, <3>1, <1>13, <1>14, LogTypes DEF Inv, TypeOK
    <3>3. NotLater(f, e)
      BY <3>1, <3>2, <1>6 DEF Inv, LogsTrue
    <3> QED BY <2>1, <3>2, <3>3, <1>5, PeerOrderTotal
  <2>3. len + 1 \in DOMAIN delta'[n] /\ (len + 1) - 1 = len
    BY <1>13, <1>14, LogTypes
  <2>4. delta'[n][len + 1].key = k /\ delta'[n][len + 1].val = d
    BY <1>14
  <2>5. \A i \in 1 .. ((len + 1) - 1) : delta'[n][i].key = k => ~SameTime(delta'[n][i].val, d)
    BY <2>2, <2>3
  <2>6. \E j \in DOMAIN delta'[n] :
          /\ d.rank = Rank[n]
          /\ delta'[n][j].key = k
          /\ Wire(delta'[n][j].val) = Wire(d)
          /\ \A i \in 1 .. (j - 1) : delta'[n][i].key = k => ~SameTime(delta'[n][i].val, d)
    BY <1>4, <2>3, <2>4, <2>5
  <2>7. Genuine(k, d)'
    BY <2>6 DEF Genuine
  <2> QED BY <2>1, <2>7
<1>19. ASSUME NEW p \in Nodes, NEW j \in 1 .. Len(delta'[p]), ~(j <= Len(delta[p]))
       PROVE  /\ OwnClock(p, delta[p][j].val)'
              /\ NotLater(delta'[p][j].val, store'[p][delta'[p][j].key])
              /\ delta'[p][j].val.rank = Rank[p]
  <2>1. p = n /\ j = len + 1
    <3>1. p = n
      <4>1. p # n => Len(delta'[p]) = Len(delta[p]) /\ Len(delta[p]) \in Nat
        BY <1>14, LogTypes DEF Inv, TypeOK
      <4> QED BY <4>1, <1>19
    <3> QED BY <3>1, <1>13, <1>14, <1>19
  <2>2. delta'[p][j] = [key |-> k, val |-> d]
    BY <2>1, <1>14
  <2>3. NotLater(delta'[p][j].val, store'[p][delta'[p][j].key])
    BY <2>1, <2>2, <1>10, <1>11
  <2> QED BY <2>1, <2>2, <2>3, <1>4, <1>17
<1>20. ASSUME NEW p \in Nodes, NEW q \in Keys, store'[p][q] # store[p][q]
       PROVE  /\ OwnClock(p, store[p][q])'
              /\ Genuine(q, store[p][q])'
              /\ \E j \in 1 .. Len(delta'[p]) :
                   delta'[p][j].key = q /\ NotLater(store'[p][q], delta'[p][j].val)
  <2>1. p = n /\ q = k /\ store'[p][q] = g /\ g # e
    BY <1>6, <1>11, <1>20
  <2>2. g = d /\ NotLater(d, d)
    BY <2>1, <1>5, <1>10, PeerOrderTotal
  <2>3. len + 1 \in 1 .. Len(delta'[p])
    BY <2>1, <1>13, <1>14
  <2>4. \E j \in 1 .. Len(delta'[p]) : delta'[p][j].key = q /\ NotLater(store'[p][q], delta'[p][j].val)
    BY <2>1, <2>2, <2>3, <1>14
  <2>5. OwnClock(p, store[p][q])' /\ Genuine(q, store[p][q])'
    BY <2>1, <2>2, <1>17, <1>18
  <2> QED BY <2>4, <2>5
<1>21. Learns
  BY <1>2, <1>16, <1>19, <1>20, ClockStands DEF Learns
<1>22. \A w \in written' : w \in written \/ \E p \in Nodes : NotLater(w.val, store'[p][w.key])
  <2>1. NotLater(Wire(d), g)
    BY <1>5, <1>10 DEF NotLater
  <2> QED BY <2>1, <1>2, <1>11
<1> QED BY <1>2, <1>15, <1>21, <1>22, LearnsKeepsInv

(***************************************************************************)
(* Encoding an entry for the wire changes neither its place in the order   *)
(* nor whether it is genuine.                                              *)
(***************************************************************************)
LEMMA WireSame ==
  ASSUME NEW e \in Slots, NEW f \in Slots, NEW k
  PROVE  /\ NotLater(Wire(e), f) <=> NotLater(e, f)
         /\ NotLater(f, Wire(e)) <=> NotLater(f, e)
         /\ Genuine(k, e) => Genuine(k, Wire(e))
<1>1. Wire(Wire(e)) = Wire(e)
  BY DEF Wire, Slots, Entries, NoEntry
<1>2. Wire(e).wall = e.wall /\ Wire(e).rank = e.rank
  BY SlotTypes
<1>3. \A g : SameTime(g, Wire(e)) <=> SameTime(g, e)
  BY <1>2 DEF SameTime
<1>4. Genuine(k, e) => Genuine(k, Wire(e))
  BY <1>1, <1>2, <1>3 DEF Genuine
<1> QED BY <1>1, <1>4 DEF NotLater

(***************************************************************************)
(* What the loop of Store.Delta computes for one key of an interval that   *)
(* is safe to send: the peer knows what is left out, if the entry sent is  *)
(* not genuine then the genuine one was left out, and it is not ahead.     *)
(***************************************************************************)
LEMMA IntervalSafe ==
  ASSUME Inv, NEW n \in Nodes, NEW p \in Nodes, NEW a \in Nat \ {0}, SafeToSkip(n, p, a),
         NEW k \in Keys
  PROVE  /\ Interval(n, a)[k] \in Slots
         /\ \A j \in 1 .. Len(delta[n]) : delta[n][j].key = k =>
              \/ NotLater(delta[n][j].val, Interval(n, a)[k])
              \/ NotLater(delta[n][j].val, store[p][k])
         /\ NotLater(Interval(n, a)[k], store[p][k]) \/ Genuine(k, Interval(n, a)[k])
         /\ NotLater(Interval(n, a)[k], store[n][k])
<1>1. PICK log \in Seq(Deltas) : log = delta[n]
  BY DEF Inv, TypeOK
<1>2. PICK len \in Nat : len = Len(log)
  OBVIOUS
<1>3. /\ DOMAIN log = 1 .. len
      /\ \A j \in 1 .. len : log[j].key \in Keys /\ log[j].val \in Slots
  BY <1>1, <1>2, LogTypes DEF Inv, TypeOK
<1>4. a <= len + 1 /\ \A j \in 1 .. (a - 1) : NotLater(log[j].val, store[p][log[j].key])
  BY <1>1, <1>2 DEF SafeToSkip, registersSeq
<1>5. \A i, j \in DOMAIN log :
        After(log[i].val, log[j].val) <=> ~NotLater(log[i].val, log[j].val)
  <2>1. \A j \in DOMAIN log : OwnClock(n, log[j].val)
    BY <1>1 DEF Inv, ClocksAgree
  <2> QED BY <2>1, <1>3, NodeOrders
<1>6. PICK e : e = Interval(n, a)[k]
  OBVIOUS
<1>7. FirstLatest(log, a, k, len, e)
  <2>1. e = Joined(log, a, k)
    BY <1>1, <1>6 DEF Interval
  <2> QED BY <1>2, <1>4, <1>5, <2>1, JoinedFirstLatest
<1>8. PICK s \in Slots : s = store[p][k]
  BY StoreSlots DEF Inv, TypeOK
<1>9. \A j \in 1 .. len : j \in 1 .. (a - 1) \/ j \in a .. len
  BY <1>2
<1>10. CASE e = NoEntry /\ \A i \in a .. len : log[i].key # k
  <2>1. e \in Slots /\ NotLater(e, s)
    BY <1>10, <1>8, PeerOrderTotal DEF Slots
  <2>2. \A j \in 1 .. len : log[j].key = k => NotLater(log[j].val, s)
    BY <1>4, <1>8, <1>9, <1>10
  <2>3. NotLater(e, store[n][k])
    <3>1. store[n][k] \in Slots
      BY StoreSlots DEF Inv, TypeOK
    <3> QED BY <1>10, <3>1, PeerOrderTotal
  <2> QED BY <1>1, <1>2, <1>6, <1>8, <2>1, <2>2, <2>3
<1>11. CASE \E j \in a .. len :
              /\ log[j].key = k /\ log[j].val = e
              /\ \A i \in a .. len : log[i].key = k => NotLater(log[i].val, e)
              /\ \A i \in a .. (j - 1) : log[i].key = k => ~NotLater(e, log[i].val)
  <2>1. PICK j \in a .. len :
              /\ log[j].key = k /\ log[j].val = e
              /\ \A i \in a .. len : log[i].key = k => NotLater(log[i].val, e)
              /\ \A i \in a .. (j - 1) : log[i].key = k => ~NotLater(e, log[i].val)
    BY <1>11
  <2>2. j \in DOMAIN log /\ j \in 1 .. len /\ e \in Slots
    BY <2>1, <1>3
  <2>3. \A i \in 1 .. len : log[i].key = k => NotLater(log[i].val, e) \/ NotLater(log[i].val, s)
    BY <1>4, <1>8, <1>9, <2>1
  <2>4. NotLater(e, s) \/ Genuine(k, e)
    <3>1. CASE e.rank # Rank[n]
      <4>1. j \in DOMAIN delta[n] /\ delta[n][j].key = k /\ delta[n][j].val = e
        BY <1>1, <2>1, <2>2
      <4> QED BY <3>1, <4>1 DEF Inv, LogsTrue
    <3>2. CASE e.rank = Rank[n] /\ \A i \in 1 .. (j - 1) : log[i].key = k => ~SameTime(log[i].val, e)
      BY <1>1, <2>1, <2>2, <3>2 DEF Genuine
    <3>3. CASE \E i \in 1 .. (j - 1) : log[i].key = k /\ SameTime(log[i].val, e)
      <4>1. PICK i \in 1 .. (j - 1) : log[i].key = k /\ SameTime(log[i].val, e)
        BY <3>3
      <4>2. i \in 1 .. len /\ log[i].val \in Slots
        BY <1>3, <2>2
      <4>3. NotLater(e, log[i].val)
        BY <2>2, <4>1, <4>2, PeerOrderTotal
      <4>4. i \in 1 .. (a - 1)
        <5>1. i \notin a .. (j - 1)
          BY <2>1, <4>1, <4>3
        <5> QED BY <5>1, <2>2
      <4>5. NotLater(log[i].val, s)
        BY <1>4, <1>8, <4>1, <4>4
      <4> QED BY <1>8, <2>2, <4>2, <4>3, <4>5, PeerOrderTotal
    <3> QED BY <3>1, <3>2, <3>3
  <2>5. NotLater(e, store[n][k])
    BY <1>1, <2>1, <2>2 DEF Inv, LogsTrue
  <2> QED BY <1>1, <1>2, <1>6, <1>8, <2>2, <2>3, <2>4, <2>5
<1> QED BY <1>7, <1>10, <1>11 DEF FirstLatest

(***************************************************************************)
(* So the message a tick of the gossip loop sends is safe to merge.        *)
(***************************************************************************)
LEMMA DeltaSafe ==
  ASSUME Inv, NEW n \in Nodes, NEW p \in Nodes, HasNews(n, p), NEW k \in Keys
  PROVE  /\ Delta(n, p)[k] \in Slots /\ Delta(n, p)[k].mono = 0
         /\ \A j \in 1 .. Len(delta[n]) : delta[n][j].key = k =>
              \/ NotLater(delta[n][j].val, Delta(n, p)[k])
              \/ NotLater(delta[n][j].val, store[p][k])
         /\ NotLater(Delta(n, p)[k], store[p][k]) \/ Genuine(k, Delta(n, p)[k])
         /\ NotLater(Delta(n, p)[k], store[n][k])
<1>1. PICK a \in Nat : a = ack[n][p]
  BY DEF Inv, TypeOK
<1>2. PICK e : e = IF a = 0 THEN store[n][k] ELSE Interval(n, a)[k]
  OBVIOUS
<1>3. Delta(n, p)[k] = Wire(e)
  BY <1>1, <1>2 DEF Delta
<1>4. \A j \in 1 .. Len(delta[n]) : j \in DOMAIN delta[n] /\ delta[n][j].val \in Slots
  BY LogTypes DEF Inv, TypeOK
<1>5. store[n][k] \in Slots /\ store[p][k] \in Slots
  BY StoreSlots DEF Inv, TypeOK
<1>6. /\ e \in Slots
      /\ \A j \in 1 .. Len(delta[n]) : delta[n][j].key = k =>
           NotLater(delta[n][j].val, e) \/ NotLater(delta[n][j].val, store[p][k])
      /\ NotLater(e, store[p][k]) \/ Genuine(k, e)
      /\ NotLater(e, store[n][k])
  <2>1. CASE a = 0
    <3>1. e = store[n][k]
      BY <1>2, <2>1
    <3>2. \A j \in 1 .. Len(delta[n]) : delta[n][j].key = k => NotLater(delta[n][j].val, e)
      BY <1>4, <3>1 DEF Inv, LogsTrue
    <3>3. NotLater(e, store[p][k]) \/ Genuine(k, e)
      <4>1. e = NoEntry \/ Genuine(k, e)
        BY <3>1 DEF Inv, StoresLogged
      <4> QED BY <1>5, <4>1, PeerOrderTotal
    <3> QED BY <1>5, <3>1, <3>2, <3>3, PeerOrderTotal
  <2>2. CASE a # 0
    <3>1. e = Interval(n, a)[k] /\ a \in Nat \ {0}
      BY <1>2, <2>2
    <3>2. SafeToSkip(n, p, a)
      BY <1>1, <2>2 DEF Inv
    <3> QED BY <3>1, <3>2, IntervalSafe
  <2> QED BY <2>1, <2>2
<1>7. Wire(e) \in Slots /\ Wire(e).mono = 0
  BY <1>6, SlotTypes
<1>8. \A j \in 1 .. Len(delta[n]) : NotLater(delta[n][j].val, Wire(e)) <=> NotLater(delta[n][j].val, e)
  BY <1>4, <1>6, WireSame
<1>9. /\ NotLater(Wire(e), store[p][k]) \/ Genuine(k, Wire(e))
      /\ NotLater(Wire(e), store[n][k])
  BY <1>5, <1>6, WireSame
<1> QED BY <1>3, <1>6, <1>7, <1>8, <1>9

(***************************************************************************)
(* It has what the registers have, unless that is no news to the peer:     *)
(* the latest entry of a key is logged in the interval or below it.        *)
(***************************************************************************)
LEMMA DeltaComplete ==
  ASSUME Inv, NEW n \in Nodes, NEW p \in Nodes, HasNews(n, p), NEW k \in Keys
  PROVE  \/ Delta(n, p)[k] = Wire(store[n][k])
         \/ NotLater(Delta(n, p)[k], store[p][k]) /\ NotLater(Wire(store[n][k]), store[p][k])
<1>1. PICK e \in Slots, s \in Slots, r \in Slots :
        e = Delta(n, p)[k] /\ s = store[n][k] /\ r = store[p][k]
  BY DeltaSafe, StoreSlots DEF Inv, TypeOK
<1>2. e.mono = 0 /\ Wire(e) = e
  <2>1. e.mono = 0
    BY <1>1, DeltaSafe
  <2> QED BY <2>1 DEF Wire, Slots, Entries, NoEntry
<1>3. NotLater(e, s)
  BY <1>1, DeltaSafe
<1>4. NotLater(Wire(s), r) <=> NotLater(s, r)
  BY WireSame
<1>5. CASE NotLater(s, r)
  BY <1>1, <1>3, <1>4, <1>5, PeerOrderTotal
<1>6. CASE ~NotLater(s, r)
  <2>1. s # NoEntry
    BY <1>6, PeerOrderTotal
  <2>2. Genuine(k, s)
    BY <1>1, <2>1 DEF Inv, StoresLogged
  <2>3. PICK j \in 1 .. Len(delta[n]) : delta[n][j].key = k /\ NotLater(s, delta[n][j].val)
    <3>1. DOMAIN delta[n] = 1 .. Len(delta[n])
      BY LogTypes DEF Inv, TypeOK
    <3> QED BY <1>1, <2>1, <3>1 DEF Inv, StoresLogged
  <2>4. PICK d \in Slots : d = delta[n][j].val
    BY LogTypes DEF Inv, TypeOK
  <2>5. NotLater(d, e) \/ NotLater(d, r)
    BY <1>1, <2>3, <2>4, DeltaSafe
  <2>6. NotLater(s, e)
    BY <1>6, <2>3, <2>4, <2>5, PeerOrderTotal
  <2>7. SameTime(e, s) /\ ~NotLater(e, r)
    BY <1>3, <1>6, <2>6, PeerOrderTotal
  <2>8. Genuine(k, e)
    BY <1>1, <2>7, DeltaSafe
  <2>9. Wire(e) = Wire(s)
    BY <2>2, <2>7, <2>8, GenuineUnique DEF Inv
  <2> QED BY <1>1, <1>2, <2>9
<1> QED BY <1>5, <1>6

(***************************************************************************)
(* A tick of the gossip loop, with the whole store or with an interval.    *)
(***************************************************************************)
LEMMA StartGossipInv ==
  ASSUME Inv, NEW n \in Nodes, NEW p \in Nodes, StartGossip(n, p)
  PROVE  Inv'
<1>1. PICK m : m = [src |-> n, dst |-> p, seq |-> registersSeq(n),
                    registers |-> Delta(n, p), snap |-> Seen(n)]
  OBVIOUS
<1>2. /\ HasNews(n, p) /\ gossip' = gossip \cup {m}
      /\ peers' = peers /\ ack' = ack /\ acks' = acks
      /\ store' = store /\ delta' = delta /\ written' = written
      /\ clock' = clock
  BY <1>1 DEF StartGossip, SendGossip, storeVars
<1>3. PICK len \in Nat : len = Len(delta[n])
  BY LogTypes DEF Inv, TypeOK
<1>4. m.src = n /\ m.dst = p /\ m.seq = len + 1 /\ m.registers = Delta(n, p)
      /\ m.snap = Seen(n)
  BY <1>1, <1>3 DEF registersSeq
<1>5. m \in Messages
  <2>1. Delta(n, p) \in Stores
    <3>1. \A k \in Keys : Delta(n, p)[k] \in Slots
      BY <1>2, DeltaSafe
    <3> QED BY <3>1 DEF Delta, Stores, Slots
  <2>2. registersSeq(n) \in Nat
    BY <1>3 DEF registersSeq
  <2>3. Seen(n) \in Stores
    <3>1. \A k \in Keys : Wire(store[n][k]) \in Slots
      BY StoreSlots, SlotTypes DEF Inv, TypeOK
    <3> QED BY <3>1 DEF Seen, Stores, Slots
  <2> QED BY <1>1, <2>1, <2>2, <2>3 DEF Messages
<1>6. TypeOK'
  BY <1>2, <1>5 DEF Inv, TypeOK
<1>7. Learns
  BY <1>2, ClockStands, IdleLearns
<1>8. SafeToMerge(m)
  <2>1. 0 < m.seq /\ m.seq <= registersSeq(m.src)
    BY <1>3, <1>4 DEF registersSeq
  <2>2. ASSUME NEW j \in 1 .. (m.seq - 1)
        PROVE  \/ NotLater(delta[m.src][j].val, m.registers[delta[m.src][j].key])
               \/ NotLater(delta[m.src][j].val, store[m.dst][delta[m.src][j].key])
    <3>1. j \in 1 .. Len(delta[n])
      BY <1>3, <1>4
    <3>2. delta[n][j].key \in Keys
      BY <3>1, LogTypes DEF Inv, TypeOK
    <3> QED BY <1>2, <1>4, <3>1, <3>2, DeltaSafe
  <2>3. ASSUME NEW k \in Keys
        PROVE  /\ m.registers[k].mono = 0
               /\ NotLater(m.registers[k], store[m.dst][k]) \/ Genuine(k, m.registers[k])
    BY <1>2, <1>4, DeltaSafe
  <2> QED BY <2>1, <2>2, <2>3 DEF SafeToMerge
<1>9. SafeToMerge(m)'
  BY <1>2, <1>8 DEF SafeToMerge, Genuine, registersSeq
<1>10. Complete(m)'
  <2>1. \A k \in Keys : m.snap[k] = Wire(store[n][k])
    BY <1>4 DEF Seen
  <2>2. ASSUME NEW k \in Keys
        PROVE  \/ m.registers[k] = m.snap[k]
               \/ NotLater(m.registers[k], store'[p][k]) /\ NotLater(m.snap[k], store'[p][k])
    BY <1>2, <1>4, <2>1, DeltaComplete
  <2> QED BY <1>4, <2>2 DEF Complete
<1> QED BY <1>2, <1>6, <1>7, <1>9, <1>10, LearnsKeepsInv

(***************************************************************************)
(* Merging a message appends one delta per key that was news.              *)
(***************************************************************************)
LEMMA LoggedNews ==
  ASSUME TypeOK, NEW m \in gossip, \A k \in News(m) : m.registers[k] \in Entries,
         NEW order \in Surjection(1 .. Cardinality(News(m)), News(m))
  PROVE  /\ Logged(m.registers, order) \in Seq(Deltas)
         /\ \A j \in DOMAIN Logged(m.registers, order) :
              /\ Logged(m.registers, order)[j].key \in News(m)
              /\ Logged(m.registers, order)[j].val = m.registers[Logged(m.registers, order)[j].key]
         /\ \A k \in News(m) : \E j \in DOMAIN Logged(m.registers, order) :
              /\ Logged(m.registers, order)[j].key = k
              /\ Logged(m.registers, order)[j].val = m.registers[k]
<1> DEFINE c == Cardinality(News(m))
<1>1. News(m) \subseteq Keys
  BY DEF News
<1>2. c \in Nat
  BY <1>1, RegisterStoreAssumption, FS_Subset, FS_CardinalityType
<1>3. order \in [1 .. c -> News(m)] /\ \A k \in News(m) : \E j \in 1 .. c : order[j] = k
  BY DEF Surjection
<1> HIDE DEF c
<1>4. Logged(m.registers, order) \in [1 .. c -> Deltas]
  BY <1>1, <1>3 DEF Logged, Deltas
<1> QED BY <1>2, <1>3, <1>4 DEF Logged

(***************************************************************************)
(* The keys that are news are those with a later entry in the message; the *)
(* entry is adopted, and it is genuine.                                    *)
(***************************************************************************)
LEMMA NewsAdopted ==
  ASSUME Inv, NEW m \in gossip, NEW k \in Keys
  PROVE  /\ k \in News(m) <=> ~NotLater(m.registers[k], store[m.dst][k])
         /\ LWWMerge(store[m.dst][k], m.registers[k])
              = IF k \in News(m) THEN m.registers[k] ELSE store[m.dst][k]
         /\ OwnClock(m.dst, m.registers[k])
         /\ k \in News(m) => m.registers[k] \in Entries /\ Genuine(k, m.registers[k])
<1>1. m.dst \in Nodes /\ m.registers[k] \in Slots /\ store[m.dst][k] \in Slots
  BY MessageTypes, StoreSlots DEF Inv, TypeOK
<1>2. /\ m.registers[k].mono = 0
      /\ NotLater(m.registers[k], store[m.dst][k]) \/ Genuine(k, m.registers[k])
  BY DEF Inv, SafeToMerge
<1>3. OwnClock(m.dst, m.registers[k]) /\ OwnClock(m.dst, store[m.dst][k])
  BY <1>1, <1>2 DEF OwnClock, Inv, ClocksAgree
<1>4. After(m.registers[k], store[m.dst][k]) <=> ~NotLater(m.registers[k], store[m.dst][k])
  BY <1>1, <1>3, NodeOrders
<1>5. k \in News(m) <=> After(m.registers[k], store[m.dst][k])
  BY DEF News, LWWLessOrEqual
<1>6. k \in News(m) => m.registers[k] \in Entries
  BY <1>1, <1>4, <1>5, PeerOrderTotal DEF Slots
<1> QED BY <1>2, <1>3, <1>4, <1>5, <1>6 DEF LWWMerge

(***************************************************************************)
(* The receiver merges the message and acknowledges it.                    *)
(***************************************************************************)
LEMMA PostGossipInv ==
  ASSUME Inv, NEW m \in gossip, PostGossip(m)
  PROVE  Inv'
<1>1. PICK n \in Nodes : n = m.dst
  BY MessageTypes DEF Inv
<1>2. /\ m.src \in Nodes /\ m.seq \in Nat /\ \A k \in Keys : m.registers[k] \in Slots
      /\ News(m) \subseteq Keys
      /\ \A k \in News(m) : m.registers[k] \in Entries
  BY MessageTypes, NewsAdopted DEF Inv, News
<1>3. PICK order \in Surjection(1 .. Cardinality(News(m)), News(m)) :
         delta' = [delta EXCEPT ![n] = delta[n] \o Logged(m.registers, order)]
  BY <1>1 DEF PostGossip
<1>4. PICK new \in Seq(Deltas) :
         /\ new = Logged(m.registers, order)
         /\ \A j \in DOMAIN new : new[j].key \in News(m) /\ new[j].val = m.registers[new[j].key]
         /\ \A k \in News(m) : \E j \in DOMAIN new : new[j].key = k /\ new[j].val = m.registers[k]
  BY <1>2, LoggedNews DEF Inv
<1>5. PICK len \in Nat, more \in Nat : len = Len(delta[n]) /\ more = Len(new) /\ DOMAIN new = 1 .. more
  BY LogTypes DEF Inv, TypeOK
<1>6. /\ delta' \in [Nodes -> Seq(Deltas)]
      /\ Len(delta'[n]) = len + more
      /\ \A j \in 1 .. len : delta'[n][j] = delta[n][j]
      /\ \A j \in 1 .. more : delta'[n][len + j] = new[j]
      /\ \A p \in Nodes : p # n => delta'[p] = delta[p]
  <2>1. delta[n] \in Seq(Deltas) /\ delta' = [delta EXCEPT ![n] = delta[n] \o new]
    BY <1>3, <1>4 DEF Inv, TypeOK
  <2>2. PICK log \in Seq(Deltas) : log = delta[n] \o new
    <3>1. delta[n] \o new \in Seq(Deltas)
      BY <2>1, ConcatProperties
    <3> QED BY <3>1
  <2>3. Len(log) = len + more
    BY <1>5, <2>1, <2>2
  <2>4. \A j \in 1 .. len : log[j] = delta[n][j]
    BY <1>5, <2>1, <2>2
  <2>5. \A j \in 1 .. more : log[len + j] = new[j]
    BY <1>5, <2>1, <2>2
  <2>6. delta'[n] = log
    BY <2>1, <2>2 DEF Inv, TypeOK
  <2> QED BY <2>1, <2>2, <2>3, <2>4, <2>5, <2>6 DEF Inv, TypeOK
<1>7. /\ \A k \in Keys : store'[n][k] = IF k \in News(m) THEN m.registers[k] ELSE store[n][k]
      /\ \A p \in Nodes, k \in Keys : p # n => store'[p][k] = store[p][k]
      /\ store' \in [Nodes -> Stores]
  <2>1. store' = [store EXCEPT ![n] = Merge(n, m.registers, News(m))]
    BY <1>1 DEF PostGossip
  <2>2. \A k \in Keys : Merge(n, m.registers, News(m))[k]
                          = IF k \in News(m) THEN m.registers[k] ELSE store[n][k]
    BY <1>1, NewsAdopted DEF Merge
  <2>3. Merge(n, m.registers, News(m)) \in Stores
    <3>1. \A k \in Keys : store[n][k] \in Slots
      BY StoreSlots DEF Inv, TypeOK
    <3> QED BY <1>2, <2>2, <3>1 DEF Merge, Stores, Slots
  <2> QED BY <2>1, <2>2, <2>3 DEF Inv, TypeOK
<1>8. /\ gossip' \subseteq gossip /\ acks' = acks \cup {AckOf(m)}
      /\ peers' = peers /\ ack' = ack /\ written' = written /\ clock' = clock
  BY DEF PostGossip, ReceiveGossip
<1>9. AckOf(m) \in Acks
  BY <1>1, <1>2 DEF AckOf, Acks
<1>10. TypeOK'
  BY <1>6, <1>7, <1>8, <1>9 DEF Inv, TypeOK
<1>11. ASSUME NEW k \in Keys
       PROVE  NotLater(m.registers[k], store'[n][k]) /\ NotLater(store[n][k], store'[n][k])
  <2>1. store[n][k] \in Slots /\ m.registers[k] \in Slots
    BY <1>2, StoreSlots DEF Inv, TypeOK
  <2>2. k \in News(m) <=> ~NotLater(m.registers[k], store[n][k])
    BY <1>1, NewsAdopted
  <2> QED BY <1>7, <2>1, <2>2, PeerOrderTotal
<1>12. Grows
  <2>1. ASSUME NEW p \in Nodes, NEW k \in Keys
        PROVE  NotLater(store[p][k], store'[p][k])
    <3>1. store[p][k] \in Slots /\ NotLater(store[p][k], store[p][k])
      BY StoreSlots, PeerOrderTotal DEF Inv, TypeOK
    <3> QED BY <1>7, <1>11, <3>1
  <2>2. ASSUME NEW p \in Nodes
        PROVE  /\ Len(delta[p]) <= Len(delta'[p])
               /\ \A j \in 1 .. Len(delta[p]) : delta'[p][j] = delta[p][j]
    <3>1. CASE p = n
      BY <3>1, <1>5, <1>6
    <3>2. CASE p # n
      <4>1. delta'[p] = delta[p] /\ Len(delta[p]) \in Nat
        BY <3>2, <1>6, LogTypes DEF Inv, TypeOK
      <4> QED BY <4>1
    <3> QED BY <3>1, <3>2
  <2> QED BY <2>1, <2>2 DEF Grows
<1>13. ASSUME NEW k \in News(m)
       PROVE  OwnClock(n, m.registers[k])' /\ Genuine(k, m.registers[k])'
  <2>1. PICK e : e = m.registers[k]
    OBVIOUS
  <2>2. OwnClock(n, e) /\ Genuine(k, e)
    BY <1>1, <1>2, <2>1, NewsAdopted
  <2>3. OwnClock(n, e)'
    BY <1>8, <2>2 DEF OwnClock, Mono
  <2>4. Genuine(k, e)'
    BY <1>10, <1>12, <2>2, GenuineStable DEF Inv
  <2> QED BY <2>1, <2>3, <2>4
<1>14. ASSUME NEW p \in Nodes, NEW j \in 1 .. Len(delta'[p]), ~(j <= Len(delta[p]))
       PROVE  /\ OwnClock(p, delta[p][j].val)'
              /\ NotLater(delta'[p][j].val, store'[p][delta'[p][j].key])
              /\ Genuine(delta[p][j].key, delta[p][j].val)'
  <2>1. p = n
    <3>1. p # n => Len(delta'[p]) = Len(delta[p]) /\ Len(delta[p]) \in Nat
      BY <1>6, LogTypes DEF Inv, TypeOK
    <3> QED BY <3>1, <1>14
  <2>2. PICK i \in 1 .. more : j = len + i
    <3>1. j - len \in 1 .. more /\ j = len + (j - len)
      BY <1>5, <1>6, <1>14, <2>1
    <3> QED BY <3>1
  <2>3. PICK k \in News(m) : delta'[p][j].key = k /\ delta'[p][j].val = m.registers[k]
    <3>1. delta'[p][j] = new[i] /\ i \in DOMAIN new
      BY <1>5, <1>6, <2>1, <2>2
    <3> QED BY <1>4, <3>1
  <2>4. NotLater(delta'[p][j].val, store'[p][delta'[p][j].key])
    BY <1>2, <1>11, <2>1, <2>3
  <2> QED BY <1>13, <2>1, <2>3, <2>4
<1>15. ASSUME NEW p \in Nodes, NEW k \in Keys, store'[p][k] # store[p][k]
       PROVE  /\ OwnClock(p, store[p][k])'
              /\ Genuine(k, store[p][k])'
              /\ \E j \in 1 .. Len(delta'[p]) :
                   delta'[p][j].key = k /\ NotLater(store'[p][k], delta'[p][j].val)
  <2>1. p = n /\ k \in News(m) /\ store'[p][k] = m.registers[k]
    BY <1>7, <1>15
  <2>2. PICK i \in 1 .. more : new[i].key = k /\ new[i].val = m.registers[k]
    BY <1>4, <1>5, <2>1
  <2>3. len + i \in 1 .. Len(delta'[p]) /\ delta'[p][len + i] = new[i]
    BY <1>6, <2>1
  <2>4. NotLater(m.registers[k], m.registers[k])
    BY <1>2, PeerOrderTotal
  <2>5. \E j \in 1 .. Len(delta'[p]) : delta'[p][j].key = k /\ NotLater(store'[p][k], delta'[p][j].val)
    BY <2>1, <2>2, <2>3, <2>4
  <2> QED BY <1>13, <2>1, <2>5
<1>16. Learns
  BY <1>8, <1>12, <1>14, <1>15, ClockStands DEF Learns
<1>17. SafeToSkip(m.src, m.dst, m.seq)'
  <2>1. /\ 0 < m.seq /\ m.seq <= Len(delta[m.src]) + 1
        /\ \A j \in 1 .. (m.seq - 1) :
             \/ NotLater(delta[m.src][j].val, m.registers[delta[m.src][j].key])
             \/ NotLater(delta[m.src][j].val, store[m.dst][delta[m.src][j].key])
    BY DEF Inv, SafeToMerge, registersSeq
  <2>2. /\ Len(delta[m.src]) \in Nat /\ Len(delta'[m.src]) \in Nat
        /\ Len(delta[m.src]) <= Len(delta'[m.src])
    BY <1>2, <1>6, <1>12, LogTypes DEF Inv, TypeOK, Grows
  <2>3. ASSUME NEW j \in 1 .. (m.seq - 1)
        PROVE  NotLater(delta'[m.src][j].val, store'[m.dst][delta'[m.src][j].key])
    <3>1. j \in 1 .. Len(delta[m.src]) /\ delta'[m.src][j] = delta[m.src][j]
      BY <1>2, <1>12, <2>1, <2>2 DEF Grows
    <3>2. PICK d : d = delta[m.src][j]
      OBVIOUS
    <3>3. d.key \in Keys /\ d.val \in Slots
      BY <1>2, <3>1, <3>2, LogTypes DEF Inv, TypeOK
    <3>4. store[n][d.key] \in Slots /\ store'[n][d.key] \in Slots
      BY <1>7, <3>3, StoreSlots DEF Inv, TypeOK
    <3>5. NotLater(d.val, m.registers[d.key]) \/ NotLater(d.val, store[n][d.key])
      BY <1>1, <2>1, <3>2
    <3>6. NotLater(d.val, store'[n][d.key])
      BY <1>2, <1>11, <3>3, <3>4, <3>5, PeerOrderTotal
    <3> QED BY <1>1, <3>1, <3>2, <3>6
  <2> QED BY <1>2, <2>1, <2>2, <2>3 DEF SafeToSkip, registersSeq
<1>18. \A a \in acks' : a \in acks \/ SafeToSkip(a.dst, a.src, a.seq)'
  <2>1. AckOf(m).dst = m.src /\ AckOf(m).src = m.dst /\ AckOf(m).seq = m.seq
    BY DEF AckOf
  <2>2. SafeToSkip(AckOf(m).dst, AckOf(m).src, AckOf(m).seq)'
    BY <1>17, <2>1
  <2> QED BY <1>8, <2>2
<1> QED BY <1>8, <1>10, <1>16, <1>18, LearnsKeepsInv

-----------------------------------------------------------------------------
(***************************************************************************)
(* Every step keeps the invariant.                                         *)
(***************************************************************************)
LEMMA NextInv ==
  ASSUME ClocksAdvance, Inv, [Next]_vars
  PROVE  Inv'
<1>1. CASE \E n \in Nodes, k \in Keys, v \in Values : SetRegister(n, k, v)
  BY <1>1, SetRegisterInv
<1>2. CASE \E n, p \in Nodes : StartGossip(n, p)
  BY <1>2, StartGossipInv
<1>3. CASE \E m \in gossip : PostGossip(m)
  BY <1>3, PostGossipInv
<1>4. CASE \E n \in Nodes : Tick(n)
  BY <1>4, TickInv
<1>5. CASE Transport /\ UNCHANGED <<storeVars, clock>>
  BY <1>5, TransportInv
<1>6. CASE UNCHANGED vars
  <2>1. UNCHANGED <<store, delta, written, clock, peers, ack, gossip, acks>>
    BY <1>6 DEF vars, storeVars, gossipVars
  <2>2. Learns
    BY <2>1, ClockStands, IdleLearns
  <2>3. TypeOK'
    BY <2>1 DEF Inv, TypeOK
  <2> QED BY <2>1, <2>2, <2>3, LearnsKeepsInv
<1> QED BY <1>1, <1>2, <1>3, <1>4, <1>5, <1>6 DEF Next

(***************************************************************************)
(* The inductive invariant, while wall clocks only advance: both clocks of *)
(* a node order its writes alike, of the writes of one node in one tick    *)
(* only the first logged can reach a register, anywhere and by whatever    *)
(* interval of the log, and what a peer acknowledged it knows.             *)
(***************************************************************************)
THEOREM Invariance ==
  ASSUME ClocksAdvance
  PROVE  Spec => []Inv
<1>1. Inv /\ [Next]_vars => Inv'
  BY NextInv
<1> QED BY <1>1, InitInv, PTL DEF Spec

(***************************************************************************)
(* Registers, logs, clocks and messages keep their types; the entries that *)
(* are logged, and so sent as deltas, are never the empty one.             *)
(***************************************************************************)
THEOREM TypeCorrect ==
  ASSUME ClocksAdvance
  PROVE  Spec => []TypeOK
<1>1. Inv => TypeOK
  BY DEF Inv
<1> QED BY <1>1, Invariance, PTL

(***************************************************************************)
(* A peer that acknowledged the whole log knows the registers it led to;   *)
(* two genuine entries with the same timestamp are the same entry.         *)
(***************************************************************************)
LEMMA InvSilence == Inv => SilenceJustified
<1> SUFFICES ASSUME Inv, NEW n \in Nodes, NEW p \in Nodes, ~HasNews(n, p), NEW k \in Keys
             PROVE  After(Seen(p)[k], Seen(n)[k]) \/ Seen(p)[k] = Seen(n)[k]
  BY DEF SilenceJustified
<1>1. PICK e \in Slots, f \in Slots : e = store[n][k] /\ f = store[p][k]
  BY StoreSlots DEF Inv, TypeOK
<1>2. Seen(n)[k] = Wire(e) /\ Seen(p)[k] = Wire(f)
  BY <1>1 DEF Seen
<1>3. PICK len \in Nat : len = Len(delta[n])
  BY LogTypes DEF Inv, TypeOK
<1>4. \A j \in 1 .. len : NotLater(delta[n][j].val, store[p][delta[n][j].key])
  <2>1. ack[n][p] \in Nat /\ ack[n][p] # 0 /\ ~(ack[n][p] < len + 1)
    BY <1>3 DEF HasNews, registersSeq, Inv, TypeOK
  <2>2. SafeToSkip(n, p, ack[n][p])
    BY <2>1 DEF Inv
  <2>3. ack[n][p] = len + 1
    BY <1>3, <2>1, <2>2 DEF SafeToSkip, registersSeq
  <2> QED BY <2>2, <2>3 DEF SafeToSkip
<1>5. NotLater(e, f)
  <2>1. CASE e = NoEntry
    BY <2>1, PeerOrderTotal
  <2>2. CASE e # NoEntry
    <3>1. PICK j \in 1 .. len : delta[n][j].key = k /\ NotLater(e, delta[n][j].val)
      <4>1. DOMAIN delta[n] = 1 .. len
        BY <1>3, LogTypes DEF Inv, TypeOK
      <4>2. \E j \in DOMAIN delta[n] : delta[n][j].key = k /\ NotLater(e, delta[n][j].val)
        BY <1>1, <2>2 DEF Inv, StoresLogged
      <4> QED BY <4>1, <4>2
    <3>2. delta[n][j].val \in Slots
      BY <1>3, LogTypes DEF Inv, TypeOK
    <3> QED BY <1>1, <1>4, <3>1, <3>2, PeerOrderTotal
  <2> QED BY <2>1, <2>2
<1>6. CASE ~NotLater(f, e)
  BY <1>2, <1>6 DEF NotLater
<1>7. CASE NotLater(f, e)
  <2>1. SameTime(e, f)
    BY <1>5, <1>7, PeerOrderTotal
  <2>2. CASE e = NoEntry \/ f = NoEntry
    <3>1. e = NoEntry /\ f = NoEntry
      BY <2>1, <2>2 DEF SameTime, Slots, Entries, NoEntry
    <3> QED BY <1>2, <3>1
  <2>3. CASE e # NoEntry /\ f # NoEntry
    <3>1. Genuine(k, e) /\ Genuine(k, f)
      BY <1>1, <2>3 DEF Inv, StoresLogged
    <3> QED BY <1>2, <2>1, <3>1, GenuineUnique DEF Inv
  <2> QED BY <2>2, <2>3
<1> QED BY <1>6, <1>7

(***************************************************************************)
(* Two nodes that have nothing to tell each other hold the same registers. *)
(***************************************************************************)
LEMMA SilenceConverges == TypeOK /\ SilenceJustified => QuietConverged
<1> SUFFICES ASSUME TypeOK, SilenceJustified, Quiet, FullMembership, NEW n \in Nodes, NEW p \in Nodes
             PROVE  Seen(n) = Seen(p)
  BY DEF QuietConverged
<1>1. CASE n = p
  BY <1>1
<1>2. CASE n # p
  <2>1. ~HasNews(n, p) /\ ~HasNews(p, n)
    BY <1>2 DEF Quiet, FullMembership
  <2>2. ASSUME NEW k \in Keys
        PROVE  Seen(n)[k] = Seen(p)[k]
    <3>1. PICK e \in Slots, f \in Slots : e = store[n][k] /\ f = store[p][k]
      BY StoreSlots DEF TypeOK
    <3>2. Seen(n)[k] = Wire(e) /\ Seen(p)[k] = Wire(f)
      BY <3>1 DEF Seen
    <3>3. /\ After(Wire(f), Wire(e)) \/ Wire(f) = Wire(e)
          /\ After(Wire(e), Wire(f)) \/ Wire(f) = Wire(e)
      BY <2>1, <3>2 DEF SilenceJustified
    <3>4. ~(After(Wire(f), Wire(e)) /\ After(Wire(e), Wire(f)))
      BY PeerOrderTotal DEF NotLater
    <3> QED BY <3>2, <3>3, <3>4
  <2> QED BY <2>2 DEF Seen
<1> QED BY <1>1, <1>2

(***************************************************************************)
(* A node has nothing to send to a peer only if the peer's registers are   *)
(* later or the same, values of equal timestamps included.                 *)
(***************************************************************************)
THEOREM SilenceIsJustified ==
  ASSUME ClocksAdvance
  PROVE  Spec => []SilenceJustified
<1> QED BY InvSilence, Invariance, PTL

(***************************************************************************)
(* In a fully connected cluster with nothing left to send all nodes hold   *)
(* the same entries, however their clocks are skewed.                      *)
(***************************************************************************)
THEOREM SilentClusterConverged ==
  ASSUME ClocksAdvance
  PROVE  Spec => []QuietConverged
<1>1. Inv => TypeOK
  BY DEF Inv
<1> QED BY <1>1, InvSilence, SilenceConverges, Invariance, PTL

(***************************************************************************)
(* And no entry anybody wrote is later than the one that is left.          *)
(***************************************************************************)
THEOREM LatestWriteWins ==
  ASSUME ClocksAdvance
  PROVE  Spec => []LastWriteWins
<1>1. Inv /\ QuietConverged => LastWriteWins
  <2> SUFFICES ASSUME Inv, QuietConverged, Quiet, FullMembership, NEW n \in Nodes, NEW e \in written
               PROVE  ~After(e.val, Seen(n)[e.key])
    BY DEF LastWriteWins
  <2>1. e.key \in Keys /\ e.val \in Slots
    BY DEF Inv, TypeOK, Deltas, Slots
  <2>2. PICK p \in Nodes : NotLater(e.val, store[p][e.key])
    BY DEF Inv
  <2>3. Seen(n)[e.key] = Seen(p)[e.key] /\ Seen(p)[e.key] = Wire(store[p][e.key])
    BY <2>1 DEF QuietConverged, Seen
  <2>4. PICK f \in Slots : f = store[p][e.key]
    BY <2>1, StoreSlots DEF Inv, TypeOK
  <2>5. After(e.val, Wire(f)) <=> After(Wire(e.val), Wire(f))
    <3>1. Wire(f).mono = 0 /\ Wire(e.val).mono = 0
          /\ Wire(e.val).wall = e.val.wall /\ Wire(e.val).rank = e.val.rank
      BY <2>1, <2>4, SlotTypes
    <3> QED BY <3>1 DEF After
  <2> QED BY <2>2, <2>3, <2>4, <2>5 DEF NotLater
<1> QED BY <1>1, SilentClusterConverged, Invariance, PTL

-----------------------------------------------------------------------------
(***************************************************************************)
(* Merging and encoding commute for entries of one node's clock, and a     *)
(* merge of encoded entries goes by the order of all nodes.                *)
(***************************************************************************)
LEMMA WireMerge ==
  ASSUME Inv, NEW n \in Nodes, NEW e \in Slots, NEW f \in Slots, OwnClock(n, e), OwnClock(n, f)
  PROVE  Wire(LWWMerge(e, f)) = LWWMerge(Wire(e), Wire(f))
<1>1. After(f, e) <=> After(Wire(f), Wire(e))
  BY NodeOrders DEF NotLater
<1> QED BY <1>1 DEF LWWMerge

View == [n \in Nodes |-> Seen(n)]

Flight == {[src |-> m.src, dst |-> m.dst, state |-> m.snap] : m \in gossip}

(***************************************************************************)
(* A client's write, logged even if it is not adopted.                     *)
(***************************************************************************)
LEMMA RefinesWrite ==
  ASSUME Inv, NEW n \in Nodes, NEW k \in Keys, NEW v \in Values, SetRegister(n, k, v)
  PROVE  [SB!Next]_<<View, Flight>>
<1>1. PICK d : d = Set(n, Wall(n), Mono(n), v)
  OBVIOUS
<1>2. store' = [store EXCEPT ![n][k] = LWWMerge(store[n][k], d)] /\ gossip' = gossip
  BY <1>1 DEF SetRegister, gossipVars
<1>3. /\ Wall(n) \in 1 .. MaxTime /\ Wall(n) \in Nat \ {0}
      /\ Mono(n) \in Nat \ {0} /\ Rank[n] \in Nat \ {0}
  BY ClockTypes, LWWAssumption DEF Inv
<1>4. d \in Slots /\ OwnClock(n, d)
  BY <1>1, <1>3 DEF Set, Entries, OwnClock, Slots, Wall
<1>5. PICK u : u = Wire(d)
  OBVIOUS
<1>6. u \in RegisterUpdates(n, View[n][k])
  BY <1>1, <1>3, <1>5 DEF Set, Wire, RegisterUpdates
<1>7. store[n][k] \in Slots /\ OwnClock(n, store[n][k])
  BY StoreSlots DEF Inv, TypeOK, ClocksAgree
<1>8. PICK g : g = LWWMerge(store[n][k], d)
  OBVIOUS
<1>9. Wire(g) = LWWMerge(View[n][k], u)
  <2>1. View[n][k] = Wire(store[n][k])
    BY DEF View, Seen
  <2> QED BY <1>4, <1>5, <1>7, <1>8, <2>1, WireMerge
<1>10. View' = [View EXCEPT ![n][k] = LWWMerge(View[n][k], u)]
  <2>1. \A p \in Nodes, q \in Keys :
          store'[p][q] = IF p = n /\ q = k THEN g ELSE store[p][q]
    BY <1>2, <1>8 DEF Inv, TypeOK, Stores
  <2>2. \A p \in Nodes, q \in Keys :
          Wire(store'[p][q]) = IF p = n /\ q = k THEN Wire(g) ELSE Wire(store[p][q])
    BY <2>1
  <2>3. View' = [p \in Nodes |-> [q \in Keys |-> IF p = n /\ q = k THEN Wire(g) ELSE Wire(store[p][q])]]
    BY <2>2 DEF View, Seen
  <2> QED BY <1>9, <2>3 DEF View, Seen
<1>11. Flight' = Flight
  BY <1>2 DEF Flight
<1>12. CASE View' # View
  <2>1. SB!Write(n, k)
    BY <1>6, <1>10, <1>11, <1>12 DEF SB!Write, View, Flight
  <2> QED BY <2>1 DEF SB!Next
<1> QED BY <1>11, <1>12

(***************************************************************************)
(* The receiver of an interval adopts what it would have adopted of the    *)
(* registers the interval was computed from.                               *)
(***************************************************************************)
LEMMA AdoptsSnapshot ==
  ASSUME Inv, NEW m \in gossip, NEW k \in Keys
  PROVE  Wire(Merge(m.dst, m.registers, News(m))[k]) = LWWMerge(Wire(store[m.dst][k]), m.snap[k])
<1>1. PICK n \in Nodes, e \in Slots, s \in Slots, r \in Slots :
        n = m.dst /\ e = m.registers[k] /\ s = m.snap[k] /\ r = store[n][k]
  BY MessageTypes, StoreSlots DEF Inv, TypeOK
<1>2. Merge(m.dst, m.registers, News(m))[k] = IF ~NotLater(e, r) THEN e ELSE r
  BY <1>1, NewsAdopted DEF Merge
<1>3. e.mono = 0
  BY <1>1 DEF Inv, SafeToMerge
<1>4. Wire(e) = e
  BY <1>3 DEF Wire, Slots, Entries, NoEntry
<1>5. e = s \/ (NotLater(e, r) /\ NotLater(s, r))
  BY <1>1 DEF Inv, Complete
<1>6. LWWMerge(Wire(r), s) = IF ~NotLater(s, r) THEN s ELSE Wire(r)
  <2>1. After(s, Wire(r)) <=> ~NotLater(s, r)
    BY SlotTypes DEF After, NotLater
  <2> QED BY <2>1 DEF LWWMerge
<1> QED BY <1>1, <1>2, <1>4, <1>5, <1>6

(***************************************************************************)
(* Every step of the delta gossip of registers is a step of state-based    *)
(* gossip or a stutter.                                                    *)
(***************************************************************************)
LEMMA RefinesStep ==
  ASSUME Inv, [Next]_vars
  PROVE  [SB!Next]_<<View, Flight>>
<1>1. CASE \E n \in Nodes, k \in Keys, v \in Values : SetRegister(n, k, v)
  BY <1>1, RefinesWrite
<1>2. store' = store => View' = View
  BY DEF View, Seen
<1>3. ASSUME NEW n \in Nodes, NEW p \in Nodes, StartGossip(n, p)
      PROVE  SB!Next
  <2>1. PICK w : /\ w.src = n /\ w.dst = p /\ w.snap = View[n]
                 /\ gossip' = gossip \cup {w}
    <3>1. PICK w : w = [src |-> n, dst |-> p, seq |-> registersSeq(n),
                        registers |-> Delta(n, p), snap |-> Seen(n)]
      OBVIOUS
    <3>2. gossip' = gossip \cup {w}
      BY <1>3, <3>1 DEF StartGossip, SendGossip
    <3> QED BY <3>1, <3>2 DEF View
  <2>2. Flight' = Flight \cup {[src |-> n, dst |-> p, state |-> View[n]]}
    BY <2>1 DEF Flight
  <2>3. View' = View
    BY <1>2, <1>3 DEF StartGossip, storeVars
  <2>4. SB!Send(n, p)
    BY <2>2, <2>3 DEF SB!Send, Flight, View
  <2> QED BY <2>4 DEF SB!Next
<1>4. ASSUME NEW m \in gossip, PostGossip(m)
      PROVE  SB!Next
  <2> DEFINE f == [src |-> m.src, dst |-> m.dst, state |-> m.snap]
  <2>1. f \in Flight /\ m.dst \in Nodes
    BY MessageTypes DEF Flight, Inv
  <2>2. PICK g : g = Merge(m.dst, m.registers, News(m))
    OBVIOUS
  <2>3. store' = [store EXCEPT ![m.dst] = g]
    BY <1>4, <2>2 DEF PostGossip
  <2>4. \A k \in Keys : Wire(g[k]) = LWWMerge(View[m.dst][k], m.snap[k])
    BY <2>1, <2>2, AdoptsSnapshot DEF View, Seen
  <2>5. View' = [View EXCEPT ![m.dst] = [k \in Keys |-> LWWMerge(View[m.dst][k], m.snap[k])]]
    <3>1. \A p \in Nodes : store'[p] = IF p = m.dst THEN g ELSE store[p]
      BY <2>3 DEF Inv, TypeOK
    <3>2. View' = [p \in Nodes |-> [k \in Keys |-> Wire((IF p = m.dst THEN g ELSE store[p])[k])]]
      BY <3>1 DEF View, Seen
    <3>3. ASSUME NEW p \in Nodes
          PROVE  View'[p] = IF p = m.dst THEN [k \in Keys |-> LWWMerge(View[m.dst][k], m.snap[k])] ELSE View[p]
      BY <2>4, <3>2 DEF View, Seen
    <3> QED BY <3>2, <3>3 DEF View
  <2>6. Flight' = Flight \/ Flight' = Flight \ {f}
    <3>1. gossip' = gossip \ {m}
      BY <1>4 DEF PostGossip, ReceiveGossip
    <3> QED BY <3>1 DEF Flight
  <2>7. SB!Receive(f)
    BY <2>5, <2>6 DEF SB!Receive, Flight, View
  <2> QED BY <2>1, <2>7 DEF SB!Next, Flight
<1>5. CASE \E n \in Nodes : Tick(n)
  BY <1>2, <1>5 DEF Tick, storeVars, gossipVars, Flight
<1>6. CASE Transport /\ UNCHANGED <<storeVars, clock>>
  <2>1. View' = View
    BY <1>2, <1>6 DEF storeVars
  <2>2. ASSUME NEW m \in gossip, gossip' = gossip \ {m}
        PROVE  [SB!Next]_<<View, Flight>>
    <3> DEFINE f == [src |-> m.src, dst |-> m.dst, state |-> m.snap]
    <3>1. f \in Flight
      BY DEF Flight
    <3>2. Flight' = Flight \/ Flight' = Flight \ {f}
      BY <2>2 DEF Flight
    <3>3. CASE Flight' = Flight \ {f}
      <4>1. SB!Lose(f)
        BY <2>1, <3>3 DEF SB!Lose, Flight, View
      <4> QED BY <3>1, <4>1 DEF SB!Next, Flight
    <3> QED BY <2>1, <3>2, <3>3
  <2>3. gossip' = gossip \/ \E m \in gossip : gossip' = gossip \ {m}
    BY <1>6 DEF Transport, PostAck, DropAck, DropGossip, Membership, NotifyAlive, NotifyDead
  <2>4. CASE gossip' = gossip
    BY <2>1, <2>4 DEF Flight
  <2> QED BY <2>2, <2>3, <2>4
<1>7. CASE UNCHANGED vars
  BY <1>2, <1>7 DEF vars, storeVars, gossipVars, Flight
<1> QED BY <1>1, <1>3, <1>4, <1>5, <1>6, <1>7 DEF Next

LEMMA RefinesInit == Init => SB!Init
<1>1. Wire(NoEntry) = NoEntry
  BY DEF Wire, NoEntry
<1> QED BY <1>1 DEF Init, GossipInit, SB!Init, Seen

(***************************************************************************)
(* DeltaGossipIsStateBased.  The README's claim that the gossip protocol   *)
(* "is equivalent to a standard state-based CRDT", for the registers of    *)
(* every cluster, as the nodes see one another's: although a node orders   *)
(* its own writes by another clock, and although timestamps do not tell    *)
(* all writes apart, the intervals of deltas a replica gets lead it to the *)
(* entries that whole stores would have led it to.                         *)
(***************************************************************************)
THEOREM DeltaGossipIsStateBased ==
  ASSUME ClocksAdvance
  PROVE  Spec => ImplementsStateBased
<1>1. Inv /\ [Next]_vars =>
        [SB!Next]_<<[n \in Nodes |-> Seen(n)],
                    {[src |-> m.src, dst |-> m.dst, state |-> m.snap] : m \in gossip}>>
  BY RefinesStep DEF Flight, View
<1> QED BY <1>1, RefinesInit, Invariance, PTL DEF Spec, ImplementsStateBased, SB!Spec
=============================================================================
