----------------------------- MODULE SwimProofs -----------------------------
(***************************************************************************)
(* Theorems about the membership of the cluster, for any number of nodes,  *)
(* seeds, crashes, restarts and messages.                                  *)
(***************************************************************************)
EXTENDS FiniteSetTheorems, Swim, TLAPS

(***************************************************************************)
(* What the operations on a queue make of the items in it.                 *)
(***************************************************************************)
LEMMA PushItems ==
  ASSUME NEW q, NEW items
  PROVE  BagToSet(Push(q, items)) = BagToSet(q) \cup BagToSet(items)
BY DEF Push, BagToSet, (+)

LEMMA NewItems ==
  ASSUME NEW kind, NEW S
  PROVE  BagToSet(Items(kind, S)) = {Item(Event(kind, p)) : p \in S}
BY DEF Items, BagToSet, SetToBag

LEMMA ItemsLeft ==
  ASSUME NEW q, NEW b
  PROVE  BagToSet(q (-) b) \subseteq BagToSet(q)
BY DEF BagToSet, (-)

LEMMA ItemsPopped ==
  ASSUME NEW q, NEW n, NEW b \in Pop(q, n)
  PROVE  BagToSet(b) \subseteq BagToSet(q)
<1>1. b \in Parts(q)
  BY DEF Pop
<1>2. PICK S \in SUBSET BagToSet(q) : b \in [S -> 1 .. BagCardinality(q)]
  BY <1>1 DEF Parts
<1>3. DOMAIN b = S
  BY <1>2
<1> QED
  BY <1>3 DEF BagToSet

LEMMA ItemsRequeued ==
  ASSUME NEW b, NEW n
  PROVE  BagToSet(Requeued(b, n)) =
           {Sent(i) : i \in {i \in BagToSet(b) : i.count + 1 < MaxDisseminations(n)}}
BY DEF Requeued, BagOfAll, BagToSet

GoodItem(i) == i \in [event : Events, count : Nat] /\ Carried(i)

LEMMA NewItemGood ==
  ASSUME NEW kind \in {"alive", "dead"}, NEW p \in Nodes
  PROVE  GoodItem(Item(Event(kind, p)))
BY DEF GoodItem, Item, Event, Events, Carried

LEMMA SentItemGood ==
  ASSUME NEW i, GoodItem(i), NEW k \in 0 .. Cardinality(Nodes) - 1,
         i.count + 1 < MaxDisseminations(k)
  PROVE  GoodItem(Sent(i))
<1>1. i \in [event : Events, count : Nat]
  BY DEF GoodItem
<1>2. Sent(i) \in [event : Events, count : Nat] /\ Sent(i).count = i.count + 1
  BY <1>1 DEF Sent
<1> QED
  BY <1>2 DEF GoodItem, Carried

LEMMA ListLength ==
  ASSUME ListsOK, NEW n \in Nodes
  PROVE  Cardinality(list[n]) \in 0 .. Cardinality(Nodes) - 1
<1>1. IsFiniteSet(Nodes)
  BY SwimAssumption
<1>2. list[n] \subseteq Nodes \ {n}
  BY DEF ListsOK
<1>3. IsFiniteSet(Nodes \ {n}) /\ Cardinality(Nodes \ {n}) = Cardinality(Nodes) - 1
  BY <1>1, FS_RemoveElement
<1>4. IsFiniteSet(list[n]) /\ Cardinality(list[n]) <= Cardinality(Nodes \ {n})
  BY <1>2, <1>3, FS_Subset
<1>5. Cardinality(list[n]) \in Nat /\ Cardinality(Nodes) \in Nat
  BY <1>1, <1>4, FS_CardinalityType
<1> QED
  BY <1>3, <1>4, <1>5

LEMMA QueueChanged ==
  ASSUME QueuesOK, NEW n \in Nodes, NEW q, queue' = [queue EXCEPT ![n] = q],
         \A i \in BagToSet(q) : GoodItem(i)
  PROVE  QueuesOK'
<1>1. DOMAIN queue' = Nodes
  BY DEF QueuesOK
<1>2. ASSUME NEW k \in Nodes, NEW i \in BagToSet(queue'[k])
      PROVE  GoodItem(i)
  <2>1. CASE k = n
    BY <1>2, <2>1 DEF QueuesOK
  <2>2. CASE k # n
    BY <1>2, <2>2 DEF QueuesOK, GoodItem
  <2> QED
    BY <2>1, <2>2
<1> QED
  BY <1>1, <1>2 DEF QueuesOK, GoodItem, Carried

LEMMA EventsQueued ==
  ASSUME QueuesOK, NEW n \in Nodes, NEW kind \in {"alive", "dead"}, NEW S \in SUBSET Nodes,
         queue' = [queue EXCEPT ![n] = Push(@, Items(kind, S))]
  PROVE  QueuesOK'
<1>1. PICK q : q = Push(queue[n], Items(kind, S))
  OBVIOUS
<1>2. ASSUME NEW i \in BagToSet(q)
      PROVE  GoodItem(i)
  <2>1. i \in BagToSet(queue[n]) \/ i \in {Item(Event(kind, p)) : p \in S}
    BY <1>1, <1>2, PushItems, NewItems
  <2>2. CASE i \in BagToSet(queue[n])
    BY <2>2 DEF QueuesOK, GoodItem
  <2>3. CASE i \in {Item(Event(kind, p)) : p \in S}
    BY <2>3, NewItemGood
  <2> QED
    BY <2>1, <2>2, <2>3
<1>3. queue' = [queue EXCEPT ![n] = q]
  BY <1>1
<1> QED
  BY <1>2, <1>3, QueueChanged

(***************************************************************************)
(* A goroutine takes a call up or comes further with it.                   *)
(***************************************************************************)
PossibleCall(n, c) ==
  c \in [todo : SUBSET Nodes, caller : SUBSET Nodes] /\ n \notin c.todo \cup c.caller

LEMMA CallChanged ==
  ASSUME ThreadsOK, NEW n \in Nodes, NEW t \in Threads,
         NEW c \in [todo : SUBSET Nodes, caller : SUBSET Nodes], n \notin c.todo \cup c.caller,
         thread' = [thread EXCEPT ![n][t] = c]
  PROVE  ThreadsOK'
<1>1. thread' \in [Nodes -> [Threads -> [todo : SUBSET Nodes, caller : SUBSET Nodes]]]
  BY DEF ThreadsOK
<1>2. ASSUME NEW k \in Nodes, NEW u \in Threads
      PROVE  k \notin thread'[k][u].todo \cup thread'[k][u].caller
  <2>1. CASE k = n /\ u = t
    BY <2>1 DEF ThreadsOK
  <2>2. CASE ~(k = n /\ u = t)
    <3>1. thread'[k][u] = thread[k][u]
      BY <2>2 DEF ThreadsOK
    <3> QED
      BY <3>1 DEF ThreadsOK
  <2> QED
    BY <2>1, <2>2
<1> QED
  BY <1>1, <1>2 DEF ThreadsOK

LEMMA ThreadsKept ==
  ASSUME ThreadsOK, UNCHANGED thread
  PROVE  ThreadsOK'
BY DEF ThreadsOK

(***************************************************************************)
(* A list changes: a node learns of deaths, or somebody joins.             *)
(***************************************************************************)
LEMMA LearnDeadOK ==
  ASSUME ListsOK, QueuesOK, NEW n \in Nodes, NEW S \in SUBSET Nodes, LearnDead(n, S), up' = up
  PROVE  ListsOK' /\ QueuesOK'
<1> DEFINE new == {p \in S : state[n][p] # "dead"}
<1>1. new \in SUBSET Nodes
  OBVIOUS
<1>2. QueuesOK'
  <2>1. queue' = [queue EXCEPT ![n] = Push(@, Items("dead", new))]
    BY DEF LearnDead
  <2> HIDE DEF new
  <2> QED
    BY <1>1, <2>1, EventsQueued
<1>3. /\ list' \in [Nodes -> SUBSET Nodes]
      /\ state' \in [Nodes -> [Nodes -> {"unknown", "alive", "dead"}]]
      /\ deadPeers' \in [Nodes -> SUBSET Nodes]
  BY DEF LearnDead, ListsOK
<1>4. \A k \in Nodes : k \notin list'[k]
  BY DEF LearnDead, ListsOK
<1> QED
  BY <1>2, <1>3, <1>4 DEF ListsOK

LEMMA JoinOK ==
  ASSUME ListsOK, ThreadsOK, NEW n \in Nodes, NEW t \in Threads, NEW m, m.members \subseteq Nodes,
         NEW caller \in SUBSET Nodes, n \notin caller, Join(n, t, m, caller)
  PROVE  ListsOK' /\ ThreadsOK'
<1>1. PICK added : added = Added(n, m)
  OBVIOUS
<1>2. added \subseteq Nodes /\ n \notin added
  BY <1>1 DEF Added
<1>3. /\ list' = [list EXCEPT ![n] = @ \cup added]
      /\ deadPeers' = [deadPeers EXCEPT ![n] = @ \ {m.src}]
      /\ thread' = [thread EXCEPT ![n][t] = Call(added, caller)]
      /\ UNCHANGED <<state, up>>
  BY <1>1 DEF Join, Buried
<1>4. /\ list' \in [Nodes -> SUBSET Nodes] /\ deadPeers' \in [Nodes -> SUBSET Nodes]
      /\ \A k \in Nodes : k \notin list'[k]
  BY <1>2, <1>3 DEF ListsOK
<1>5. Call(added, caller) \in [todo : SUBSET Nodes, caller : SUBSET Nodes]
      /\ n \notin Call(added, caller).todo \cup Call(added, caller).caller
  BY <1>2 DEF Call
<1> QED
  BY <1>3, <1>4, <1>5, CallChanged DEF ListsOK

LEMMA ListsKept ==
  ASSUME ListsOK, UNCHANGED lists, up' \subseteq Nodes
  PROVE  ListsOK'
BY DEF ListsOK, lists

LEMMA QueuesKept ==
  ASSUME QueuesOK, UNCHANGED queue
  PROVE  QueuesOK'
BY DEF QueuesOK, Carried

(***************************************************************************)
(* A message is sent or taken from the network.                            *)
(***************************************************************************)
GoodMessage(m) ==
  m \in Messages /\ m.src # m.dst /\ (m.kind # "swim" => m.src \in m.members)

LEMMA NetChanged ==
  ASSUME NetOK, NEW S, net' \subseteq net \cup S, \A m \in S : GoodMessage(m)
  PROVE  NetOK'
BY DEF NetOK, GoodMessage

LEMMA MessageSent ==
  ASSUME NetOK, NEW m, net' \subseteq net \cup {m}, GoodMessage(m)
  PROVE  NetOK'
BY DEF NetOK, GoodMessage

LEMMA JoinMessage ==
  ASSUME NetOK, NEW m \in net, m.kind \in {"join", "joined", "orphan"}
  PROVE  m \in [kind : {"join", "joined", "orphan"}, src : Nodes, dst : Nodes, members : SUBSET Nodes]
BY DEF NetOK, Messages

LEMMA BodyMessage ==
  ASSUME NEW n \in Nodes, NEW p \in Nodes, n # p, NEW B \in SUBSET Nodes, n \in B,
         NEW kind \in {"join", "joined", "orphan"}
  PROVE  GoodMessage([kind |-> kind, src |-> n, dst |-> p, members |-> B])
BY DEF GoodMessage, Messages

(***************************************************************************)
(* The steps.                                                              *)
(***************************************************************************)
LEMMA InitTypeOK == Init => TypeOK
<1> SUFFICES ASSUME Init PROVE TypeOK
  OBVIOUS
<1>1. ListsOK
  BY DEF Init, ListsOK
<1>2. BagToSet(EmptyBag) = {}
  BY DEF EmptyBag, BagToSet, SetToBag
<1>3. QueuesOK
  BY <1>2 DEF Init, QueuesOK
<1>4. ThreadsOK
  BY DEF Init, ThreadsOK, Idle, Call
<1> QED
  BY <1>1, <1>3, <1>4 DEF Init, TypeOK, NetOK

LEMMA DetectOK ==
  ASSUME TypeOK, NEW n \in Nodes, NEW p \in Nodes, Detect(n, p) \/ Suspect(n, p)
  PROVE  TypeOK'
<1>1. LearnDead(n, {p}) /\ up' = up /\ net' = net /\ thread' = thread
  BY DEF Detect, Suspect
<1>2. ListsOK' /\ QueuesOK'
  BY <1>1, LearnDeadOK DEF TypeOK
<1> QED
  BY <1>1, <1>2, ThreadsKept DEF TypeOK, NetOK

LEMMA CarryOK ==
  ASSUME TypeOK, NEW n \in Nodes, NEW p \in Nodes, Carry(n, p)
  PROVE  TypeOK'
<1>1. PICK b \in Pop(queue[n], MaxPiggyback) :
        /\ queue' = [queue EXCEPT ![n] = Push(@ (-) b, Requeued(b, Cardinality(list[n])))]
        /\ net' = net \cup {[kind |-> "swim", src |-> n, dst |-> p,
                             events |-> {i.event : i \in BagToSet(b)}]}
  BY DEF Carry
<1>2. \A i \in BagToSet(queue[n]) : GoodItem(i)
  BY DEF TypeOK, QueuesOK, GoodItem
<1>3. BagToSet(b) \subseteq BagToSet(queue[n])
  BY ItemsPopped
<1>4. QueuesOK'
  <2>1. PICK k : k = Cardinality(list[n])
    OBVIOUS
  <2>2. k \in 0 .. Cardinality(Nodes) - 1
    BY <2>1, ListLength DEF TypeOK
  <2>3. PICK rest, sent : rest = queue[n] (-) b /\ sent = Requeued(b, k)
    OBVIOUS
  <2>4. ASSUME NEW i \in BagToSet(Push(rest, sent))
        PROVE  GoodItem(i)
    <3>1. CASE i \in BagToSet(rest)
      BY <1>2, <2>3, <3>1, ItemsLeft
    <3>2. CASE i \in BagToSet(sent)
      <4>1. PICK j \in BagToSet(b) : i = Sent(j) /\ j.count + 1 < MaxDisseminations(k)
        BY <2>3, <3>2, ItemsRequeued
      <4>2. GoodItem(j)
        BY <1>2, <1>3
      <4> QED
        BY <2>2, <4>1, <4>2, SentItemGood
    <3> QED
      BY <2>4, <3>1, <3>2, PushItems
  <2>5. queue' = [queue EXCEPT ![n] = Push(rest, sent)]
    BY <1>1, <2>1, <2>3
  <2> QED
    BY <2>4, <2>5, QueueChanged DEF TypeOK
<1>5. NetOK'
  <2>1. PICK E : E = {i.event : i \in BagToSet(b)}
    OBVIOUS
  <2>2. E \subseteq Events
    BY <1>2, <1>3, <2>1 DEF GoodItem
  <2>3. n # p
    BY DEF Carry, Talk, TypeOK, ListsOK
  <2>4. PICK m : m = [kind |-> "swim", src |-> n, dst |-> p, events |-> E]
    OBVIOUS
  <2>5. GoodMessage(m)
    BY <2>2, <2>3, <2>4 DEF GoodMessage, Messages
  <2>6. net' = net \cup {m}
    BY <1>1, <2>1, <2>4
  <2> QED
    BY <2>5, <2>6, MessageSent DEF TypeOK
<1>6. ListsOK' /\ ThreadsOK'
  BY ListsKept, ThreadsKept DEF Carry, TypeOK, ListsOK
<1> QED
  BY <1>4, <1>5, <1>6 DEF TypeOK

LEMMA ListenOK ==
  ASSUME TypeOK, NEW m \in net, Listen(m)
  PROVE  TypeOK'
<1>1. m.dst \in Nodes /\ m.events \subseteq Events
  BY DEF Listen, TypeOK, NetOK, Messages
<1>2. News(m) \in SUBSET Nodes
  BY <1>1 DEF News, Events
<1>3. ListsOK' /\ QueuesOK'
  BY <1>1, <1>2, LearnDeadOK DEF Listen, TypeOK
<1> QED
  BY <1>3, ThreadsKept DEF Listen, TypeOK, NetOK

LEMMA JoinRequestOK ==
  ASSUME TypeOK, NEW n \in Nodes, NEW s \in Seeds[n], JoinRequest(n, s)
  PROVE  TypeOK'
<1>1. s \in Nodes /\ n # s
  BY SwimAssumption
<1>2. PICK B : B = Body(n)
  OBVIOUS
<1>3. B \in SUBSET Nodes /\ n \in B
  BY <1>2 DEF Body, TypeOK, ListsOK
<1>4. PICK m : m = [kind |-> "join", src |-> n, dst |-> s, members |-> B]
  OBVIOUS
<1>5. GoodMessage(m)
  BY <1>1, <1>3, <1>4, BodyMessage
<1>6. net' = net \cup {m}
  BY <1>2, <1>4 DEF JoinRequest
<1>7. NetOK'
  BY <1>5, <1>6, MessageSent DEF TypeOK
<1> QED
  BY <1>7, ListsKept, QueuesKept, ThreadsKept DEF JoinRequest, TypeOK, ListsOK

LEMMA JoinHandlerOK ==
  ASSUME TypeOK, NEW m \in net, JoinHandler(m) \/ JoinResponse(m)
  PROVE  TypeOK'
<1>1. m.kind \in {"join", "joined", "orphan"}
  BY DEF JoinHandler, JoinResponse
<1>2. m.src \in Nodes /\ m.dst \in Nodes /\ m.members \subseteq Nodes /\ m.src # m.dst
  BY <1>1, JoinMessage DEF TypeOK, NetOK
<1>3. PICK t \in Threads, caller \in SUBSET {m.src} : Join(m.dst, t, m, caller)
  BY DEF JoinHandler, JoinResponse, Threads
<1>4. caller \in SUBSET Nodes /\ m.dst \notin caller
  BY <1>2, <1>3
<1>5. ListsOK' /\ ThreadsOK'
  BY <1>2, <1>3, <1>4, JoinOK DEF TypeOK
<1>6. net' \subseteq net /\ queue' = queue
  BY <1>3 DEF Join
<1> QED
  BY <1>5, <1>6, QueuesKept DEF TypeOK, NetOK

LEMMA LearnAliveOK ==
  ASSUME TypeOK, NEW n \in Nodes, NEW t \in Threads, LearnAlive(n, t)
  PROVE  TypeOK'
<1>1. PICK p \in thread[n][t].todo :
        /\ thread' = [thread EXCEPT ![n][t].todo = @ \ {p}]
        /\ IF Records(n, p)
             THEN /\ state' = [state EXCEPT ![n][p] = "alive"]
                  /\ queue' = [queue EXCEPT ![n] = Push(@, Items("alive", {p}))]
             ELSE UNCHANGED <<state, queue>>
  BY DEF LearnAlive
<1>2. p \in Nodes
  BY DEF TypeOK, ThreadsOK
<1>3. ThreadsOK'
  <2>1. PICK c : c = [thread[n][t] EXCEPT !.todo = @ \ {p}]
    OBVIOUS
  <2>2. /\ c \in [todo : SUBSET Nodes, caller : SUBSET Nodes] /\ n \notin c.todo \cup c.caller
    <3>1. PICK d : d = thread[n][t]
      OBVIOUS
    <3>2. d \in [todo : SUBSET Nodes, caller : SUBSET Nodes] /\ n \notin d.todo \cup d.caller
      BY <3>1 DEF TypeOK, ThreadsOK
    <3> QED
      BY <2>1, <3>1, <3>2
  <2>3. thread' = [thread EXCEPT ![n][t] = c]
    BY <1>1, <2>1 DEF TypeOK, ThreadsOK
  <2> QED
    BY <2>2, <2>3, CallChanged DEF TypeOK
<1>4. QueuesOK'
  <2>1. CASE Records(n, p)
    <3>1. PICK S \in SUBSET Nodes : S = {p}
      BY <1>2
    <3>2. queue' = [queue EXCEPT ![n] = Push(@, Items("alive", S))]
      BY <1>1, <2>1, <3>1
    <3> QED
      BY <3>2, EventsQueued DEF TypeOK
  <2>2. CASE ~Records(n, p)
    BY <1>1, <2>2, QueuesKept DEF TypeOK
  <2> QED
    BY <2>1, <2>2
<1>5. ListsOK'
  <2>1. state' \in [Nodes -> [Nodes -> {"unknown", "alive", "dead"}]]
    <3>1. state \in [Nodes -> [Nodes -> {"unknown", "alive", "dead"}]]
      BY DEF TypeOK, ListsOK
    <3>2. CASE Records(n, p)
      <4>1. state' = [state EXCEPT ![n][p] = "alive"]
        BY <1>1, <3>2
      <4> QED
        BY <1>2, <3>1, <4>1
    <3>3. CASE ~Records(n, p)
      BY <1>1, <3>1, <3>3
    <3> QED
      BY <3>2, <3>3
  <2>2. UNCHANGED <<list, deadPeers, up>>
    BY DEF LearnAlive
  <2> QED
    BY <2>1, <2>2 DEF TypeOK, ListsOK
<1> QED
  BY <1>3, <1>4, <1>5 DEF LearnAlive, TypeOK, NetOK

LEMMA AnswerOK ==
  ASSUME TypeOK, NEW n \in Nodes, NEW t \in Threads, Answer(n, t)
  PROVE  TypeOK'
<1>1. PICK q \in thread[n][t].caller :
        net' = net \cup {[kind |-> "joined", src |-> n, dst |-> q, members |-> Body(n)]}
  BY DEF Answer
<1>2. q \in Nodes /\ q # n
  BY DEF TypeOK, ThreadsOK
<1>3. PICK B : B = Body(n)
  OBVIOUS
<1>4. B \in SUBSET Nodes /\ n \in B
  BY <1>3 DEF Body, TypeOK, ListsOK
<1>5. PICK m : m = [kind |-> "joined", src |-> n, dst |-> q, members |-> B]
  OBVIOUS
<1>6. GoodMessage(m)
  BY <1>2, <1>4, <1>5, BodyMessage
<1>7. net' = net \cup {m}
  BY <1>1, <1>3, <1>5
<1>8. NetOK'
  BY <1>6, <1>7, MessageSent DEF TypeOK
<1>9. ThreadsOK'
  <2>1. Idle \in [todo : SUBSET Nodes, caller : SUBSET Nodes] /\ n \notin Idle.todo \cup Idle.caller
    BY DEF Idle, Call
  <2> QED
    BY <2>1, CallChanged DEF Answer, TypeOK
<1> QED
  BY <1>8, <1>9, ListsKept, QueuesKept DEF Answer, TypeOK, ListsOK

LEMMA LoseOK ==
  ASSUME TypeOK, NEW m \in net, Lose(m)
  PROVE  TypeOK'
<1>1. NetOK'
  BY DEF Lose, TypeOK, NetOK
<1> QED
  BY <1>1, ListsKept, QueuesKept, ThreadsKept DEF Lose, TypeOK, ListsOK

LEMMA CrashOK ==
  ASSUME TypeOK, NEW n \in Nodes, Crash(n)
  PROVE  TypeOK'
<1>1. ListsOK'
  <2>1. /\ list' \in [Nodes -> SUBSET Nodes]
        /\ state' \in [Nodes -> [Nodes -> {"unknown", "alive", "dead"}]]
        /\ deadPeers' \in [Nodes -> SUBSET Nodes]
    BY DEF Crash, NoState, TypeOK, ListsOK
  <2>2. \A k \in Nodes : k \notin list'[k]
    BY DEF Crash, TypeOK, ListsOK
  <2>3. up' \subseteq Nodes
    BY DEF Crash, TypeOK, ListsOK
  <2> QED
    BY <2>1, <2>2, <2>3 DEF ListsOK
<1>2. QueuesOK'
  <2>1. BagToSet(EmptyBag) = {}
    BY DEF EmptyBag, BagToSet, SetToBag
  <2> QED
    BY <2>1, QueueChanged DEF Crash, TypeOK
<1>3. NetOK'
  <2> DEFINE requests == {m \in net : m.kind = "join" /\ m.src = n}
             S == {[m EXCEPT !.kind = "orphan"] : m \in requests}
  <2>1. net' \subseteq net \cup S
    BY DEF Crash, Abandoned
  <2>2. ASSUME NEW m \in requests
        PROVE  GoodMessage([m EXCEPT !.kind = "orphan"])
    <3>1. /\ m \in [kind : {"join", "joined", "orphan"}, src : Nodes, dst : Nodes, members : SUBSET Nodes]
          /\ m.src # m.dst /\ m.src \in m.members
      BY JoinMessage DEF TypeOK, NetOK
    <3> QED
      BY <3>1 DEF GoodMessage, Messages
  <2>3. \A m \in S : GoodMessage(m)
    BY <2>2
  <2> HIDE DEF S
  <2> QED
    BY <2>1, <2>3, NetChanged DEF TypeOK
<1>4. ThreadsOK'
  <2>1. ASSUME NEW k \in Nodes, NEW u \in Threads
        PROVE  PossibleCall(k, Unattended(n)[k][u])
    <3>1. thread[k][u] \in [todo : SUBSET Nodes, caller : SUBSET Nodes]
          /\ k \notin thread[k][u].todo \cup thread[k][u].caller
      BY DEF TypeOK, ThreadsOK
    <3>2. CASE k = n
      BY <3>2 DEF Unattended, Idle, Call, PossibleCall
    <3>3. CASE k # n
      <4>1. Unattended(n)[k][u] = [thread[k][u] EXCEPT !.caller = @ \ {n}]
        BY <3>3 DEF Unattended
      <4> QED
        BY <3>1, <4>1 DEF PossibleCall
    <3> QED
      BY <3>2, <3>3
  <2>2. thread' = [k \in Nodes |-> [u \in Threads |-> Unattended(n)[k][u]]]
    BY DEF Crash, Unattended
  <2> QED
    BY <2>1, <2>2 DEF ThreadsOK, PossibleCall
<1> QED
  BY <1>1, <1>2, <1>3, <1>4 DEF TypeOK

LEMMA RestartOK ==
  ASSUME TypeOK, NEW n \in Nodes, Restart(n)
  PROVE  TypeOK'
<1>1. up' \subseteq Nodes /\ net' = net
  BY DEF Restart, TypeOK, ListsOK
<1> QED
  BY <1>1, ListsKept, QueuesKept, ThreadsKept DEF Restart, TypeOK, NetOK

LEMMA NextTypeOK == TypeOK /\ [Next]_vars => TypeOK'
<1> SUFFICES ASSUME TypeOK, [Next]_vars PROVE TypeOK'
  OBVIOUS
<1>1. CASE \E n, p \in Nodes : Detect(n, p) \/ Suspect(n, p) \/ Carry(n, p)
  BY <1>1, DetectOK, CarryOK
<1>2. CASE \E n \in Nodes : \E s \in Seeds[n] : Round(n, s)
  BY <1>2, JoinRequestOK DEF Round
<1>3. CASE \E n \in Nodes, t \in Threads : LearnAlive(n, t) \/ Answer(n, t)
  BY <1>3, LearnAliveOK, AnswerOK
<1>4. CASE \E m \in net : Receive(m) \/ Lose(m)
  BY <1>4, ListenOK, JoinHandlerOK, LoseOK DEF Receive
<1>5. CASE \E n \in Crashing : Crash(n) \/ Restart(n)
  BY <1>5, CrashOK, RestartOK, SwimAssumption
<1>6. CASE UNCHANGED vars
  BY <1>6, ListsKept, QueuesKept, ThreadsKept DEF vars, lists, TypeOK, ListsOK, NetOK
<1> QED
  BY <1>1, <1>2, <1>3, <1>4, <1>5, <1>6 DEF Next

(***************************************************************************)
(* TypeCorrect.  Among other things no node is on its own list, join       *)
(* bodies name their sender, and no queued event was carried as often as   *)
(* the limit of every length of a list.                                    *)
(***************************************************************************)
THEOREM TypeCorrect == Spec => []TypeOK
BY InitTypeOK, NextTypeOK, PTL DEF Spec

(***************************************************************************)
(* What one step does to what node k has recorded of p.                    *)
(***************************************************************************)
LEMMA LearnDeadHeard ==
  ASSUME ListsOK, NEW n \in Nodes, NEW S \in SUBSET Nodes, LearnDead(n, S), UNCHANGED thread,
         NEW k \in Nodes, NEW p \in Nodes, Heard(k, p)
  PROVE  Heard(k, p)'
<1> DEFINE new == {q \in S : state[n][q] # "dead"}
<1>1. Returning(k, p)' <=> Returning(k, p)
  BY DEF Returning
<1>2. CASE k = n
  <2>1. /\ list'[n] = list[n] \ new
        /\ state'[n] = [q \in Nodes |-> IF q \in new THEN "dead" ELSE state[n][q]]
        /\ deadPeers'[n] = deadPeers[n] \cup new
    BY DEF LearnDead, ListsOK
  <2> HIDE DEF new
  <2> QED
    BY <1>1, <1>2, <2>1 DEF Heard
<1>3. CASE k # n
  <2>1. list'[k] = list[k] /\ state'[k] = state[k] /\ deadPeers'[k] = deadPeers[k]
    BY <1>3 DEF LearnDead, ListsOK
  <2> QED
    BY <1>1, <2>1 DEF Heard
<1> QED
  BY <1>2, <1>3

LEMMA JoinHeard ==
  ASSUME ListsOK, ThreadsOK, NEW n \in Nodes, NEW t \in Threads, NEW m, m.src \in m.members,
         m.src # n, NEW caller, Join(n, t, m, caller),
         NEW k \in Nodes, NEW p \in Nodes, Heard(k, p)
  PROVE  Heard(k, p)'
<1>1. PICK added : added = Added(n, m)
  OBVIOUS
<1>2. /\ list' = [list EXCEPT ![n] = @ \cup added]
      /\ deadPeers' = [deadPeers EXCEPT ![n] = @ \ {m.src}]
      /\ thread' = [thread EXCEPT ![n][t] = Call(added, caller)]
      /\ UNCHANGED state
  BY <1>1 DEF Join, Buried
<1>3. added \cap (deadPeers[n] \ {m.src}) = {} /\ (m.src \in added \/ m.src \in list[n])
  BY <1>1 DEF Added, Buried
<1>4. CASE k = n
  <2>1. thread[n][t].todo = {}
    BY DEF Join, Free, Idle, Call
  <2>2. \A u \in Threads : thread'[n][u].todo = IF u = t THEN added ELSE thread[n][u].todo
    BY <1>2 DEF Call, ThreadsOK
  <2>3. (Returning(n, p) => Returning(n, p)') /\ (p \in added => Returning(n, p)')
    BY <2>1, <2>2 DEF Returning
  <2>4. list'[n] = list[n] \cup added /\ deadPeers'[n] = deadPeers[n] \ {m.src}
    BY <1>2 DEF ListsOK
  <2> QED
    BY <1>2, <1>3, <1>4, <2>3, <2>4 DEF Heard
<1>5. CASE k # n
  <2>1. list'[k] = list[k] /\ deadPeers'[k] = deadPeers[k] /\ thread'[k] = thread[k]
    BY <1>2, <1>5 DEF ListsOK, ThreadsOK
  <2>2. Returning(k, p)' <=> Returning(k, p)
    BY <2>1 DEF Returning
  <2> QED
    BY <1>2, <2>1, <2>2 DEF Heard
<1> QED
  BY <1>4, <1>5

LEMMA LearnAliveHeard ==
  ASSUME ListsOK, ThreadsOK, NEW n \in Nodes, NEW t \in Threads, LearnAlive(n, t),
         NEW k \in Nodes, NEW p \in Nodes, Heard(k, p)
  PROVE  Heard(k, p)'
<1>1. PICK q \in thread[n][t].todo :
        /\ thread' = [thread EXCEPT ![n][t].todo = @ \ {q}]
        /\ IF Records(n, q)
             THEN state' = [state EXCEPT ![n][q] = "alive"]
             ELSE UNCHANGED state
  BY DEF LearnAlive
<1>2. q \in Nodes /\ UNCHANGED <<list, deadPeers>>
  BY DEF LearnAlive, ThreadsOK
<1>3. CASE k = n /\ p = q
  <2>1. state'[n][q] = "alive"
    BY <1>1, <1>2 DEF Records, ListsOK
  <2> QED
    BY <1>2, <1>3, <2>1 DEF Heard
<1>4. CASE ~(k = n /\ p = q)
  <2>1. state'[k][p] = state[k][p]
    BY <1>1, <1>2, <1>4 DEF ListsOK
  <2>2. \A u \in Threads : p \in thread[k][u].todo => p \in thread'[k][u].todo
    BY <1>1, <1>4 DEF ThreadsOK
  <2>3. Returning(k, p) => Returning(k, p)'
    BY <2>2 DEF Returning
  <2> QED
    BY <1>2, <2>1, <2>3 DEF Heard
<1> QED
  BY <1>3, <1>4

LEMMA CrashHeard ==
  ASSUME ListsOK, ThreadsOK, NEW n \in Nodes, Crash(n), NEW k \in Nodes, NEW p \in Nodes, Heard(k, p)
  PROVE  Heard(k, p)'
<1>1. CASE k = n
  <2>1. list'[n] = {} /\ state'[n][p] = "unknown"
    BY DEF Crash, NoState, ListsOK
  <2> QED
    BY <1>1, <2>1 DEF Heard
<1>2. CASE k # n
  <2>1. list'[k] = list[k] /\ state'[k] = state[k] /\ deadPeers'[k] = deadPeers[k]
    BY <1>2 DEF Crash, ListsOK
  <2>2. \A u \in Threads : thread'[k][u].todo = thread[k][u].todo
    <3>1. \A u \in Threads : thread'[k][u] = [thread[k][u] EXCEPT !.caller = @ \ {n}]
      BY <1>2 DEF Crash, Unattended
    <3>2. \A u \in Threads : thread[k][u] \in [todo : SUBSET Nodes, caller : SUBSET Nodes]
      BY DEF ThreadsOK
    <3> QED
      BY <3>1, <3>2
  <2>3. Returning(k, p)' <=> Returning(k, p)
    BY <2>2 DEF Returning
  <2> QED
    BY <2>1, <2>3 DEF Heard
<1> QED
  BY <1>1, <1>2

LEMMA RestHeard ==
  ASSUME DeathsHeard, UNCHANGED lists,
         \A k \in Nodes, u \in Threads : thread'[k][u].todo = thread[k][u].todo
  PROVE  DeathsHeard'
<1>1. ASSUME NEW k \in Nodes, NEW p \in Nodes PROVE Heard(k, p)'
  <2>1. Returning(k, p)' <=> Returning(k, p)
    BY DEF Returning
  <2> QED
    BY <2>1 DEF DeathsHeard, Heard, lists
<1> QED
  BY <1>1 DEF DeathsHeard

LEMMA NextHeard == TypeOK /\ DeathsHeard /\ [Next]_vars => DeathsHeard'
<1> SUFFICES ASSUME TypeOK, DeathsHeard, [Next]_vars PROVE DeathsHeard'
  OBVIOUS
<1>0. ListsOK /\ ThreadsOK /\ NetOK /\ \A k, p \in Nodes : Heard(k, p)
  BY DEF TypeOK, DeathsHeard
<1>1. ASSUME NEW n \in Nodes, NEW p \in Nodes, Detect(n, p) \/ Suspect(n, p)
      PROVE  DeathsHeard'
  <2>1. PICK S \in SUBSET Nodes : S = {p}
    OBVIOUS
  <2>2. LearnDead(n, S) /\ UNCHANGED thread
    BY <1>1, <2>1 DEF Detect, Suspect
  <2> QED
    BY <1>0, <2>2, LearnDeadHeard DEF DeathsHeard
<1>2. ASSUME NEW m \in net, Listen(m)
      PROVE  DeathsHeard'
  <2>1. m.dst \in Nodes /\ News(m) \in SUBSET Nodes
    BY <1>0, <1>2 DEF Listen, NetOK, Messages, News, Events
  <2>2. PICK n \in Nodes, S \in SUBSET Nodes : n = m.dst /\ S = News(m)
    BY <2>1
  <2>3. LearnDead(n, S) /\ UNCHANGED thread
    BY <1>2, <2>2 DEF Listen
  <2> QED
    BY <1>0, <2>3, LearnDeadHeard DEF DeathsHeard
<1>3. ASSUME NEW m \in net, JoinHandler(m) \/ JoinResponse(m)
      PROVE  DeathsHeard'
  <2>1. m.kind \in {"join", "joined", "orphan"}
    BY <1>3 DEF JoinHandler, JoinResponse
  <2>2. m.dst \in Nodes /\ m.src # m.dst /\ m.src \in m.members
    BY <1>0, <2>1, JoinMessage DEF NetOK
  <2>3. PICK n \in Nodes : n = m.dst
    BY <2>2
  <2>4. PICK t \in Threads, caller \in SUBSET {m.src} : Join(n, t, m, caller)
    BY <1>3, <2>3 DEF JoinHandler, JoinResponse, Threads
  <2> QED
    BY <1>0, <2>2, <2>3, <2>4, JoinHeard DEF DeathsHeard
<1>4. ASSUME NEW n \in Nodes, NEW t \in Threads, LearnAlive(n, t)
      PROVE  DeathsHeard'
  BY <1>0, <1>4, LearnAliveHeard DEF DeathsHeard
<1>5. ASSUME NEW n \in Nodes, NEW t \in Threads, Answer(n, t)
      PROVE  DeathsHeard'
  <2>1. \A k \in Nodes, u \in Threads : thread'[k][u].todo = thread[k][u].todo
    BY <1>0, <1>5 DEF Answer, Idle, Call, ThreadsOK
  <2> QED
    BY <1>5, <2>1, RestHeard DEF Answer
<1>6. ASSUME NEW n \in Crashing, Crash(n)
      PROVE  DeathsHeard'
  BY <1>0, <1>6, SwimAssumption, CrashHeard DEF DeathsHeard
<1>7. CASE UNCHANGED <<lists, thread>>
  BY <1>7, RestHeard
<1>8. ASSUME NEW n \in Nodes, NEW p \in Nodes, Carry(n, p)
      PROVE  DeathsHeard'
  BY <1>7, <1>8 DEF Carry
<1>9. ASSUME NEW n \in Nodes, NEW s \in Seeds[n], Round(n, s)
      PROVE  DeathsHeard'
  BY <1>7, <1>9 DEF Round, JoinRequest
<1>10. ASSUME NEW m \in net, Lose(m)
       PROVE  DeathsHeard'
  BY <1>7, <1>10 DEF Lose
<1>11. ASSUME NEW n \in Crashing, Restart(n)
       PROVE  DeathsHeard'
  BY <1>7, <1>11 DEF Restart
<1>12. CASE UNCHANGED vars
  BY <1>7, <1>12 DEF vars
<1> QED
  BY <1>1, <1>2, <1>3, <1>4, <1>5, <1>6, <1>8, <1>9, <1>10, <1>11, <1>12 DEF Next, Receive

(***************************************************************************)
(* DeathsAreHeard.  On every node of any cluster, however deaths come      *)
(* between the two critical sections of a join and nodes crash and         *)
(* restart, a member is recorded as alive or about to be, and whoever is   *)
(* recorded as dead is among the dead or about to be recorded as alive:    *)
(* process never drops the death of a settled member.                      *)
(***************************************************************************)
THEOREM DeathsAreHeard == Spec => []DeathsHeard
<1>1. Init => DeathsHeard
  BY DEF Init, DeathsHeard, Heard
<1> QED
  BY <1>1, NextHeard, TypeCorrect, PTL DEF Spec
=============================================================================
