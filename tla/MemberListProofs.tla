-------------------------- MODULE MemberListProofs --------------------------
(***************************************************************************)
(* Theorems about the member list of a node, for any number of peers and   *)
(* join handlers and any capacity of the events channel.                   *)
(***************************************************************************)
EXTENDS FiniteSetTheorems, SequenceTheorems, MemberList, TLAPS

(***************************************************************************)
(* Bags and orders.                                                        *)
(***************************************************************************)
LEMMA BagAddMember ==
  ASSUME NEW B, IsABag(B), NEW x
  PROVE  /\ IsABag(B (+) SetToBag({x}))
         /\ BagToSet(B (+) SetToBag({x})) = BagToSet(B) \cup {x}
BY DEF IsABag, BagToSet, SetToBag, (+)

\* Taking a member out of a bag removes nothing else.
LEMMA BagRemoveMember ==
  ASSUME NEW B, IsABag(B), NEW x
  PROVE  /\ IsABag(B (-) SetToBag({x}))
         /\ BagToSet(B (-) SetToBag({x})) \subseteq BagToSet(B)
         /\ BagToSet(B) \subseteq BagToSet(B (-) SetToBag({x})) \cup {x}
BY DEF IsABag, BagToSet, SetToBag, (-)

\* An order of a finite set lists each of its members once.
LEMMA OrdersAreBijective ==
  ASSUME NEW S, IsFiniteSet(S), NEW o \in Orders(S)
  PROVE  /\ Cardinality(S) \in Nat
         /\ o \in [1 .. Cardinality(S) -> S]
         /\ \A p \in S : \E i \in DOMAIN o : o[i] = p
         /\ \A i, j \in DOMAIN o : o[i] = o[j] => i = j
<1> DEFINE c == Cardinality(S)
<1>1. c \in Nat
  BY FS_CardinalityType
<1>2. o \in Surjection(1 .. c, S)
  BY DEF Orders, Surjection
<1>3. IsFiniteSet(1 .. c) /\ Cardinality(1 .. c) = c
  BY <1>1, FS_Interval
<1>4. o \in Injection(1 .. c, S)
  BY <1>2, <1>3, FS_SurjSameCardinalityImpliesInj
<1> QED
  BY <1>1, <1>4 DEF Orders, Injection, IsInjective

(***************************************************************************)
(* Types.                                                                  *)
(***************************************************************************)
Shape == TypeOK /\ NeverBoth /\ (probed # "none" => ~Busy("probe"))

Calling == [todo : Seq(Events), at : {"lock", "delete", "emit"}]

\* The events of a node are events.
LEMMA EventsTyped ==
  \A p \in Nodes : Alive(p) \in Events /\ Dead(p) \in Events
BY DEF Alive, Dead, Events

\* A call of process starts at the lock with the events it is given.
LEMMA CallTyped ==
  ASSUME NEW s \in Seq(Events)
  PROVE  Call(s) \in Calling /\ Call(s).todo = s /\ Call(s).at = "lock"
BY DEF Call, Calling

(***************************************************************************)
(* The first event of a call, and the call without it.                     *)
(***************************************************************************)
LEMMA HeadOfCall ==
  ASSUME TypeOK, NEW t \in Threads, Busy(t)
  PROVE  /\ thread[t] \in Calling
         /\ Event(t) \in Events /\ Event(t) = thread[t].todo[1]
         /\ 1 \in DOMAIN thread[t].todo
         /\ Tail(thread[t].todo) \in Seq(Events)
         /\ Len(Tail(thread[t].todo)) = Len(thread[t].todo) - 1
         /\ \A i \in 1 .. Len(Tail(thread[t].todo)) :
              Tail(thread[t].todo)[i] = thread[t].todo[i + 1]
<1> DEFINE s == thread[t].todo
<1>1. thread[t] \in Calling /\ s \in Seq(Events) /\ s # <<>>
  BY DEF TypeOK, Calling, Busy
<1> HIDE DEF s
<1>2. Head(s) \in Events /\ Head(s) = s[1] /\ 1 \in DOMAIN s
  BY <1>1, HeadTailProperties, LenProperties, EmptySeq
<1>3. Tail(s) \in Seq(Events) /\ Len(Tail(s)) = Len(s) - 1
      /\ \A i \in 1 .. Len(Tail(s)) : Tail(s)[i] = s[i + 1]
  BY <1>1, HeadTailProperties
<1> QED
  BY <1>1, <1>2, <1>3 DEF s, Event

\* A new member has no peers and nothing under way.
LEMMA InitShape == Init => Shape
<1> SUFFICES ASSUME Init PROVE Shape
  OBVIOUS
<1>1. BagToSet(notices) = {} /\ IsABag(notices)
  BY DEF Init, EmptyBag, SetToBag, BagToSet, IsABag
<1>2. <<>> \in Seq(Events) /\ Len(<<>>) = 0
  BY EmptySeq
<1>3. Idle \in Calling
  BY <1>2 DEF Idle, Calling
<1>4. TypeOK
  BY <1>1, <1>2, <1>3, MemberListAssumption DEF Init, TypeOK, Calling, Idle
<1> QED
  BY <1>4 DEF Init, Shape, NeverBoth

(***************************************************************************)
(* A call begins, returns, or comes one step further.                      *)
(***************************************************************************)
LEMMA ThreadTyped ==
  ASSUME TypeOK, NEW t \in Threads, NEW c \in Calling, thread' = [thread EXCEPT ![t] = c],
         c.at = "delete" => c.todo # <<>> /\ Head(c.todo).kind = "dead"
  PROVE  /\ thread' \in [Threads -> [todo : Seq(Events), at : {"lock", "delete", "emit"}]]
         /\ \A u \in Threads : thread'[u].at = "delete" =>
              thread'[u].todo # <<>> /\ Head(thread'[u].todo).kind = "dead"
         /\ thread'[t] = c
         /\ \A u \in Threads \ {t} : thread'[u] = thread[u]
<1>1. thread \in [Threads -> Calling]
  BY DEF TypeOK, Calling
<1>2. thread'[t] = c /\ \A u \in Threads \ {t} : thread'[u] = thread[u]
  BY <1>1
<1>3. thread' \in [Threads -> Calling]
  BY <1>1
<1>4. ASSUME NEW u \in Threads, thread'[u].at = "delete"
      PROVE  thread'[u].todo # <<>> /\ Head(thread'[u].todo).kind = "dead"
  <2>1. CASE u = t
    BY <1>2, <1>4, <2>1
  <2>2. CASE u # t
    BY <1>2, <1>4, <2>2 DEF TypeOK, Busy, Event
  <2> QED
    BY <2>1, <2>2
<1> QED
  BY <1>2, <1>3, <1>4 DEF Calling

\* peers.join adds new peers and starts the calls of process for them.
LEMMA JoinShape ==
  ASSUME Shape, NEW t \in {"bootstrap"} \cup Handlers, NEW src \in Peers,
         NEW mem \in SUBSET Nodes, src \in mem, Join(t, src, mem)
  PROVE  Shape'
<1> DEFINE added == Added(src, mem)
<1>1. added \subseteq Peers /\ IsFiniteSet(added)
  BY MemberListAssumption, FS_Subset DEF Added, Nodes
<1>2. PICK o \in Orders(added) :
        thread' = [thread EXCEPT ![t] = Call([i \in DOMAIN o |-> Alive(o[i])])]
  BY DEF Join
<1> DEFINE s == [i \in DOMAIN o |-> Alive(o[i])]
<1>3. s \in Seq(Events)
  BY <1>1, OrdersAreBijective, EventsTyped DEF Nodes
<1>4. Call(s) \in Calling /\ Call(s).at = "lock"
  BY <1>3, CallTyped
<1>5. t \in Threads /\ t # "probe" /\ "probe" \in Threads
  BY MemberListAssumption DEF Threads
<1>6. TypeOK'
  <2> HIDE DEF s
  <2>1. /\ thread' \in [Threads -> [todo : Seq(Events), at : {"lock", "delete", "emit"}]]
        /\ \A u \in Threads : thread'[u].at = "delete" =>
             thread'[u].todo # <<>> /\ Head(thread'[u].todo).kind = "dead"
    BY <1>2, <1>4, <1>5, ThreadTyped DEF Shape, s
  <2>2. list' \subseteq Peers /\ deadPeers' \subseteq Nodes /\ disturbed' \subseteq Nodes
    BY <1>1 DEF Shape, TypeOK, Join, Nodes
  <2> QED
    BY <2>1, <2>2 DEF Shape, TypeOK, Join, Busy, Event
<1>7. NeverBoth'
  BY DEF Join, Added, Shape, NeverBoth
<1>8. probed' # "none" => ~Busy("probe")'
  BY <1>2, <1>5 DEF Join, Shape, Busy, TypeOK
<1> QED
  BY <1>6, <1>7, <1>8 DEF Shape

\* The listener or the prober starts a call of process for a death.
LEMMA CallDeadShape ==
  ASSUME Shape, NEW t \in {"listen", "probe"}, NEW p \in Nodes, CallDead(t, p),
         t = "probe" => probed' = "none",
         UNCHANGED <<lists, events, notices, pool>>, probed' \in {probed, "none"}
  PROVE  Shape'
<1>1. <<Dead(p)>> \in Seq(Events)
  BY EventsTyped
<1>2. Call(<<Dead(p)>>) \in Calling /\ Call(<<Dead(p)>>).at = "lock"
  BY <1>1, CallTyped
<1>3. t \in Threads /\ "probe" \in Threads
  BY DEF Threads
<1>4. TypeOK'
  BY <1>2, <1>3, ThreadTyped DEF Shape, TypeOK, CallDead, lists, Nodes, Busy, Event
<1>5. probed' # "none" => ~Busy("probe")'
  BY <1>3 DEF CallDead, Shape, Busy, TypeOK
<1> QED
  BY <1>4, <1>5 DEF Shape, NeverBoth, lists

\* The listener learns of a death.
LEMMA ListenShape ==
  ASSUME Shape, NEW p \in Nodes, Listen(p)
  PROVE  Shape'
BY CallDeadShape DEF Listen

\* The prober picks a peer, and finds it alive or dead.
LEMMA ProbeShape ==
  ASSUME Shape, ProbeStart \/ ProbeAcked \/ ProbeFailed
  PROVE  Shape'
<1>1. CASE ProbeStart
  BY <1>1 DEF ProbeStart, lists, Shape, TypeOK, NeverBoth, Busy, Event
<1>2. CASE ProbeAcked
  BY <1>2 DEF ProbeAcked, lists, Shape, TypeOK, NeverBoth, Busy, Event
<1>3. CASE ProbeFailed
  <2>1. probed \in Nodes
    BY <1>3 DEF ProbeFailed, Shape, TypeOK, Nodes
  <2> QED
    BY <1>3, <2>1, CallDeadShape DEF ProbeFailed
<1> QED
  BY <1>1, <1>2, <1>3

\* A goroutine returns from process and turns to its next event.
LEMMA ReturnTyped ==
  ASSUME Shape, NEW t \in Threads, Busy(t), thread' = Return(t), UNCHANGED probed
  PROVE  /\ thread' = [thread EXCEPT ![t] = Call(Tail(thread[t].todo))]
         /\ Call(Tail(thread[t].todo)) \in Calling
         /\ Call(Tail(thread[t].todo)).at = "lock"
         /\ probed' # "none" => ~Busy("probe")'
<1>1. thread' = [thread EXCEPT ![t] = Call(Tail(thread[t].todo))]
  BY DEF Return
<1>2. Tail(thread[t].todo) \in Seq(Events)
  BY HeadOfCall DEF Shape
<1>3. probed' # "none" => ~Busy("probe")'
  BY <1>1 DEF Shape, TypeOK, Busy
<1> QED
  BY <1>1, <1>2, <1>3, CallTyped

\* The three parts of process, and a send that a context ends.
LEMMA StepShape ==
  ASSUME Shape, NEW t \in Threads, Step(t) \/ Cancel(t)
  PROVE  Shape'
<1> DEFINE c == Call(Tail(thread[t].todo))
           d(at) == [thread[t] EXCEPT !.at = at]
<1>1. Busy(t)
  BY DEF Step, Process, Delete, Emit, Cancel
<1>2. thread[t] \in Calling /\ Event(t) \in Events
  BY <1>1, HeadOfCall DEF Shape
<1>3. \A at \in {"lock", "delete", "emit"} :
        d(at) \in Calling /\ d(at).at = at /\ d(at).todo = thread[t].todo
  BY <1>2 DEF Calling
<1>4. PICK v \in Calling :
        /\ thread' = [thread EXCEPT ![t] = v]
        /\ v.at = "delete" => v.todo # <<>> /\ Head(v.todo).kind = "dead"
        /\ probed' # "none" => ~Busy("probe")'
  <2>1. CASE thread' = Return(t)
    BY <1>1, <2>1, ReturnTyped DEF Step, Process, Delete, Emit, Cancel
  <2>2. CASE thread' # Return(t)
    <3>1. PICK at \in {"delete", "emit"} :
            /\ thread' = [thread EXCEPT ![t].at = at]
            /\ at = "delete" => Event(t).kind = "dead"
            /\ UNCHANGED probed
      BY <2>2 DEF Step, Process, Delete, Emit, Cancel
    <3>2. thread' = [thread EXCEPT ![t] = d(at)]
      BY <3>1
    <3>3. probed' # "none" => ~Busy("probe")'
      BY <1>1, <3>1 DEF Shape, TypeOK, Busy
    <3> QED
      BY <1>1, <1>3, <3>1, <3>2, <3>3 DEF Busy, Event
  <2> QED
    BY <2>1, <2>2
<1>5. /\ thread' \in [Threads -> [todo : Seq(Events), at : {"lock", "delete", "emit"}]]
      /\ \A u \in Threads : thread'[u].at = "delete" =>
           thread'[u].todo # <<>> /\ Head(thread'[u].todo).kind = "dead"
  BY <1>4, ThreadTyped DEF Shape
<1>6. /\ list' \subseteq list /\ deadPeers' \subseteq Nodes /\ NeverBoth'
      /\ state' \in [Nodes -> {"unknown", "alive", "dead"}]
      /\ UNCHANGED <<probed, notices, pool>> /\ disturbed' \subseteq Nodes
  BY <1>2 DEF Step, Process, Delete, Emit, Cancel, Shape, TypeOK, NeverBoth, Events, lists
<1>7. events' \in Seq(Events) /\ Len(events') <= Capacity
  <2>1. CASE UNCHANGED events
    BY <2>1 DEF Shape, TypeOK
  <2>2. CASE events' = Append(events, Event(t)) /\ Len(events) < Capacity
    BY <1>2, <2>2, MemberListAssumption, AppendProperties, LenProperties DEF Shape, TypeOK
  <2> QED
    BY <2>1, <2>2 DEF Step, Process, Delete, Emit, Cancel
<1>8. TypeOK'
  BY <1>5, <1>6, <1>7 DEF Shape, TypeOK, Busy, Event
<1> QED
  BY <1>4, <1>6, <1>8 DEF Shape

\* The fan-out takes an event and starts its notification.
LEMMA FanOutShape ==
  ASSUME Shape, FanOut
  PROVE  Shape'
<1>1. Head(events) \in Events /\ Tail(events) \in Seq(Events) /\ Len(Tail(events)) = Len(events) - 1
  BY HeadTailProperties DEF FanOut, Shape, TypeOK
<1>2. IsABag(notices') /\ BagToSet(notices') \subseteq Events
  <2>1. IsABag(notices) /\ BagToSet(notices) \subseteq Events
    BY DEF Shape, TypeOK
  <2>2. IsABag(notices') /\ BagToSet(notices') = BagToSet(notices) \cup {Head(events)}
    BY <2>1, BagAddMember DEF FanOut
  <2> QED
    BY <1>1, <2>1, <2>2
<1>3. Len(events') <= Capacity
  BY <1>1, LenProperties, MemberListAssumption DEF FanOut, Shape, TypeOK
<1> QED
  BY <1>1, <1>2, <1>3 DEF FanOut, Shape, TypeOK, NeverBoth, Busy, Event, lists

\* Server.Notify changes the pool only.
LEMMA NotifiedShape ==
  ASSUME Shape, NEW e \in Events, Notified(e)
  PROVE  Shape'
<1>1. IsABag(notices') /\ BagToSet(notices') \subseteq Events
  BY BagRemoveMember DEF Notified, Shape, TypeOK
<1>2. pool' \subseteq [host : {Host[p] : p \in Nodes}, port : Nat]
  BY DEF Notified, Notify, HTTPAddr, Shape, TypeOK, Events
<1> QED
  BY <1>1, <1>2 DEF Notified, Shape, TypeOK, NeverBoth, Busy, Event, lists

(***************************************************************************)
(* News of a peer is an entry of a call or an event that was emitted.      *)
(***************************************************************************)
LEMMA UnderWayIff ==
  ASSUME TypeOK, NEW p
  PROVE  UnderWay(p) <=> \/ \E t \in Threads : \E i \in DOMAIN thread[t].todo : About(t, i, p)
                         \/ \E e \in Events : e.node = p /\ Emitted(e)
<1>1. \A i \in DOMAIN events : events[i] \in Events
  BY LenProperties DEF TypeOK
<1> QED
  BY <1>1 DEF UnderWay, About, Emitted, TypeOK

\* What a goroutine still has to process are events.
LEMMA EntryTyped ==
  ASSUME TypeOK, NEW t \in Threads, NEW i \in DOMAIN thread[t].todo
  PROVE  i \in Nat \ {0} /\ thread[t].todo[i] \in Events
<1>1. thread[t].todo \in Seq(Events)
  BY DEF TypeOK
<1> QED
  BY <1>1, LenProperties

(***************************************************************************)
(* What a step leaves of the news of a peer alone: nothing is recorded of  *)
(* it, and the entries about it at most move up one place in their call.   *)
(***************************************************************************)
SameRecord(p) ==
  /\ p \in list' <=> p \in list
  /\ p \in deadPeers' <=> p \in deadPeers
  /\ state'[p] = state[p]

SameCalls(p, d) ==
  \A u \in Threads :
    /\ \A j \in DOMAIN thread[u].todo : About(u, j, p) =>
         j > d[u] /\ About(u, j - d[u], p)'
    /\ \A i \in DOMAIN thread'[u].todo : About(u, i, p)' =>
         /\ About(u, i + d[u], p)
         /\ thread'[u].todo[i] = thread[u].todo[i + d[u]]
         /\ At(u, i)' = At(u, i + d[u])

\* A step that leaves alone what is under way about p, its record and its
\* pool entry keeps what is known about p.
LEMMA NewsKept ==
  ASSUME TypeOK, TypeOK', NEW p \in Nodes, NewsTrue(p),
         NEW d \in [Threads -> {0, 1}],
         SameRecord(p), SameCalls(p, d), InPool(p)' <=> InPool(p),
         \A e \in Events : e.node = p => (Emitted(e)' <=> Emitted(e))
  PROVE  NewsTrue(p)'
<1>1. Follows(p)' <=> Follows(p)
  BY DEF Follows, SameRecord
<1>2. ASSUME NEW e, e.node = p
      PROVE  (Settled(e)' <=> Settled(e)) /\ \A at : Begun(e, at)' <=> Begun(e, at)
  BY <1>1, <1>2 DEF Settled, Begun, SameRecord
<1>3. UnderWay(p)' <=> UnderWay(p)
  <2>1. ASSUME NEW u \in Threads, NEW j \in DOMAIN thread[u].todo, About(u, j, p)
        PROVE  \E i \in DOMAIN thread'[u].todo : About(u, i, p)'
    BY <2>1 DEF SameCalls, About
  <2>2. ASSUME NEW u \in Threads, NEW i \in DOMAIN thread'[u].todo, About(u, i, p)'
        PROVE  \E j \in DOMAIN thread[u].todo : About(u, j, p)
    BY <2>2 DEF SameCalls, About
  <2>3. UnderWay(p)' <=> \/ \E t \in Threads : \E i \in DOMAIN thread'[t].todo : About(t, i, p)'
                         \/ \E e \in Events : e.node = p /\ Emitted(e)'
    <3>1. \A i \in DOMAIN events' : events'[i] \in Events
      BY LenProperties DEF TypeOK
    <3> QED
      BY <3>1 DEF UnderWay, About, Emitted, TypeOK
  <2> QED
    BY <2>1, <2>2, <2>3, UnderWayIff
<1>4. ASSUME NEW u \in Threads, NEW i \in DOMAIN thread'[u].todo, About(u, i, p)'
      PROVE  CallTrue(u, i, p)'
  <2> DEFINE j == i + d[u]
             e == thread[u].todo[j]
  <2>1. /\ About(u, j, p) /\ thread'[u].todo[i] = e /\ At(u, i)' = At(u, j)
        /\ j \in DOMAIN thread[u].todo /\ e.node = p
    BY <1>4 DEF SameCalls, About
  <2>2. CallTrue(u, j, p)
    BY <2>1 DEF NewsTrue
  <2>3. OnlyNews(u, j, p) => OnlyNews(u, i, p)'
    <3> SUFFICES ASSUME OnlyNews(u, j, p),
                        NEW w \in Threads, NEW l \in DOMAIN thread'[w].todo, About(w, l, p)'
                 PROVE  w = u /\ l = i
      BY DEF OnlyNews
    <3>1. About(w, l + d[w], p)
      BY DEF SameCalls
    <3>2. w = u /\ l + d[w] = i + d[u]
      BY <3>1 DEF OnlyNews, About
    <3>3. i \in Nat /\ l \in Nat
      BY LenProperties DEF TypeOK
    <3> QED
      BY <3>2, <3>3
  <2> QED
    BY <1>2, <2>1, <2>2, <2>3 DEF CallTrue
<1> QED
  BY <1>1, <1>2, <1>3, <1>4 DEF NewsTrue

\* If no list of events about p changes, none is shifted.
LEMMA NothingShifts ==
  ASSUME NEW p, \A u \in Threads : thread'[u] = thread[u] \/
                  (\A i : ~About(u, i, p) /\ ~About(u, i, p)'),
         TypeOK, TypeOK'
  PROVE  /\ [u \in Threads |-> 0] \in [Threads -> {0, 1}]
         /\ SameCalls(p, [u \in Threads |-> 0])
<1>1. ASSUME NEW u \in Threads, NEW i \in DOMAIN thread[u].todo
      PROVE  i \in Nat \ {0}
  BY EntryTyped
<1>2. ASSUME NEW u \in Threads, NEW i \in DOMAIN thread'[u].todo
      PROVE  i \in Nat \ {0}
  <2>1. thread'[u].todo \in Seq(Events)
    BY DEF TypeOK
  <2> QED
    BY <2>1, LenProperties
<1> QED
  BY <1>1, <1>2 DEF SameCalls, About, At

\* A return from process shifts the events of that goroutine by one.
LEMMA ReturnShifts ==
  ASSUME TypeOK, NEW t \in Threads, Busy(t), thread' = Return(t),
         NEW p, Event(t).node # p
  PROVE  /\ [u \in Threads |-> IF u = t THEN 1 ELSE 0] \in [Threads -> {0, 1}]
         /\ SameCalls(p, [u \in Threads |-> IF u = t THEN 1 ELSE 0])
<1>0. PICK s : s = thread[t].todo
  OBVIOUS
<1>1. /\ thread'[t].todo = Tail(s) /\ thread'[t].at = "lock"
      /\ \A u \in Threads \ {t} : thread'[u] = thread[u]
  BY <1>0 DEF TypeOK, Return, Call
<1>2. /\ s \in Seq(Events) /\ Tail(s) \in Seq(Events) /\ s[1].node # p
      /\ Len(Tail(s)) = Len(s) - 1 /\ \A i \in 1 .. Len(Tail(s)) : Tail(s)[i] = s[i + 1]
  BY <1>0, HeadOfCall DEF TypeOK
<1>3. /\ \A j \in DOMAIN thread[t].todo : About(t, j, p) => j > 1 /\ About(t, j - 1, p)'
      /\ \A i \in DOMAIN thread'[t].todo : About(t, i, p)' =>
           /\ About(t, i + 1, p) /\ thread'[t].todo[i] = thread[t].todo[i + 1]
           /\ At(t, i)' = At(t, i + 1)
  <2>1. DOMAIN s = 1 .. Len(s) /\ DOMAIN Tail(s) = 1 .. Len(Tail(s)) /\ Len(s) \in Nat
    BY <1>2, LenProperties
  <2>2. \A i : About(t, i, p) <=> i \in 1 .. Len(s) /\ s[i].node = p
    BY <1>0, <2>1 DEF About
  <2>3. \A i : About(t, i, p)' <=> i \in 1 .. Len(Tail(s)) /\ Tail(s)[i].node = p
    BY <1>1, <2>1 DEF About
  <2>4. \A i \in 1 .. Len(Tail(s)) : At(t, i)' = At(t, i + 1)
    BY <1>1, <1>2, <2>1 DEF At
  <2>5. ASSUME NEW j \in DOMAIN s, About(t, j, p)
        PROVE  j > 1 /\ About(t, j - 1, p)'
    <3>1. j \in 2 .. Len(s)
      BY <1>2, <2>1, <2>2, <2>5
    <3>2. j - 1 \in 1 .. Len(Tail(s)) /\ Tail(s)[j - 1] = s[j]
      BY <1>2, <2>1, <3>1
    <3> QED
      BY <2>2, <2>3, <2>5, <3>1, <3>2
  <2>6. ASSUME NEW i \in DOMAIN thread'[t].todo, About(t, i, p)'
        PROVE  About(t, i + 1, p) /\ thread'[t].todo[i] = s[i + 1]
    <3>1. i \in 1 .. Len(Tail(s)) /\ i + 1 \in 1 .. Len(s) /\ Tail(s)[i] = s[i + 1]
      BY <1>1, <1>2, <2>1, <2>6
    <3> QED
      BY <1>1, <2>2, <2>3, <2>6, <3>1
  <2> QED
    BY <1>0, <1>1, <2>1, <2>4, <2>5, <2>6
<1>4. ASSUME NEW u \in Threads \ {t}
      PROVE  /\ \A j \in DOMAIN thread[u].todo : About(u, j, p) => j > 0 /\ About(u, j - 0, p)'
             /\ \A i \in DOMAIN thread'[u].todo : About(u, i, p)' =>
                  /\ About(u, i + 0, p) /\ thread'[u].todo[i] = thread[u].todo[i + 0]
                  /\ At(u, i)' = At(u, i + 0)
  BY <1>1, EntryTyped DEF About, At
<1> QED
  BY <1>3, <1>4 DEF SameCalls

\* Going on to the next part of process shifts nothing.
LEMMA AdvanceKeeps ==
  ASSUME TypeOK, TypeOK', NEW t \in Threads, Busy(t), NEW at, thread' = [thread EXCEPT ![t].at = at],
         NEW p, Event(t).node # p
  PROVE  /\ [u \in Threads |-> 0] \in [Threads -> {0, 1}]
         /\ SameCalls(p, [u \in Threads |-> 0])
<1>1. /\ thread'[t].todo = thread[t].todo
      /\ \A u \in Threads \ {t} : thread'[u] = thread[u]
  BY DEF TypeOK
<1>2. thread[t].todo[1].node # p
  BY HeadOfCall
<1>3. \A u \in Threads : \A i \in DOMAIN thread[u].todo : i \in Nat \ {0}
  BY EntryTyped
<1>4. \A u \in Threads : thread'[u].todo = thread[u].todo
  BY <1>1
<1>5. \A u \in Threads : \A i \in DOMAIN thread[u].todo : About(u, i, p) => At(u, i)' = At(u, i)
  BY <1>1, <1>2 DEF About, At
<1> QED
  BY <1>3, <1>4, <1>5 DEF SameCalls, About

(***************************************************************************)
(* A new call about p alone; p was at rest, or else it is disturbed.       *)
(***************************************************************************)
LEMMA JoinNews ==
  ASSUME Inv, TypeOK', NEW t \in {"bootstrap"} \cup Handlers, NEW src \in Peers,
         NEW mem \in SUBSET Nodes, src \in mem, Join(t, src, mem),
         NEW p \in Undisturbed'
  PROVE  NewsTrue(p)'
<1> DEFINE added == Added(src, mem)
<1>1. added \subseteq Peers /\ IsFiniteSet(added)
  BY MemberListAssumption, FS_Subset DEF Added, Nodes
<1>2. PICK o \in Orders(added) :
        thread' = [thread EXCEPT ![t] = Call([i \in DOMAIN o |-> Alive(o[i])])]
  BY DEF Join
<1> DEFINE s == [i \in DOMAIN o |-> Alive(o[i])]
<1>3. t \in Threads
  BY DEF Threads
<1>4. /\ thread'[t].todo = s /\ thread'[t].at = "lock" /\ thread[t].todo = <<>>
      /\ \A u \in Threads \ {t} : thread'[u] = thread[u]
  BY <1>2, <1>3 DEF Inv, TypeOK, Call, Join, Busy
<1>5. /\ p \in Undisturbed /\ p \in Nodes /\ NewsTrue(p)
      /\ p \in added \cup {src} => ~UnderWay(p) /\ Follows(p)
  BY DEF Join, Undisturbed, Inv, NewsTrue, Nodes
<1>6. \A e \in Events : Emitted(e)' <=> Emitted(e)
  BY DEF Join, Emitted
<1>7. \A i : ~About(t, i, p)
  BY <1>4 DEF About
<1>8. CASE p \in added
  <2>1. PICK i \in DOMAIN o : o[i] = p
    BY <1>1, <1>8, OrdersAreBijective
  <2>2. \A j \in DOMAIN o : o[j] = p => j = i
    BY <1>1, <2>1, OrdersAreBijective
  <2>3. s[i] = Alive(p) /\ i \in DOMAIN s /\ \A j \in DOMAIN s : s[j].node = p => j = i
    BY <2>1, <2>2 DEF Alive
  <2>4. p \in list' \ deadPeers' /\ state'[p] # "alive"
    BY <1>5, <1>8 DEF Join, Added, Follows
  <2>5. \A u \in Threads : \A j : ~About(u, j, p)
    BY <1>5, <1>8 DEF UnderWay, About
  <2>6. \A e \in Events : e.node = p => ~Emitted(e)
    BY <1>5, <1>8, UnderWayIff DEF Inv
  <2>7. \A u \in Threads : \A j \in DOMAIN thread'[u].todo : About(u, j, p)' => u = t /\ j = i
    BY <1>4, <2>3, <2>5 DEF About
  <2>8. OnlyNews(t, i, p)'
    BY <1>6, <2>6, <2>7 DEF OnlyNews
  <2>9. At(t, i)' = "lock"
    BY <1>4 DEF At
  <2>10. CallTrue(t, i, p)'
    BY <1>4, <2>3, <2>4, <2>8, <2>9 DEF CallTrue, Begun, Alive
  <2>11. UnderWay(p)'
    BY <1>3, <1>4, <2>3 DEF UnderWay, Alive
  <2> QED
    BY <1>6, <2>6, <2>7, <2>10, <2>11 DEF NewsTrue
<1>9. CASE p \notin added
  <2>1. SameRecord(p)
    <3>1. p = src => p \in list
      BY <1>9, MemberListAssumption DEF Added
    <3> QED
      BY <1>9, <3>1 DEF Join, SameRecord, Inv, NeverBoth
  <2>2. \A i : ~About(t, i, p)'
    BY <1>1, <1>4, <1>9, OrdersAreBijective DEF About, Alive
  <2>3. SameCalls(p, [u \in Threads |-> 0]) /\ [u \in Threads |-> 0] \in [Threads -> {0, 1}]
    BY <1>4, <1>7, <2>2, NothingShifts DEF Inv
  <2>4. InPool(p)' <=> InPool(p)
    BY DEF Join, InPool
  <2> QED
    BY <1>5, <1>6, <2>1, <2>3, <2>4, NewsKept DEF Inv
<1> QED
  BY <1>8, <1>9

\* A call for a death is news that process has yet to record.
LEMMA CallDeadNews ==
  ASSUME Inv, TypeOK', NEW t \in Threads, ~Busy(t), NEW q \in Nodes, CallDead(t, q),
         UNCHANGED <<lists, events, notices, pool>>, NEW p \in Undisturbed'
  PROVE  NewsTrue(p)'
<1>1. /\ thread'[t].todo = <<Dead(q)>> /\ thread'[t].at = "lock" /\ thread[t].todo = <<>>
      /\ \A u \in Threads \ {t} : thread'[u] = thread[u]
  BY DEF CallDead, Inv, TypeOK, Call, Busy
<1>2. p \in Undisturbed /\ p \in Nodes /\ NewsTrue(p)
  BY DEF CallDead, Undisturbed, Inv, Nodes
<1>3. \A e \in Events : Emitted(e)' <=> Emitted(e)
  BY DEF Emitted
<1>4. SameRecord(p) /\ (InPool(p)' <=> InPool(p)) /\ (Follows(p)' <=> Follows(p))
  BY DEF SameRecord, InPool, Follows, lists
<1>5. CASE p # q
  <2>1. \A i : ~About(t, i, p) /\ ~About(t, i, p)'
    BY <1>1, <1>5 DEF About, Dead
  <2>2. SameCalls(p, [u \in Threads |-> 0]) /\ [u \in Threads |-> 0] \in [Threads -> {0, 1}]
    BY <1>1, <2>1, NothingShifts DEF Inv
  <2> QED
    BY <1>2, <1>3, <1>4, <2>2, NewsKept DEF Inv
<1>6. CASE p = q
  <2>1. ~UnderWay(p)
    BY <1>6 DEF CallDead, Undisturbed
  <2>2. Follows(p)'
    BY <1>2, <1>4, <2>1 DEF NewsTrue
  <2>3. \A u \in Threads : \A j : ~About(u, j, p)
    BY <2>1 DEF UnderWay, About
  <2>4. \A e \in Events : e.node = p => ~Emitted(e)'
    BY <1>3, <2>1, UnderWayIff DEF Inv
  <2>5. \A u \in Threads : \A j \in DOMAIN thread'[u].todo : About(u, j, p)' => u = t /\ j = 1
    BY <1>1, <2>3 DEF About
  <2>6. OnlyNews(t, 1, p)'
    BY <2>4, <2>5 DEF OnlyNews
  <2>7. CallTrue(t, 1, p)'
    BY <1>1, <1>6, <2>2, <2>6 DEF CallTrue, Begun, Dead, At
  <2> QED
    BY <2>2, <2>4, <2>5, <2>7 DEF NewsTrue
<1> QED
  BY <1>5, <1>6

(***************************************************************************)
(* A step of process with event e, and news of the peer it is about.       *)
(***************************************************************************)
LEMMA ProcessNews ==
  ASSUME Inv, TypeOK', NEW t \in Threads, Process(t), NEW p \in Undisturbed'
  PROVE  NewsTrue(p)'
<1>0. PICK e : e = Event(t)
  OBVIOUS
<1>1. Busy(t) /\ thread[t].at = "lock" /\ UNCHANGED <<list, deadPeers, events, notices, pool>>
  BY <1>0 DEF Process
<1>2. /\ e \in Events /\ e = thread[t].todo[1] /\ 1 \in DOMAIN thread[t].todo
  BY <1>0, <1>1, HeadOfCall DEF Inv
<1>3. p \in Undisturbed /\ p \in Nodes /\ NewsTrue(p)
  BY DEF Process, Undisturbed, Inv, Nodes
<1>4. \A f \in Events : Emitted(f)' <=> Emitted(f)
  BY <1>1 DEF Emitted
<1>5. InPool(p)' <=> InPool(p)
  BY <1>1 DEF InPool
<1>6. CASE e.node # p
  <2>1. SameRecord(p)
    <3>1. state' = state \/ state' = [state EXCEPT ![e.node] = e.kind]
      BY <1>0 DEF Process
    <3>2. state'[p] = state[p]
      BY <1>3, <1>6, <3>1 DEF Inv, TypeOK
    <3> QED
      BY <1>1, <3>2 DEF SameRecord
  <2>2. \E d \in [Threads -> {0, 1}] : SameCalls(p, d)
    BY <1>0, <1>1, <1>6, ReturnShifts, AdvanceKeeps DEF Process, Inv
  <2> QED
    BY <1>3, <1>4, <1>5, <2>1, <2>2, NewsKept DEF Inv
<1>7. CASE e.node = p
  <2>1. About(t, 1, p) /\ At(t, 1) = "lock"
    BY <1>1, <1>2, <1>7 DEF About, At
  <2>2. Begun(e, "lock") /\ OnlyNews(t, 1, p)
    BY <1>2, <1>3, <2>1 DEF NewsTrue, CallTrue
  <2>3. \A f \in Events : f.node = p => ~Emitted(f)'
    BY <1>4, <2>2 DEF OnlyNews
  <2>4. \A u \in Threads : \A j \in DOMAIN thread[u].todo : About(u, j, p) => u = t /\ j = 1
    BY <2>2 DEF OnlyNews
  <2>5. CASE Repeated(e)
    <3>1. Follows(p)
      BY <1>7, <2>2, <2>5 DEF Begun, Repeated
    <3>2. thread' = Return(t) /\ UNCHANGED state
      BY <1>0, <2>5 DEF Process
    <3>3. /\ \A u \in Threads \ {t} : thread'[u] = thread[u]
          /\ thread'[t].todo = Tail(thread[t].todo)
      BY <3>2 DEF Inv, TypeOK, Return, Call
    <3>4. \A i \in DOMAIN thread'[t].todo :
            /\ i + 1 \in DOMAIN thread[t].todo /\ i + 1 # 1
            /\ thread'[t].todo[i] = thread[t].todo[i + 1]
      BY <1>1, <3>3, HeadOfCall, LenProperties DEF Inv, Calling
    <3>5. \A u \in Threads : \A j \in DOMAIN thread'[u].todo : ~About(u, j, p)'
      <4>1. \A j \in DOMAIN thread'[t].todo : ~About(t, j, p)'
        BY <2>4, <3>4 DEF About
      <4>2. \A u \in Threads \ {t} : \A j \in DOMAIN thread'[u].todo : ~About(u, j, p)'
        BY <2>4, <3>3 DEF About
      <4> QED
        BY <4>1, <4>2
    <3>6. Follows(p)'
      BY <1>1, <1>5, <3>1, <3>2 DEF Follows
    <3> QED
      BY <2>3, <3>5, <3>6 DEF NewsTrue
  <2>6. CASE ~Repeated(e)
    <3>1. /\ state' = [state EXCEPT ![p] = e.kind]
          /\ thread' = [thread EXCEPT ![t].at = IF e.kind = "dead" THEN "delete" ELSE "emit"]
      BY <1>0, <1>7, <2>6 DEF Process
    <3>2. /\ \A u \in Threads : thread'[u].todo = thread[u].todo
          /\ thread'[t].at = IF e.kind = "dead" THEN "delete" ELSE "emit"
      BY <3>1 DEF Inv, TypeOK
    <3>3. state'[p] = e.kind
      BY <1>3, <3>1 DEF Inv, TypeOK
    <3>4. \A u \in Threads : \A j \in DOMAIN thread'[u].todo : About(u, j, p)' => u = t /\ j = 1
      BY <2>4, <3>2 DEF About
    <3>5. OnlyNews(t, 1, p)'
      BY <2>3, <3>4 DEF OnlyNews
    <3>6. CallTrue(t, 1, p)'
      <4>1. CASE e.kind = "alive"
        BY <1>1, <1>2, <1>7, <2>2, <3>2, <3>3, <4>1 DEF CallTrue, At, Settled, Begun
      <4>2. CASE e.kind = "dead"
        BY <1>2, <1>7, <3>2, <3>3, <3>5, <4>2 DEF CallTrue, At, Begun
      <4> QED
        BY <1>2, <4>1, <4>2 DEF Events
    <3>7. UnderWay(p)'
      BY <1>2, <1>7, <3>2 DEF UnderWay
    <3> QED
      BY <2>3, <3>4, <3>6, <3>7 DEF NewsTrue
  <2> QED
    BY <2>5, <2>6
<1> QED
  BY <1>6, <1>7

\* process deletes the peer whose death it recorded.
LEMMA DeleteNews ==
  ASSUME Inv, TypeOK', NEW t \in Threads, Delete(t), NEW p \in Undisturbed'
  PROVE  NewsTrue(p)'
<1>0. PICK e : e = Event(t)
  OBVIOUS
<1>1. Busy(t) /\ thread[t].at = "delete" /\ UNCHANGED <<state, events, notices, pool>>
  BY DEF Delete
<1>2. e \in Events /\ e = thread[t].todo[1] /\ 1 \in DOMAIN thread[t].todo /\ e.kind = "dead"
  BY <1>0, <1>1, HeadOfCall DEF Inv, TypeOK
<1>3. p \in Undisturbed /\ p \in Nodes /\ NewsTrue(p)
  BY DEF Delete, Undisturbed, Inv, Nodes
<1>4. \A f \in Events : Emitted(f)' <=> Emitted(f)
  BY <1>1 DEF Emitted
<1>5. CASE e.node # p
  <2>1. SameRecord(p) /\ (InPool(p)' <=> InPool(p))
    BY <1>0, <1>1, <1>5 DEF Delete, SameRecord, InPool
  <2>2. \E d \in [Threads -> {0, 1}] : SameCalls(p, d)
    BY <1>0, <1>1, <1>5, AdvanceKeeps DEF Delete, Inv
  <2> QED
    BY <1>3, <1>4, <2>1, <2>2, NewsKept DEF Inv
<1>6. CASE e.node = p
  <2>1. About(t, 1, p) /\ At(t, 1) = "delete"
    BY <1>1, <1>2, <1>6 DEF About, At
  <2>2. Begun(e, "delete") /\ OnlyNews(t, 1, p)
    BY <1>2, <1>3, <2>1 DEF NewsTrue, CallTrue
  <2>3. /\ \A u \in Threads : thread'[u].todo = thread[u].todo
        /\ thread'[t].at = "emit"
    BY DEF Delete, Inv, TypeOK
  <2>4. Settled(e)'
    BY <1>0, <1>1, <1>2, <1>6, <2>2 DEF Settled, Begun, Delete
  <2>5. \A f \in Events : f.node = p => ~Emitted(f)'
    BY <1>4, <2>2 DEF OnlyNews
  <2>6. \A u \in Threads : \A j \in DOMAIN thread'[u].todo : About(u, j, p)' => u = t /\ j = 1
    BY <2>2, <2>3 DEF OnlyNews, About
  <2>7. CallTrue(t, 1, p)'
    BY <1>2, <2>3, <2>4 DEF CallTrue, At, Settled
  <2>8. UnderWay(p)'
    BY <1>2, <1>6, <2>3 DEF UnderWay
  <2> QED
    BY <2>5, <2>6, <2>7, <2>8 DEF NewsTrue
<1> QED
  BY <1>5, <1>6

(***************************************************************************)
(* Emit, and Cancel, after which the peer is disturbed.                    *)
(***************************************************************************)
LEMMA EmitNews ==
  ASSUME Inv, TypeOK', NEW t \in Threads, Emit(t), NEW p \in Undisturbed'
  PROVE  NewsTrue(p)'
<1>0. PICK e : e = Event(t)
  OBVIOUS
<1>1. /\ Busy(t) /\ thread[t].at = "emit" /\ thread' = Return(t)
      /\ events' = Append(events, e) /\ UNCHANGED <<list, state, deadPeers, notices, pool>>
  BY <1>0 DEF Emit, lists
<1>2. e \in Events /\ e = thread[t].todo[1] /\ 1 \in DOMAIN thread[t].todo
  BY <1>0, <1>1, HeadOfCall DEF Inv
<1>3. p \in Undisturbed /\ p \in Nodes /\ NewsTrue(p)
  BY DEF Emit, Undisturbed, Inv, Nodes
<1>4. \A f \in Events : Emitted(f)' <=> Emitted(f) \/ f = e
  <2>1. /\ DOMAIN events' = DOMAIN events \cup {Len(events) + 1}
        /\ \A i \in DOMAIN events : events'[i] = events[i]
        /\ events'[Len(events) + 1] = e
    BY <1>1, <1>2, AppendProperties, LenProperties DEF Inv, TypeOK
  <2> QED
    BY <1>1, <2>1 DEF Emitted
<1>5. CASE e.node # p
  <2>1. SameRecord(p) /\ (InPool(p)' <=> InPool(p))
    BY <1>1 DEF SameRecord, InPool
  <2>2. \E d \in [Threads -> {0, 1}] : SameCalls(p, d)
    BY <1>0, <1>1, <1>5, ReturnShifts DEF Inv
  <2>3. \A f \in Events : f.node = p => (Emitted(f)' <=> Emitted(f))
    BY <1>4, <1>5
  <2> QED
    BY <1>3, <2>1, <2>2, <2>3, NewsKept DEF Inv
<1>6. CASE e.node = p
  <2>1. About(t, 1, p) /\ At(t, 1) = "emit"
    BY <1>1, <1>2, <1>6 DEF About, At
  <2>2. Settled(e)
    BY <1>2, <1>3, <2>1 DEF NewsTrue, CallTrue
  <2>3. \A f : Settled(f)' <=> Settled(f)
    BY <1>1 DEF Settled
  <2>4. \A u \in Threads : \A j \in DOMAIN thread[u].todo : About(u, j, p) => At(u, j) = "emit"
    BY <1>2, <1>3, <2>1 DEF NewsTrue, CallTrue, OnlyNews, At
  <2>5. /\ \A u \in Threads \ {t} : thread'[u] = thread[u]
        /\ thread'[t].todo = Tail(thread[t].todo)
    BY <1>1 DEF Inv, TypeOK, Return, Call
  <2>6. \A i \in DOMAIN thread'[t].todo :
          /\ i + 1 \in DOMAIN thread[t].todo /\ i + 1 # 1
          /\ thread'[t].todo[i] = thread[t].todo[i + 1]
    BY <1>1, <2>5, HeadOfCall, LenProperties DEF Inv, Calling
  <2>7. \A i \in DOMAIN thread'[t].todo : ~About(t, i, p)'
    BY <2>4, <2>6 DEF About, At
  <2>8. ASSUME NEW u \in Threads, NEW j \in DOMAIN thread'[u].todo, About(u, j, p)'
        PROVE  CallTrue(u, j, p)'
    <3>1. u # t /\ thread'[u] = thread[u] /\ About(u, j, p)
      BY <2>5, <2>7, <2>8 DEF About
    <3>2. At(u, j) = "emit" /\ Settled(thread[u].todo[j])
      BY <1>3, <2>4, <3>1 DEF NewsTrue, CallTrue, About
    <3> QED
      BY <2>3, <3>1, <3>2 DEF CallTrue, At
  <2>9. UnderWay(p)'
    <3>1. Len(events) + 1 \in DOMAIN events' /\ events'[Len(events) + 1] = e
      BY <1>1, <1>2, AppendProperties, LenProperties DEF Inv, TypeOK
    <3> QED
      BY <1>6, <3>1 DEF UnderWay
  <2> QED
    BY <1>3, <1>4, <2>2, <2>3, <2>8, <2>9 DEF NewsTrue
<1> QED
  BY <1>5, <1>6

\* A send that a context ends disturbs the peer and says nothing of others.
LEMMA CancelNews ==
  ASSUME Inv, TypeOK', NEW t \in Threads, Cancel(t), NEW p \in Undisturbed'
  PROVE  NewsTrue(p)'
<1>1. /\ Busy(t) /\ thread' = Return(t)
      /\ UNCHANGED <<list, state, deadPeers, events, notices, pool>>
  BY DEF Cancel, lists
<1>2. p \in Undisturbed /\ p \in Nodes /\ NewsTrue(p) /\ Event(t).node # p
  BY DEF Cancel, Undisturbed, Inv, Nodes
<1>3. SameRecord(p) /\ (InPool(p)' <=> InPool(p))
  BY <1>1 DEF SameRecord, InPool
<1>4. \E d \in [Threads -> {0, 1}] : SameCalls(p, d)
  BY <1>1, <1>2, ReturnShifts DEF Inv
<1>5. \A f \in Events : f.node = p => (Emitted(f)' <=> Emitted(f))
  BY <1>1 DEF Emitted
<1> QED
  BY <1>2, <1>3, <1>4, <1>5, NewsKept DEF Inv

\* The fan-out moves an event from the channel to a notification.
LEMMA FanOutNews ==
  ASSUME Inv, TypeOK', FanOut, NEW p \in Undisturbed'
  PROVE  NewsTrue(p)'
<1>0. PICK e : e = Head(events)
  OBVIOUS
<1>1. /\ events' = Tail(events) /\ events # <<>> /\ events \in Seq(Events) /\ IsABag(notices)
      /\ UNCHANGED <<list, state, deadPeers, thread, pool>>
  BY DEF FanOut, lists, Inv, TypeOK
<1>2. p \in Undisturbed /\ p \in Nodes /\ NewsTrue(p)
  BY DEF FanOut, Undisturbed, Inv, Nodes
<1>3. BagToSet(notices') = BagToSet(notices) \cup {e}
  BY <1>0, <1>1, BagAddMember DEF FanOut
<1>4. ASSUME NEW f \in Events
      PROVE  Emitted(f)' <=> Emitted(f)
  <2>1. /\ Len(events) \in Nat /\ DOMAIN events = 1 .. Len(events) /\ events[1] = e
        /\ DOMAIN events' = 1 .. (Len(events) - 1)
        /\ \A i \in 1 .. (Len(events) - 1) : events'[i] = events[i + 1]
        /\ Len(events) # 0
    BY <1>0, <1>1, HeadTailProperties, LenProperties, EmptySeq
  <2>2. ASSUME NEW i \in DOMAIN events, events[i] = f
        PROVE  f = e \/ \E j \in DOMAIN events' : events'[j] = f
    <3>1. CASE i = 1
      BY <2>1, <2>2, <3>1
    <3>2. CASE i # 1
      <4>1. i - 1 \in DOMAIN events' /\ events'[i - 1] = events[i]
        BY <2>1, <3>2
      <4> QED
        BY <2>2, <4>1
    <3> QED
      BY <3>1, <3>2
  <2>3. ASSUME NEW i \in DOMAIN events', events'[i] = f
        PROVE  \E j \in DOMAIN events : events[j] = f
    <3>1. i + 1 \in DOMAIN events /\ events[i + 1] = f
      BY <2>1, <2>3
    <3> QED
      BY <3>1
  <2>4. \E j \in DOMAIN events : events[j] = e
    BY <2>1
  <2> QED
    BY <1>3, <2>2, <2>3, <2>4 DEF Emitted
<1>5. SameRecord(p) /\ (InPool(p)' <=> InPool(p))
  BY <1>1 DEF SameRecord, InPool
<1>6. \E d \in [Threads -> {0, 1}] : SameCalls(p, d)
  BY <1>1, NothingShifts DEF Inv
<1> QED
  BY <1>2, <1>4, <1>5, <1>6, NewsKept DEF Inv

(***************************************************************************)
(* Notify brings the pool in line with what was recorded.                  *)
(***************************************************************************)
LEMMA NotifiedNews ==
  ASSUME Inv, TypeOK', NEW e \in Events, Notified(e), NEW p \in Undisturbed'
  PROVE  NewsTrue(p)'
<1>1. /\ e \in BagToSet(notices) /\ pool' = Notify(e) /\ IsABag(notices)
      /\ UNCHANGED <<list, state, deadPeers, thread, events>>
  BY DEF Notified, BagIn, lists, Inv, TypeOK
<1>2. /\ p \in Undisturbed /\ p \in Nodes /\ NewsTrue(p)
      /\ \A q \in Nodes \ {p} : Host[q] # Host[p]
  BY DEF Notified, Undisturbed, Inv, Nodes
<1>3. /\ BagToSet(notices') \subseteq BagToSet(notices)
      /\ BagToSet(notices) \subseteq BagToSet(notices') \cup {e}
  BY <1>1, BagRemoveMember DEF Notified
<1>4. \A f \in Events : (Emitted(f)' => Emitted(f)) /\ (Emitted(f) => Emitted(f)' \/ f = e)
  BY <1>1, <1>3 DEF Emitted
<1>5. e.node \in Nodes /\ e.kind \in {"alive", "dead"}
  BY DEF Events
<1>6. CASE e.node # p
  <2>1. SameRecord(p)
    BY <1>1 DEF SameRecord
  <2>2. InPool(p)' <=> InPool(p)
    BY <1>1, <1>2, <1>5, <1>6 DEF InPool, Notify, HTTPAddr
  <2>3. \E d \in [Threads -> {0, 1}] : SameCalls(p, d)
    BY <1>1, NothingShifts DEF Inv
  <2> QED
    BY <1>2, <1>4, <1>6, <2>1, <2>2, <2>3, NewsKept DEF Inv
<1>7. CASE e.node = p
  <2>1. Emitted(e) /\ Settled(e)
    BY <1>1, <1>2, <1>7 DEF Emitted, NewsTrue
  <2>2. \A f : Settled(f)' <=> Settled(f)
    BY <1>1 DEF Settled
  <2>3. ASSUME NEW u \in Threads, NEW j \in DOMAIN thread'[u].todo, About(u, j, p)'
        PROVE  CallTrue(u, j, p)'
    <3>1. About(u, j, p) /\ thread'[u] = thread[u] /\ j \in DOMAIN thread[u].todo
      BY <1>1, <2>3 DEF About
    <3>2. CallTrue(u, j, p) /\ ~OnlyNews(u, j, p)
      BY <1>2, <1>7, <2>1, <3>1 DEF NewsTrue, OnlyNews
    <3> QED
      BY <2>2, <3>1, <3>2 DEF CallTrue, At
  <2>4. InPool(p)' <=> e.kind = "alive"
    <3>1. CASE e.kind = "alive"
      <4>1. HTTPAddr(p) \in pool' /\ HTTPAddr(p).host = Host[p]
        BY <1>1, <1>7, <3>1 DEF Notify, HTTPAddr
      <4> QED
        BY <3>1, <4>1 DEF InPool
    <3>2. CASE e.kind = "dead"
      BY <1>1, <1>7, <3>2 DEF InPool, Notify
    <3> QED
      BY <1>5, <3>1, <3>2
  <2>5. Follows(p)'
    BY <1>1, <1>5, <1>7, <2>1, <2>4 DEF Follows, Settled
  <2> QED
    BY <1>2, <1>4, <2>2, <2>3, <2>5 DEF NewsTrue
<1> QED
  BY <1>6, <1>7

\* Steps that change nothing the news depends on.
LEMMA RestNews ==
  ASSUME Inv, TypeOK', UNCHANGED <<list, state, deadPeers, thread, events, notices, pool, disturbed>>,
         NEW p \in Undisturbed'
  PROVE  NewsTrue(p)'
<1>1. p \in Undisturbed /\ p \in Nodes /\ NewsTrue(p)
  BY DEF Undisturbed, Inv, Nodes
<1>2. SameRecord(p) /\ (InPool(p)' <=> InPool(p))
  BY DEF SameRecord, InPool
<1>3. \E d \in [Threads -> {0, 1}] : SameCalls(p, d)
  BY NothingShifts DEF Inv
<1>4. \A f \in Events : Emitted(f)' <=> Emitted(f)
  BY DEF Emitted
<1> QED
  BY <1>1, <1>2, <1>3, <1>4, NewsKept DEF Inv

(***************************************************************************)
(* The inductive invariant.                                                *)
(***************************************************************************)
LEMMA InvParts == Inv <=> Shape /\ \A p \in Undisturbed : NewsTrue(p)
BY DEF Inv, Shape

\* No peer has any news in the initial state.
LEMMA InitInv == Init => Inv
<1> SUFFICES ASSUME Init PROVE Inv
  OBVIOUS
<1>1. Shape
  BY InitShape
<1>2. \A t \in Threads : thread[t].todo = <<>>
  BY DEF Init, Idle
<1>3. \A e : ~Emitted(e)
  BY DEF Init, Emitted, EmptyBag, BagToSet, SetToBag
<1>4. \A p \in Peers : Follows(p)
  BY DEF Init, Follows, InPool, Nodes
<1> QED
  BY <1>1, <1>2, <1>3, <1>4, InvParts DEF NewsTrue, Undisturbed, About

\* Every step keeps the invariant.
LEMMA NextInv == Inv /\ [Next]_vars => Inv'
<1> SUFFICES ASSUME Inv, [Next]_vars PROVE Inv'
  OBVIOUS
<1>0. Shape
  BY InvParts
<1>p. Inv' <=> Shape' /\ \A p \in Undisturbed' : NewsTrue(p)'
  BY DEF Inv, Shape
<1>1. ASSUME NEW t \in {"bootstrap"} \cup Handlers, NEW src \in Peers, NEW mem \in SUBSET Nodes,
             src \in mem, Join(t, src, mem)
      PROVE  Inv'
  <2>1. Shape' /\ TypeOK'
    BY <1>0, <1>1, JoinShape DEF Shape
  <2> QED
    BY <1>p, <1>1, <2>1, JoinNews
<1>2. ASSUME NEW q \in Nodes, Listen(q)
      PROVE  Inv'
  <2>1. Shape' /\ TypeOK'
    BY <1>0, <1>2, ListenShape DEF Shape
  <2>2. "listen" \in Threads
    BY DEF Threads
  <2> QED
    BY <1>p, <1>2, <2>1, <2>2, CallDeadNews DEF Listen
<1>3. CASE ProbeStart \/ ProbeAcked
  <2>1. Shape' /\ TypeOK'
    BY <1>0, <1>3, ProbeShape DEF Shape
  <2> QED
    BY <1>p, <1>3, <2>1, RestNews DEF ProbeStart, ProbeAcked, lists
<1>4. CASE ProbeFailed
  <2>1. Shape' /\ TypeOK'
    BY <1>0, <1>4, ProbeShape DEF Shape
  <2>2. "probe" \in Threads /\ probed \in Nodes /\ ~Busy("probe")
    BY <1>4 DEF ProbeFailed, Threads, Inv, TypeOK, Nodes
  <2> QED
    BY <1>p, <1>4, <2>1, <2>2, CallDeadNews DEF ProbeFailed
<1>5. ASSUME NEW t \in Threads, Step(t) \/ Cancel(t)
      PROVE  Inv'
  <2>1. Shape' /\ TypeOK'
    BY <1>0, <1>5, StepShape DEF Shape
  <2> QED
    BY <1>p, <1>5, <2>1, ProcessNews, DeleteNews, EmitNews, CancelNews DEF Step
<1>6. CASE FanOut
  <2>1. Shape' /\ TypeOK'
    BY <1>0, <1>6, FanOutShape DEF Shape
  <2> QED
    BY <1>p, <1>6, <2>1, FanOutNews
<1>7. ASSUME NEW e \in Events, Notified(e)
      PROVE  Inv'
  <2>1. Shape' /\ TypeOK'
    BY <1>0, <1>7, NotifiedShape DEF Shape
  <2> QED
    BY <1>p, <1>7, <2>1, NotifiedNews
<1>8. CASE UNCHANGED vars
  <2>1. Shape' /\ TypeOK'
    BY <1>0, <1>8 DEF Shape, TypeOK, NeverBoth, Busy, Event, vars, lists, bounds
  <2> QED
    BY <1>p, <1>8, <2>1, RestNews DEF vars, lists
<1> QED
  BY <1>1, <1>2, <1>3, <1>4, <1>5, <1>6, <1>7, <1>8 DEF Next, Threads

(***************************************************************************)
(* Invariance.  For every peer whose news neither overlapped nor was lost, *)
(* what process is done with is recorded and what it is not done with is   *)
(* the only news of that peer.                                             *)
(***************************************************************************)
THEOREM Invariance == Spec => []Inv
BY InitInv, NextInv, PTL DEF Spec

(***************************************************************************)
(* TypeCorrect.  Only other nodes are on the list, only the dead are ever  *)
(* deleted, and the events channel keeps its capacity.                     *)
(***************************************************************************)
THEOREM TypeCorrect == Spec => []TypeOK
<1>1. Inv => TypeOK
  BY DEF Inv
<1> QED
  BY <1>1, Invariance, PTL

(***************************************************************************)
(* Returns and deletions under way stay under way while other calls move.  *)
(***************************************************************************)
LEMMA NewCallKeeps ==
  ASSUME TypeOK, NEW t \in Threads, ~Busy(t), NEW c, thread' = [thread EXCEPT ![t] = c], NEW p
  PROVE  (Returning(p) => Returning(p)') /\ (Deleting(p) => Deleting(p)')
<1>1. \A u \in Threads \ {t} : thread'[u] = thread[u]
  BY DEF TypeOK
<1>2. thread[t].todo = <<>> /\ DOMAIN thread[t].todo = {} /\ thread[t].at # "delete"
  BY DEF Busy, TypeOK
<1>3. ASSUME Returning(p) PROVE Returning(p)'
  <2>1. PICK u \in Threads : \E i \in DOMAIN thread[u].todo :
          thread[u].todo[i] = Alive(p) /\ (i = 1 => thread[u].at = "lock")
    BY <1>3 DEF Returning
  <2>2. u # t
    BY <1>2, <2>1
  <2> QED
    BY <1>1, <2>1, <2>2 DEF Returning, Alive
<1>4. ASSUME Deleting(p) PROVE Deleting(p)'
  BY <1>1, <1>2, <1>4 DEF Deleting, Event
<1> QED
  BY <1>3, <1>4

LEMMA ReturnKeeps ==
  ASSUME TypeOK, NEW t \in Threads, Busy(t), thread' = Return(t), thread[t].at # "delete", NEW p,
         thread[t].at = "lock" => Event(t) # Alive(p)
  PROVE  (Returning(p) => Returning(p)') /\ (Deleting(p) => Deleting(p)')
<1>1. /\ \A u \in Threads \ {t} : thread'[u] = thread[u]
      /\ thread'[t].todo = Tail(thread[t].todo) /\ thread'[t].at = "lock"
  BY DEF TypeOK, Return, Call
<1>2. /\ Event(t) = thread[t].todo[1] /\ thread[t].todo \in Seq(Events)
      /\ Len(Tail(thread[t].todo)) = Len(thread[t].todo) - 1
      /\ Tail(thread[t].todo) \in Seq(Events)
      /\ \A i \in 1 .. Len(Tail(thread[t].todo)) :
           Tail(thread[t].todo)[i] = thread[t].todo[i + 1]
  BY HeadOfCall DEF Calling
<1>3. ASSUME Returning(p) PROVE Returning(p)'
  <2>0. PICK u \in Threads : \E i \in DOMAIN thread[u].todo :
          thread[u].todo[i] = Alive(p) /\ (i = 1 => thread[u].at = "lock")
    BY <1>3 DEF Returning
  <2>1. PICK i \in DOMAIN thread[u].todo :
          thread[u].todo[i] = Alive(p) /\ (i = 1 => thread[u].at = "lock")
    BY <2>0
  <2>2. CASE u # t
    BY <1>1, <2>1, <2>2 DEF Returning, Alive
  <2>3. CASE u = t
    <3>1. PICK s, tl : s = thread[t].todo /\ tl = Tail(s)
      OBVIOUS
    <3>2. /\ s \in Seq(Events) /\ tl \in Seq(Events) /\ Len(tl) = Len(s) - 1
          /\ \A k \in 1 .. Len(tl) : tl[k] = s[k + 1]
      BY <1>2, <3>1
    <3>3. i \in 1 .. Len(s) /\ Len(s) \in Nat /\ DOMAIN tl = 1 .. Len(tl)
      BY <2>1, <2>3, <3>1, <3>2, LenProperties
    <3>4. i # 1
      BY <1>2, <2>1, <2>3
    <3>5. i - 1 \in DOMAIN tl /\ tl[i - 1] = s[i]
      BY <3>2, <3>3, <3>4
    <3>6. i - 1 \in DOMAIN thread'[t].todo /\ thread'[t].todo[i - 1] = Alive(p)
      BY <1>1, <2>1, <2>3, <3>1, <3>5
    <3> QED
      BY <1>1, <3>6 DEF Returning, Alive
  <2> QED
    BY <2>2, <2>3
<1>4. ASSUME Deleting(p) PROVE Deleting(p)'
  BY <1>1, <1>4 DEF Deleting, Event
<1> QED
  BY <1>3, <1>4

LEMMA AdvanceKeepsOthers ==
  ASSUME TypeOK, NEW t \in Threads, Busy(t), NEW at, thread' = [thread EXCEPT ![t].at = at],
         NEW p, Event(t).node # p
  PROVE  (Returning(p) => Returning(p)') /\ (Deleting(p) => Deleting(p)')
<1>1. /\ \A u \in Threads \ {t} : thread'[u] = thread[u]
      /\ thread'[t].todo = thread[t].todo
  BY DEF TypeOK
<1>2. thread[t].todo[1] # Alive(p)
  BY HeadOfCall DEF Alive
<1>3. ASSUME Returning(p) PROVE Returning(p)'
  <2>0. PICK u \in Threads : \E i \in DOMAIN thread[u].todo :
          thread[u].todo[i] = Alive(p) /\ (i = 1 => thread[u].at = "lock")
    BY <1>3 DEF Returning
  <2>1. PICK i \in DOMAIN thread[u].todo :
          thread[u].todo[i] = Alive(p) /\ (i = 1 => thread[u].at = "lock")
    BY <2>0
  <2> QED
    BY <1>1, <1>2, <2>1 DEF Returning, Alive
<1>4. ASSUME Deleting(p) PROVE Deleting(p)'
  BY <1>1, <1>4 DEF Deleting, Event
<1> QED
  BY <1>3, <1>4

(***************************************************************************)
(* What a step does to one peer.                                           *)
(***************************************************************************)
LEMMA JoinHeard ==
  ASSUME Shape, DeathsHeard, NEW t \in {"bootstrap"} \cup Handlers, NEW src \in Peers,
         NEW mem \in SUBSET Nodes, src \in mem, Join(t, src, mem), NEW p \in Nodes
  PROVE  Heard(p)'
<1>0. PICK added : added = Added(src, mem)
  OBVIOUS
<1>1. added \subseteq Peers /\ IsFiniteSet(added)
  BY <1>0, MemberListAssumption, FS_Subset DEF Added, Nodes
<1>2. PICK o \in Orders(added) :
        thread' = [thread EXCEPT ![t] = Call([i \in DOMAIN o |-> Alive(o[i])])]
  BY <1>0 DEF Join
<1>3. t \in Threads /\ ~Busy(t) /\ TypeOK
  BY DEF Threads, Join, Shape
<1>4. (Returning(p) => Returning(p)') /\ (Deleting(p) => Deleting(p)')
  BY <1>2, <1>3, NewCallKeeps
<1>5. ASSUME p \in added PROVE Returning(p)'
  <2>1. PICK i \in DOMAIN o : o[i] = p
    BY <1>1, <1>5, OrdersAreBijective
  <2>2. PICK s : s = [k \in DOMAIN o |-> Alive(o[k])]
    OBVIOUS
  <2>3. thread'[t] = Call(s)
    BY <1>2, <1>3, <2>2 DEF TypeOK
  <2>4. thread'[t].todo = s /\ thread'[t].at = "lock"
    BY <2>3 DEF Call
  <2>5. i \in DOMAIN s /\ s[i] = Alive(p)
    BY <2>1, <2>2
  <2> QED
    BY <1>3, <2>4, <2>5 DEF Returning, Alive
<1>6. src \in list \/ src \in added
  BY <1>0, MemberListAssumption DEF Added
<1>7. /\ list' = list \cup added /\ deadPeers' = deadPeers \ {src} /\ state' = state
      /\ added \cap (deadPeers \ {src}) = {}
  BY <1>0 DEF Join, Added
<1>8. Heard(p)
  BY DEF DeathsHeard
<1> QED
  BY <1>4, <1>5, <1>6, <1>7, <1>8 DEF Heard

LEMMA CallDeadHeard ==
  ASSUME Shape, DeathsHeard, NEW t \in Threads, NEW q \in Nodes, ~Busy(t), CallDead(t, q),
         UNCHANGED lists, NEW p \in Nodes
  PROVE  Heard(p)'
<1>1. (Returning(p) => Returning(p)') /\ (Deleting(p) => Deleting(p)')
  BY NewCallKeeps DEF CallDead, Shape
<1> QED
  BY <1>1 DEF DeathsHeard, Heard, lists

LEMMA ProcessHeard ==
  ASSUME Shape, DeathsHeard, NEW t \in Threads, Process(t), NEW p \in Nodes
  PROVE  Heard(p)'
<1>0. PICK e : e = Event(t)
  OBVIOUS
<1>1. Heard(p) /\ TypeOK /\ Busy(t) /\ thread[t].at = "lock" /\ UNCHANGED <<list, deadPeers>>
  BY DEF DeathsHeard, Shape, Process
<1>2. e \in Events /\ e.node \in Nodes /\ e.kind \in {"alive", "dead"}
  BY <1>0, <1>1, HeadOfCall DEF Events
<1>3. CASE Repeated(e)
  <2>1. thread' = Return(t) /\ state' = state /\ state[e.node] = e.kind
    BY <1>0, <1>3 DEF Process, Repeated
  <2>2. CASE e # Alive(p)
    <3>1. (Returning(p) => Returning(p)') /\ (Deleting(p) => Deleting(p)')
      BY <1>0, <1>1, <2>1, <2>2, ReturnKeeps
    <3> QED
      BY <1>1, <2>1, <3>1 DEF Heard
  <2>3. CASE e = Alive(p)
    <3>1. state'[p] = "alive"
      BY <2>1, <2>3 DEF Alive
    <3> QED
      BY <1>1, <3>1 DEF Heard
  <2> QED
    BY <2>2, <2>3
<1>4. CASE ~Repeated(e)
  <2>1. PICK at : /\ at = IF e.kind = "dead" THEN "delete" ELSE "emit"
                  /\ thread' = [thread EXCEPT ![t].at = at]
                  /\ state' = [state EXCEPT ![e.node] = e.kind]
    BY <1>0, <1>4 DEF Process
  <2>2. CASE e.node # p
    <3>1. (Returning(p) => Returning(p)') /\ (Deleting(p) => Deleting(p)')
      BY <1>0, <1>1, <2>1, <2>2, AdvanceKeepsOthers
    <3>2. state'[p] = state[p]
      BY <1>1, <2>1, <2>2 DEF TypeOK
    <3> QED
      BY <1>1, <3>1, <3>2 DEF Heard
  <2>3. CASE e.node = p /\ e.kind = "alive"
    <3>1. state'[p] = "alive"
      BY <1>1, <2>1, <2>3 DEF TypeOK
    <3> QED
      BY <1>1, <3>1 DEF Heard
  <2>4. CASE e.node = p /\ e.kind = "dead"
    <3>1. thread'[t].at = "delete" /\ thread'[t].todo = thread[t].todo
      BY <1>1, <2>1, <2>4 DEF TypeOK
    <3>2. Deleting(p)'
      BY <1>0, <2>4, <3>1 DEF Deleting, Event
    <3> QED
      BY <1>1, <3>2 DEF Heard
  <2> QED
    BY <1>2, <2>2, <2>3, <2>4
<1> QED
  BY <1>3, <1>4

LEMMA DeleteHeard ==
  ASSUME Shape, DeathsHeard, NEW t \in Threads, Delete(t), NEW p \in Nodes
  PROVE  Heard(p)'
<1>1. /\ Heard(p) /\ TypeOK /\ Busy(t) /\ state' = state
      /\ list' = list \ {Event(t).node} /\ deadPeers' = deadPeers \cup {Event(t).node}
      /\ thread' = [thread EXCEPT ![t].at = "emit"]
  BY DEF DeathsHeard, Shape, Delete
<1>2. CASE Event(t).node = p
  BY <1>1, <1>2 DEF Heard
<1>3. CASE Event(t).node # p
  <2>1. (Returning(p) => Returning(p)') /\ (Deleting(p) => Deleting(p)')
    BY <1>1, <1>3, AdvanceKeepsOthers
  <2> QED
    BY <1>1, <1>3, <2>1 DEF Heard
<1> QED
  BY <1>2, <1>3

LEMMA EmitHeard ==
  ASSUME Shape, DeathsHeard, NEW t \in Threads, Emit(t) \/ Cancel(t), NEW p \in Nodes
  PROVE  Heard(p)'
<1>1. /\ Heard(p) /\ TypeOK /\ Busy(t) /\ thread[t].at = "emit"
      /\ UNCHANGED <<list, state, deadPeers>> /\ thread' = Return(t)
  BY DEF DeathsHeard, Shape, Emit, Cancel, lists
<1>2. (Returning(p) => Returning(p)') /\ (Deleting(p) => Deleting(p)')
  BY <1>1, ReturnKeeps
<1> QED
  BY <1>1, <1>2 DEF Heard

LEMMA RestHeard ==
  ASSUME DeathsHeard, UNCHANGED <<list, state, deadPeers, thread>>
  PROVE  DeathsHeard'
BY DEF DeathsHeard, Heard, Returning, Deleting, Event, Alive

LEMMA NextHeard == Shape /\ DeathsHeard /\ [Next]_vars => DeathsHeard'
<1> SUFFICES ASSUME Shape, DeathsHeard, [Next]_vars PROVE DeathsHeard'
  OBVIOUS
<1>1. ASSUME NEW t \in {"bootstrap"} \cup Handlers, NEW src \in Peers, NEW mem \in SUBSET Nodes,
             src \in mem, Join(t, src, mem)
      PROVE  DeathsHeard'
  BY <1>1, JoinHeard DEF DeathsHeard
<1>2. ASSUME NEW q \in Nodes, Listen(q)
      PROVE  DeathsHeard'
  <2>1. "listen" \in Threads
    BY DEF Threads
  <2> QED
    BY <1>2, <2>1, CallDeadHeard DEF Listen, DeathsHeard
<1>3. CASE ProbeFailed
  <2>1. "probe" \in Threads /\ probed \in Nodes /\ ~Busy("probe")
    BY <1>3 DEF ProbeFailed, Threads, Shape, TypeOK, Nodes
  <2> QED
    BY <1>3, <2>1, CallDeadHeard DEF ProbeFailed, DeathsHeard
<1>4. ASSUME NEW t \in Threads, Step(t) \/ Cancel(t)
      PROVE  DeathsHeard'
  BY <1>4, ProcessHeard, DeleteHeard, EmitHeard DEF Step, DeathsHeard
<1>5. CASE ProbeStart \/ ProbeAcked \/ FanOut \/ (\E e \in Events : Notified(e)) \/ UNCHANGED vars
  BY <1>5, RestHeard DEF ProbeStart, ProbeAcked, FanOut, Notified, vars, lists
<1> QED
  BY <1>1, <1>2, <1>3, <1>4, <1>5 DEF Next, Threads

(***************************************************************************)
(* DeathsAreHeard.  However the critical sections of join, process and     *)
(* delete interleave, a member is recorded as alive or a call is about to  *)
(* record or delete it, and whoever is recorded as dead is among the dead: *)
(* process never drops the death of a settled member.                      *)
(***************************************************************************)
THEOREM DeathsAreHeard == Spec => []DeathsHeard
<1>1. Init => DeathsHeard
  BY DEF Init, DeathsHeard, Heard
<1>2. Inv => Shape
  BY InvParts
<1> QED
  BY <1>1, <1>2, NextHeard, Invariance, PTL DEF Spec

(***************************************************************************)
(* PoolFollowsList.  Member list, recorded state and gossip pool agree     *)
(* about every peer whose news has arrived, whatever the capacity of the   *)
(* channel and however many requests are served at a time.                 *)
(***************************************************************************)
THEOREM PoolFollowsList == Spec => []PoolFollows
<1>1. Inv => PoolFollows
  BY DEF Inv, NewsTrue, PoolFollows
<1> QED
  BY <1>1, Invariance, PTL
=============================================================================
