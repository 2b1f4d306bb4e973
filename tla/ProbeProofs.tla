---------------------------- MODULE ProbeProofs -----------------------------
(***************************************************************************)
(* Theorems about the failure detector, for any number of nodes, relays,   *)
(* periods and failures.                                                   *)
(***************************************************************************)
EXTENDS FiniteSetTheorems, SequenceTheorems, Probe, TLAPS

(***************************************************************************)
(* What sending and receiving do to the messages in flight.                *)
(***************************************************************************)
LEMMA AddMessages ==
  ASSUME NEW B, NEW S
  PROVE  BagToSet(B (+) SetToBag(S)) = BagToSet(B) \cup S
BY DEF BagToSet, SetToBag, (+)

LEMMA RemoveMessage ==
  ASSUME NEW B, NEW m
  PROVE  BagToSet(BagRemove(B, m)) \subseteq BagToSet(B)
BY DEF BagToSet, BagRemove

LEMMA ReplaceMessage ==
  ASSUME NEW B, NEW m, NEW S
  PROVE  BagToSet(BagRemove(B, m) (+) SetToBag(S)) \subseteq BagToSet(B) \cup S
BY AddMessages, RemoveMessage

(***************************************************************************)
(* The evidence as a function of the two histories: For(P, x, p, k) are    *)
(* the nodes for whose probe number k the node x pinged p.                 *)
(***************************************************************************)
For(P, x, p, k) == {n \in Nodes : <<x, n, p, k>> \in P}
Cross(P, n, p, k) == \E x \in Nodes : n \in For(P, x, p, k) /\ For(P, x, p, k) # {n}
Vouch(P, A, n, p, k) ==
  \E x \in Nodes : <<x, p, k>> \in A /\ (n \in For(P, x, p, k) \/ Cross(P, n, p, k))
Knows(P, A, n, a) == \E q \in For(P, n, a.addr, a.period) : Vouch(P, A, q, a.addr, a.period)

SoundMessage(P, A, m) ==
  /\ m.kind = "ping" => For(P, m.src, m.dst, m.period) # {}
  /\ m.kind = "pingReq" => m.src \in For(P, m.src, m.target, m.period)
  /\ m.kind = "ack" /\ m.target = NoTarget =>
       <<m.dst, m.src, m.period>> \in A /\ For(P, m.dst, m.src, m.period) # {}
  /\ m.kind = "ack" /\ m.target # NoTarget =>
       m.dst \in For(P, m.dst, m.target, m.period) /\ Vouch(P, A, m.dst, m.target, m.period)

SoundRelay(P, A, n, r) ==
  /\ r.chan # <<>> => Knows(P, A, n, Head(r.chan))
  /\ r.id.src \in For(P, r.id.src, r.id.target, r.id.period)
  /\ r.at = "waiting" => r.id.src \in For(P, n, r.id.target, r.id.period)

SoundLoop(P, A, n, at, p, k) ==
  /\ at \in {"waiting", "asked"} => n \in For(P, n, p, k)
  /\ at = "alive" => Vouch(P, A, n, p, k)

LEMMA MessagesForm ==
  /\ MessagesTrue <=> \A m \in BagToSet(net) : SoundMessage(pinged, answered, m)
  /\ MessagesTrue' <=> \A m \in BagToSet(net') : SoundMessage(pinged', answered', m)
BY DEF MessagesTrue, SoundMessage, Vouched, Crossed, Served, Vouch, Cross, For

LEMMA ChannelsForm ==
  /\ ChannelsTrue <=> \A n \in Nodes :
       /\ listen[n] # <<>> => Knows(pinged, answered, n, Head(listen[n]).ack)
       /\ acks[n] # <<>> => Knows(pinged, answered, n, Head(acks[n]))
  /\ ChannelsTrue' <=> \A n \in Nodes :
       /\ listen'[n] # <<>> => Knows(pinged', answered', n, Head(listen'[n]).ack)
       /\ acks'[n] # <<>> => Knows(pinged', answered', n, Head(acks'[n]))
BY DEF ChannelsTrue, Supported, Vouched, Crossed, Served, Knows, Vouch, Cross, For

LEMMA RelaysForm ==
  /\ RelaysTrue <=> \A n \in Nodes : \A r \in relays[n] : SoundRelay(pinged, answered, n, r)
  /\ RelaysTrue' <=> \A n \in Nodes : \A r \in relays'[n] : SoundRelay(pinged', answered', n, r)
BY DEF RelaysTrue, SoundRelay, Supported, Vouched, Crossed, Served, Knows, Vouch, Cross, For

LEMMA VerdictsForm ==
  /\ VerdictsTrue <=>
       \A n \in Nodes : SoundLoop(pinged, answered, n, phase[n], target[n], period[n])
  /\ VerdictsTrue' <=>
       \A n \in Nodes : SoundLoop(pinged', answered', n, phase'[n], target'[n], period'[n])
BY DEF VerdictsTrue, SoundLoop, Waiting, Vouched, Crossed, Served, Vouch, Cross, For

(***************************************************************************)
(* Evidence is never withdrawn.                                            *)
(***************************************************************************)
LEMMA EvidenceGrows ==
  ASSUME NEW P, NEW Q, P \subseteq Q, NEW A, NEW B, A \subseteq B
  PROVE  /\ \A x, p, k : For(P, x, p, k) \subseteq For(Q, x, p, k)
         /\ \A n, p, k : Vouch(P, A, n, p, k) => Vouch(Q, B, n, p, k)
         /\ \A n, a : Knows(P, A, n, a) => Knows(Q, B, n, a)
<1>1. \A x, p, k : For(P, x, p, k) \subseteq For(Q, x, p, k)
  BY DEF For
<1>2. ASSUME NEW n, NEW p, NEW k, Cross(P, n, p, k)
      PROVE  Cross(Q, n, p, k)
  <2>1. PICK x \in Nodes : n \in For(P, x, p, k) /\ For(P, x, p, k) # {n}
    BY <1>2 DEF Cross
  <2>2. n \in For(Q, x, p, k) /\ For(Q, x, p, k) # {n}
    BY <1>1, <2>1
  <2> QED
    BY <2>2 DEF Cross
<1>3. ASSUME NEW n, NEW p, NEW k, Vouch(P, A, n, p, k)
      PROVE  Vouch(Q, B, n, p, k)
  BY <1>1, <1>2, <1>3 DEF Vouch
<1>4. ASSUME NEW n, NEW a, Knows(P, A, n, a)
      PROVE  Knows(Q, B, n, a)
  <2>1. PICK q \in For(P, n, a.addr, a.period) : Vouch(P, A, q, a.addr, a.period)
    BY <1>4 DEF Knows
  <2>2. q \in For(Q, n, a.addr, a.period) /\ Vouch(Q, B, q, a.addr, a.period)
    BY <1>1, <1>3, <2>1
  <2> QED
    BY <2>2 DEF Knows
<1> QED
  BY <1>1, <1>3, <1>4

(***************************************************************************)
(* What a node knows of a peer vouches for every probe it pinged the peer  *)
(* for: if it pinged for two, they are crossed.                            *)
(***************************************************************************)
LEMMA KnownVouches ==
  ASSUME NEW P, NEW A, NEW x \in Nodes, NEW a, Knows(P, A, x, a),
         NEW n \in For(P, x, a.addr, a.period)
  PROVE  Vouch(P, A, n, a.addr, a.period)
<1>1. PICK q \in For(P, x, a.addr, a.period) : Vouch(P, A, q, a.addr, a.period)
  BY DEF Knows
<1>2. CASE q = n
  BY <1>1, <1>2
<1>3. CASE q # n
  <2>1. Cross(P, n, a.addr, a.period)
    BY <1>3 DEF Cross
  <2> QED
    BY <1>1, <2>1 DEF Vouch
<1> QED
  BY <1>2, <1>3

LEMMA InitInv == Init => EvidenceInv
<1> SUFFICES ASSUME Init PROVE EvidenceInv
  OBVIOUS
<1>1. BagToSet(net) = {}
  BY DEF Init, EmptyBag, BagToSet, SetToBag
<1>2. TypeOK
  BY <1>1 DEF Init, TypeOK, LoopsOK, MessagesOK, ChannelsOK, RelaysOK
<1> QED
  BY <1>1, <1>2 DEF Init, EvidenceInv, MessagesTrue, ChannelsTrue, RelaysTrue, VerdictsTrue, Waiting

(***************************************************************************)
(* The parts of the invariant that a step leaves alone.                    *)
(***************************************************************************)
Grows == pinged \subseteq pinged' /\ answered \subseteq answered'

LEMMA ChannelsKept ==
  ASSUME EvidenceInv, UNCHANGED <<acks, listen>>, Grows
  PROVE  ChannelsOK' /\ ChannelsTrue'
<1>1. ChannelsOK'
  BY DEF EvidenceInv, TypeOK, ChannelsOK
<1>2. \A n, a : Knows(pinged, answered, n, a) => Knows(pinged', answered', n, a)
  BY EvidenceGrows DEF Grows
<1> QED
  BY <1>1, <1>2, ChannelsForm DEF EvidenceInv

LEMMA RelayGrows ==
  ASSUME Grows, NEW n, NEW r, SoundRelay(pinged, answered, n, r)
  PROVE  SoundRelay(pinged', answered', n, r)
<1>1. \A x, p, k : For(pinged, x, p, k) \subseteq For(pinged', x, p, k)
  BY EvidenceGrows DEF Grows
<1>2. \A a : Knows(pinged, answered, n, a) => Knows(pinged', answered', n, a)
  BY EvidenceGrows DEF Grows
<1> QED
  BY <1>1, <1>2 DEF SoundRelay

LEMMA RelaysKept ==
  ASSUME EvidenceInv, UNCHANGED <<relays, relayAcks>>, Grows
  PROVE  RelaysOK' /\ RelaysTrue'
<1>1. RelaysOK'
  BY DEF EvidenceInv, TypeOK, RelaysOK, Running
<1> QED
  BY <1>1, RelayGrows, RelaysForm DEF EvidenceInv

LEMMA LoopGrows ==
  ASSUME Grows, NEW n, NEW at, NEW p, NEW k, SoundLoop(pinged, answered, n, at, p, k)
  PROVE  SoundLoop(pinged', answered', n, at, p, k)
BY EvidenceGrows DEF Grows, SoundLoop

LEMMA LoopsKept ==
  ASSUME EvidenceInv, UNCHANGED <<members, phase, target, period, up, panicked>>, Grows
  PROVE  LoopsOK' /\ VerdictsTrue'
<1>1. LoopsOK'
  BY DEF EvidenceInv, TypeOK, LoopsOK
<1> QED
  BY <1>1, LoopGrows, VerdictsForm DEF EvidenceInv

(***************************************************************************)
(* A step may add messages that hold what is true.                         *)
(***************************************************************************)
SoundAfter(S) ==
  \A m \in S : /\ m \in Messages
               /\ m.kind = "pingReq" => m.target \in Nodes
               /\ SoundMessage(pinged', answered', m)

LEMMA MessagesAdded ==
  ASSUME EvidenceInv, NEW S, BagToSet(net') \subseteq BagToSet(net) \cup S, SoundAfter(S), Grows
  PROVE  MessagesOK' /\ MessagesTrue'
<1>1. \A m \in BagToSet(net') : m \in BagToSet(net) \/ m \in S
  OBVIOUS
<1>2. MessagesOK'
  BY <1>1 DEF EvidenceInv, TypeOK, MessagesOK, SoundAfter
<1>3. ASSUME NEW m, SoundMessage(pinged, answered, m)
      PROVE  SoundMessage(pinged', answered', m)
  BY <1>3, EvidenceGrows DEF Grows, SoundMessage
<1>4. \A m \in BagToSet(net') : SoundMessage(pinged', answered', m)
  BY <1>1, <1>3, MessagesForm DEF EvidenceInv, SoundAfter
<1> QED
  BY <1>2, <1>4, MessagesForm

LEMMA MessagesKept ==
  ASSUME EvidenceInv, BagToSet(net') \subseteq BagToSet(net), Grows
  PROVE  MessagesOK' /\ MessagesTrue'
<1>1. SoundAfter({})
  BY DEF SoundAfter
<1> QED
  BY <1>1, MessagesAdded

(***************************************************************************)
(* A channel holds nothing or one true ack.                                *)
(***************************************************************************)
LEMMA Channel ==
  /\ <<>> \in Seq(Acks) /\ Len(<<>>) <= 1
  /\ \A a \in Acks : <<a>> \in Seq(Acks) /\ Len(<<a>>) <= 1 /\ Head(<<a>>) = a /\ <<a>> # <<>>
OBVIOUS

LEMMA AcksChanged ==
  ASSUME EvidenceInv, NEW n \in Nodes, NEW s \in Seq(Acks), Len(s) <= 1,
         s # <<>> => Knows(pinged, answered, n, Head(s)),
         acks' = [acks EXCEPT ![n] = s],
         listen' = listen \/ listen' = [listen EXCEPT ![n] = <<>>],
         UNCHANGED <<pinged, answered>>
  PROVE  ChannelsOK' /\ ChannelsTrue'
<1>1. acks' \in [Nodes -> Seq(Acks)]
  BY DEF EvidenceInv, TypeOK, ChannelsOK
<1>2. <<>> \in Seq([ack : Acks, relay : SUBSET Ids])
  OBVIOUS
<1>3. listen' \in [Nodes -> Seq([ack : Acks, relay : SUBSET Ids])]
  <2> DEFINE T == Seq([ack : Acks, relay : SUBSET Ids])
  <2>1. <<>> \in T /\ listen \in [Nodes -> T]
    BY <1>2 DEF EvidenceInv, TypeOK, ChannelsOK
  <2> HIDE DEF T
  <2>2. listen' \in [Nodes -> T]
    BY <2>1
  <2> QED
    BY <2>2 DEF T
<1>4. \A q \in Nodes : Len(acks'[q]) <= 1
  BY DEF EvidenceInv, TypeOK, ChannelsOK
<1>5. ASSUME NEW q \in Nodes
      PROVE  /\ listen'[q] # <<>> => Knows(pinged, answered, q, Head(listen'[q]).ack)
             /\ acks'[q] # <<>> => Knows(pinged, answered, q, Head(acks'[q]))
  <2>1. listen'[q] = listen[q] \/ listen'[q] = <<>>
    BY DEF EvidenceInv, TypeOK, ChannelsOK
  <2>2. acks'[q] = IF q = n THEN s ELSE acks[q]
    BY DEF EvidenceInv, TypeOK, ChannelsOK
  <2> QED
    BY <2>1, <2>2, ChannelsForm DEF EvidenceInv
<1>6. ChannelsTrue'
  BY <1>5, ChannelsForm
<1> QED
  BY <1>1, <1>3, <1>4, <1>6 DEF ChannelsOK

(***************************************************************************)
(* The Probe loop.                                                         *)
(***************************************************************************)
LEMMA StartPeriodInv ==
  ASSUME EvidenceInv, NEW n \in Nodes, NEW p \in Nodes, StartPeriod(n, p)
  PROVE  EvidenceInv'
<1> DEFINE ping == Message("ping", n, p, period[n] + 1, NoTarget)
<1>1. Grows /\ n \in For(pinged', n, p, period[n] + 1)
  BY DEF StartPeriod, Grows, For
<1>2. SoundAfter({ping})
  BY <1>1 DEF SoundAfter, SoundMessage, Message, Messages, EvidenceInv, TypeOK, LoopsOK
<1>3. BagToSet(net') = BagToSet(net) \cup {ping}
  BY AddMessages DEF StartPeriod, Send
<1>4. MessagesOK' /\ MessagesTrue'
  <2> HIDE DEF ping
  <2> QED
    BY <1>1, <1>2, <1>3, MessagesAdded
<1>5. LoopsOK'
  BY DEF StartPeriod, EvidenceInv, TypeOK, LoopsOK, machines
<1>6. ASSUME NEW q \in Nodes
      PROVE  SoundLoop(pinged', answered', q, phase'[q], target'[q], period'[q])
  <2>1. CASE q = n
    <3>1. phase'[q] = "waiting" /\ target'[q] = p /\ period'[q] = period[n] + 1
      BY <2>1 DEF StartPeriod, EvidenceInv, TypeOK, LoopsOK
    <3> QED
      BY <1>1, <2>1, <3>1 DEF SoundLoop
  <2>2. CASE q # n
    <3>1. phase'[q] = phase[q] /\ target'[q] = target[q] /\ period'[q] = period[q]
      BY <2>2 DEF StartPeriod, EvidenceInv, TypeOK, LoopsOK
    <3> QED
      BY <1>1, <3>1, LoopGrows, VerdictsForm DEF EvidenceInv
  <2> QED
    BY <2>1, <2>2
<1>7. VerdictsTrue'
  BY <1>6, VerdictsForm
<1> QED
  BY <1>1, <1>4, <1>5, <1>7, ChannelsKept, RelaysKept DEF StartPeriod, relaying, EvidenceInv, TypeOK

LEMMA SkipPeriodInv ==
  ASSUME EvidenceInv, NEW n \in Nodes, SkipPeriod(n)
  PROVE  EvidenceInv'
<1>1. Grows
  BY DEF SkipPeriod, history, Grows
<1>2. LoopsOK'
  BY DEF SkipPeriod, EvidenceInv, TypeOK, LoopsOK, machines
<1>3. VerdictsTrue'
  BY DEF SkipPeriod, EvidenceInv, TypeOK, LoopsOK, VerdictsTrue, Waiting, Vouched, Crossed, Served,
         history
<1> QED
  BY <1>1, <1>2, <1>3, MessagesKept, ChannelsKept, RelaysKept
  DEF SkipPeriod, relaying, EvidenceInv, TypeOK

LEMMA AckTimeoutInv ==
  ASSUME EvidenceInv, NEW n \in Nodes, AckTimeout(n)
  PROVE  EvidenceInv'
<1>1. PICK g \in Subgroups(n) :
        net' = Send({Message("pingReq", n, h, period[n], target[n]) : h \in g})
  BY DEF AckTimeout
<1> DEFINE S == {Message("pingReq", n, h, period[n], target[n]) : h \in g}
<1>2. g \subseteq Nodes
  BY DEF Subgroups, EvidenceInv, TypeOK, LoopsOK
<1>3. Grows /\ UNCHANGED <<pinged, answered>>
  BY DEF AckTimeout, history, Grows
<1>4. n \in For(pinged', n, target[n], period[n])
  BY <1>3, VerdictsForm DEF AckTimeout, EvidenceInv, SoundLoop
<1>5. SoundAfter(S)
  BY <1>2, <1>4 DEF SoundAfter, SoundMessage, Message, Messages, EvidenceInv, TypeOK, LoopsOK
<1>6. BagToSet(net') = BagToSet(net) \cup S
  BY <1>1, AddMessages DEF Send
<1>7. MessagesOK' /\ MessagesTrue'
  <2> HIDE DEF S
  <2> QED
    BY <1>3, <1>5, <1>6, MessagesAdded
<1>8. LoopsOK'
  BY DEF AckTimeout, EvidenceInv, TypeOK, LoopsOK, machines
<1>9. VerdictsTrue'
  BY <1>3 DEF AckTimeout, EvidenceInv, TypeOK, LoopsOK, VerdictsTrue, Waiting, Vouched, Crossed,
              Served
<1> QED
  BY <1>3, <1>7, <1>8, <1>9, ChannelsKept, RelaysKept DEF AckTimeout, relaying, EvidenceInv, TypeOK

LEMMA TakeAckInv ==
  ASSUME EvidenceInv, NEW n \in Nodes, TakeAck(n)
  PROVE  EvidenceInv'
<1>1. PICK a : a = Head(acks[n])
  OBVIOUS
<1>2. UNCHANGED <<pinged, answered, target, period>> /\ Grows
  BY DEF TakeAck, history, Grows
<1>3. Knows(pinged, answered, n, a) /\ n \in For(pinged, n, target[n], period[n])
  BY <1>1, ChannelsForm, VerdictsForm DEF TakeAck, Waiting, EvidenceInv, SoundLoop
<1>4. Matches(a, target[n], period[n]) => Vouch(pinged, answered, n, target[n], period[n])
  BY <1>3, KnownVouches DEF Matches
<1>5. phase'[n] = IF Matches(a, target[n], period[n]) THEN "alive" ELSE phase[n]
  BY <1>1 DEF TakeAck, EvidenceInv, TypeOK, LoopsOK
<1>6. \A q \in Nodes \ {n} : phase'[q] = phase[q]
  BY DEF TakeAck, EvidenceInv, TypeOK, LoopsOK
<1>7. LoopsOK'
  BY DEF TakeAck, EvidenceInv, TypeOK, LoopsOK, machines
<1>8. ASSUME NEW q \in Nodes
      PROVE  SoundLoop(pinged, answered, q, phase'[q], target[q], period[q])
  BY <1>4, <1>5, <1>6, VerdictsForm DEF EvidenceInv, SoundLoop
<1>9. VerdictsTrue'
  BY <1>2, <1>8, VerdictsForm
<1>10. ChannelsOK' /\ ChannelsTrue'
  BY <1>2, AcksChanged, Channel DEF TakeAck
<1> QED
  BY <1>2, <1>7, <1>9, <1>10, MessagesKept, RelaysKept DEF TakeAck, relaying, EvidenceInv, TypeOK

LEMMA PeriodEndsInv ==
  ASSUME EvidenceInv, NEW n \in Nodes, PeriodEnds(n)
  PROVE  EvidenceInv'
<1>1. members' = members \/ members' = [members EXCEPT ![n] = @ \ {target[n]}]
  BY DEF PeriodEnds
<1>2. members' \in [Nodes -> SUBSET Nodes] /\ \A q \in Nodes : q \notin members'[q]
  BY <1>1 DEF EvidenceInv, TypeOK, LoopsOK
<1>3. LoopsOK'
  BY <1>2 DEF PeriodEnds, EvidenceInv, TypeOK, LoopsOK, machines
<1>4. Grows /\ UNCHANGED <<pinged, answered>>
  BY DEF PeriodEnds, Grows
<1>5. ASSUME NEW q \in Nodes
      PROVE  SoundLoop(pinged, answered, q, phase'[q], target'[q], period'[q])
  <2>1. CASE q = n
    <3>1. phase'[q] = "idle"
      BY <2>1 DEF PeriodEnds, EvidenceInv, TypeOK, LoopsOK
    <3> QED
      BY <3>1 DEF SoundLoop
  <2>2. CASE q # n
    <3>1. phase'[q] = phase[q] /\ target'[q] = target[q] /\ period'[q] = period[q]
      BY <2>2 DEF PeriodEnds, EvidenceInv, TypeOK, LoopsOK
    <3> QED
      BY <3>1, VerdictsForm DEF EvidenceInv
  <2> QED
    BY <2>1, <2>2
<1>6. VerdictsTrue'
  BY <1>4, <1>5, VerdictsForm
<1> QED
  BY <1>3, <1>4, <1>6, MessagesKept, ChannelsKept, RelaysKept
  DEF PeriodEnds, relaying, EvidenceInv, TypeOK

(***************************************************************************)
(* The relays of one node change.                                          *)
(***************************************************************************)
LEMMA RelaysChanged ==
  ASSUME EvidenceInv, NEW n \in Nodes, NEW R \in SUBSET Relays, NEW T \in SUBSET Ids, Grows,
         \A r \in R : Len(r.chan) <= 1 /\ SoundRelay(pinged', answered', n, r),
         \A i \in T : \E r \in R : r.id = i,
         \A i, j \in T : Key(i) = Key(j) => i = j,
         relays' = [relays EXCEPT ![n] = R],
         relayAcks' = [relayAcks EXCEPT ![n] = T]
  PROVE  RelaysOK' /\ RelaysTrue'
<1>1. relays' \in [Nodes -> SUBSET Relays] /\ relayAcks' \in [Nodes -> SUBSET Ids]
  BY DEF EvidenceInv, TypeOK, RelaysOK
<1>2. relays'[n] = R /\ relayAcks'[n] = T
  BY DEF EvidenceInv, TypeOK, RelaysOK
<1>3. \A q \in Nodes \ {n} : relays'[q] = relays[q] /\ relayAcks'[q] = relayAcks[q]
  BY DEF EvidenceInv, TypeOK, RelaysOK
<1>4. ASSUME NEW q \in Nodes, NEW r \in relays'[q]
      PROVE  SoundRelay(pinged', answered', q, r)
  BY <1>2, <1>3, RelaysForm, RelayGrows DEF EvidenceInv
<1>5. RelaysTrue'
  BY <1>4, RelaysForm
<1>6. ASSUME NEW q \in Nodes
      PROVE  /\ \A r \in relays'[q] : Len(r.chan) <= 1
             /\ \A i \in relayAcks'[q] : {r \in relays'[q] : r.id = i} # {}
             /\ \A i, j \in relayAcks'[q] : Key(i) = Key(j) => i = j
  <2>1. CASE q = n
    BY <1>2, <2>1
  <2>2. CASE q # n
    BY <1>3, <2>2 DEF EvidenceInv, TypeOK, RelaysOK, Running
  <2> QED
    BY <2>1, <2>2
<1> QED
  BY <1>1, <1>5, <1>6 DEF RelaysOK, Running

(***************************************************************************)
(* The Listen loop.                                                        *)
(***************************************************************************)
LEMMA ReceivePingInv ==
  ASSUME EvidenceInv, NEW n \in Nodes, NEW m \in BagToSet(net), m.dst = n, ReceivePing(n, m)
  PROVE  EvidenceInv'
<1> DEFINE ack == Message("ack", n, m.src, m.period, NoTarget)
<1>1. m \in Messages /\ m.kind = "ping"
  BY DEF ReceivePing, EvidenceInv, TypeOK, MessagesOK
<1>2. Grows /\ UNCHANGED pinged /\ <<m.src, n, m.period>> \in answered'
  BY DEF ReceivePing, Grows
<1>3. For(pinged', m.src, n, m.period) # {}
  BY <1>1, <1>2, MessagesForm DEF EvidenceInv, SoundMessage
<1>4. SoundAfter({ack})
  BY <1>1, <1>2, <1>3 DEF SoundAfter, SoundMessage, Message, Messages
<1>5. BagToSet(net') \subseteq BagToSet(net) \cup {ack}
  BY ReplaceMessage DEF ReceivePing, Replace
<1>6. MessagesOK' /\ MessagesTrue'
  <2> HIDE DEF ack
  <2> QED
    BY <1>2, <1>4, <1>5, MessagesAdded
<1> QED
  BY <1>2, <1>6, LoopsKept, ChannelsKept, RelaysKept
  DEF ReceivePing, loops, relaying, machines, EvidenceInv, TypeOK

LEMMA ReceiveAckInv ==
  ASSUME EvidenceInv, NEW n \in Nodes, NEW m \in BagToSet(net), m.dst = n, ReceiveAck(n, m)
  PROVE  EvidenceInv'
<1> DEFINE a == AckOf(AckAddr(m), m.period)
           rs == Takers(n, AckAddr(m), m.period)
           d == [ack |-> a, relay |-> rs]
           T == [ack : Acks, relay : SUBSET Ids]
<1>1. m \in Messages /\ m.kind = "ack"
  BY DEF ReceiveAck, EvidenceInv, TypeOK, MessagesOK
<1>2. a \in Acks
  BY <1>1 DEF Messages, Acks, AckOf, AckAddr
<1>3. Knows(pinged, answered, n, a)
  <2>1. SoundMessage(pinged, answered, m)
    BY MessagesForm DEF EvidenceInv
  <2>2. CASE m.target = NoTarget
    <3>1. <<n, m.src, m.period>> \in answered /\ For(pinged, n, m.src, m.period) # {}
      BY <1>1, <2>1, <2>2 DEF SoundMessage
    <3>2. PICK q \in For(pinged, n, m.src, m.period) : TRUE
      BY <3>1
    <3>3. Vouch(pinged, answered, q, m.src, m.period)
      BY <3>1 DEF Vouch
    <3>4. a.addr = m.src /\ a.period = m.period
      BY <2>2 DEF AckOf, AckAddr
    <3> QED
      BY <3>2, <3>3, <3>4 DEF Knows
  <2>3. CASE m.target # NoTarget
    <3>1. n \in For(pinged, n, m.target, m.period) /\ Vouch(pinged, answered, n, m.target, m.period)
      BY <1>1, <2>1, <2>3 DEF SoundMessage
    <3>2. a.addr = m.target /\ a.period = m.period
      BY <2>3 DEF AckOf, AckAddr
    <3> QED
      BY <3>1, <3>2 DEF Knows
  <2> QED
    BY <2>2, <2>3
<1>4. rs \in SUBSET Ids
  BY DEF Takers, EvidenceInv, TypeOK, RelaysOK
<1>5. d \in T /\ d.ack = a
  BY <1>2, <1>4
<1>6. listen' = [listen EXCEPT ![n] = <<d>>] /\ UNCHANGED <<acks, pinged, answered>> /\ Grows
  BY DEF ReceiveAck, history, Grows
<1>7. listen \in [Nodes -> Seq(T)]
  BY DEF EvidenceInv, TypeOK, ChannelsOK
<1>8. ChannelsOK' /\ ChannelsTrue'
  <2> HIDE DEF a, d, T
  <2>1. listen' \in [Nodes -> Seq(T)]
    BY <1>5, <1>6, <1>7
  <2>2. listen'[n] = <<d>> /\ \A q \in Nodes \ {n} : listen'[q] = listen[q]
    BY <1>6, <1>7
  <2>3. Head(listen'[n]).ack = a
    BY <1>5, <2>2
  <2>4. \A q \in Nodes : listen'[q] # <<>> => Knows(pinged, answered, q, Head(listen'[q]).ack)
    BY <1>3, <2>2, <2>3, ChannelsForm DEF EvidenceInv
  <2>5. ChannelsTrue'
    BY <1>6, <2>4, ChannelsForm DEF EvidenceInv
  <2> QED
    BY <1>6, <2>1, <2>5 DEF T, EvidenceInv, TypeOK, ChannelsOK
<1>9. BagToSet(net') \subseteq BagToSet(net)
  BY RemoveMessage DEF ReceiveAck
<1> QED
  BY <1>6, <1>8, <1>9, LoopsKept, MessagesKept, RelaysKept
  DEF ReceiveAck, loops, relaying, machines, EvidenceInv, TypeOK

LEMMA ReceivePingReqInv ==
  ASSUME EvidenceInv, NEW n \in Nodes, NEW m \in BagToSet(net), ReceivePingReq(n, m)
  PROVE  EvidenceInv'
<1> DEFINE id == [src |-> m.src, target |-> m.target, period |-> m.period]
           relay(at) == [id |-> id, at |-> at, chan |-> <<>>]
           ping == Message("ping", n, m.target, m.period, NoTarget)
           T == {i \in relayAcks[n] : Key(i) # Key(id)} \cup {id}
<1>1. m \in Messages /\ m.target \in Nodes /\ m.kind = "pingReq"
  BY DEF ReceivePingReq, EvidenceInv, TypeOK, MessagesOK
<1>2. id \in Ids
  BY <1>1 DEF Messages, Ids
<1>3. Grows
  BY DEF ReceivePingReq, Grows
<1>4. m.src \in For(pinged', m.src, m.target, m.period)
  BY <1>1, <1>3, MessagesForm, EvidenceGrows DEF EvidenceInv, SoundMessage, Grows
<1>5. PICK at \in {"waiting", "done"} :
        /\ relays' = [relays EXCEPT ![n] = @ \cup {relay(at)}]
        /\ at = "waiting" => /\ <<n, m.src, m.target, m.period>> \in pinged'
                             /\ net' = Replace(m, {ping})
        /\ at = "done" => net' = BagRemove(net, m)
  BY DEF ReceivePingReq
<1>6. at = "waiting" => m.src \in For(pinged', n, m.target, m.period)
  BY <1>1, <1>5 DEF For, Messages
<1>7. relay(at) \in Relays /\ relay(at).id = id /\ relay(at).chan = <<>> /\ relay(at).at = at
  BY <1>2, Channel DEF Relays
<1>8. SoundRelay(pinged', answered', n, relay(at))
  BY <1>4, <1>6 DEF SoundRelay
<1>9. relayAcks' = [relayAcks EXCEPT ![n] = T]
  BY DEF ReceivePingReq
<1>10. T \in SUBSET Ids
  BY <1>2 DEF EvidenceInv, TypeOK, RelaysOK
<1>11. \A i, j \in T : Key(i) = Key(j) => i = j
  <2> HIDE DEF id
  <2> QED
    BY DEF EvidenceInv, TypeOK, RelaysOK
<1>12. RelaysOK' /\ RelaysTrue'
  <2> DEFINE R == relays[n] \cup {relay(at)}
  <2>1. R \in SUBSET Relays
    BY <1>7 DEF EvidenceInv, TypeOK, RelaysOK
  <2>2. \A r \in R : Len(r.chan) <= 1
    BY <1>7, Channel DEF EvidenceInv, TypeOK, RelaysOK
  <2>3. \A i \in T : \E r \in R : r.id = i
    BY <1>7 DEF EvidenceInv, TypeOK, RelaysOK, Running
  <2>4. relays' = [relays EXCEPT ![n] = R]
    BY <1>5
  <2> HIDE DEF relay
  <2>5. \A r \in R : SoundRelay(pinged', answered', n, r)
    BY <1>3, <1>8, RelaysForm, RelayGrows DEF EvidenceInv
  <2> HIDE DEF R, T
  <2> QED
    BY <1>3, <1>9, <1>10, <1>11, <2>1, <2>2, <2>3, <2>4, <2>5, RelaysChanged
<1>13. MessagesOK' /\ MessagesTrue'
  <2>1. CASE at = "waiting"
    <3>1. SoundAfter({ping})
      BY <1>1, <1>6, <2>1 DEF SoundAfter, SoundMessage, Message, Messages
    <3>2. BagToSet(net') \subseteq BagToSet(net) \cup {ping}
      BY <1>5, <2>1, ReplaceMessage DEF Replace
    <3> HIDE DEF ping
    <3> QED
      BY <1>3, <3>1, <3>2, MessagesAdded
  <2>2. CASE at = "done"
    BY <1>3, <1>5, <2>2, RemoveMessage, MessagesKept
  <2> QED
    BY <2>1, <2>2
<1> QED
  BY <1>3, <1>12, <1>13, LoopsKept, ChannelsKept
  DEF ReceivePingReq, loops, machines, EvidenceInv, TypeOK

LEMMA DeliverInv ==
  ASSUME EvidenceInv, NEW n \in Nodes, Deliver(n)
  PROVE  EvidenceInv'
<1> DEFINE a == Head(listen[n]).ack
           to == Head(listen[n]).relay
           fill(r) == IF r.id \in to /\ r.chan = <<>> THEN [r EXCEPT !.chan = <<a>>] ELSE r
           R == {fill(r) : r \in relays[n]}
<1>1. Head(listen[n]) \in [ack : Acks, relay : SUBSET Ids]
  BY HeadTailProperties DEF Deliver, EvidenceInv, TypeOK, ChannelsOK
<1>2. a \in Acks /\ Knows(pinged, answered, n, a)
  BY <1>1, ChannelsForm DEF Deliver, EvidenceInv
<1>3. /\ listen' = [listen EXCEPT ![n] = <<>>]
      /\ UNCHANGED <<members, phase, target, period, relayAcks, net, pinged, answered>>
      /\ Grows
  BY DEF Deliver, loops, history, Grows
<1>4. ChannelsOK' /\ ChannelsTrue'
  <2>1. PICK s \in {<<>>, <<a>>, acks[n]} : acks' = [acks EXCEPT ![n] = s]
    <3>1. acks = [acks EXCEPT ![n] = acks[n]]
      BY DEF EvidenceInv, TypeOK, ChannelsOK
    <3> QED
      BY <3>1 DEF Deliver
  <2>2. s \in Seq(Acks) /\ Len(s) <= 1 /\ (s # <<>> => Knows(pinged, answered, n, Head(s)))
    <3> HIDE DEF a
    <3> QED
      BY <1>2, Channel, ChannelsForm DEF EvidenceInv, TypeOK, ChannelsOK
  <2> QED
    BY <1>3, <2>1, <2>2, AcksChanged
<1>5. ASSUME NEW r \in relays[n]
      PROVE  /\ fill(r) \in Relays /\ fill(r).id = r.id /\ Len(fill(r).chan) <= 1
             /\ SoundRelay(pinged, answered, n, fill(r))
  <2>1. r \in Relays /\ Len(r.chan) <= 1 /\ SoundRelay(pinged, answered, n, r)
    BY RelaysForm DEF EvidenceInv, TypeOK, RelaysOK
  <2>2. CASE fill(r) = r
    BY <2>1, <2>2
  <2>3. CASE fill(r) = [r EXCEPT !.chan = <<a>>]
    <3> HIDE DEF a
    <3>1. <<a>> \in Seq(Acks) /\ Len(<<a>>) <= 1 /\ Head(<<a>>) = a
      BY <1>2, Channel
    <3>2. /\ fill(r) \in Relays /\ fill(r).id = r.id /\ fill(r).at = r.at
          /\ fill(r).chan = <<a>>
      BY <2>1, <2>3, <3>1 DEF Relays
    <3> HIDE DEF fill
    <3> QED
      BY <1>2, <2>1, <3>1, <3>2 DEF SoundRelay
  <2> QED
    BY <2>2, <2>3
<1>6. RelaysOK' /\ RelaysTrue'
  <2>1. CASE relays' = relays
    BY <1>3, <2>1, RelaysKept
  <2>2. CASE relays' = [relays EXCEPT ![n] = R]
    <3>1. R \in SUBSET Relays
      BY <1>5
    <3>2. \A r \in R : Len(r.chan) <= 1 /\ SoundRelay(pinged', answered', n, r)
      BY <1>3, <1>5
    <3>3. ASSUME NEW i \in relayAcks[n]
          PROVE  \E r \in R : r.id = i
      <4>1. PICK r \in relays[n] : r.id = i
        BY DEF EvidenceInv, TypeOK, RelaysOK, Running
      <4>2. fill(r).id = i
        BY <1>5, <4>1
      <4> HIDE DEF fill
      <4> QED
        BY <4>2
    <3>4. relayAcks' = [relayAcks EXCEPT ![n] = relayAcks[n]]
      BY <1>3 DEF EvidenceInv, TypeOK, RelaysOK
    <3>5. relayAcks[n] \in SUBSET Ids /\ \A i, j \in relayAcks[n] : Key(i) = Key(j) => i = j
      BY DEF EvidenceInv, TypeOK, RelaysOK
    <3>6. relays' = [relays EXCEPT ![n] = R]
      BY <2>2
    <3> HIDE DEF R
    <3> QED
      BY <1>3, <3>6, <3>1, <3>2, <3>3, <3>4, <3>5, RelaysChanged
  <2> QED
    BY <2>1, <2>2 DEF Deliver
<1>7. LoopsOK' /\ VerdictsTrue'
  <2>1. UNCHANGED machines \/ (up' = up \ {n} /\ panicked' = panicked \cup {n})
    BY DEF Deliver
  <2>2. LoopsOK'
    BY <1>3, <2>1 DEF machines, EvidenceInv, TypeOK, LoopsOK
  <2> QED
    BY <1>3, <2>2, VerdictsForm DEF EvidenceInv
<1> QED
  BY <1>3, <1>4, <1>6, <1>7, MessagesKept DEF EvidenceInv, TypeOK

(***************************************************************************)
(* The relay goroutines.                                                   *)
(***************************************************************************)
LEMMA RelayReplaced ==
  ASSUME EvidenceInv, NEW n \in Nodes, NEW r \in relays[n], NEW s \in Relays, s.id = r.id,
         Len(s.chan) <= 1, SoundRelay(pinged, answered, n, s),
         relays' = [relays EXCEPT ![n] = (@ \ {r}) \cup {s}],
         UNCHANGED <<relayAcks, pinged, answered>>
  PROVE  RelaysOK' /\ RelaysTrue'
<1>1. PICK R, T : R = (relays[n] \ {r}) \cup {s} /\ T = relayAcks[n]
  OBVIOUS
<1>2. R \in SUBSET Relays /\ T \in SUBSET Ids
  BY <1>1 DEF EvidenceInv, TypeOK, RelaysOK
<1>3. Grows /\ pinged' = pinged /\ answered' = answered
  BY DEF Grows
<1>4. \A q \in R : Len(q.chan) <= 1 /\ SoundRelay(pinged', answered', n, q)
  BY <1>1, <1>3, RelaysForm DEF EvidenceInv, TypeOK, RelaysOK
<1>5. \A i \in T : \E q \in R : q.id = i
  BY <1>1 DEF EvidenceInv, TypeOK, RelaysOK, Running
<1>6. \A i, j \in T : Key(i) = Key(j) => i = j
  BY <1>1 DEF EvidenceInv, TypeOK, RelaysOK
<1>7. relays' = [relays EXCEPT ![n] = R] /\ relayAcks' = [relayAcks EXCEPT ![n] = T]
  BY <1>1 DEF EvidenceInv, TypeOK, RelaysOK
<1> QED
  BY <1>2, <1>3, <1>4, <1>5, <1>6, <1>7, RelaysChanged, ZenonT(60)

LEMMA RelayAckInv ==
  ASSUME EvidenceInv, NEW n \in Nodes, NEW r \in relays[n], RelayAck(n, r)
  PROVE  EvidenceInv'
<1> DEFINE found == Matches(Head(r.chan), r.id.target, r.id.period)
           rest == [r EXCEPT !.chan = <<>>, !.at = IF found THEN "done" ELSE @]
           reply == Reply(n, r.id)
           S == IF found THEN {reply} ELSE {}
<1>1. /\ r \in Relays /\ r.id \in Ids /\ r.at = "waiting" /\ r.chan # <<>>
      /\ SoundRelay(pinged, answered, n, r)
  BY RelaysForm DEF RelayAck, EvidenceInv, TypeOK, RelaysOK, Relays
<1>2. /\ rest \in Relays /\ rest.id = r.id /\ rest.chan = <<>>
      /\ rest.at = "waiting" => r.at = "waiting"
  BY <1>1, Channel DEF Relays
<1>3. /\ relays' = [relays EXCEPT ![n] = (@ \ {r}) \cup {rest}]
      /\ UNCHANGED <<relayAcks, pinged, answered>> /\ Grows
  BY DEF RelayAck, history, Grows
<1>4. RelaysOK' /\ RelaysTrue'
  <2> HIDE DEF rest
  <2>1. SoundRelay(pinged, answered, n, rest)
    BY <1>1, <1>2 DEF SoundRelay
  <2> QED
    BY <1>2, <1>3, <2>1, Channel, RelayReplaced
<1>5. ASSUME found
      PROVE  SoundAfter({reply})
  <2>1. /\ r.id.src \in For(pinged', r.id.src, r.id.target, r.id.period)
        /\ Vouch(pinged', answered', r.id.src, r.id.target, r.id.period)
    <3>1. PICK a : a = Head(r.chan)
      OBVIOUS
    <3>2. a.addr = r.id.target /\ a.period = r.id.period
      BY <1>5, <3>1 DEF Matches
    <3>3. Knows(pinged, answered, n, a) /\ r.id.src \in For(pinged, n, a.addr, a.period)
      BY <1>1, <3>1, <3>2 DEF SoundRelay
    <3>4. Vouch(pinged, answered, r.id.src, a.addr, a.period)
      BY <3>3, KnownVouches
    <3> QED
      BY <1>1, <1>3, <3>2, <3>4 DEF SoundRelay
  <2>2. /\ reply \in Messages /\ reply.kind = "ack" /\ reply.target = r.id.target
        /\ reply.period = r.id.period /\ reply.dst = r.id.src
    BY <1>1 DEF Reply, Message, Messages, Ids
  <2>3. r.id.target # NoTarget
    BY <1>1, ProbeAssumption DEF Ids, NoTarget
  <2> HIDE DEF reply
  <2> QED
    BY <2>1, <2>2, <2>3 DEF SoundAfter, SoundMessage
<1>6. SoundAfter(S)
  BY <1>5 DEF SoundAfter
<1>7. BagToSet(net') \subseteq BagToSet(net) \cup S
  BY AddMessages DEF RelayAck, Send
<1>8. MessagesOK' /\ MessagesTrue'
  <2> HIDE DEF S
  <2> QED
    BY <1>3, <1>6, <1>7, MessagesAdded
<1> QED
  BY <1>3, <1>4, <1>8, LoopsKept, ChannelsKept
  DEF RelayAck, loops, machines, EvidenceInv, TypeOK

LEMMA RelayTimeoutInv ==
  ASSUME EvidenceInv, NEW n \in Nodes, NEW r \in relays[n], RelayTimeout(n, r)
  PROVE  EvidenceInv'
<1> DEFINE rest == [r EXCEPT !.at = "done"]
<1>1. r \in Relays /\ Len(r.chan) <= 1 /\ SoundRelay(pinged, answered, n, r)
  BY RelaysForm DEF EvidenceInv, TypeOK, RelaysOK
<1>2. rest \in Relays /\ rest.id = r.id /\ rest.chan = r.chan /\ rest.at = "done"
  BY <1>1 DEF Relays
<1>3. RelaysOK' /\ RelaysTrue'
  <2>1. /\ relays' = [relays EXCEPT ![n] = (@ \ {r}) \cup {rest}]
        /\ UNCHANGED <<relayAcks, pinged, answered>>
    BY DEF RelayTimeout, history
  <2> HIDE DEF rest
  <2>2. SoundRelay(pinged, answered, n, rest)
    BY <1>1, <1>2 DEF SoundRelay
  <2> QED
    BY <1>1, <1>2, <2>1, <2>2, RelayReplaced
<1>4. Grows
  BY DEF RelayTimeout, history, Grows
<1> QED
  BY <1>3, <1>4, LoopsKept, ChannelsKept, MessagesKept
  DEF RelayTimeout, loops, machines, EvidenceInv, TypeOK

LEMMA RelayDoneInv ==
  ASSUME EvidenceInv, NEW n \in Nodes, NEW r \in relays[n], RelayDone(n, r)
  PROVE  EvidenceInv'
<1> DEFINE R == relays[n] \ {r}
           T == {i \in relayAcks[n] : Key(i) # Key(r.id)}
<1>1. R \in SUBSET Relays /\ T \in SUBSET Ids
  BY DEF EvidenceInv, TypeOK, RelaysOK
<1>2. \A q \in R : Len(q.chan) <= 1 /\ SoundRelay(pinged, answered, n, q)
  BY RelaysForm DEF EvidenceInv, TypeOK, RelaysOK
<1>3. \A i \in T : \E q \in R : q.id = i
  BY DEF EvidenceInv, TypeOK, RelaysOK, Running
<1>4. \A i, j \in T : Key(i) = Key(j) => i = j
  BY DEF EvidenceInv, TypeOK, RelaysOK
<1>5. /\ relays' = [relays EXCEPT ![n] = R] /\ relayAcks' = [relayAcks EXCEPT ![n] = T]
      /\ UNCHANGED <<pinged, answered>> /\ Grows
  BY DEF RelayDone, history, Grows
<1>6. RelaysOK' /\ RelaysTrue'
  <2> HIDE DEF R, T
  <2> QED
    BY <1>1, <1>2, <1>3, <1>4, <1>5, RelaysChanged
<1> QED
  BY <1>5, <1>6, LoopsKept, ChannelsKept, MessagesKept
  DEF RelayDone, loops, machines, EvidenceInv, TypeOK

(***************************************************************************)
(* The network and the machines.                                           *)
(***************************************************************************)
LEMMA LoseInv ==
  ASSUME EvidenceInv, NEW m \in BagToSet(net), Lose(m)
  PROVE  EvidenceInv'
<1>1. BagToSet(net') \subseteq BagToSet(net)
  BY RemoveMessage DEF Lose
<1> QED
  BY <1>1, LoopsKept, ChannelsKept, RelaysKept, MessagesKept
  DEF Lose, loops, relaying, machines, history, Grows, EvidenceInv, TypeOK

LEMMA CrashInv ==
  ASSUME EvidenceInv, NEW n, Crash(n)
  PROVE  EvidenceInv'
<1>1. LoopsOK'
  BY DEF Crash, loops, EvidenceInv, TypeOK, LoopsOK
<1>2. VerdictsTrue'
  BY VerdictsForm DEF Crash, loops, history, EvidenceInv
<1> QED
  BY <1>1, <1>2, ChannelsKept, RelaysKept, MessagesKept
  DEF Crash, relaying, history, Grows, EvidenceInv, TypeOK

LEMMA StutterInv ==
  ASSUME EvidenceInv, UNCHANGED vars
  PROVE  EvidenceInv'
BY LoopsKept, ChannelsKept, RelaysKept, MessagesKept
DEF vars, loops, relaying, machines, history, Grows, EvidenceInv, TypeOK

LEMMA NextInv == EvidenceInv /\ [Next]_vars => EvidenceInv'
<1> SUFFICES ASSUME EvidenceInv, [Next]_vars PROVE EvidenceInv'
  OBVIOUS
<1>1. CASE \E n, p \in Nodes : StartPeriod(n, p)
  BY <1>1, StartPeriodInv
<1>2. ASSUME NEW n \in Nodes, \/ SkipPeriod(n) \/ AckTimeout(n) \/ TakeAck(n)
                              \/ PeriodEnds(n) \/ Deliver(n)
      PROVE  EvidenceInv'
  BY <1>2, SkipPeriodInv, AckTimeoutInv, TakeAckInv, PeriodEndsInv, DeliverInv
<1>3. ASSUME NEW n \in Nodes, Receive(n)
      PROVE  EvidenceInv'
  BY <1>3, ReceivePingInv, ReceiveAckInv, ReceivePingReqInv DEF Receive
<1>4. ASSUME NEW n \in Nodes, Relay(n)
      PROVE  EvidenceInv'
  BY <1>4, RelayAckInv, RelayTimeoutInv, RelayDoneInv DEF Relay
<1>5. CASE \E m \in BagToSet(net) : Lose(m)
  BY <1>5, LoseInv
<1>6. CASE \E n \in Crashing : Crash(n)
  BY <1>6, CrashInv
<1>7. CASE UNCHANGED vars
  BY <1>7, StutterInv
<1> QED
  BY <1>1, <1>2, <1>3, <1>4, <1>5, <1>6, <1>7 DEF Next

(***************************************************************************)
(* AcksTrue.  Whatever says that a peer answered, in every datagram,       *)
(* channel and relay, is true of a probe for which the node that has it    *)
(* pinged that peer, however messages are lost and reordered, timers fire  *)
(* and nodes crash.                                                        *)
(***************************************************************************)
THEOREM AcksTrue == Spec => []EvidenceInv
BY InitInv, NextInv, PTL DEF Spec

(***************************************************************************)
(* TypeCorrect.  The channels of Listen keep their capacity, and its table *)
(* of relays only has relays that run, one for each key.                   *)
(***************************************************************************)
THEOREM TypeCorrect == Spec => []TypeOK
<1>1. EvidenceInv => TypeOK
  BY DEF EvidenceInv
<1> QED
  BY <1>1, AcksTrue, PTL

(***************************************************************************)
(* VerdictsEvidenced.  Probe never takes a late ack, one of another peer   *)
(* or one that another node's probe asked for as proof that its target is  *)
(* alive, unless its probe is crossed with another that has the same       *)
(* number: then the target answered some ping with this number.            *)
(***************************************************************************)
THEOREM VerdictsEvidenced == Spec => []VerdictEvidenced
<1>1. ASSUME EvidenceInv, NEW n \in up, phase[n] = "alive"
      PROVE  \E x \in Nodes :
               /\ <<x, target[n], period[n]>> \in answered
               /\ Served(x, target[n], period[n]) = {n} \/ Crossed(n, target[n], period[n])
  <2>1. PICK p, k : p = target[n] /\ k = period[n]
    OBVIOUS
  <2>2. Vouched(n, p, k)
    BY <1>1, <2>1 DEF EvidenceInv, TypeOK, LoopsOK, VerdictsTrue
  <2>3. PICK x \in Nodes : <<x, p, k>> \in answered /\ (n \in Served(x, p, k) \/ Crossed(n, p, k))
    BY <2>2 DEF Vouched
  <2>4. Served(x, p, k) = {n} \/ Crossed(n, p, k)
    BY <2>3 DEF Crossed
  <2> QED
    BY <2>1, <2>3, <2>4
<1>2. EvidenceInv => VerdictEvidenced
  BY <1>1 DEF VerdictEvidenced
<1> QED
  BY <1>2, AcksTrue, PTL

-----------------------------------------------------------------------------
(***************************************************************************)
(* OneSlipTolerated.  First what a step does to the channels and to the    *)
(* table of relays.                                                        *)
(***************************************************************************)
LEMMA TargetsListedStep ==
  ASSUME EvidenceInv, TargetsListed, [Next]_vars
  PROVE  TargetsListed'
<1> SUFFICES ASSUME NEW q \in Nodes, Waiting(q)'
             PROVE  target'[q] \in members'[q]
  BY DEF TargetsListed, Waiting
<1> USE DEF EvidenceInv, TypeOK, LoopsOK, TargetsListed, Waiting
<1>1. CASE UNCHANGED <<members, phase, target>>
  BY <1>1
<1>2. ASSUME NEW n \in Nodes, NEW p \in Nodes, StartPeriod(n, p)
      PROVE  target'[q] \in members'[q]
  BY <1>2 DEF StartPeriod
<1>3. ASSUME NEW n \in Nodes, AckTimeout(n)
      PROVE  target'[q] \in members'[q]
  BY <1>3 DEF AckTimeout
<1>4. ASSUME NEW n \in Nodes, TakeAck(n)
      PROVE  target'[q] \in members'[q]
  BY <1>4 DEF TakeAck
<1>5. ASSUME NEW n \in Nodes, PeriodEnds(n)
      PROVE  target'[q] \in members'[q]
  <2>1. phase'[n] = "idle" /\ q # n
    BY <1>5 DEF PeriodEnds
  <2>2. phase'[q] = phase[q] /\ target'[q] = target[q]
    BY <1>5, <2>1 DEF PeriodEnds
  <2>3. members'[q] = members[q]
    BY <1>5, <2>1 DEF PeriodEnds
  <2> QED
    BY <2>2, <2>3
<1> QED
  BY <1>1, <1>2, <1>3, <1>4, <1>5
  DEF Next, SkipPeriod, Receive, ReceivePing, ReceiveAck, ReceivePingReq, Deliver, Relay, RelayAck,
      RelayTimeout, RelayDone, Lose, Crash, vars, loops

LEMMA ListenersRightStep ==
  ASSUME EvidenceInv, ListenersRight, [Next]_vars
  PROVE  ListenersRight'
<1> SUFFICES ASSUME NEW q \in Nodes, listen'[q] # <<>>, NEW id \in Head(listen'[q]).relay
             PROVE  AckOf(id.target, id.period) = Head(listen'[q]).ack
  BY DEF ListenersRight
<1> USE DEF EvidenceInv, TypeOK, ChannelsOK, ListenersRight
<1>1. CASE listen'[q] = listen[q]
  BY <1>1
<1>2. ASSUME NEW m, ReceiveAck(q, m)
      PROVE  AckOf(id.target, id.period) = Head(listen'[q]).ack
  <2> DEFINE d == [ack |-> AckOf(AckAddr(m), m.period), relay |-> Takers(q, AckAddr(m), m.period)]
  <2>1. listen'[q] = <<d>>
    BY <1>2 DEF ReceiveAck
  <2>2. Head(listen'[q]) = d
    BY <2>1
  <2>3. id \in Takers(q, AckAddr(m), m.period)
    BY <2>2
  <2> QED
    BY <2>2, <2>3 DEF Takers, Key, AckOf
<1>3. CASE \E n \in Nodes : listen' = [listen EXCEPT ![n] = <<>>]
  BY <1>1, <1>3
<1>4. ASSUME NEW n \in Nodes, Receive(n)
      PROVE  listen'[q] = listen[q] \/ \E m : ReceiveAck(q, m)
  <2>1. CASE \E m : ReceiveAck(n, m)
    BY <2>1 DEF ReceiveAck
  <2> QED
    BY <1>4, <2>1 DEF Receive, ReceivePing, ReceivePingReq
<1> QED
  BY <1>1, <1>2, <1>3, <1>4
  DEF Next, StartPeriod, SkipPeriod, AckTimeout, TakeAck, PeriodEnds, Deliver, Relay, RelayAck,
      RelayTimeout, RelayDone, Lose, Crash, vars

(***************************************************************************)
(* What an ack delivered to the relays makes of one of them.               *)
(***************************************************************************)
Filled(r, n) ==
  IF r.id \in Head(listen[n]).relay /\ r.chan = <<>>
  THEN [r EXCEPT !.chan = <<Head(listen[n]).ack>>] ELSE r

LEMMA FilledRelay ==
  ASSUME EvidenceInv, Addressed, NEW n \in Nodes, listen[n] # <<>>, NEW r \in relays[n]
  PROVE  /\ Filled(r, n).id = r.id /\ Filled(r, n).at = r.at
         /\ r.chan # <<>> \/ r.id \in Head(listen[n]).relay => Filled(r, n).chan # <<>>
         /\ Filled(r, n).chan # <<>> => Head(Filled(r, n).chan) = AckOf(r.id.target, r.id.period)
<1>1. PICK a : a = Head(listen[n]).ack
  OBVIOUS
<1>2. r \in Relays /\ (r.chan # <<>> => Head(r.chan) = AckOf(r.id.target, r.id.period))
  BY DEF EvidenceInv, TypeOK, RelaysOK, Addressed, RelaysRight
<1>3. CASE r.id \in Head(listen[n]).relay /\ r.chan = <<>>
  <2>1. a = AckOf(r.id.target, r.id.period)
    BY <1>1, <1>3 DEF Addressed, ListenersRight
  <2>2. Filled(r, n) = [r EXCEPT !.chan = <<a>>]
    BY <1>1, <1>3 DEF Filled
  <2>3. Filled(r, n).id = r.id /\ Filled(r, n).at = r.at /\ Filled(r, n).chan = <<a>>
    BY <1>2, <2>2 DEF Relays
  <2>4. <<a>> # <<>> /\ Head(<<a>>) = a
    OBVIOUS
  <2> QED
    BY <2>1, <2>3, <2>4
<1>4. CASE ~(r.id \in Head(listen[n]).relay /\ r.chan = <<>>)
  BY <1>2, <1>4 DEF Filled
<1> QED
  BY <1>3, <1>4

LEMMA DeliverRelays ==
  ASSUME EvidenceInv, NEW n \in Nodes, Deliver(n)
  PROVE  relays' = relays \/ relays' = [relays EXCEPT ![n] = {Filled(r, n) : r \in relays[n]}]
BY DEF Deliver, Filled, EvidenceInv, TypeOK, RelaysOK

LEMMA RelaysRightStep ==
  ASSUME EvidenceInv, Addressed, [Next]_vars
  PROVE  RelaysRight'
<1> SUFFICES ASSUME NEW q \in Nodes, NEW s \in relays'[q], s.chan # <<>>
             PROVE  Head(s.chan) = AckOf(s.id.target, s.id.period)
  BY DEF RelaysRight
<1> USE DEF EvidenceInv, TypeOK, RelaysOK
<1>1. CASE s \in relays[q]
  BY <1>1 DEF Addressed, RelaysRight
<1>2. CASE relays' = relays
  BY <1>1, <1>2
<1>3. ASSUME NEW n \in Nodes, NEW m, ReceivePingReq(n, m)
      PROVE  s \in relays[q]
  BY <1>3 DEF ReceivePingReq
<1>4. ASSUME NEW n \in Nodes, Deliver(n)
      PROVE  Head(s.chan) = AckOf(s.id.target, s.id.period)
  <2>1. CASE relays' = [relays EXCEPT ![n] = {Filled(r, n) : r \in relays[n]}]
    <3>1. CASE q = n
      <4>1. PICK r \in relays[n] : s = Filled(r, n)
        BY <2>1, <3>1
      <4> QED
        BY <1>4, <4>1, FilledRelay DEF Deliver
    <3> QED
      BY <1>1, <2>1, <3>1
  <2> QED
    BY <1>2, <1>4, <2>1, DeliverRelays
<1>5. ASSUME NEW n \in Nodes, NEW r \in relays[n], RelayAck(n, r)
      PROVE  s \in relays[q]
  <2>1. r \in Relays
    OBVIOUS
  <2>2. PICK at : relays' = [relays EXCEPT ![n] = (@ \ {r}) \cup {[r EXCEPT !.chan = <<>>, !.at = at]}]
    BY <1>5 DEF RelayAck
  <2>3. [r EXCEPT !.chan = <<>>, !.at = at].chan = <<>>
    BY <2>1 DEF Relays
  <2> QED
    BY <2>2, <2>3
<1>6. ASSUME NEW n \in Nodes, NEW r \in relays[n], RelayTimeout(n, r)
      PROVE  Head(s.chan) = AckOf(s.id.target, s.id.period)
  <2>1. r \in Relays
    OBVIOUS
  <2>2. [r EXCEPT !.at = "done"].chan = r.chan /\ [r EXCEPT !.at = "done"].id = r.id
    BY <2>1 DEF Relays
  <2>3. CASE s \notin relays[q]
    <3>1. q = n /\ s = [r EXCEPT !.at = "done"]
      BY <1>6, <2>3 DEF RelayTimeout
    <3> QED
      BY <2>2, <3>1 DEF Addressed, RelaysRight
  <2> QED
    BY <1>1, <2>3
<1>7. ASSUME NEW n \in Nodes, NEW r \in relays[n], RelayDone(n, r)
      PROVE  s \in relays[q]
  BY <1>7 DEF RelayDone
<1> QED
  BY <1>1, <1>2, <1>3, <1>4, <1>5, <1>6, <1>7
  DEF Next, StartPeriod, SkipPeriod, AckTimeout, TakeAck, PeriodEnds, Receive, ReceivePing,
      ReceiveAck, Relay, Lose, Crash, vars, relaying

LEMMA AddressedStep ==
  ASSUME EvidenceInv, Addressed, [Next]_vars
  PROVE  Addressed'
BY TargetsListedStep, ListenersRightStep, RelaysRightStep DEF Addressed

(***************************************************************************)
(* Nothing that happened is undone, and no slip is taken back.             *)
(***************************************************************************)
LEMMA UndisturbedBefore ==
  ASSUME [Next]_vars, Undisturbed'
  PROVE  Undisturbed
<1>1. shared => shared'
  BY DEF Next, StartPeriod, SkipPeriod, AckTimeout, TakeAck, PeriodEnds, Receive, ReceivePing,
         ReceiveAck, ReceivePingReq, Deliver, Relay, RelayAck, RelayTimeout, RelayDone, Lose, Crash,
         vars, history
<1>2. panicked \subseteq panicked'
  BY DEF Next, StartPeriod, SkipPeriod, AckTimeout, TakeAck, PeriodEnds, Receive, ReceivePing,
         ReceiveAck, ReceivePingReq, Deliver, Relay, RelayAck, RelayTimeout, RelayDone, Lose, Crash,
         vars, machines
<1> QED
  BY <1>1, <1>2 DEF Undisturbed

LEMMA SlipsGrow ==
  ASSUME slips \in Nat, [Next]_vars
  PROVE  slips' \in Nat /\ slips <= slips'
<1>1. ASSUME UNCHANGED slips \/ \E k \in {0, 1, 2} : Slip(k)
      PROVE  slips' \in Nat /\ slips <= slips'
  BY <1>1 DEF Slip
<1>2. CASE \E n, p \in Nodes : StartPeriod(n, p)
  BY <1>1, <1>2 DEF StartPeriod
<1>3. ASSUME NEW n \in Nodes, SkipPeriod(n) \/ AckTimeout(n) \/ TakeAck(n)
      PROVE  slips' \in Nat /\ slips <= slips'
  BY <1>1, <1>3 DEF SkipPeriod, AckTimeout, TakeAck
<1>4. ASSUME NEW n \in Nodes, PeriodEnds(n)
      PROVE  slips' \in Nat /\ slips <= slips'
  BY <1>1, <1>4 DEF PeriodEnds
<1>5. ASSUME NEW n \in Nodes, Receive(n)
      PROVE  slips' \in Nat /\ slips <= slips'
  BY <1>1, <1>5 DEF Receive, ReceivePing, ReceiveAck, ReceivePingReq
<1>6. ASSUME NEW n \in Nodes, Deliver(n)
      PROVE  slips' \in Nat /\ slips <= slips'
  BY <1>1, <1>6 DEF Deliver
<1>7. ASSUME NEW n \in Nodes, Relay(n)
      PROVE  slips' \in Nat /\ slips <= slips'
  BY <1>1, <1>7 DEF Relay, RelayAck, RelayTimeout, RelayDone
<1>8. CASE (\E m \in BagToSet(net) : Lose(m)) \/ (\E n \in Crashing : Crash(n))
  BY <1>1, <1>8 DEF Lose, Crash
<1>9. CASE UNCHANGED vars
  BY <1>1, <1>9 DEF vars
<1> QED
  BY <1>2, <1>3, <1>4, <1>5, <1>6, <1>7, <1>8, <1>9 DEF Next

(***************************************************************************)
(* As long as no key is shared, every relay stays in the table.            *)
(***************************************************************************)
LEMMA ProbesApartStep ==
  ASSUME EvidenceInv, KeysApart, [Next]_vars, Undisturbed'
  PROVE  ProbesApart'
<1> SUFFICES ASSUME NEW q \in Nodes, Waiting(q)', NEW i \in relayAcks'[q]
             PROVE  Key(i) # <<target'[q], period'[q]>>
  BY DEF ProbesApart, Waiting
<1> USE DEF EvidenceInv, TypeOK, LoopsOK, RelaysOK, KeysApart, ProbesApart, Waiting, Undisturbed
<1>1. CASE UNCHANGED <<phase, target, period, relayAcks>>
  BY <1>1
<1>2. ASSUME NEW n \in Nodes, NEW p \in Nodes, StartPeriod(n, p)
      PROVE  Key(i) # <<target'[q], period'[q]>>
  BY <1>2 DEF StartPeriod, relaying
<1>3. ASSUME NEW n \in Nodes, SkipPeriod(n)
      PROVE  Key(i) # <<target'[q], period'[q]>>
  BY <1>3 DEF SkipPeriod, relaying
<1>4. ASSUME NEW n \in Nodes, AckTimeout(n)
      PROVE  Key(i) # <<target'[q], period'[q]>>
  BY <1>4 DEF AckTimeout, relaying
<1>5. ASSUME NEW n \in Nodes, TakeAck(n)
      PROVE  Key(i) # <<target'[q], period'[q]>>
  BY <1>5 DEF TakeAck, relaying
<1>6. ASSUME NEW n \in Nodes, PeriodEnds(n)
      PROVE  Key(i) # <<target'[q], period'[q]>>
  BY <1>6 DEF PeriodEnds, relaying
<1>7. ASSUME NEW n \in Nodes, NEW m, ReceivePingReq(n, m)
      PROVE  Key(i) # <<target'[q], period'[q]>>
  <2> DEFINE id == [src |-> m.src, target |-> m.target, period |-> m.period]
  <2>1. i \in relayAcks[q] \/ (q = n /\ i = id)
    BY <1>7 DEF ReceivePingReq
  <2>2. UNCHANGED <<phase, target, period>>
    BY <1>7 DEF ReceivePingReq, loops
  <2>3. ~(Waiting(n) /\ Key(id) = <<target[n], period[n]>>)
    BY <1>7 DEF ReceivePingReq
  <2> HIDE DEF id
  <2> QED
    BY <2>1, <2>2, <2>3
<1>8. ASSUME NEW n \in Nodes, NEW r \in relays[n], RelayDone(n, r)
      PROVE  Key(i) # <<target'[q], period'[q]>>
  BY <1>8 DEF RelayDone, loops
<1> QED
  BY <1>1, <1>2, <1>3, <1>4, <1>5, <1>6, <1>7, <1>8
  DEF Next, Receive, ReceivePing, ReceiveAck, Deliver, Relay, RelayAck, RelayTimeout, Lose, Crash,
      vars, loops, relaying

LEMMA RelaysApartStep ==
  ASSUME EvidenceInv, Addressed, KeysApart, [Next]_vars, Undisturbed'
  PROVE  RelaysApart'
<1> SUFFICES ASSUME NEW q \in Nodes
             PROVE  /\ \A s \in relays'[q] : s.id \in relayAcks'[q]
                    /\ \A s, t \in relays'[q] : s.id = t.id => s = t
  BY DEF RelaysApart
<1> DEFINE Goal == /\ \A s \in relays'[q] : s.id \in relayAcks'[q]
                   /\ \A s, t \in relays'[q] : s.id = t.id => s = t
<1> USE DEF EvidenceInv, TypeOK, RelaysOK, KeysApart, RelaysApart
<1>1. CASE relays'[q] = relays[q] /\ relayAcks'[q] = relayAcks[q]
  BY <1>1
<1>2. ASSUME NEW n \in Nodes, NEW m, ReceivePingReq(n, m)
      PROVE  Goal
  <2> DEFINE id == [src |-> m.src, target |-> m.target, period |-> m.period]
  <2>1. PICK at : relays' = [relays EXCEPT ![n] = @ \cup {[id |-> id, at |-> at, chan |-> <<>>]}]
    BY <1>2 DEF ReceivePingReq
  <2>2. PICK new : new = [id |-> id, at |-> at, chan |-> <<>>]
    OBVIOUS
  <2>3. new.id = id
    BY <2>2
  <2>4. \A i \in relayAcks[n] : Key(i) # Key(id)
    BY <1>2 DEF ReceivePingReq, Undisturbed
  <2>5. relayAcks'[n] = relayAcks[n] \cup {id}
    <3>1. relayAcks'[n] = {r \in relayAcks[n] : Key(r) # Key(id)} \cup {id}
      BY <1>2 DEF ReceivePingReq
    <3> HIDE DEF id
    <3> QED
      BY <2>4, <3>1
  <2>6. \A r \in relays[n] : r.id # id
    BY <2>4
  <2>7. relays'[n] = relays[n] \cup {new}
    BY <2>1, <2>2
  <2>8. CASE q = n
    <3> HIDE DEF id
    <3> QED
      BY <2>3, <2>5, <2>6, <2>7, <2>8
  <2>9. CASE q # n
    BY <1>1, <1>2, <2>1, <2>9 DEF ReceivePingReq
  <2> QED
    BY <2>8, <2>9
<1>3. ASSUME NEW n \in Nodes, Deliver(n)
      PROVE  Goal
  <2>1. relayAcks' = relayAcks /\ listen[n] # <<>>
    BY <1>3 DEF Deliver
  <2>2. CASE relays' = [relays EXCEPT ![n] = {Filled(r, n) : r \in relays[n]}]
    <3>1. CASE q = n
      <4>1. relays'[q] = {Filled(r, n) : r \in relays[n]}
        BY <2>2, <3>1
      <4>2. \A r \in relays[n] : Filled(r, n).id = r.id
        BY <2>1, FilledRelay
      <4> QED
        BY <2>1, <3>1, <4>1, <4>2
    <3> QED
      BY <1>1, <2>1, <2>2, <3>1
  <2> QED
    BY <1>1, <1>3, <2>1, <2>2, DeliverRelays
<1>4. ASSUME NEW n \in Nodes, NEW r \in relays[n], NEW s, s.id = r.id,
             relays' = [relays EXCEPT ![n] = (@ \ {r}) \cup {s}], relayAcks' = relayAcks
      PROVE  Goal
  <2>1. CASE q = n
    <3>1. relays'[q] = (relays[n] \ {r}) \cup {s}
      BY <1>4, <2>1
    <3> QED
      BY <1>4, <2>1, <3>1
  <2> QED
    BY <1>1, <1>4, <2>1
<1>5. ASSUME NEW n \in Nodes, NEW r \in relays[n], RelayAck(n, r)
      PROVE  Goal
  <2>1. r \in Relays
    OBVIOUS
  <2>2. PICK at : relays' = [relays EXCEPT ![n] = (@ \ {r}) \cup {[r EXCEPT !.chan = <<>>, !.at = at]}]
    BY <1>5 DEF RelayAck
  <2>3. PICK s : s = [r EXCEPT !.chan = <<>>, !.at = at]
    OBVIOUS
  <2>4. s.id = r.id
    BY <2>1, <2>3 DEF Relays
  <2>5. relayAcks' = relayAcks
    BY <1>5 DEF RelayAck
  <2>6. relays' = [relays EXCEPT ![n] = (@ \ {r}) \cup {s}]
    BY <2>2, <2>3
  <2> QED
    BY <1>4, <2>4, <2>5, <2>6
<1>6. ASSUME NEW n \in Nodes, NEW r \in relays[n], RelayTimeout(n, r)
      PROVE  Goal
  <2>1. r \in Relays
    OBVIOUS
  <2>2. PICK s : s = [r EXCEPT !.at = "done"]
    OBVIOUS
  <2>3. s.id = r.id
    BY <2>1, <2>2 DEF Relays
  <2>4. relays' = [relays EXCEPT ![n] = (@ \ {r}) \cup {s}] /\ relayAcks' = relayAcks
    BY <1>6, <2>2 DEF RelayTimeout
  <2> QED
    BY <1>4, <2>3, <2>4
<1>7. ASSUME NEW n \in Nodes, NEW r \in relays[n], RelayDone(n, r)
      PROVE  Goal
  <2>1. CASE q = n
    <3>1. relays'[q] = relays[n] \ {r} /\ relayAcks'[q] = {i \in relayAcks[n] : Key(i) # Key(r.id)}
      BY <1>7, <2>1 DEF RelayDone
    <3>2. ASSUME NEW s \in relays[n], s # r
          PROVE  Key(s.id) # Key(r.id)
      <4>1. s.id \in relayAcks[n] /\ r.id \in relayAcks[n] /\ s.id # r.id
        BY <3>2
      <4> QED
        BY <4>1
    <3> QED
      BY <2>1, <3>1, <3>2
  <2> QED
    BY <1>1, <1>7, <2>1 DEF RelayDone
<1> HIDE DEF Goal
<1>8. Goal
  <2>1. CASE UNCHANGED <<relays, relayAcks>>
    BY <1>1, <2>1 DEF Goal
  <2> QED
    BY <1>2, <1>3, <1>5, <1>6, <1>7, <2>1
    DEF Next, StartPeriod, SkipPeriod, AckTimeout, TakeAck, PeriodEnds, Receive, ReceivePing,
        ReceiveAck, Relay, Lose, Crash, vars, relaying
<1> QED
  BY <1>8 DEF Goal

(***************************************************************************)
(* The ways to hear of a target.  A message is its fields, and taking one  *)
(* from the network takes no other.                                        *)
(***************************************************************************)
LEMMA MessageFields ==
  \A kind, src, dst, k, t :
    /\ Message(kind, src, dst, k, t).kind = kind
    /\ Message(kind, src, dst, k, t).src = src
    /\ Message(kind, src, dst, k, t).dst = dst
    /\ Message(kind, src, dst, k, t).period = k
    /\ Message(kind, src, dst, k, t).target = t
BY DEF Message

LEMMA OthersKept ==
  ASSUME NEW B, NEW m
  PROVE  BagToSet(B) \subseteq BagToSet(BagRemove(B, m)) \cup {m}
BY DEF BagToSet, BagRemove

(***************************************************************************)
(* A probe of n goes on in a step.  If the ways lost in it are paid for    *)
(* with slips, n is backed as before.                                      *)
(***************************************************************************)
Still(n) ==
  /\ Waiting(n)' => /\ Waiting(n)
                    /\ acks[n] = <<AckOf(target[n], period[n])>> => acks'[n] = acks[n]
  /\ target'[n] = target[n] /\ period'[n] = period[n] /\ members'[n] = members[n]
  /\ up' \subseteq up

LEMMA StillProbing ==
  ASSUME NEW n, Still(n), Waiting(n)', Blame(n)' # {}
  PROVE  Waiting(n) /\ Blame(n) # {}
BY DEF Still, Blame

LEMMA OpenWay ==
  ASSUME NEW v, NEW w, v => w
  PROVE  Open(v) \in Nat /\ Open(w) \in Nat /\ Open(v) <= Open(w)
<1>1. CASE v
  <2>1. Open(v) = 1 /\ Open(w) = 1
    BY <1>1, Zenon DEF Open
  <2> QED
    BY <2>1
<1>2. CASE ~v
  <2>1. Open(v) = 0 /\ (Open(w) = 0 \/ Open(w) = 1)
    BY <1>2, Zenon DEF Open
  <2> QED
    BY <2>1
<1> QED
  BY <1>1, <1>2

LEMMA PaidFor ==
  ASSUME NEW n, Still(n), slips \in Nat, slips' \in Nat, Backed(n),
         Waiting(n) /\ Blame(n) # {} =>
           slips + Open(Direct(n)) + Open(Indirect(n)) + Open(Heard(n))
             <= slips' + Open(Direct(n)') + Open(Indirect(n)') + Open(Heard(n)')
  PROVE  Backed(n)'
<1> SUFFICES ASSUME Waiting(n)', Blame(n)' # {}
             PROVE  \/ acks'[n] = <<AckOf(target'[n], period'[n])>>
                    \/ slips' + Open(Direct(n)') + Open(Indirect(n)') + Open(Heard(n)') >= 2
  BY DEF Backed, Open
<1>1. Waiting(n) /\ Blame(n) # {}
  BY StillProbing
<1>2. CASE acks[n] = <<AckOf(target[n], period[n])>>
  BY <1>2 DEF Still
<1>3. CASE slips + Open(Direct(n)) + Open(Indirect(n)) + Open(Heard(n)) >= 2
  <2>1. PICK a \in Nat : a = slips + Open(Direct(n)) + Open(Indirect(n)) + Open(Heard(n))
    BY OpenWay
  <2>2. PICK b \in Nat : b = slips' + Open(Direct(n)') + Open(Indirect(n)') + Open(Heard(n)')
    BY OpenWay
  <2>3. a <= b /\ a >= 2
    BY <1>1, <1>3, <2>1, <2>2
  <2> QED
    BY <2>2, <2>3
<1> QED
  BY <1>1, <1>2, <1>3 DEF Backed

LEMMA WaysKept ==
  ASSUME NEW n, Still(n), slips \in Nat, slips' \in Nat, slips <= slips', Backed(n),
         Direct(n) => Direct(n)', Indirect(n) => Indirect(n)', Heard(n) => Heard(n)'
  PROVE  Backed(n)'
<1>1. PICK a \in Nat, b \in Nat : a = Open(Direct(n)) /\ b = Open(Direct(n)') /\ a <= b
  BY OpenWay
<1>2. PICK c \in Nat, d \in Nat : c = Open(Indirect(n)) /\ d = Open(Indirect(n)') /\ c <= d
  BY OpenWay
<1>3. PICK e \in Nat, f \in Nat : e = Open(Heard(n)) /\ f = Open(Heard(n)') /\ e <= f
  BY OpenWay
<1>4. slips + a + c + e <= slips' + b + d + f
  BY <1>1, <1>2, <1>3
<1> QED
  BY <1>1, <1>2, <1>3, <1>4, PaidFor

LEMMA IndirectKept ==
  ASSUME NEW n, Still(n), phase'[n] = phase[n],
         \A h \in members[n] : Through(n, h) => Through(n, h)'
  PROVE  Indirect(n) => Indirect(n)'
BY DEF Still, Indirect

MailKept ==
  /\ \A a, t, k : InFlight(Mail(a, t, k)) => Mail(a, t, k) \cap BagToSet(net') # {}
  /\ \A m \in BagToSet(net) :
       m.kind = "pingReq" \/ (m.kind = "ack" /\ m.target # NoTarget) => m \in BagToSet(net')

LEMMA MailStep ==
  ASSUME NEW n, Still(n), slips \in Nat, slips' \in Nat, slips <= slips', Backed(n),
         phase'[n] = phase[n], UNCHANGED <<listen, relays>>, MailKept, target[n] # NoTarget
  PROVE  Backed(n)'
<1>1. Direct(n) => Direct(n)'
  BY DEF MailKept, Still, Direct, InFlight
<1>2. Heard(n) => Heard(n)'
  BY DEF Still, Heard, Holds
<1>3. ASSUME NEW h, Through(n, h)
      PROVE  Through(n, h)'
  <2>1. ProbeId(n)' = ProbeId(n) /\ Asked(n, h)' = Asked(n, h)
    BY DEF Still, ProbeId, Asked
  <2>2. ASSUME NEW r \in Running(h, ProbeId(n)), Pinging(h, r)
        PROVE  \E s \in Running(h, ProbeId(n))' : Pinging(h, s)'
    <3>1. Pinging(h, r)'
      BY <2>2 DEF MailKept, Pinging, InFlight, Holds
    <3>2. r \in Running(h, ProbeId(n))'
      BY <2>1 DEF Running
    <3> QED
      BY <3>1, <3>2
  <2>3. /\ Asked(n, h).kind = "pingReq"
        /\ Reply(h, ProbeId(n)).kind = "ack" /\ Reply(h, ProbeId(n)).target # NoTarget
    BY MessageFields DEF Asked, Reply, ProbeId
  <2>4. InFlight({Asked(n, h), Reply(h, ProbeId(n))}) => InFlight({Asked(n, h), Reply(h, ProbeId(n))})'
    BY <2>1, <2>3 DEF MailKept, InFlight
  <2> QED
    BY <1>3, <2>2, <2>4 DEF Through
<1> QED
  BY <1>1, <1>2, <1>3, IndirectKept, WaysKept

LEMMA QuietStep ==
  ASSUME NEW n, Still(n), slips \in Nat, slips' \in Nat, slips <= slips', Backed(n),
         phase'[n] = phase[n], UNCHANGED <<listen, relays>>, BagToSet(net) \subseteq BagToSet(net'),
         target[n] # NoTarget
  PROVE  Backed(n)'
<1>1. MailKept
  BY DEF MailKept, InFlight
<1> QED
  BY <1>1, MailStep

LEMMA RealTarget ==
  ASSUME EvidenceInv, NEW n \in up
  PROVE  n \in Nodes /\ target[n] \in Nodes /\ target[n] # NoTarget
BY ProbeAssumption DEF NoTarget, EvidenceInv, TypeOK, LoopsOK

LEMMA TwoWays ==
  ASSUME NEW n, slips' \in Nat, Direct(n)', Indirect(n)'
  PROVE  Backed(n)'
<1>1. PICK a, b : a = Open(Direct(n)') /\ b = Open(Indirect(n)') /\ a = 1 /\ b = 1
  BY Zenon DEF Open
<1>2. PICK c \in Nat : c = Open(Heard(n)')
  BY OpenWay
<1>3. slips' + a + b + c >= 2
  BY ONLY slips' \in Nat, <1>1, <1>2
<1>4. slips' + Open(Direct(n)') + Open(Indirect(n)') + Open(Heard(n)') >= 2
  BY <1>1, <1>2, <1>3, Zenon
<1> QED
  BY <1>4 DEF Backed

(***************************************************************************)
(* The Probe loop: a period begins with both ways open, and the ping-reqs  *)
(* are sent when the way through a relay has to be tried.                  *)
(***************************************************************************)
LEMMA StartPeriodBacked ==
  ASSUME EvidenceInv, slips \in Nat, NEW n \in Nodes, NEW p \in Nodes, StartPeriod(n, p),
         NEW q \in up, Backed(q)
  PROVE  Backed(q)'
<1> DEFINE ping == Message("ping", n, p, period[n] + 1, NoTarget)
<1>1. BagToSet(net') = BagToSet(net) \cup {ping}
  BY AddMessages DEF StartPeriod, Send
<1>2. slips' = slips /\ q \in Nodes
  BY DEF StartPeriod, EvidenceInv, TypeOK, LoopsOK
<1>3. CASE q = n
  <2>1. target'[n] = p /\ period'[n] = period[n] + 1 /\ phase'[n] = "waiting"
    BY DEF StartPeriod, EvidenceInv, TypeOK, LoopsOK
  <2>2. Direct(n)'
    BY <1>1, <2>1 DEF Direct, InFlight, Mail
  <2> QED
    BY <1>2, <1>3, <2>1, <2>2, TwoWays DEF Indirect
<1>4. CASE q # n
  <2>1. Still(q) /\ phase'[q] = phase[q]
    BY <1>2, <1>4 DEF StartPeriod, machines, Still, Waiting, EvidenceInv, TypeOK, LoopsOK
  <2>2. target[q] # NoTarget /\ UNCHANGED <<listen, relays>>
    BY RealTarget DEF StartPeriod, relaying
  <2> HIDE DEF ping
  <2> QED
    BY <1>1, <1>2, <2>1, <2>2, QuietStep
<1> QED
  BY <1>3, <1>4

LEMMA SkipPeriodBacked ==
  ASSUME EvidenceInv, slips \in Nat, NEW n \in Nodes, SkipPeriod(n), NEW q \in up, Backed(q)
  PROVE  Backed(q)'
<1>1. slips' = slips /\ q \in Nodes
  BY DEF SkipPeriod, EvidenceInv, TypeOK, LoopsOK
<1>2. CASE q = n
  BY <1>2 DEF SkipPeriod, Backed, Waiting
<1>3. CASE q # n
  <2>1. Still(q) /\ phase'[q] = phase[q]
    BY <1>1, <1>3 DEF SkipPeriod, machines, Still, Waiting, EvidenceInv, TypeOK, LoopsOK
  <2> QED
    BY <1>1, <2>1, QuietStep, RealTarget DEF SkipPeriod, relaying
<1> QED
  BY <1>2, <1>3

LEMMA SomebodyAsked ==
  ASSUME EvidenceInv, TargetsListed, NEW n \in Nodes, Waiting(n), Blame(n) # {}, NEW g \in Subgroups(n)
  PROVE  \E h \in members[n] : h \in g
<1>1. members[n] \ {target[n]} # {}
  BY DEF Blame, TargetsListed
<1>2. g \subseteq members[n]
  BY DEF Subgroups
<1>3. g # {}
  <2>1. g = members[n] \ {target[n]} \/ Cardinality(g) \in 1 .. SubgroupSize
    BY DEF Subgroups
  <2>2. Cardinality(g) \in 1 .. SubgroupSize => Cardinality(g) # 0
    BY ProbeAssumption
  <2>3. g = {} => Cardinality(g) = 0
    BY FS_EmptySet DEF Cardinality
  <2> QED
    BY <1>1, <2>1, <2>2, <2>3
<1> QED
  BY <1>2, <1>3

LEMMA AckTimeoutBacked ==
  ASSUME EvidenceInv, TargetsListed, slips \in Nat, NEW n \in Nodes, AckTimeout(n), NEW q \in up, Backed(q)
  PROVE  Backed(q)'
<1>1. PICK g \in Subgroups(n) :
        net' = Send({Message("pingReq", n, h, period[n], target[n]) : h \in g})
  BY DEF AckTimeout
<1>2. BagToSet(net') = BagToSet(net) \cup {Message("pingReq", n, h, period[n], target[n]) : h \in g}
  BY <1>1, AddMessages DEF Send
<1>3. slips' = slips /\ q \in Nodes
  BY DEF AckTimeout, EvidenceInv, TypeOK, LoopsOK
<1>4. Still(q)
  BY <1>3 DEF AckTimeout, loops, machines, Still, Waiting, EvidenceInv, TypeOK, LoopsOK
<1>5. CASE q = n
  <2> SUFFICES ASSUME Waiting(n), Blame(n) # {}
               PROVE  Backed(n)'
    BY <1>4, <1>5, StillProbing DEF Backed
  <2>1. PICK h \in members[n] : h \in g
    BY SomebodyAsked
  <2>2. Asked(n, h)' \in BagToSet(net')
    BY <1>2, <2>1 DEF Asked, AckTimeout
  <2>3. Indirect(n)'
    BY <2>1, <2>2 DEF Indirect, Through, InFlight, AckTimeout
  <2>4. Direct(n) => Direct(n)'
    BY <1>2 DEF Direct, InFlight, AckTimeout
  <2>5. Heard(n) => Heard(n)'
    BY DEF Heard, Holds, AckTimeout
  <2> QED
    BY <1>3, <1>4, <1>5, <2>3, <2>4, <2>5, WaysKept
<1>6. CASE q # n
  <2>1. phase'[q] = phase[q]
    BY <1>3, <1>6 DEF AckTimeout, EvidenceInv, TypeOK, LoopsOK
  <2> QED
    BY <1>2, <1>3, <1>4, <2>1, QuietStep, RealTarget DEF AckTimeout, relaying
<1> QED
  BY <1>5, <1>6

LEMMA TakeAckBacked ==
  ASSUME EvidenceInv, slips \in Nat, NEW n \in Nodes, TakeAck(n), NEW q \in up, Backed(q)
  PROVE  Backed(q)'
<1>1. slips' = slips /\ q \in Nodes
  BY DEF TakeAck, EvidenceInv, TypeOK, LoopsOK
<1>2. CASE Waiting(q)'
  <2>1. phase'[q] = phase[q]
    BY <1>1, <1>2 DEF TakeAck, Waiting, EvidenceInv, TypeOK, LoopsOK
  <2>2. ASSUME acks[q] = <<AckOf(target[q], period[q])>>
        PROVE  q # n
    <3>1. Head(acks[q]) = AckOf(target[q], period[q])
      BY <2>2
    <3> QED
      BY <1>1, <1>2, <3>1 DEF TakeAck, Matches, AckOf, Waiting, EvidenceInv, TypeOK, LoopsOK
  <2>3. q # n => acks'[q] = acks[q]
    BY <1>1 DEF TakeAck, EvidenceInv, TypeOK, ChannelsOK
  <2>4. Still(q)
    BY <1>2, <2>1, <2>2, <2>3 DEF TakeAck, machines, Still, Waiting
  <2> QED
    BY <1>1, <2>1, <2>4, QuietStep, RealTarget DEF TakeAck, relaying
<1> QED
  BY <1>2 DEF Backed

LEMMA PeriodEndsBacked ==
  ASSUME EvidenceInv, slips \in Nat, slips' \in Nat, slips <= slips', NEW n \in Nodes, PeriodEnds(n),
         NEW q \in up, Backed(q)
  PROVE  Backed(q)'
<1>1. q \in Nodes
  BY DEF EvidenceInv, TypeOK, LoopsOK
<1>2. CASE q = n
  BY <1>2 DEF PeriodEnds, Backed, Waiting, EvidenceInv, TypeOK, LoopsOK
<1>3. CASE q # n
  <2>1. members'[q] = members[q]
    BY <1>1, <1>3 DEF PeriodEnds, EvidenceInv, TypeOK, LoopsOK
  <2>2. Still(q) /\ phase'[q] = phase[q]
    BY <1>1, <1>3, <2>1 DEF PeriodEnds, machines, Still, Waiting, EvidenceInv, TypeOK, LoopsOK
  <2> QED
    BY <2>2, QuietStep, RealTarget DEF PeriodEnds, relaying
<1> QED
  BY <1>2, <1>3

(***************************************************************************)
(* A way moves on, or is lost for a slip.                                  *)
(***************************************************************************)
LEMMA OpenValue ==
  ASSUME NEW w
  PROVE  \E v \in {0, 1} : v = Open(w) /\ (v = 1 <=> w)
<1>1. CASE w
  <2>1. Open(w) = 1
    BY <1>1, Zenon DEF Open
  <2> QED
    BY <1>1, <2>1, Zenon
<1>2. CASE ~w
  <2>1. Open(w) = 0 /\ 0 # 1
    BY <1>2 DEF Open
  <2> QED
    BY <1>2, <2>1, Zenon
<1> QED
  BY <1>1, <1>2

LEMMA WayMoved ==
  ASSUME NEW n, Still(n), slips \in Nat, slips' = slips, Backed(n), ~Heard(n),
         Waiting(n) /\ Blame(n) # {} =>
           \/ (Direct(n) => Direct(n)' \/ Heard(n)') /\ (Indirect(n) => Indirect(n)')
           \/ (Direct(n) => Direct(n)') /\ (Indirect(n) => Indirect(n)' \/ Heard(n)')
  PROVE  Backed(n)'
<1>1. PICK a \in {0, 1} : a = Open(Direct(n)) /\ (a = 1 <=> Direct(n))
  BY OpenValue
<1>2. PICK b \in {0, 1} : b = Open(Direct(n)') /\ (b = 1 <=> Direct(n)')
  BY OpenValue
<1>3. PICK c \in {0, 1} : c = Open(Indirect(n)) /\ (c = 1 <=> Indirect(n))
  BY OpenValue
<1>4. PICK d \in {0, 1} : d = Open(Indirect(n)') /\ (d = 1 <=> Indirect(n)')
  BY OpenValue
<1>5. PICK e \in {0, 1} : e = Open(Heard(n)) /\ (e = 1 <=> Heard(n))
  BY OpenValue
<1>6. PICK f \in {0, 1} : f = Open(Heard(n)') /\ (f = 1 <=> Heard(n)')
  BY OpenValue
<1>7. Waiting(n) /\ Blame(n) # {} => slips + a + c + e <= slips' + b + d + f
  BY <1>1, <1>2, <1>3, <1>4, <1>5, <1>6
<1>8. slips' \in Nat
  OBVIOUS
<1> QED
  BY <1>1, <1>2, <1>3, <1>4, <1>5, <1>6, <1>7, <1>8, PaidFor

LEMMA WayLost ==
  ASSUME NEW n, Still(n), slips \in Nat, slips' \in Nat, Backed(n),
         Waiting(n) /\ Blame(n) # {} =>
           \/ /\ slips' >= slips
              /\ Direct(n) => Direct(n)'
              /\ Indirect(n) => Indirect(n)'
              /\ Heard(n) => Heard(n)'
           \/ /\ slips' >= slips + 1
              /\ \/ (Direct(n) => Direct(n)') /\ (Indirect(n) => Indirect(n)')
                 \/ (Direct(n) => Direct(n)') /\ (Heard(n) => Heard(n)')
                 \/ (Indirect(n) => Indirect(n)') /\ (Heard(n) => Heard(n)')
  PROVE  Backed(n)'
<1>1. PICK a \in {0, 1} : a = Open(Direct(n)) /\ (a = 1 <=> Direct(n))
  BY OpenValue
<1>2. PICK b \in {0, 1} : b = Open(Direct(n)') /\ (b = 1 <=> Direct(n)')
  BY OpenValue
<1>3. PICK c \in {0, 1} : c = Open(Indirect(n)) /\ (c = 1 <=> Indirect(n))
  BY OpenValue
<1>4. PICK d \in {0, 1} : d = Open(Indirect(n)') /\ (d = 1 <=> Indirect(n)')
  BY OpenValue
<1>5. PICK e \in {0, 1} : e = Open(Heard(n)) /\ (e = 1 <=> Heard(n))
  BY OpenValue
<1>6. PICK f \in {0, 1} : f = Open(Heard(n)') /\ (f = 1 <=> Heard(n)')
  BY OpenValue
<1>7. Waiting(n) /\ Blame(n) # {} => slips + a + c + e <= slips' + b + d + f
  BY <1>1, <1>2, <1>3, <1>4, <1>5, <1>6
<1> QED
  BY <1>1, <1>2, <1>3, <1>4, <1>5, <1>6, <1>7, PaidFor

(***************************************************************************)
(* The Listen loop: a ping becomes an ack, an ack in a datagram one in the *)
(* hands of the listener, and a ping-req a relay that pings.               *)
(***************************************************************************)
LEMMA ReceivePingBacked ==
  ASSUME EvidenceInv, slips \in Nat, NEW n \in Nodes, NEW m \in BagToSet(net), m.dst = n, ReceivePing(n, m),
         NEW q \in up, Backed(q)
  PROVE  Backed(q)'
<1>1. PICK ack : ack = Message("ack", n, m.src, m.period, NoTarget)
  OBVIOUS
<1>2. ack \in BagToSet(net') /\ BagToSet(net) \subseteq BagToSet(net') \cup {m}
  <2>1. BagToSet(net') = BagToSet(BagRemove(net, m)) \cup {ack}
    BY <1>1, AddMessages DEF ReceivePing, Replace
  <2> QED
    BY <2>1, OthersKept
<1>3. m.kind = "ping" /\ m \in Messages
  BY DEF ReceivePing, EvidenceInv, TypeOK, MessagesOK
<1>4. ASSUME NEW a, NEW t, NEW k, InFlight(Mail(a, t, k))
      PROVE  Mail(a, t, k) \cap BagToSet(net') # {}
  <2>1. PICK x \in Mail(a, t, k) : x \in BagToSet(net)
    BY <1>4 DEF InFlight
  <2>2. CASE x = m
    <3>1. m = Message("ping", a, t, k, NoTarget)
      BY <1>3, <2>1, <2>2, MessageFields DEF Mail
    <3>2. m.src = a /\ m.dst = t /\ m.period = k
      BY <3>1, MessageFields
    <3>3. ack = Message("ack", t, a, k, NoTarget)
      BY <1>1, <3>2
    <3> QED
      BY <1>2, <3>3 DEF Mail
  <2> QED
    BY <1>2, <2>1, <2>2
<1>5. ASSUME NEW x \in BagToSet(net), x.kind # "ping"
      PROVE  x \in BagToSet(net')
  BY <1>2, <1>3, <1>5
<1>6. MailKept
  BY <1>4, <1>5 DEF MailKept
<1>7. Still(q) /\ phase'[q] = phase[q] /\ slips' = slips /\ UNCHANGED <<listen, relays>>
  BY DEF ReceivePing, loops, machines, relaying, Still, Waiting
<1> QED
  BY <1>6, <1>7, RealTarget, MailStep

LEMMA TakersOfProbe ==
  ASSUME KeysApart, NEW n \in Nodes, Waiting(n)
  PROVE  Takers(n, target[n], period[n]) = {}
BY DEF KeysApart, ProbesApart, Takers

LEMMA TakersOfRelay ==
  ASSUME EvidenceInv, KeysApart, NEW n \in Nodes, NEW r \in relays[n]
  PROVE  Takers(n, r.id.target, r.id.period) = {r.id}
<1>1. r.id \in relayAcks[n]
  BY DEF KeysApart, RelaysApart
<1>2. \A i \in relayAcks[n] : Key(i) = Key(r.id) => i = r.id
  BY <1>1 DEF EvidenceInv, TypeOK, RelaysOK
<1>3. Key(r.id) = <<r.id.target, r.id.period>>
  BY DEF Key
<1> QED
  BY <1>1, <1>2, <1>3 DEF Takers

LEMMA ReceiveAckBacked ==
  ASSUME EvidenceInv, TargetsListed, KeysApart, slips \in Nat, NEW n \in up, listen[n] = <<>>,
         NEW m \in BagToSet(net), m.dst = n, ReceiveAck(n, m), NEW q \in up, Backed(q)
  PROVE  Backed(q)'
<1>1. BagToSet(net) \subseteq BagToSet(net') \cup {m}
  BY OthersKept DEF ReceiveAck
<1>2. m.kind = "ack" /\ n \in Nodes /\ q \in Nodes /\ slips' = slips /\ relays' = relays
  BY DEF ReceiveAck, relaying, EvidenceInv, TypeOK, LoopsOK
<1>3. Still(q) /\ phase'[q] = phase[q]
  BY DEF ReceiveAck, loops, machines, Still, Waiting
<1>4. ASSUME NEW t, NEW k, AckAddr(m) = t, m.period = k
      PROVE  Holds(n, t, k, Takers(n, t, k))'
  <2> DEFINE d == [ack |-> AckOf(t, k), relay |-> Takers(n, t, k)]
  <2>1. listen'[n] = <<d>>
    BY <1>2, <1>4 DEF ReceiveAck, EvidenceInv, TypeOK, ChannelsOK
  <2>2. listen'[n] # <<>> /\ Head(listen'[n]) = d
    BY <2>1
  <2>3. Takers(n, t, k)' = Takers(n, t, k)
    BY DEF ReceiveAck, relaying, Takers
  <2> QED
    BY <2>2, <2>3 DEF Holds
<1>5. \A h \in Nodes \ {n} : listen'[h] = listen[h]
  BY <1>2 DEF ReceiveAck, EvidenceInv, TypeOK, ChannelsOK
<1>6. ASSUME NEW a, NEW t, NEW k, InFlight(Mail(a, t, k)), ~InFlight(Mail(a, t, k))'
      PROVE  a = n /\ m.target = NoTarget /\ AckAddr(m) = t /\ m.period = k
  <2>1. m \in Mail(a, t, k)
    BY <1>1, <1>6 DEF InFlight
  <2>2. m = Message("ack", t, a, k, NoTarget)
    BY <1>2, <2>1, MessageFields DEF Mail
  <2> QED
    BY <2>2, MessageFields DEF AckAddr
<1>7. ASSUME NEW h, NEW r \in relays[h], h \in Nodes, Pinging(h, r)
      PROVE  Pinging(h, r)'
  <2>1. CASE r.chan # <<>>
    BY <1>7, <2>1 DEF Pinging
  <2>2. CASE InFlight(Mail(h, r.id.target, r.id.period))
    <3>1. CASE InFlight(Mail(h, r.id.target, r.id.period))'
      BY <1>7, <3>1 DEF Pinging
    <3>2. CASE ~InFlight(Mail(h, r.id.target, r.id.period))'
      <4>1. h = n /\ AckAddr(m) = r.id.target /\ m.period = r.id.period
        BY <1>6, <2>2, <3>2
      <4>2. Takers(n, r.id.target, r.id.period)' = {r.id}
        BY <1>7, <4>1, TakersOfRelay DEF ReceiveAck, relaying, Takers
      <4> QED
        BY <1>4, <1>7, <4>1, <4>2 DEF Pinging, Holds
    <3> QED
      BY <3>1, <3>2
  <2>3. CASE Holds(h, r.id.target, r.id.period, {r.id})
    BY <1>5, <1>7, <2>3 DEF Pinging, Holds
  <2> QED
    BY <1>7, <2>1, <2>2, <2>3 DEF Pinging
<1>8. ASSUME NEW h \in Nodes, Through(q, h), q # n \/ m.target = NoTarget
      PROVE  Through(q, h)'
  <2>1. ProbeId(q)' = ProbeId(q) /\ Asked(q, h)' = Asked(q, h)
    BY <1>3 DEF Still, ProbeId, Asked
  <2>2. ASSUME NEW r \in Running(h, ProbeId(q)), Pinging(h, r)
        PROVE  \E s \in Running(h, ProbeId(q))' : Pinging(h, s)'
    <3>1. r \in relays[h] /\ r \in Running(h, ProbeId(q))'
      BY <1>2, <2>1 DEF Running
    <3> QED
      BY <1>7, <2>2, <3>1
  <2>3. m # Asked(q, h)
    BY <1>2, MessageFields DEF Asked
  <2>4. m # Reply(h, ProbeId(q))
    <3>1. Reply(h, ProbeId(q)).dst = q /\ Reply(h, ProbeId(q)).target # NoTarget
      BY RealTarget, MessageFields DEF Reply, ProbeId
    <3> QED
      BY <1>8, <3>1
  <2>5. InFlight({Asked(q, h), Reply(h, ProbeId(q))}) => InFlight({Asked(q, h), Reply(h, ProbeId(q))})'
    BY <1>1, <2>1, <2>3, <2>4 DEF InFlight
  <2> QED
    BY <1>8, <2>2, <2>5 DEF Through
<1>9. members[q] \subseteq Nodes
  BY <1>2 DEF EvidenceInv, TypeOK, LoopsOK
<1>10. CASE q # n
  <2>1. Direct(q) => Direct(q)'
    BY <1>3, <1>6, <1>10 DEF Still, Direct
  <2>2. Heard(q) => Heard(q)'
    BY <1>2, <1>3, <1>5, <1>10 DEF Still, Heard, Holds
  <2>3. Indirect(q) => Indirect(q)'
    BY <1>3, <1>8, <1>9, <1>10, IndirectKept
  <2> QED
    BY <1>2, <1>3, <2>1, <2>2, <2>3, WaysKept
<1>11. CASE q = n
  <2>1. ~Heard(n)
    BY DEF Heard, Holds
  <2>2. ASSUME Waiting(n), AckAddr(m) = target[n], m.period = period[n]
        PROVE  Heard(n)'
    <3>1. Holds(n, target[n], period[n], {})'
      BY <1>2, <1>3, <1>4, <1>11, <2>2, TakersOfProbe DEF Still, Holds, ReceiveAck, relaying, Takers
    <3> QED
      BY <1>3, <1>11, <3>1 DEF Still, Heard
  <2>3. CASE m.target = NoTarget
    <3>1. Indirect(n) => Indirect(n)'
      BY <1>3, <1>8, <1>9, <1>11, <2>3, IndirectKept
    <3>2. Waiting(n) => (Direct(n) => Direct(n)' \/ Heard(n)')
      BY <1>3, <1>6, <1>11, <2>2 DEF Still, Direct
    <3> QED
      BY <1>2, <1>3, <1>11, <2>1, <3>1, <3>2, WayMoved
  <2>4. CASE m.target # NoTarget
    <3>1. Direct(n) => Direct(n)'
      BY <1>3, <1>6, <1>11, <2>4 DEF Still, Direct
    <3>2. ASSUME Waiting(n), Indirect(n), ~Indirect(n)'
          PROVE  Heard(n)'
      <4>1. PICK h \in members[n] : Through(n, h)
        BY <1>3, <1>11, <3>2 DEF Indirect
      <4>2. ~Through(n, h)'
        BY <1>3, <1>11, <3>2 DEF Indirect, Still
      <4>3. h \in Nodes /\ ProbeId(n)' = ProbeId(n) /\ Asked(n, h)' = Asked(n, h)
        BY <1>3, <1>9, <1>11 DEF Still, ProbeId, Asked
      <4>4. InFlight({Asked(n, h), Reply(h, ProbeId(n))})
        <5>1. ASSUME NEW r \in Running(h, ProbeId(n)), Pinging(h, r)
              PROVE  FALSE
          <6>1. r \in relays[h] /\ r \in Running(h, ProbeId(n))'
            BY <1>2, <4>3 DEF Running
          <6>2. Pinging(h, r)'
            BY <1>7, <4>3, <5>1, <6>1
          <6> QED
            BY <4>2, <6>1, <6>2 DEF Through
        <5> QED
          BY <4>1, <5>1 DEF Through
      <4>5. m = Asked(n, h) \/ m = Reply(h, ProbeId(n))
        BY <1>1, <4>2, <4>3, <4>4 DEF Through, InFlight
      <4>6. m = Reply(h, ProbeId(n))
        BY <1>2, <4>5, MessageFields DEF Asked
      <4>7. m.target = target[n] /\ m.period = period[n]
        BY <4>6, MessageFields DEF Reply, ProbeId
      <4> QED
        BY <2>2, <2>4, <3>2, <4>7 DEF AckAddr
    <3> QED
      BY <1>2, <1>3, <1>11, <2>1, <3>1, <3>2, WayMoved
  <2> QED
    BY <2>3, <2>4
<1> QED
  BY <1>10, <1>11

LEMMA ReceivePingReqBacked ==
  ASSUME EvidenceInv, slips \in Nat, slips' \in Nat, NEW n \in Nodes,
         NEW m \in BagToSet(net), m.dst = n, ReceivePingReq(n, m), NEW q \in up, Backed(q)
  PROVE  Backed(q)'
<1> DEFINE id == [src |-> m.src, target |-> m.target, period |-> m.period]
<1>1. BagToSet(net) \subseteq BagToSet(net') \cup {m}
  BY OthersKept, AddMessages DEF ReceivePingReq, Replace
<1>2. m.kind = "pingReq" /\ q \in Nodes /\ listen' = listen
  BY DEF ReceivePingReq, EvidenceInv, TypeOK, LoopsOK
<1>3. Still(q) /\ phase'[q] = phase[q]
  BY DEF ReceivePingReq, loops, machines, Still, Waiting
<1>4. members[q] \subseteq Nodes /\ \A h \in Nodes : relays[h] \subseteq relays'[h]
  <2>1. members[q] \subseteq Nodes
    BY <1>2 DEF EvidenceInv, TypeOK, LoopsOK
  <2>2. PICK R : relays' = [relays EXCEPT ![n] = @ \cup R]
    BY DEF ReceivePingReq
  <2> QED
    BY <2>1, <2>2 DEF EvidenceInv, TypeOK, RelaysOK
<1>5. ASSUME NEW a, NEW t, NEW k, InFlight(Mail(a, t, k))
      PROVE  InFlight(Mail(a, t, k))'
  <2>1. m \notin Mail(a, t, k)
    BY <1>2, MessageFields DEF Mail
  <2> QED
    BY <1>1, <1>5, <2>1 DEF InFlight
<1>6. Direct(q) => Direct(q)'
  BY <1>3, <1>5 DEF Still, Direct
<1>7. Heard(q) => Heard(q)'
  BY <1>2, <1>3 DEF Still, Heard, Holds
<1>8. CASE slips' = slips + 1
  BY <1>3, <1>6, <1>7, <1>8, WayLost
<1>9. CASE /\ slips' = slips
           /\ net' = Replace(m, {Message("ping", n, m.target, m.period, NoTarget)})
           /\ relays' = [relays EXCEPT ![n] = @ \cup {[id |-> id, at |-> "waiting", chan |-> <<>>]}]
  <2>1. ASSUME NEW h \in members[q], Through(q, h)
        PROVE  Through(q, h)'
    <3>1. ProbeId(q)' = ProbeId(q) /\ Asked(q, h)' = Asked(q, h)
      BY <1>3 DEF Still, ProbeId, Asked
    <3>2. ASSUME NEW r \in Running(h, ProbeId(q)), Pinging(h, r)
          PROVE  Through(q, h)'
      <4>1. r \in Running(h, ProbeId(q))'
        BY <1>4, <3>1 DEF Running
      <4>2. Pinging(h, r)'
        BY <1>2, <1>5, <3>2 DEF Pinging, Holds
      <4> QED
        BY <4>1, <4>2 DEF Through
    <3>3. ASSUME NEW x \in {Asked(q, h), Reply(h, ProbeId(q))}, x \in BagToSet(net), x # m
          PROVE  Through(q, h)'
      BY <1>1, <3>1, <3>3 DEF Through, InFlight
    <3>4. ASSUME m = Asked(q, h)
          PROVE  Through(q, h)'
      <4>1. m.src = q /\ m.dst = h /\ m.period = period[q] /\ m.target = target[q]
        BY <3>4, MessageFields DEF Asked
      <4>2. h = n /\ id = ProbeId(q)
        BY <4>1 DEF ProbeId
      <4>3. PICK r : r = [id |-> id, at |-> "waiting", chan |-> <<>>]
        OBVIOUS
      <4>4. r.id = id /\ r.at = "waiting" /\ id.target = m.target /\ id.period = m.period
        BY <4>3
      <4>5. r \in relays'[n]
        BY <1>9, <4>3 DEF EvidenceInv, TypeOK, RelaysOK
      <4>6. Message("ping", n, m.target, m.period, NoTarget) \in BagToSet(net')
        BY <1>9, AddMessages DEF Replace
      <4> HIDE DEF id
      <4>7. Pinging(n, r)'
        BY <4>4, <4>6 DEF Pinging, InFlight, Mail
      <4>8. r \in Running(n, ProbeId(q))'
        BY <3>1, <4>2, <4>4, <4>5 DEF Running
      <4> QED
        BY <4>2, <4>7, <4>8 DEF Through
    <3>5. m # Reply(h, ProbeId(q))
      BY <1>2, MessageFields DEF Reply
    <3> QED
      BY <2>1, <3>2, <3>3, <3>4, <3>5 DEF Through, InFlight
  <2>2. Indirect(q) => Indirect(q)'
    BY <1>3, <2>1, IndirectKept
  <2> QED
    BY <1>3, <1>6, <1>7, <1>9, <2>2, WaysKept
<1> QED
  BY <1>8, <1>9 DEF ReceivePingReq, Slip

(***************************************************************************)
(* Listen hands an ack on: to the prober, which has it then or has another *)
(* one still to take, or to the relay that waits for it.                   *)
(***************************************************************************)
LEMMA DeliverBacked ==
  ASSUME EvidenceInv, Addressed, slips \in Nat, slips' \in Nat, NEW n \in Nodes, Deliver(n), panicked' = {},
         NEW q \in up, Backed(q)
  PROVE  Backed(q)'
<1> DEFINE a == Head(listen[n]).ack
           to == Head(listen[n]).relay
<1>1. /\ q \in Nodes /\ listen[n] # <<>> /\ net' = net /\ phase' = phase /\ target' = target
      /\ period' = period /\ members' = members
  BY DEF Deliver, loops, EvidenceInv, TypeOK, LoopsOK
<1>2. Still(q)
  <2>1. up' \subseteq up
    BY DEF Deliver, machines
  <2>2. acks[q] # <<>> => acks'[q] = acks[q]
    BY <1>1 DEF Deliver, EvidenceInv, TypeOK, ChannelsOK
  <2>3. \A x : <<x>> # <<>>
    OBVIOUS
  <2> QED
    BY <1>1, <2>1, <2>2, <2>3 DEF Still, Waiting
<1>3. Direct(q) => Direct(q)'
  BY <1>1 DEF Direct, InFlight
<1>4. listen'[n] = <<>> /\ \A h \in Nodes \ {n} : listen'[h] = listen[h]
  BY DEF Deliver, EvidenceInv, TypeOK, ChannelsOK
<1>5. q # n => (Heard(q) => Heard(q)')
  BY <1>1, <1>4 DEF Heard, Holds
<1>6. ASSUME NEW h \in Nodes, NEW r \in relays[h], Pinging(h, r), h # n \/ to = {},
             relays' = relays \/ h # n
      PROVE  Pinging(h, r)'
  <2>1. CASE Holds(h, r.id.target, r.id.period, {r.id})
    <3>1. Head(listen[h]).relay = {r.id}
      BY <2>1 DEF Holds
    <3>2. h # n
      BY <1>6, <3>1
    <3> QED
      BY <1>4, <1>6, <2>1, <3>2 DEF Pinging, Holds
  <2> QED
    BY <1>1, <1>6, <2>1 DEF Pinging, InFlight
<1>7. members[q] \subseteq Nodes /\ q \notin members[q] /\ ProbeId(q)' = ProbeId(q)
  BY <1>1 DEF ProbeId, EvidenceInv, TypeOK, LoopsOK
<1>8. ASSUME NEW h \in members[q], Through(q, h)
      PROVE  Through(q, h)'
  <2>1. Asked(q, h)' = Asked(q, h)
    BY <1>1 DEF Asked
  <2>2. InFlight({Asked(q, h), Reply(h, ProbeId(q))}) => Through(q, h)'
    BY <1>1, <1>7, <2>1 DEF Through, InFlight
  <2>3. ASSUME NEW r \in Running(h, ProbeId(q)), Pinging(h, r)
        PROVE  Through(q, h)'
    <3>1. r \in relays[h] /\ r.id = ProbeId(q) /\ h \in Nodes
      BY <1>7 DEF Running
    <3>2. CASE h # n \/ (to = {} /\ relays' = relays)
      <4>1. relays'[h] = relays[h]
        BY <3>1, <3>2, DeliverRelays DEF EvidenceInv, TypeOK, RelaysOK
      <4>2. r \in Running(h, ProbeId(q))'
        BY <1>7, <3>1, <4>1 DEF Running
      <4>3. Pinging(h, r)'
        BY <1>6, <2>3, <3>1, <3>2
      <4> QED
        BY <4>2, <4>3 DEF Through
    <3>3. CASE h = n /\ relays' = [relays EXCEPT ![n] = {Filled(s, n) : s \in relays[n]}]
      <4>1. PICK s : s = Filled(r, n)
        OBVIOUS
      <4>2. s \in relays'[n] /\ s.id = r.id /\ s.at = r.at
        BY <1>1, <3>1, <3>3, <4>1, FilledRelay DEF EvidenceInv, TypeOK, RelaysOK
      <4>3. r.chan # <<>> \/ r.id \in to => s.chan # <<>>
        BY <1>1, <3>1, <3>3, <4>1, FilledRelay
      <4>4. Pinging(n, s)'
        <5>1. CASE Holds(n, r.id.target, r.id.period, {r.id})
          <6>1. r.id \in to
            BY <5>1 DEF Holds
          <6> QED
            BY <2>3, <4>2, <4>3, <6>1 DEF Pinging
        <5>2. CASE InFlight(Mail(n, r.id.target, r.id.period))
          BY <1>1, <2>3, <4>2, <5>2 DEF Pinging, InFlight
        <5> QED
          BY <2>3, <3>3, <4>2, <4>3, <5>1, <5>2 DEF Pinging
      <4>5. s \in Running(n, ProbeId(q))'
        BY <1>7, <3>1, <4>2 DEF Running
      <4> QED
        BY <3>3, <4>4, <4>5 DEF Through
    <3>4. \/ to = {} /\ relays' = relays
          \/ relays' = [relays EXCEPT ![n] = {Filled(s, n) : s \in relays[n]}]
      BY DEF Deliver, Filled
    <3> QED
      BY <3>2, <3>3, <3>4
  <2> QED
    BY <1>8, <2>2, <2>3 DEF Through
<1>9. Indirect(q) => Indirect(q)'
  BY <1>1, <1>2, <1>8, IndirectKept
<1>10. CASE q # n \/ ~Heard(n)
  <2>1. slips' >= slips
    BY DEF Deliver, Slip
  <2> QED
    BY <1>2, <1>3, <1>5, <1>9, <1>10, <2>1, WayLost
<1>11. CASE q = n /\ Heard(n) /\ acks[n] # <<>>
  <2>1. to = {}
    BY <1>11 DEF Heard, Holds
  <2>2. Waiting(n) => slips' = slips + 1
    BY <1>11, <2>1 DEF Deliver, Slip
  <2> QED
    BY <1>2, <1>3, <1>9, <1>11, <2>2, WayLost
<1>12. CASE q = n /\ Heard(n) /\ acks[n] = <<>>
  <2>1. to = {} /\ a = AckOf(target[n], period[n])
    BY <1>12 DEF Heard, Holds
  <2>2. acks' = [acks EXCEPT ![n] = <<a>>]
    BY <1>12, <2>1 DEF Deliver, EvidenceInv, TypeOK, ChannelsOK
  <2>3. acks'[n] = <<AckOf(target'[n], period'[n])>>
    BY <1>1, <2>1, <2>2 DEF EvidenceInv, TypeOK, ChannelsOK
  <2> QED
    BY <1>12, <2>3 DEF Backed, AckOf
<1> QED
  BY <1>10, <1>11, <1>12

(***************************************************************************)
(* A relay changes: only the way that leads through it can be affected.    *)
(***************************************************************************)
LEMMA OtherRelays ==
  ASSUME NEW n \in Nodes, NEW r \in relays[n], NEW q \in up, NEW h \in Nodes,
         Still(q), UNCHANGED listen, BagToSet(net) \subseteq BagToSet(net'),
         relays[n] \subseteq relays'[n] \cup {r}, \A k \in Nodes \ {n} : relays'[k] = relays[k],
         Through(q, h), ~Through(q, h)'
  PROVE  h = n /\ r.id = ProbeId(q) /\ Pinging(h, r)
<1>1. ProbeId(q)' = ProbeId(q) /\ Asked(q, h)' = Asked(q, h)
  BY DEF Still, ProbeId, Asked
<1>2. ~InFlight({Asked(q, h), Reply(h, ProbeId(q))})
  BY <1>1 DEF Through, InFlight
<1>3. PICK s \in Running(h, ProbeId(q)) : Pinging(h, s)
  BY <1>2 DEF Through
<1>4. Pinging(h, s)'
  BY <1>3 DEF Pinging, InFlight, Holds
<1>5. s \notin Running(h, ProbeId(q))'
  BY <1>4 DEF Through
<1>6. s \in relays[h] /\ s \notin relays'[h] /\ s.id = ProbeId(q)
  BY <1>1, <1>5 DEF Running
<1>7. h = n /\ s = r
  BY <1>6
<1> QED
  BY <1>3, <1>6, <1>7

LEMMA RelayAckBacked ==
  ASSUME EvidenceInv, Addressed, slips \in Nat, NEW n \in Nodes, NEW r \in relays[n], RelayAck(n, r),
         NEW q \in up, Backed(q)
  PROVE  Backed(q)'
<1>1. Matches(Head(r.chan), r.id.target, r.id.period)
  <2>1. Head(r.chan) = AckOf(r.id.target, r.id.period)
    BY DEF RelayAck, Addressed, RelaysRight
  <2> QED
    BY <2>1 DEF Matches, AckOf
<1>2. relays[n] \subseteq relays'[n] \cup {r} /\ \A k \in Nodes \ {n} : relays'[k] = relays[k]
  BY DEF RelayAck, EvidenceInv, TypeOK, RelaysOK
<1>3. BagToSet(net') = BagToSet(net) \cup {Reply(n, r.id)}
  BY <1>1, AddMessages DEF RelayAck, Send
<1>4. Still(q) /\ phase'[q] = phase[q] /\ slips' = slips /\ listen' = listen
  BY DEF RelayAck, loops, machines, Still, Waiting
<1>5. members[q] \subseteq Nodes
  BY RealTarget DEF EvidenceInv, TypeOK, LoopsOK
<1>6. ASSUME NEW h \in members[q], Through(q, h), ~Through(q, h)'
      PROVE  FALSE
  <2>1. h = n /\ r.id = ProbeId(q)
    <3>1. BagToSet(net) \subseteq BagToSet(net') /\ h \in Nodes /\ UNCHANGED listen
      BY <1>3, <1>4, <1>5
    <3> QED
      BY <1>2, <1>4, <1>6, <3>1, OtherRelays
  <2>2. ProbeId(q)' = ProbeId(q)
    BY <1>4 DEF Still, ProbeId
  <2>3. Reply(h, ProbeId(q))' \in BagToSet(net')
    BY <1>3, <2>1, <2>2 DEF Reply
  <2> QED
    BY <1>6, <2>3 DEF Through, InFlight
<1>7. Indirect(q) => Indirect(q)'
  BY <1>4, <1>6, IndirectKept
<1>8. Direct(q) => Direct(q)'
  BY <1>3, <1>4 DEF Still, Direct, InFlight
<1>9. Heard(q) => Heard(q)'
  BY <1>4 DEF Still, Heard, Holds
<1> QED
  BY <1>4, <1>7, <1>8, <1>9, WaysKept

LEMMA RelayTimeoutBacked ==
  ASSUME EvidenceInv, slips \in Nat, slips' \in Nat, NEW n \in up, NEW r \in relays[n], RelayTimeout(n, r),
         NEW q \in up, Backed(q)
  PROVE  Backed(q)'
<1>1. relays[n] \subseteq relays'[n] \cup {r} /\ \A k \in Nodes \ {n} : relays'[k] = relays[k]
  BY DEF RelayTimeout, EvidenceInv, TypeOK, RelaysOK
<1>2. /\ Still(q) /\ phase'[q] = phase[q] /\ listen' = listen /\ net' = net
      /\ q \in Nodes /\ n \in Nodes
  BY DEF RelayTimeout, loops, machines, Still, Waiting, EvidenceInv, TypeOK, LoopsOK
<1>3. members[q] \subseteq Nodes
  BY <1>2 DEF EvidenceInv, TypeOK, LoopsOK
<1>4. Direct(q) => Direct(q)'
  BY <1>2 DEF Still, Direct, InFlight
<1>5. Heard(q) => Heard(q)'
  BY <1>2 DEF Still, Heard, Holds
<1>6. CASE Delivered(r.id.period)
  <2>1. ASSUME NEW h \in members[q], Through(q, h), ~Through(q, h)'
        PROVE  FALSE
    <3>1. h = n /\ Pinging(n, r)
      BY <1>1, <1>2, <1>3, <2>1, OtherRelays
    <3>2. r.chan = <<>>
      BY <1>6 DEF Delivered
    <3>3. ~InFlight(Mail(n, r.id.target, r.id.period))
      BY <1>6, MessageFields DEF Delivered, InFlight, Mail
    <3>4. ~Holds(n, r.id.target, r.id.period, {r.id})
      <4> SUFFICES ASSUME Holds(n, r.id.target, r.id.period, {r.id})
                   PROVE  FALSE
        OBVIOUS
      <4>1. Head(listen[n]).ack.period = r.id.period
        BY DEF Holds, AckOf
      <4> QED
        BY <1>6, <4>1 DEF Delivered, Holds
    <3> QED
      BY <3>1, <3>2, <3>3, <3>4 DEF Pinging
  <2>2. Indirect(q) => Indirect(q)'
    BY <1>2, <2>1, IndirectKept
  <2>3. slips' = slips
    BY <1>6 DEF RelayTimeout, Slip
  <2> QED
    BY <1>2, <1>4, <1>5, <2>2, <2>3, WaysKept
<1>7. CASE ~Delivered(r.id.period)
  <2>1. slips' = slips + 1
    BY <1>7 DEF RelayTimeout, Slip
  <2> QED
    BY <1>2, <1>4, <1>5, <2>1, WayLost
<1> QED
  BY <1>6, <1>7

LEMMA RelayDoneBacked ==
  ASSUME EvidenceInv, slips \in Nat, NEW n \in Nodes, NEW r \in relays[n], RelayDone(n, r),
         NEW q \in up, Backed(q)
  PROVE  Backed(q)'
<1>1. relays[n] \subseteq relays'[n] \cup {r} /\ \A k \in Nodes \ {n} : relays'[k] = relays[k]
  BY DEF RelayDone, EvidenceInv, TypeOK, RelaysOK
<1>2. Still(q) /\ phase'[q] = phase[q] /\ slips' = slips /\ listen' = listen /\ net' = net
  BY DEF RelayDone, loops, machines, Still, Waiting
<1>3. members[q] \subseteq Nodes
  BY RealTarget DEF EvidenceInv, TypeOK, LoopsOK
<1>4. ASSUME NEW h \in members[q], Through(q, h), ~Through(q, h)'
      PROVE  FALSE
  <2>1. Pinging(h, r)
    BY <1>1, <1>2, <1>3, <1>4, OtherRelays
  <2> QED
    BY <2>1 DEF Pinging, RelayDone
<1>5. Indirect(q) => Indirect(q)'
  BY <1>2, <1>4, IndirectKept
<1>6. Direct(q) => Direct(q)'
  BY <1>2 DEF Still, Direct, InFlight
<1>7. Heard(q) => Heard(q)'
  BY <1>2 DEF Still, Heard, Holds
<1> QED
  BY <1>2, <1>5, <1>6, <1>7, WaysKept

(***************************************************************************)
(* A message that is lost belongs to one way at most, and costs a slip.    *)
(***************************************************************************)
LEMMA LoseBacked ==
  ASSUME EvidenceInv, TargetsListed, slips \in Nat, slips' \in Nat, NEW m \in BagToSet(net), Lose(m),
         NEW q \in up, Backed(q)
  PROVE  Backed(q)'
<1>1. BagToSet(net) \subseteq BagToSet(net') \cup {m}
  BY OthersKept DEF Lose
<1>2. Still(q) /\ phase'[q] = phase[q] /\ UNCHANGED <<listen, relays>>
  BY DEF Lose, loops, machines, relaying, Still, Waiting
<1>3. Heard(q) => Heard(q)'
  BY <1>2 DEF Still, Heard, Holds
<1> SUFFICES ASSUME Waiting(q), Blame(q) # {}
             PROVE  Backed(q)'
  BY <1>2, StillProbing DEF Backed
<1>4. members[q] \subseteq up /\ target[q] \in members[q] /\ q \notin members[q]
  BY RealTarget DEF Blame, TargetsListed, EvidenceInv, TypeOK, LoopsOK
<1>5. ASSUME NEW a, NEW t, NEW k, InFlight(Mail(a, t, k)), ~InFlight(Mail(a, t, k))'
      PROVE  \/ m.kind = "ping" /\ m.src = a /\ m.dst = t
             \/ m.kind = "ack" /\ m.dst = a /\ m.target = NoTarget
  <2>1. m \in Mail(a, t, k)
    BY <1>1, <1>5 DEF InFlight
  <2> QED
    BY <2>1, MessageFields DEF Mail
<1>6. ASSUME Direct(q), ~Direct(q)'
      PROVE  /\ m.dst \in up
             /\ \/ m.kind = "ping" /\ m.src = q
                \/ m.kind = "ack" /\ m.dst = q /\ m.target = NoTarget
  BY <1>2, <1>4, <1>5, <1>6 DEF Still, Direct
<1>7. ASSUME Indirect(q), ~Indirect(q)'
      PROVE  /\ m.dst \in up
             /\ ~(m.kind = "ping" /\ m.src = q)
             /\ ~(m.kind = "ack" /\ m.dst = q /\ m.target = NoTarget)
  <2>1. PICK h \in members[q] : Through(q, h)
    BY <1>2, <1>7 DEF Indirect
  <2>2. ~Through(q, h)'
    BY <1>2, <1>7 DEF Indirect, Still
  <2>3. ProbeId(q)' = ProbeId(q) /\ Asked(q, h)' = Asked(q, h)
    BY <1>2 DEF Still, ProbeId, Asked
  <2>4. CASE m = Asked(q, h)
    BY <1>4, <2>4, MessageFields DEF Asked
  <2>5. CASE m = Reply(h, ProbeId(q))
    <3>1. m.kind = "ack" /\ m.dst = q /\ m.target = target[q]
      BY <2>5, MessageFields DEF Reply, ProbeId
    <3> QED
      BY <3>1, RealTarget
  <2>6. CASE m # Asked(q, h) /\ m # Reply(h, ProbeId(q))
    <3>1. ~InFlight({Asked(q, h), Reply(h, ProbeId(q))})
      BY <1>1, <2>2, <2>3, <2>6 DEF Through, InFlight
    <3>2. PICK r \in Running(h, ProbeId(q)) : Pinging(h, r)
      BY <2>1, <3>1 DEF Through
    <3>3. r \in Running(h, ProbeId(q))' /\ r.id.target = target[q]
      BY <1>2, <2>3 DEF Running, ProbeId
    <3>4. ~Pinging(h, r)'
      BY <2>2, <3>3 DEF Through
    <3>5. /\ InFlight(Mail(h, r.id.target, r.id.period))
          /\ ~InFlight(Mail(h, r.id.target, r.id.period))'
      BY <1>2, <3>2, <3>4 DEF Pinging, Holds
    <3>6. \/ m.kind = "ping" /\ m.src = h /\ m.dst = target[q]
          \/ m.kind = "ack" /\ m.dst = h /\ m.target = NoTarget
      BY <1>5, <3>3, <3>5
    <3> QED
      BY <1>4, <3>6
  <2> QED
    BY <2>4, <2>5, <2>6
<1>8. slips' = slips + IF m.dst \in up THEN 1 ELSE 0
  BY DEF Lose, Slip
<1>9. CASE (Direct(q) => Direct(q)') /\ (Indirect(q) => Indirect(q)')
  <2>1. slips' >= slips
    BY <1>8
  <2> QED
    BY <1>2, <1>3, <1>9, <2>1, WayLost
<1>10. CASE Direct(q) /\ ~Direct(q)'
  <2>1. Indirect(q) => Indirect(q)'
    BY <1>6, <1>7, <1>10
  <2>2. slips' >= slips + 1
    BY <1>6, <1>8, <1>10
  <2> QED
    BY <1>2, <1>3, <2>1, <2>2, WayLost
<1>11. CASE Indirect(q) /\ ~Indirect(q)'
  <2>1. Direct(q) => Direct(q)'
    BY <1>6, <1>7, <1>11
  <2>2. slips' >= slips + 1
    BY <1>7, <1>8, <1>11
  <2> QED
    BY <1>2, <1>3, <2>1, <2>2, WayLost
<1> QED
  BY <1>9, <1>10, <1>11

LEMMA CrashBacked ==
  ASSUME EvidenceInv, slips \in Nat, NEW n, Crash(n), NEW q \in up, Backed(q)
  PROVE  Backed(q)'
<1>1. Still(q) /\ phase'[q] = phase[q] /\ slips' = slips /\ UNCHANGED <<listen, relays, net>>
  BY DEF Crash, loops, relaying, Still, Waiting
<1> QED
  BY <1>1, QuietStep, RealTarget

LEMMA StutterBacked ==
  ASSUME EvidenceInv, slips \in Nat, UNCHANGED vars, NEW q \in up, Backed(q)
  PROVE  Backed(q)'
<1>1. Still(q) /\ phase'[q] = phase[q] /\ slips' = slips /\ UNCHANGED <<listen, relays, net>>
  BY DEF vars, loops, relaying, machines, Still, Waiting
<1> QED
  BY <1>1, QuietStep, RealTarget

LEMMA BackedStep ==
  ASSUME EvidenceInv, Addressed, KeysApart, slips \in Nat, [Next]_vars, Undisturbed', NEW q \in up, Backed(q)
  PROVE  Backed(q)'
<1>1. slips' \in Nat /\ slips <= slips' /\ panicked' = {} /\ TargetsListed
  BY SlipsGrow DEF Undisturbed, Addressed
<1>2. ASSUME NEW n \in Nodes, \/ \E p \in Nodes : StartPeriod(n, p)
                              \/ SkipPeriod(n) \/ AckTimeout(n) \/ TakeAck(n)
                              \/ PeriodEnds(n) \/ Deliver(n)
      PROVE  Backed(q)'
  BY <1>1, <1>2, StartPeriodBacked, SkipPeriodBacked, AckTimeoutBacked, TakeAckBacked,
     PeriodEndsBacked, DeliverBacked
<1>3. ASSUME NEW n \in Nodes, Receive(n)
      PROVE  Backed(q)'
  BY <1>1, <1>3, ReceivePingBacked, ReceiveAckBacked, ReceivePingReqBacked DEF Receive
<1>4. ASSUME NEW n \in Nodes, Relay(n)
      PROVE  Backed(q)'
  BY <1>1, <1>4, RelayAckBacked, RelayTimeoutBacked, RelayDoneBacked DEF Relay
<1>5. CASE \E m \in BagToSet(net) : Lose(m)
  BY <1>1, <1>5, LoseBacked
<1>6. CASE \E n \in Crashing : Crash(n)
  BY <1>6, CrashBacked
<1>7. CASE UNCHANGED vars
  BY <1>7, StutterBacked
<1> QED
  BY <1>2, <1>3, <1>4, <1>5, <1>6, <1>7 DEF Next

(***************************************************************************)
(* The verdict: when a period is over and nothing was heard, both ways are *)
(* closed.                                                                 *)
(***************************************************************************)
LEMMA NoWayLeft ==
  ASSUME EvidenceInv, NEW n \in up, phase[n] = "asked", Blame(n) # {}, Over(period[n])
  PROVE  ~Direct(n) /\ ~Indirect(n) /\ ~Heard(n)
<1>1. \A m \in BagToSet(net) : m.period # period[n]
  BY DEF Over, Delivered
<1>2. ~Direct(n)
  BY <1>1, MessageFields DEF Direct, InFlight, Mail
<1>3. ASSUME NEW h \in members[n], Through(n, h)
      PROVE  FALSE
  <2>1. h \in up
    BY DEF Blame
  <2>2. ~InFlight({Asked(n, h), Reply(h, ProbeId(n))})
    BY <1>1, MessageFields DEF InFlight, Asked, Reply, ProbeId
  <2>3. PICK r \in Running(h, ProbeId(n)) : Pinging(h, r)
    BY <1>3, <2>2 DEF Through
  <2>4. r \in relays[h] /\ r.id.period = period[n]
    BY DEF Running, ProbeId
  <2> QED
    BY <2>1, <2>4 DEF Over
<1>4. ~Indirect(n)
  BY <1>3 DEF Indirect
<1>5. ASSUME Heard(n)
      PROVE  FALSE
  <2>1. Head(listen[n]).ack.period = period[n]
    BY <1>5 DEF Heard, Holds, AckOf
  <2> QED
    BY <1>5, <2>1 DEF Heard, Holds, Over, Delivered
<1> QED
  BY <1>2, <1>4, <1>5

LEMMA VerdictPaid ==
  ASSUME EvidenceInv, slips \in Nat, NEW n \in up, Backed(n), PeriodEnds(n), accused' # accused
  PROVE  slips' >= 2
<1>1. Waiting(n) /\ Blame(n) # {}
  BY DEF PeriodEnds
<1>2. CASE Over(period[n]) /\ phase[n] = "asked" /\ acks[n] = <<>>
  <2>1. ~Direct(n) /\ ~Indirect(n) /\ ~Heard(n)
    BY <1>1, <1>2, NoWayLeft
  <2>2. acks[n] # <<AckOf(target[n], period[n])>>
    BY <1>2
  <2>3. PICK a \in {0, 1} : a = Open(Direct(n)) /\ (a = 1 <=> Direct(n))
    BY OpenValue
  <2>4. PICK b \in {0, 1} : b = Open(Indirect(n)) /\ (b = 1 <=> Indirect(n))
    BY OpenValue
  <2>5. PICK c \in {0, 1} : c = Open(Heard(n)) /\ (c = 1 <=> Heard(n))
    BY OpenValue
  <2>6. slips + a + b + c >= 2
    BY <1>1, <2>2, <2>3, <2>4, <2>5 DEF Backed
  <2>7. slips' = slips
    BY <1>1, <1>2 DEF PeriodEnds, Slip, Waiting
  <2> QED
    BY <2>1, <2>3, <2>4, <2>5, <2>6, <2>7
<1>3. CASE ~(Over(period[n]) /\ phase[n] = "asked" /\ acks[n] = <<>>)
  BY <1>1, <1>3 DEF PeriodEnds, Slip, Waiting
<1> QED
  BY <1>2, <1>3

LEMMA InitBackup == Init => BackupInv
BY DEF Init, BackupInv, Addressed, TargetsListed, ListenersRight, RelaysRight, KeysApart,
       ProbesApart, RelaysApart, Backed, Waiting, OneSlipTolerated

LEMMA NextBackup == EvidenceInv /\ BackupInv /\ [Next]_vars => BackupInv'
<1> SUFFICES ASSUME EvidenceInv, BackupInv, [Next]_vars PROVE BackupInv'
  OBVIOUS
<1>1. Addressed' /\ slips' \in Nat /\ slips <= slips'
  BY AddressedStep, SlipsGrow DEF BackupInv
<1>2. ASSUME Undisturbed'
      PROVE  KeysApart' /\ \A q \in up' : Backed(q)'
  <2>1. Undisturbed /\ KeysApart /\ \A q \in up : Backed(q)
    BY <1>2, UndisturbedBefore DEF BackupInv
  <2>2. KeysApart'
    BY <1>2, <2>1, ProbesApartStep, RelaysApartStep DEF KeysApart, BackupInv
  <2>3. up' \subseteq up
    BY DEF Next, StartPeriod, SkipPeriod, AckTimeout, TakeAck, PeriodEnds, Receive, ReceivePing,
           ReceiveAck, ReceivePingReq, Deliver, Relay, RelayAck, RelayTimeout, RelayDone, Lose,
           Crash, vars, machines
  <2> QED
    BY <1>2, <2>1, <2>2, <2>3, BackedStep DEF BackupInv
<1>3. ASSUME slips' <= 1, Undisturbed'
      PROVE  accused' = {}
  <2>1. accused = {} /\ \A q \in up : Backed(q)
    BY <1>1, <1>3, UndisturbedBefore DEF BackupInv, OneSlipTolerated
  <2>2. CASE accused' = accused
    BY <2>1, <2>2
  <2>3. ASSUME NEW n \in Nodes, PeriodEnds(n), accused' # accused
        PROVE  FALSE
    <3>1. n \in up
      BY <2>3 DEF PeriodEnds
    <3>2. slips' >= 2
      BY <2>1, <2>3, <3>1, VerdictPaid DEF BackupInv
    <3> QED
      BY <1>1, <1>3, <3>2
  <2> QED
    BY <2>2, <2>3
    DEF Next, StartPeriod, SkipPeriod, AckTimeout, TakeAck, Receive, ReceivePing, ReceiveAck,
        ReceivePingReq, Deliver, Relay, RelayAck, RelayTimeout, RelayDone, Lose, Crash, vars, history
<1> QED
  BY <1>1, <1>2, <1>3 DEF BackupInv, OneSlipTolerated

(***************************************************************************)
(* WaysPaidFor.  Direct and indirect probing are two independent ways to   *)
(* hear of a running peer: as long as no key of Listen's table is shared,  *)
(* each of them that is cut off has cost a slip.                           *)
(***************************************************************************)
THEOREM WaysPaidFor == Spec => []BackupInv
<1>1. EvidenceInv /\ BackupInv /\ EvidenceInv' /\ [Next]_vars => BackupInv'
  BY NextBackup
<1> QED
  BY <1>1, InitBackup, AcksTrue, PTL DEF Spec

(***************************************************************************)
(* SlipTolerated.  One lost, late or dropped message, or one relay that    *)
(* gives up too soon, never has a running peer declared dead, whatever the *)
(* number of nodes, members asked and periods.                             *)
(***************************************************************************)
THEOREM SlipTolerated == Spec => []OneSlipTolerated
<1>1. BackupInv => OneSlipTolerated
  BY DEF BackupInv
<1> QED
  BY <1>1, WaysPaidFor, PTL
(***************************************************************************)
(* Invariance.  The inductive invariant the run checks: both of the above. *)
(***************************************************************************)
THEOREM Invariance == Spec => []Inv
<1>1. EvidenceInv /\ BackupInv => Inv
  BY DEF Inv
<1> QED
  BY <1>1, AcksTrue, WaysPaidFor, PTL
=============================================================================
