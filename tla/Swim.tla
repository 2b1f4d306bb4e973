-------------------------------- MODULE Swim --------------------------------
(***************************************************************************)
(* Membership of the whole cluster: what the member lists of the nodes     *)
(* become when deaths are detected, rightly or wrongly, spread by          *)
(* piggybacked events, and undone by the join requests every node keeps    *)
(* sending to its seeds.                                                   *)
(*                                                                         *)
(* A join changes the list in one critical section and has process record  *)
(* each return in another one, so that deaths come in between; the         *)
(* goroutines that serve joins are threads.  A death is one step here: a   *)
(* join between its two critical sections finds the peer on the list and   *)
(* leaves it alone, as it does before the death.  MemberList has the steps *)
(* of both, Probe the detection of a death.                                *)
(*                                                                         *)
(* Messages that carry no events have no effect here and are left out:     *)
(* Carry stands for the pings and acks a node sends.                       *)
(***************************************************************************)
EXTENDS EventQueue, FiniteSets

CONSTANTS
  Nodes,
  Seeds,          \* Seeds[n]: the nodes n sends join requests to
  Crashing,       \* the nodes that may crash
  Handlers,       \* bound: the goroutines of a node that serve join requests
  MaxFaults,      \* bound: crashes, running nodes declared dead, messages lost,
                  \* rounds that meet news or another join
  MaxInFlight     \* bound: messages in flight, answers to joins apart

ASSUME SwimAssumption ==
  /\ IsFiniteSet(Nodes)
  /\ Seeds \in [Nodes -> SUBSET Nodes]
  /\ \A n \in Nodes : n \notin Seeds[n]
  /\ Crashing \subseteq Nodes
  /\ "bootstrap" \notin Handlers
  /\ MaxFaults \in Nat
  /\ {MaxPiggyback, Factor, MaxInFlight} \subseteq Nat \ {0}

VARIABLES
  list,        \* list[n]: the members n knows
  state,       \* state[n][p]: the kind of the last event of p at n
  deadPeers,   \* deadPeers[n]: the dead n knows
  thread,      \* thread[n][t]: what the call of join in goroutine t of n has to do
  queue,       \* queue[n]: Member.eventQueue
  net,         \* messages, join requests and responses in flight
  up,          \* the nodes that run
  faults       \* faults so far (bound only)

lists == <<list, state, deadPeers>>
vars == <<lists, thread, queue, net, up, faults>>

Event(kind, p) == [kind |-> kind, node |-> p]
Items(kind, S) == SetToBag({Item(Event(kind, p)) : p \in S})

(***************************************************************************)
(* A call of join that has changed the list has returns to record, and, if *)
(* somebody waits for it, a caller to answer.                              *)
(***************************************************************************)
Threads == {"bootstrap"} \cup Handlers
Call(todo, caller) == [todo |-> todo, caller |-> caller]
Idle == Call({}, {})
Free(n, t) == thread[n][t] = Idle

\* A step that counts as a fault if it is bad.
Fault(bad) == IF bad THEN faults < MaxFaults /\ faults' = faults + 1 ELSE UNCHANGED faults

NoState == [p \in Nodes |-> "unknown"]

Init ==
  /\ list = [n \in Nodes |-> Nodes \ {n}]
  /\ state = [n \in Nodes |-> [p \in Nodes |-> IF p = n THEN "unknown" ELSE "alive"]]
  /\ deadPeers = [n \in Nodes |-> {}]
  /\ thread = [n \in Nodes |-> [t \in Threads |-> Idle]]
  /\ queue = [n \in Nodes |-> EmptyBag]
  /\ net = {}
  /\ up = Nodes
  /\ faults = 0

-----------------------------------------------------------------------------
(***************************************************************************)
(* Node n learns that the nodes of S are dead (peers.process): those it    *)
(* did not know to be dead leave the list, become dead peers, and their    *)
(* death is queued.  One of them may be n itself.                          *)
(***************************************************************************)
LearnDead(n, S) ==
  LET new == {p \in S : state[n][p] # "dead"}
  IN  /\ list' = [list EXCEPT ![n] = @ \ new]
      /\ state' = [state EXCEPT ![n] = [p \in Nodes |-> IF p \in new THEN "dead" ELSE @[p]]]
      /\ deadPeers' = [deadPeers EXCEPT ![n] = @ \cup new]
      /\ queue' = [queue EXCEPT ![n] = Push(@, Items("dead", new))]

(***************************************************************************)
(* The failure detector of n gives p up, because it crashed or by mistake. *)
(***************************************************************************)
Detect(n, p) ==
  /\ n \in up
  /\ p \in list[n] \ up
  /\ LearnDead(n, {p})
  /\ UNCHANGED <<thread, net, up, faults>>

Suspect(n, p) ==
  /\ n \in up
  /\ p \in list[n] \cap up
  /\ Fault(TRUE)
  /\ LearnDead(n, {p})
  /\ UNCHANGED <<thread, net, up>>

(***************************************************************************)
(* One of the two sends to the other: a node pings its members and, for a  *)
(* third one that asked it to, members of that one, and it answers who     *)
(* pings it.                                                               *)
(***************************************************************************)
Talk(n, p) ==
  \/ p \in list[n] \/ n \in list[p]
  \/ n # p /\ \E x \in up : {n, p} \subseteq list[x]

(***************************************************************************)
(* A ping of n to p, or the ack of p's ping to n, takes along the events   *)
(* that have been sent least often.                                        *)
(***************************************************************************)
Carry(n, p) ==
  /\ {n, p} \subseteq up
  /\ Talk(n, p)
  /\ queue[n] # EmptyBag
  /\ Cardinality(net) < MaxInFlight
  /\ \E b \in Pop(queue[n], MaxPiggyback) :
       /\ queue' = [queue EXCEPT ![n] =
                      Push(@ (-) b, Requeued(b, Cardinality(list[n])))]
       /\ net' = net \cup {[kind |-> "swim", src |-> n, dst |-> p,
                            events |-> {i.event : i \in BagToSet(b)}]}
  /\ UNCHANGED <<lists, thread, up, faults>>

(***************************************************************************)
(* Listen: of the events of a message only the deaths count.               *)
(***************************************************************************)
News(m) == {e.node : e \in {e \in m.events : e.kind = "dead"}}

Listen(m) ==
  /\ m \in net /\ m.kind = "swim"
  /\ m.dst \in up
  /\ LearnDead(m.dst, News(m))
  /\ net' = net \ {m}
  /\ UNCHANGED <<thread, up, faults>>

-----------------------------------------------------------------------------
(***************************************************************************)
(* Bootstrap: a round of the loop sends its list to a seed.                *)
(***************************************************************************)
Body(n) == list[n] \cup {n}

JoinRequest(n, s) ==
  /\ n \in up
  /\ Free(n, "bootstrap")
  /\ Cardinality(net) < MaxInFlight
  /\ net' = net \cup {[kind |-> "join", src |-> n, dst |-> s, members |-> Body(n)]}
  /\ UNCHANGED <<lists, thread, queue, up>>

(***************************************************************************)
(* News is on its way, in a message, in a queue or in a join that has not  *)
(* recorded it yet, or a join is being served.                             *)
(***************************************************************************)
Spreading ==
  \/ \E m \in net : m.kind = "swim"
  \/ \E n, p \in up : queue[n] # EmptyBag /\ Talk(n, p)
  \/ \E n \in up, t \in Threads : thread[n][t].todo # {}

Joining == \E n \in up, t \in Threads : ~Free(n, t)

(***************************************************************************)
(* Nothing in the code makes a round wait for anybody.  But the loop waits *)
(* longer and longer between its rounds, up to five minutes, while news    *)
(* spreads within some protocol periods: a round that meets news or the    *)
(* join of another node is counted with the faults, of which there are     *)
(* finitely many.                                                          *)
(***************************************************************************)
Round(n, s) == JoinRequest(n, s) /\ Fault(Spreading \/ Joining)

\* Mutant: a sender that was declared dead stays dead.
BuriedMutantForever(n, m) == deadPeers[n]

(***************************************************************************)
(* Member.join at node n, in goroutine t.  The list changes in the one     *)
(* critical section of peers.join: the sender of the body is no longer     *)
(* dead, and the members of the body that are not dead are added.          *)
(***************************************************************************)
Buried(n, m) == deadPeers[n] \ {m.src}

\* Mutant: a node may find itself in a body.
AddedMutantSelf(n, m) == m.members \ (Buried(n, m) \cup list[n])

Added(n, m) == m.members \ ({n} \cup Buried(n, m) \cup list[n])

Join(n, t, m, caller) ==
  /\ Free(n, t)
  /\ list' = [list EXCEPT ![n] = @ \cup Added(n, m)]
  /\ deadPeers' = [deadPeers EXCEPT ![n] = Buried(n, m)]
  /\ thread' = [thread EXCEPT ![n][t] = Call(Added(n, m), caller)]
  /\ net' = net \ {m}
  /\ UNCHANGED <<state, queue, up, faults>>

\* Mutant: a return is recorded for peers that were never heard of only.
RecordsMutantStrangers(n, p) == state[n][p] = "unknown"

(***************************************************************************)
(* Then process records each return, unless it is recorded already.        *)
(***************************************************************************)
Records(n, p) == state[n][p] # "alive"

LearnAlive(n, t) ==
  /\ n \in up
  /\ \E p \in thread[n][t].todo :
       /\ thread' = [thread EXCEPT ![n][t].todo = @ \ {p}]
       /\ IF Records(n, p)
            THEN /\ state' = [state EXCEPT ![n][p] = "alive"]
                 /\ queue' = [queue EXCEPT ![n] = Push(@, Items("alive", {p}))]
            ELSE UNCHANGED <<state, queue>>
  /\ UNCHANGED <<list, deadPeers, net, up, faults>>

(***************************************************************************)
(* JoinHandler answers with the list as it is after all that, if somebody  *)
(* still waits for the answer.                                             *)
(***************************************************************************)
JoinHandler(m) ==
  /\ m \in net /\ m.kind \in {"join", "orphan"}
  /\ m.dst \in up
  /\ \E h \in Handlers : Join(m.dst, h, m, IF m.kind = "join" THEN {m.src} ELSE {})

Answer(n, h) ==
  /\ n \in up
  /\ thread[n][h].todo = {}
  /\ \E q \in thread[n][h].caller :
       net' = net \cup {[kind |-> "joined", src |-> n, dst |-> q, members |-> Body(n)]}
  /\ thread' = [thread EXCEPT ![n][h] = Idle]
  /\ UNCHANGED <<lists, queue, up, faults>>

JoinResponse(m) ==
  /\ m \in net /\ m.kind = "joined"
  /\ m.dst \in up
  /\ Join(m.dst, "bootstrap", m, {})

(***************************************************************************)
(* What the network and the machines may do.  A node comes back with       *)
(* nothing, under its old address.  Nobody then waits for the answers to   *)
(* the join requests it sent before.                                       *)
(***************************************************************************)
Abandoned(n) ==
  LET requests == {m \in net : m.kind = "join" /\ m.src = n}
      answers  == {m \in net : m.kind = "joined" /\ m.dst = n}
  IN  (net \ (requests \cup answers)) \cup {[m EXCEPT !.kind = "orphan"] : m \in requests}

Unattended(n) ==
  [q \in Nodes |-> [t \in Threads |->
     IF q = n THEN Idle ELSE [thread[q][t] EXCEPT !.caller = @ \ {n}]]]

Lose(m) ==
  /\ m \in net
  /\ Fault(m.dst \in up)
  /\ net' = net \ {m}
  /\ UNCHANGED <<lists, thread, queue, up>>

Crash(n) ==
  /\ n \in up
  /\ Fault(TRUE)
  /\ up' = up \ {n}
  /\ list' = [list EXCEPT ![n] = {}]
  /\ state' = [state EXCEPT ![n] = NoState]
  /\ deadPeers' = [deadPeers EXCEPT ![n] = {}]
  /\ queue' = [queue EXCEPT ![n] = EmptyBag]
  /\ thread' = Unattended(n)
  /\ net' = Abandoned(n)

Restart(n) ==
  /\ n \notin up
  /\ up' = up \cup {n}
  /\ UNCHANGED <<lists, thread, queue, net, faults>>

Receive(m) == Listen(m) \/ JoinHandler(m) \/ JoinResponse(m)

Next ==
  \/ \E n, p \in Nodes : Detect(n, p) \/ Suspect(n, p) \/ Carry(n, p)
  \/ \E n \in Nodes, t \in Threads : LearnAlive(n, t) \/ Answer(n, t)
  \/ \E n \in Nodes : \E s \in Seeds[n] : Round(n, s)
  \/ \E m \in net : Receive(m) \/ Lose(m)
  \/ \E n \in Crashing : Crash(n) \/ Restart(n)

Spec == Init /\ [][Next]_vars

(***************************************************************************)
(* Members are probed in turn, so that a crashed one is found out and      *)
(* events are carried; what is not lost arrives, or fails when its         *)
(* receiver is down; a handler gets on with its work; every bootstrap loop *)
(* runs forever.  Nobody has to restart.                                   *)
(***************************************************************************)
FairSpec ==
  /\ Spec
  /\ WF_vars(\E n, p \in Nodes : Detect(n, p))
  /\ WF_vars(\E n, p \in Nodes : Carry(n, p))
  /\ WF_vars(\E m \in net : Receive(m) \/ (m.dst \notin up /\ Lose(m)))
  /\ WF_vars(\E n \in Nodes, t \in Threads : LearnAlive(n, t))
  /\ WF_vars(\E n \in Nodes, t \in Threads : Answer(n, t))
  /\ \A n \in Nodes : SF_vars(\E s \in Seeds[n] : Round(n, s))

-----------------------------------------------------------------------------
(***************************************************************************)
(* TypeOK.  Also: no list holds its own node, a body names its sender,     *)
(* nobody writes or answers to himself, and an event that was carried goes *)
(* on only below the limit of some length of the list.                     *)
(***************************************************************************)
Events == [kind : {"alive", "dead"}, node : Nodes]
Messages ==
  [kind : {"swim"}, src : Nodes, dst : Nodes, events : SUBSET Events] \cup
  [kind : {"join", "joined", "orphan"}, src : Nodes, dst : Nodes, members : SUBSET Nodes]

ListsOK ==
  /\ list \in [Nodes -> SUBSET Nodes]
  /\ state \in [Nodes -> [Nodes -> {"unknown", "alive", "dead"}]]
  /\ deadPeers \in [Nodes -> SUBSET Nodes]
  /\ \A n \in Nodes : n \notin list[n]
  /\ up \subseteq Nodes

ThreadsOK ==
  /\ thread \in [Nodes -> [Threads -> [todo : SUBSET Nodes, caller : SUBSET Nodes]]]
  /\ \A n \in Nodes, t \in Threads : n \notin thread[n][t].todo \cup thread[n][t].caller

Carried(i) ==
  i.count > 0 => \E k \in 0 .. Cardinality(Nodes) - 1 : i.count < MaxDisseminations(k)

QueuesOK ==
  /\ DOMAIN queue = Nodes
  /\ \A n \in Nodes : \A i \in BagToSet(queue[n]) :
       i \in [event : Events, count : Nat] /\ Carried(i)

NetOK ==
  /\ net \subseteq Messages
  /\ \A m \in net : m.src # m.dst /\ (m.kind # "swim" => m.src \in m.members)

TypeOK == ListsOK /\ ThreadsOK /\ QueuesOK /\ NetOK

(***************************************************************************)
(* DeathsHeard.  process drops an event of the kind it recorded last, so a *)
(* member recorded as dead could never die again.  There is none, however  *)
(* joins, deaths and the recording of returns interleave: whoever is on    *)
(* the list is not among the dead and is recorded as alive, or a join is   *)
(* about to record it; and whoever is recorded as dead is among the dead,  *)
(* or a join is about to record its return.  (A node recorded as alive     *)
(* need not be on the list: a death comes before the recording of a        *)
(* return.)                                                                *)
(***************************************************************************)
Returning(n, p) == \E t \in Threads : p \in thread[n][t].todo

Heard(n, p) ==
  /\ p \in list[n] => p \notin deadPeers[n] /\ (state[n][p] = "alive" \/ Returning(n, p))
  /\ state[n][p] = "dead" => p \in deadPeers[n] \/ Returning(n, p)

DeathsHeard == \A n, p \in Nodes : Heard(n, p)


(***************************************************************************)
(* SeedsReadmit.  A node that runs ends up, and stays, on the lists of its *)
(* seeds that run, after suspicions, crashes and restarts, and although    *)
(* events of its death outlive its return.                                 *)
(***************************************************************************)
SeedsReadmit == <>[](\A p \in up : \A s \in Seeds[p] \cap up : p \in list[s])

(***************************************************************************)
(* EventsRunOut.  Every event is carried its number of times and gone: the *)
(* echo of a death, and the answer to it, end.                             *)
(***************************************************************************)
EventsRunOut == <>[]~Spreading
=============================================================================
