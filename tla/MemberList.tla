----------------------------- MODULE MemberList -----------------------------
(***************************************************************************)
(* The member list of one node (the peers struct of internal/swim), the    *)
(* goroutines that change it, and the way a change takes to the gossip     *)
(* pool of the server: process records it under the lock, deletes a dead   *)
(* peer under the lock again, sends the event to the events channel after  *)
(* that, the fan-out goroutine takes it from there, and a goroutine per    *)
(* event calls Server.Notify.                                              *)
(*                                                                         *)
(* Four kinds of goroutines call process: the listener, the prober, the    *)
(* bootstrap loop and the handlers of join requests.  A call that has      *)
(* begun is thread[t]: the events it still has to process, and how far it  *)
(* has come with the first of them.                                        *)
(*                                                                         *)
(* The list is the set of its addresses here; which of them the prober     *)
(* takes is left open.  A peer carries the HTTP port it advertised when it *)
(* joined, and that never changes, so Port gives it.                       *)
(***************************************************************************)
EXTENDS Naturals, Sequences, FiniteSets, Bags

CONSTANTS
  Self,      \* the UDP address of this node
  Peers,     \* the UDP addresses of the others
  Host,      \* Host[p]: the host of address p
  Port,      \* Port[p]: the HTTP port p advertises
  Handlers,  \* the goroutines that serve join requests
  Capacity,  \* the capacity of the events channel (64 in the code)
  MaxJoins,  \* bound: join requests and responses
  MaxDeaths  \* bound: deaths this node detects or is told of

Nodes == Peers \cup {Self}

ASSUME MemberListAssumption ==
  /\ IsFiniteSet(Peers)
  /\ Self \notin Peers
  /\ DOMAIN Host = Nodes
  /\ Port \in [Peers -> Nat \ {0}]
  /\ Handlers \cap {"listen", "probe", "bootstrap"} = {}
  /\ Capacity \in Nat \ {0}
  /\ MaxJoins \in Nat
  /\ MaxDeaths \in Nat

VARIABLES
  list,       \* peers.peers, the addresses of the members
  state,      \* peers.state: the kind of the last event of each address
  deadPeers,  \* peers.deadPeers
  thread,     \* thread[t]: the call of process goroutine t is in
  probed,     \* the peer the prober waits for, "none" if it has no probe
  events,     \* the events channel
  notices,    \* the goroutines that are to call Notify, a bag of events
  pool,       \* Server.peers, the HTTP addresses of the gossip pool
  joins,      \* joins so far (bound only)
  deaths,     \* deaths so far (bound only)
  disturbed   \* history: peers of which news overlapped, or was dropped

lists == <<list, state, deadPeers>>
bounds == <<joins, deaths>>
vars == <<lists, thread, probed, events, notices, pool, bounds, disturbed>>

Threads == {"listen", "probe", "bootstrap"} \cup Handlers
Events == [kind : {"alive", "dead"}, node : Nodes]
Alive(p) == [kind |-> "alive", node |-> p]
Dead(p) == [kind |-> "dead", node |-> p]

Idle == [todo |-> <<>>, at |-> "lock"]
Busy(t) == thread[t].todo # <<>>
Event(t) == Head(thread[t].todo)
Call(todo) == [todo |-> todo, at |-> "lock"]
Return(t) == [thread EXCEPT ![t] = Call(Tail(@.todo))]

Init ==
  /\ list = {}
  /\ state = [p \in Nodes |-> "unknown"]
  /\ deadPeers = {}
  /\ thread = [t \in Threads |-> Idle]
  /\ probed = "none"
  /\ events = <<>>
  /\ notices = EmptyBag
  /\ pool = {}
  /\ joins = 0
  /\ deaths = 0
  /\ disturbed = {}

(***************************************************************************)
(* News of p is under way: a call, an event or a notification about it.    *)
(***************************************************************************)
UnderWay(p) ==
  \/ \E t \in Threads : \E i \in DOMAIN thread[t].todo : thread[t].todo[i].node = p
  \/ \E i \in DOMAIN events : events[i].node = p
  \/ \E e \in BagToSet(notices) : e.node = p

Orders(S) == {o \in [1 .. Cardinality(S) -> S] : \A p \in S : \E i \in DOMAIN o : o[i] = p}

-----------------------------------------------------------------------------
\* Mutant: the node adds itself when a caller names it.
AddedMutantSelf(src, members) == members \ ((deadPeers \ {src}) \cup list)

(***************************************************************************)
(* peers.join: the sender of a body leaves deadPeers, and the members it   *)
(* names that are not this node, not dead and not on the list yet are      *)
(* added.                                                                  *)
(***************************************************************************)
Added(src, members) == members \ ({Self} \cup (deadPeers \ {src}) \cup list)

(***************************************************************************)
(* Member.join, called by JoinHandler with a request and by Bootstrap with *)
(* a response: the list changes in one critical section, then Alive is     *)
(* processed for each added peer.                                          *)
(***************************************************************************)
Join(t, src, members) ==
  LET added == Added(src, members) IN
  /\ joins < MaxJoins
  /\ ~Busy(t)
  /\ list' = list \cup added
  /\ deadPeers' = deadPeers \ {src}
  /\ \E o \in Orders(added) :
       thread' = [thread EXCEPT ![t] = Call([i \in DOMAIN o |-> Alive(o[i])])]
  /\ joins' = joins + 1
  /\ disturbed' = disturbed \cup {p \in added \cup {src} : UnderWay(p)}
  /\ UNCHANGED <<state, probed, events, notices, pool, deaths>>

(***************************************************************************)
(* Listen: a message carries the news that p is dead; p may be this node.  *)
(* Alive events of a message are skipped.                                  *)
(***************************************************************************)
CallDead(t, p) ==
  /\ deaths < MaxDeaths
  /\ thread' = [thread EXCEPT ![t] = Call(<<Dead(p)>>)]
  /\ deaths' = deaths + 1
  /\ disturbed' = disturbed \cup {q \in {p} : UnderWay(q)}

Listen(p) ==
  /\ ~Busy("listen")
  /\ CallDead("listen", p)
  /\ UNCHANGED <<lists, probed, events, notices, pool, joins>>

(***************************************************************************)
(* Probe: a member is picked, and after a period in which others may have  *)
(* deleted it, or deleted it and added it again, it is found alive or      *)
(* dead.                                                                   *)
(***************************************************************************)
ProbeStart ==
  /\ probed = "none"
  /\ ~Busy("probe")
  /\ probed' \in list
  /\ UNCHANGED <<lists, thread, events, notices, pool, bounds, disturbed>>

ProbeAcked ==
  /\ probed # "none"
  /\ probed' = "none"
  /\ UNCHANGED <<lists, thread, events, notices, pool, bounds, disturbed>>

ProbeFailed ==
  /\ probed # "none"
  /\ CallDead("probe", probed)
  /\ probed' = "none"
  /\ UNCHANGED <<lists, events, notices, pool, joins>>

-----------------------------------------------------------------------------
\* Mutant: a node once known to be dead is never reported alive again.
RepeatedMutantDead(e) == state[e.node] \in {e.kind, "dead"}

(***************************************************************************)
(* peers.process, in its three parts.  An event of the kind recorded last  *)
(* is dropped; otherwise it is recorded, and the lock released.            *)
(***************************************************************************)
Repeated(e) == state[e.node] = e.kind

\* Mutant: a repeated event is taken up again and again.
ProcessMutantLoops(t) ==
  /\ Busy(t)
  /\ thread[t].at = "lock"
  /\ ~Repeated(Event(t))
  /\ state' = [state EXCEPT ![Event(t).node] = Event(t).kind]
  /\ thread' = [thread EXCEPT ![t].at = IF Event(t).kind = "dead" THEN "delete" ELSE "emit"]
  /\ UNCHANGED <<list, deadPeers, probed, events, notices, pool, bounds, disturbed>>

Process(t) ==
  /\ Busy(t)
  /\ thread[t].at = "lock"
  /\ \/ /\ Repeated(Event(t))
        /\ thread' = Return(t)
        /\ UNCHANGED state
     \/ /\ ~Repeated(Event(t))
        /\ state' = [state EXCEPT ![Event(t).node] = Event(t).kind]
        /\ thread' = [thread EXCEPT ![t].at =
                        IF Event(t).kind = "dead" THEN "delete" ELSE "emit"]
  /\ UNCHANGED <<list, deadPeers, probed, events, notices, pool, bounds, disturbed>>

(***************************************************************************)
(* peers.delete, a critical section of its own.                            *)
(***************************************************************************)
Delete(t) ==
  /\ Busy(t)
  /\ thread[t].at = "delete"
  /\ list' = list \ {Event(t).node}
  /\ deadPeers' = deadPeers \cup {Event(t).node}
  /\ thread' = [thread EXCEPT ![t].at = "emit"]
  /\ UNCHANGED <<state, probed, events, notices, pool, bounds, disturbed>>

(***************************************************************************)
(* The event is sent when the channel has room.  The context of a join     *)
(* request may end first, for the caller gives up after half a second; the *)
(* event is dropped then.                                                  *)
(***************************************************************************)
Emit(t) ==
  /\ Busy(t)
  /\ thread[t].at = "emit"
  /\ Len(events) < Capacity
  /\ events' = Append(events, Event(t))
  /\ thread' = Return(t)
  /\ UNCHANGED <<lists, probed, notices, pool, bounds, disturbed>>

Cancel(t) ==
  /\ Busy(t)
  /\ thread[t].at = "emit"
  /\ thread' = Return(t)
  /\ disturbed' = disturbed \cup {Event(t).node}
  /\ UNCHANGED <<lists, probed, events, notices, pool, bounds>>

(***************************************************************************)
(* The fan-out goroutine of Start.                                         *)
(***************************************************************************)
FanOut ==
  /\ events # <<>>
  /\ events' = Tail(events)
  /\ notices' = notices (+) SetToBag({Head(events)})
  /\ UNCHANGED <<lists, thread, probed, pool, bounds, disturbed>>

(***************************************************************************)
(* Server.Notify.  The peer it is given was made from the UDP address      *)
(* alone, so its HTTP port is 0.                                           *)
(***************************************************************************)
HTTPAddr(p) == [host |-> Host[p], port |-> 0]

Notify(e) ==
  IF e.kind = "alive"
  THEN pool \cup {HTTPAddr(e.node)}
  ELSE {a \in pool : a.host # Host[e.node]}

Notified(e) ==
  /\ BagIn(e, notices)
  /\ pool' = Notify(e)
  /\ notices' = notices (-) SetToBag({e})
  /\ UNCHANGED <<lists, thread, probed, events, bounds, disturbed>>

Step(t) == Process(t) \/ Delete(t) \/ Emit(t)

Next ==
  \/ \E t \in {"bootstrap"} \cup Handlers, src \in Peers, members \in SUBSET Nodes :
       src \in members /\ Join(t, src, members)
  \/ \E p \in Nodes : Listen(p)
  \/ ProbeStart \/ ProbeAcked \/ ProbeFailed
  \/ \E t \in Threads : Step(t)
  \/ \E t \in Handlers : Cancel(t)
  \/ FanOut
  \/ \E e \in Events : Notified(e)

Spec == Init /\ [][Next]_vars

(***************************************************************************)
(* Go runs every goroutine that can run, and a blocked sender on a channel *)
(* is served when a receiver makes room.                                   *)
(***************************************************************************)
FairSpec ==
  /\ Spec
  /\ \A t \in Threads : WF_vars(Process(t) \/ Delete(t)) /\ SF_vars(Emit(t))
  /\ WF_vars(FanOut)
  /\ \A e \in Events : WF_vars(Notified(e))

-----------------------------------------------------------------------------
(***************************************************************************)
(* TypeOK.  Also: only members of other nodes are on the list, only a dead *)
(* event is ever to be deleted, and the channel keeps its capacity.        *)
(***************************************************************************)
TypeOK ==
  /\ list \subseteq Peers
  /\ state \in [Nodes -> {"unknown", "alive", "dead"}]
  /\ deadPeers \subseteq Nodes
  /\ thread \in [Threads -> [todo : Seq(Events), at : {"lock", "delete", "emit"}]]
  /\ \A t \in Threads : thread[t].at = "delete" => Busy(t) /\ Event(t).kind = "dead"
  /\ probed \in Peers \cup {"none"}
  /\ events \in Seq(Events) /\ Len(events) <= Capacity
  /\ IsABag(notices) /\ BagToSet(notices) \subseteq Events
  /\ pool \subseteq [host : {Host[p] : p \in Nodes}, port : Nat]
  /\ disturbed \subseteq Nodes

(***************************************************************************)
(* DeathsHeard.  process drops an event of the kind recorded last: a       *)
(* member recorded as dead would stay a member for ever.  However joins,   *)
(* deaths and the critical sections of process interleave, whoever is on   *)
(* the list is not among the dead and is recorded as alive, unless a call  *)
(* is about to record its return or to delete it; and whoever is recorded  *)
(* as dead is among the dead, with the same exceptions.  Nothing is        *)
(* excepted for peers of which news overlaps.                              *)
(***************************************************************************)
Returning(p) ==
  \E t \in Threads : \E i \in DOMAIN thread[t].todo :
    thread[t].todo[i] = Alive(p) /\ (i = 1 => thread[t].at = "lock")

Deleting(p) == \E t \in Threads : thread[t].at = "delete" /\ Event(t).node = p

Heard(p) ==
  /\ p \in list => p \notin deadPeers /\ (state[p] = "alive" \/ Returning(p) \/ Deleting(p))
  /\ state[p] = "dead" => p \in deadPeers \/ Returning(p) \/ Deleting(p)

DeathsHeard == \A p \in Nodes : Heard(p)

NeverBoth == list \cap deadPeers = {}

(***************************************************************************)
(* PoolFollows.  Once the news of a peer has arrived, the gossip pool has  *)
(* its host exactly if the peer is on the member list, and the recorded    *)
(* state agrees, unless two pieces of news about it overlapped, a join     *)
(* request was cancelled, or another node has the same host.               *)
(***************************************************************************)
InPool(p) == \E a \in pool : a.host = Host[p]

Follows(p) ==
  /\ p \in list <=> InPool(p)
  /\ p \in list <=> state[p] = "alive"
  /\ p \in deadPeers <=> state[p] = "dead"

Undisturbed == {p \in Peers \ disturbed : \A q \in Nodes \ {p} : Host[q] # Host[p]}

PoolFollows == \A p \in Undisturbed : UnderWay(p) \/ Follows(p)

(***************************************************************************)
(* Inv.  The inductive invariant behind it.  News of a peer that process   *)
(* is done with is what list, state and deadPeers say.  News it is not     *)
(* done with is the only news of that peer: the list runs ahead of the     *)
(* state by a join, and the state runs ahead of the list by a deletion.    *)
(***************************************************************************)
Settled(e) ==
  IF e.kind = "alive"
  THEN e.node \in list \ deadPeers /\ state[e.node] = "alive"
  ELSE e.node \in deadPeers \ list /\ state[e.node] = "dead"

Begun(e, at) ==
  IF e.kind = "alive" THEN e.node \in list \ deadPeers /\ state[e.node] # "alive"
  ELSE IF at = "delete" THEN state[e.node] = "dead"
  ELSE Follows(e.node)

At(t, i) == IF i = 1 THEN thread[t].at ELSE "lock"

About(t, i, p) == i \in DOMAIN thread[t].todo /\ thread[t].todo[i].node = p

Emitted(e) == e \in BagToSet(notices) \/ \E i \in DOMAIN events : events[i] = e

OnlyNews(t, i, p) ==
  /\ \A e \in Events : e.node = p => ~Emitted(e)
  /\ \A u \in Threads : \A j \in DOMAIN thread[u].todo : About(u, j, p) => u = t /\ j = i

CallTrue(t, i, p) ==
  LET e == thread[t].todo[i] IN
  IF At(t, i) = "emit" THEN Settled(e) ELSE Begun(e, At(t, i)) /\ OnlyNews(t, i, p)

NewsTrue(p) ==
  /\ UnderWay(p) \/ Follows(p)
  /\ \A e \in Events : e.node = p /\ Emitted(e) => Settled(e)
  /\ \A t \in Threads : \A i \in DOMAIN thread[t].todo :
       About(t, i, p) => CallTrue(t, i, p)

Inv ==
  /\ TypeOK
  /\ NeverBoth
  /\ probed # "none" => ~Busy("probe")
  /\ \A p \in Undisturbed : NewsTrue(p)

(***************************************************************************)
(* GossipsWithMembers.  What the server is told to gossip with are the     *)
(* HTTP addresses of the members: the address a member sends as its own in *)
(* X-Node-Addr is in the pool once the news of it has arrived.             *)
(***************************************************************************)
GossipsWithMembers ==
  \A p \in list \ disturbed :
    UnderWay(p) \/ [host |-> Host[p], port |-> Port[p]] \in pool

(***************************************************************************)
(* CallsFinish.  When no more news comes in (the bounds on joins and       *)
(* deaths see to that), every goroutine gets out of process: the channel   *)
(* is drained whoever is blocked on it, so neither the listener, the       *)
(* prober nor a join request hangs.                                        *)
(***************************************************************************)
CallsFinish == <>[](\A t \in Threads : ~Busy(t))
=============================================================================
