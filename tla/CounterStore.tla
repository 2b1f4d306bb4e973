---------------------------- MODULE CounterStore ----------------------------
(***************************************************************************)
(* The counters of internal/server/store.go, replicated by delta-interval  *)
(* gossip.  Every node keeps a counter per key and a log of deltas, one    *)
(* for each change it made or learnt of.  A gossip message to a peer that  *)
(* has acknowledged sequence number a carries the join of the deltas from  *)
(* a on; to a peer that never acknowledged it carries the whole store.     *)
(*                                                                         *)
(* muCounters is held across each of IncrementCounter, DecrementCounter,   *)
(* Merge, Ack and Delta, so each is one atomic step here.                  *)
(***************************************************************************)
EXTENDS PNCounter, Gossip, Sequences, FiniteSetsExt

CONSTANTS
  Keys,      \* the counter keys clients use
  Ops,       \* the operations clients use: "inc", "dec"
  Amounts,   \* the amounts clients add or subtract
  MaxIssued  \* bound: the sum of all amounts in a behaviour

ASSUME CounterStoreAssumption ==
  /\ IsFiniteSet(Keys)
  /\ Ops \subseteq Signs
  /\ Amounts \subseteq Uint \ {0}
  /\ MaxIssued \in Nat

VARIABLES
  store,   \* store[n][k]: Store.counters
  delta,   \* delta[n][i]: the delta Store.deltaCounters holds at i
  issued   \* issued[n][k][s]: what clients had n add (a history variable)

vars == <<store, delta, issued, peers, ack, gossip, acks>>

Stores == [Keys -> PNCounter]

Deltas == [key : Keys, val : PNCounter]

(***************************************************************************)
(* A gossip request, and the store it was computed from: snap is a history *)
(* field that no action reads.                                             *)
(***************************************************************************)
Messages == [src : Nodes, dst : Nodes, seq : Nat, counters : Stores, snap : Stores]

EmptyStore == [k \in Keys |-> PNZero]

(***************************************************************************)
(* Store.counterSeq starts at 1 and grows by one with each delta.          *)
(***************************************************************************)
counterSeq(n) == Len(delta[n]) + 1

TotalIssued ==
  SumFunction([x \in Nodes \X Keys \X Signs |-> issued[x[1]][x[2]][x[3]]])

Init ==
  /\ GossipInit
  /\ store  = [n \in Nodes |-> EmptyStore]
  /\ delta  = [n \in Nodes |-> <<>>]
  /\ issued = [n \in Nodes |-> [k \in Keys |-> [s \in Signs |-> 0]]]

-----------------------------------------------------------------------------
(***************************************************************************)
(* Client writes: postCounters calls IncrementCounter or DecrementCounter. *)
(* The delta is computed from the counter, merged into it and logged.      *)
(***************************************************************************)
Write(n, k, s, v) ==
  LET d == PNAdd(store[n][k], n, s, v)
  IN  /\ TotalIssued + v <= MaxIssued
      /\ store'  = [store EXCEPT ![n][k] = PNMerge(@, d)]
      /\ delta'  = [delta EXCEPT ![n] = Append(@, [key |-> k, val |-> d])]
      /\ issued' = [issued EXCEPT ![n][k][s] = @ + v]
      /\ UNCHANGED gossipVars

IncrementCounter(n, k, v) == "inc" \in Ops /\ Write(n, k, "inc", v)

DecrementCounter(n, k, v) == "dec" \in Ops /\ Write(n, k, "dec", v)

(***************************************************************************)
(* Store.Delta, the interval path: the join of the deltas of n from        *)
(* sequence number a on.                                                   *)
(***************************************************************************)
IntervalValues(n, a, k, s, i) ==
  {delta[n][j].val[s][i] : j \in {j \in a .. Len(delta[n]) : delta[n][j].key = k}}

\* Mutant: the interval starts one late.
IntervalMutantSkips(n, a) ==
  [k \in Keys |-> [s \in Signs |-> [i \in Nodes |->
     Max({0} \cup IntervalValues(n, a + 1, k, s, i))]]]

Interval(n, a) ==
  [k \in Keys |-> [s \in Signs |-> [i \in Nodes |->
     Max({0} \cup IntervalValues(n, a, k, s, i))]]]

(***************************************************************************)
(* The join is built in place.  The first delta of a key in the interval   *)
(* is copied as a struct whose maps are shared with the log, so merging    *)
(* the later ones into the copy also writes them into the logged delta:    *)
(* into its inc map if it has one and into its dec map if it has one.      *)
(* (An amount that wrapped to zero counts as no map here: the deltas that  *)
(* would be absorbed into it are in the log after it.)                     *)
(***************************************************************************)
FirstOfKey(n, a, j) ==
  a <= j /\ \A i \in a .. (j - 1) : delta[n][i].key # delta[n][j].key

Absorbed(n, a) ==
  [j \in 1 .. Len(delta[n]) |->
     IF FirstOfKey(n, a, j)
       THEN [key |-> delta[n][j].key,
             val |-> [s \in Signs |->
                        IF delta[n][j].val[s] = GZero
                          THEN GZero
                          ELSE Interval(n, a)[delta[n][j].key][s]]]
       ELSE delta[n][j]]

\* Mutant: off by one: <= for <.
HasNewsMutantInclusive(n, p) == ack[n][p] <= counterSeq(n)
\* Mutant: a peer that never acknowledged is passed over.
HasNewsMutantNoFull(n, p) == 0 < ack[n][p] /\ ack[n][p] < counterSeq(n)

(***************************************************************************)
(* Store.Delta: what n sends p next, and whether there is anything to send.*)
(***************************************************************************)
HasNews(n, p) == ack[n][p] = 0 \/ ack[n][p] < counterSeq(n)

Delta(n, p) == IF ack[n][p] = 0 THEN store[n] ELSE Interval(n, ack[n][p])

(***************************************************************************)
(* One tick of StartGossip that picks peer p.                              *)
(***************************************************************************)
StartGossip(n, p) ==
  /\ HasNews(n, p)
  /\ SendGossip([src |-> n, dst |-> p, seq |-> counterSeq(n),
                 counters |-> Delta(n, p), snap |-> store[n]])
  /\ delta' = IF ack[n][p] = 0
                THEN delta
                ELSE [delta EXCEPT ![n] = Absorbed(n, ack[n][p])]
  /\ UNCHANGED <<store, issued>>

\* Mutant: a change of decrements only counts as old.
NewsMutantIncOnly(m) ==
  {k \in Keys : ~GLessOrEqual(m.counters[k]["inc"], store[m.dst][k]["inc"])}

(***************************************************************************)
(* Store.Merge: the keys of a message that tell the receiver something are *)
(* merged and logged as deltas, in the order in which Go ranges over a     *)
(* map, which is any order.                                                *)
(***************************************************************************)
News(m) == {k \in Keys : ~PNLessOrEqual(m.counters[k], store[m.dst][k])}

Merge(n, counters, keys) ==
  [k \in Keys |-> IF k \in keys THEN PNMerge(store[n][k], counters[k]) ELSE store[n][k]]

Logged(counters, order) ==
  [i \in DOMAIN order |-> [key |-> order[i], val |-> counters[order[i]]]]

PostGossip(m) ==
  /\ ReceiveGossip(m)
  /\ store' = [store EXCEPT ![m.dst] = Merge(m.dst, m.counters, News(m))]
  /\ \E order \in Surjection(1 .. Cardinality(News(m)), News(m)) :
       delta' = [delta EXCEPT ![m.dst] = @ \o Logged(m.counters, order)]
  /\ UNCHANGED issued

-----------------------------------------------------------------------------
ClientWrite ==
  \E n \in Nodes, k \in Keys, v \in Amounts :
    IncrementCounter(n, k, v) \/ DecrementCounter(n, k, v)

Transport ==
  \/ \E a \in acks : PostAck(a) \/ DropAck(a)
  \/ \E m \in gossip : DropGossip(m)
  \/ Membership

Next ==
  \/ ClientWrite
  \/ \E n, p \in Nodes : StartGossip(n, p)
  \/ \E m \in gossip : PostGossip(m)
  \/ Transport /\ UNCHANGED <<store, delta, issued>>

Spec == Init /\ [][Next]_vars

-----------------------------------------------------------------------------
TypeOK ==
  /\ store \in [Nodes -> Stores]
  /\ delta \in [Nodes -> Seq(Deltas)]
  /\ issued \in [Nodes -> [Keys -> [Signs -> Nat]]]
  /\ peers \in [Nodes -> SUBSET Nodes]
  /\ ack \in [Nodes -> [Nodes -> Nat]]
  /\ gossip \subseteq Messages
  /\ acks \subseteq Acks

(***************************************************************************)
(* NothingForgotten.  Store.Ack lets Delta skip the deltas below the       *)
(* acknowledged sequence number, so whatever a node knows must either be   *)
(* known to the peer or be found at or above that number: otherwise no     *)
(* later message to that peer ever carries it.                             *)
(***************************************************************************)
Remembered(n, a, k, s, i) ==
  \E j \in DOMAIN delta[n] : /\ a <= j
                             /\ delta[n][j].key = k
                             /\ store[n][k][s][i] <= delta[n][j].val[s][i]

Covered(n, p, a, k, s, i) ==
  \/ store[n][k][s][i] <= store[p][k][s][i]
  \/ Remembered(n, a, k, s, i)

NothingForgotten ==
  \A n, p \in Nodes : ack[n][p] > 0 =>
    \A k \in Keys, s \in Signs, i \in Nodes : Covered(n, p, ack[n][p], k, s, i)

(***************************************************************************)
(* CausalDeltaMerging.  The condition the README claims of the gossip      *)
(* protocol: merging the message a node receives has the same effect as    *)
(* merging the sender's whole store as it was when the message was built,  *)
(* however late the message arrives.                                       *)
(***************************************************************************)
CausalDeltaMerging ==
  \A m \in gossip : \A k \in Keys :
    PNMerge(store[m.dst][k], m.counters[k]) = PNMerge(store[m.dst][k], m.snap[k])

(***************************************************************************)
(* OwnSlotDominates.  A node alone increments its own entry, so no other   *)
(* replica ever holds a larger amount for it.                              *)
(***************************************************************************)
OwnSlotDominates ==
  \A i, n \in Nodes, k \in Keys, s \in Signs :
    store[n][k][s][i] <= store[i][k][s][i]

(***************************************************************************)
(* IncrementsExact.  Until the machine integer is exhausted a node's own   *)
(* entry is exactly the sum of what clients had it add: gossip coming back *)
(* to a node neither repeats nor loses its increments.                     *)
(***************************************************************************)
IncrementsExact ==
  \A n \in Nodes, k \in Keys, s \in Signs :
    issued[n][k][s] <= MaxUint => store[n][k][s][n] = issued[n][k][s]

(***************************************************************************)
(* SilenceJustified.  Delta reports that there is nothing to send to a     *)
(* peer only when that peer already knows everything the node knows:       *)
(* whatever it lacked then, this node would never send again.              *)
(***************************************************************************)
SilenceJustified ==
  \A n, p \in Nodes :
    ~HasNews(n, p) => \A k \in Keys : PNLessOrEqual(store[n][k], store[p][k])

(***************************************************************************)
(* QuietConverged.  When no node has anything left to send to any peer in  *)
(* its pool, the gossip loops send nothing more: whatever differs then     *)
(* differs forever.  If everyone is in everyone's pool, all must hold the  *)
(* same counters.                                                          *)
(***************************************************************************)
Quiet == \A n \in Nodes : \A p \in peers[n] : ~HasNews(n, p)

FullMembership == \A n \in Nodes : peers[n] = Nodes \ {n}

Converged == \A n, p \in Nodes : store[n] = store[p]

QuietConverged == Quiet /\ FullMembership => Converged

(***************************************************************************)
(* QuietValues.  What GetCounter then reports at every node is the         *)
(* difference of what was added and subtracted anywhere in the cluster, as *)
(* long as each node's amounts fit the unsigned integer and the difference *)
(* fits the signed one, even if the totals fit neither.                    *)
(***************************************************************************)
IssuedTo(k, s) == SumFunction([n \in Nodes |-> issued[n][k][s]])

QuietValues ==
  Quiet /\ FullMembership => \A n \in Nodes, k \in Keys :
    LET difference == IssuedTo(k, "inc") - IssuedTo(k, "dec")
    IN  /\ \A i \in Nodes, s \in Signs : issued[i][k][s] <= MaxUint
        /\ difference \in -((MaxUint + 1) \div 2) .. MaxUint \div 2
        => PNValue(store[n][k]) = difference

-----------------------------------------------------------------------------
(***************************************************************************)
(* The inductive invariant behind the properties above.  A logged delta    *)
(* holds nothing its node does not know.                                   *)
(***************************************************************************)
DeltasKnown ==
  \A n \in Nodes : \A j \in DOMAIN delta[n] :
    PNLessOrEqual(delta[n][j].val, store[n][delta[n][j].key])

(***************************************************************************)
(* Node n may drop the deltas below a from what it sends p.                *)
(***************************************************************************)
SafeToSkip(n, p, a) ==
  /\ 0 < a /\ a <= counterSeq(n)
  /\ \A k \in Keys, s \in Signs, i \in Nodes : Covered(n, p, a, k, s, i)

(***************************************************************************)
(* Once m is merged its sequence number is safe to skip; it holds nothing  *)
(* its snapshot does not, the sender still knows the snapshot, and what m  *)
(* leaves out of it the receiver knows.                                    *)
(***************************************************************************)
SafeToMerge(m) ==
  /\ 0 < m.seq /\ m.seq <= counterSeq(m.src)
  /\ \A k \in Keys, s \in Signs, i \in Nodes :
       /\ \/ store[m.src][k][s][i] <= m.counters[k][s][i]
          \/ Covered(m.src, m.dst, m.seq, k, s, i)
       /\ m.counters[k][s][i] <= m.snap[k][s][i]
       /\ m.snap[k][s][i] <= store[m.src][k][s][i]
       /\ \/ m.snap[k][s][i] <= m.counters[k][s][i]
          \/ m.snap[k][s][i] <= store[m.dst][k][s][i]

Inv ==
  /\ TypeOK
  /\ DeltasKnown
  /\ \A n, p \in Nodes : ack[n][p] > 0 => SafeToSkip(n, p, ack[n][p])
  /\ \A a \in acks : SafeToSkip(a.dst, a.src, a.seq)
  /\ \A m \in gossip : SafeToMerge(m)
  /\ OwnSlotDominates
  /\ IncrementsExact

-----------------------------------------------------------------------------
(***************************************************************************)
(* ImplementsStateBased.  Gossiping delta-intervals is, as the README      *)
(* says, equivalent to gossiping whole states: read every message as the   *)
(* store it was built from and each step is a step of StateGossip.         *)
(***************************************************************************)
CounterUpdates(n, pn) == {PNAdd(pn, n, s, v) : s \in Signs, v \in Amounts}

SB == INSTANCE StateGossip WITH
        Bottom <- PNZero,
        Lub <- PNMerge,
        Updates <- CounterUpdates,
        state <- store,
        flight <- {[src |-> m.src, dst |-> m.dst, state |-> m.snap] : m \in gossip}

ImplementsStateBased == SB!Spec

-----------------------------------------------------------------------------
(***************************************************************************)
(* Fairness.  The gossip ticker fires forever and picks its peer at        *)
(* random, so every peer a node keeps having news for is picked again and  *)
(* again; a link that keeps being used does not lose every request.        *)
(***************************************************************************)
Deliver(n, p) == \E m \in gossip : m.src = n /\ m.dst = p /\ PostGossip(m)

DeliverAck(n, p) ==
  /\ \E a \in acks : a.src = n /\ a.dst = p /\ PostAck(a)
  /\ UNCHANGED <<store, delta, issued>>

Fairness ==
  \A n \in Nodes : \A p \in Pools[n] :
    /\ SF_vars(StartGossip(n, p))
    /\ SF_vars(Deliver(n, p))
    /\ SF_vars(DeliverAck(n, p))

FairSpec == Spec /\ Fairness

(***************************************************************************)
(* Once membership is stable again, whoever left being back in the pools   *)
(* it left ...                                                             *)
(***************************************************************************)
StableMembership == <>[](peers = Pools)

(***************************************************************************)
(* Converges.  ... and clients stop writing, all replicas come to hold the *)
(* same counters and stay that way, whatever gossip was lost or refused.   *)
(***************************************************************************)
Converges == StableMembership => <>[]Converged

(***************************************************************************)
(* GossipSubsides.  ... the StartGossip loops run out of things to send:   *)
(* although a node logs what it learns as a delta of its own and offers it *)
(* to all peers, the teacher included, the echo dies out.                  *)
(***************************************************************************)
GossipSubsides == StableMembership => <>[]Quiet
=============================================================================
