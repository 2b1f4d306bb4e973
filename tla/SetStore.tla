----------------------------- MODULE SetStore -------------------------------
(***************************************************************************)
(* The sets of internal/server/store.go, the clients that read them and    *)
(* send back the causal contexts they read, and the gossip of the sets.    *)
(***************************************************************************)
EXTENDS ORSet, Gossip, Integers, Sequences, Functions

CONSTANTS
  Keys,        \* the set keys clients use
  Clients,     \* each has at most one request under way
  Reach,       \* Reach[c]: the nodes client c sends its requests to
  Bodies,      \* the request bodies of POST /sets/{key}: [remove, add]
  MaxRequests  \* bound: POST requests in a behaviour

ASSUME SetStoreAssumption ==
  /\ IsFiniteSet(Keys)
  /\ Reach \in [Clients -> SUBSET Nodes]
  /\ \A b \in Bodies : b.remove \in Seq(Elements) /\ b.add \in Seq(Elements)
  /\ MaxRequests \in Nat

VARIABLES
  store,    \* store[n][k]: Store.sets
  delta,    \* delta[n][i]: the delta Store.deltaSets holds at i
  ctx,      \* ctx[c][k]: the contexts client c last received for k
  req,      \* req[c]: the POST /sets/{key} request of c under way, if any
  requests, \* how many there were (for the bound)
  history   \* history[k]: the operations so far (a history variable)

setVars == <<store, delta, ctx, req, requests, history>>
vars == <<setVars, gossipVars>>

Stores == [Keys -> ORSets]

Deltas == [key : Keys, val : ORSets]

(***************************************************************************)
(* A gossip request, and the store it was computed from: snap is a history *)
(* field, which no action reads.                                           *)
(***************************************************************************)
Messages == [src : Nodes, dst : Nodes, seq : Nat, sets : Stores, snap : Stores]

Idle == [busy |-> FALSE]

Requests == [busy : {TRUE}, node : Nodes, key : Keys, vvs : Contexts,
             remove : Seq(Elements), add : Seq(Elements)]

setsSeq(n) == Len(delta[n]) + 1

Init ==
  /\ GossipInit
  /\ store = [n \in Nodes |-> [k \in Keys |-> NewORSet]]
  /\ delta = [n \in Nodes |-> <<>>]
  /\ ctx = [c \in Clients |-> [k \in Keys |-> NoContexts]]
  /\ req = [c \in Clients |-> Idle]
  /\ requests = 0
  /\ history = [k \in Keys |-> {}]

-----------------------------------------------------------------------------
(***************************************************************************)
(* getSet and Store.GetSet: 404 unless node n has the set.                 *)
(***************************************************************************)
GetSet(c, n, k) ==
  /\ req[c] = Idle
  /\ n \in Reach[c]
  /\ store[n][k] # NewORSet
  /\ ctx' = [ctx EXCEPT ![c][k] = CausalContexts(store[n][k])]
  /\ UNCHANGED <<store, delta, req, requests, history, gossipVars>>

(***************************************************************************)
(* postSet decodes the request, with or without the contexts the client    *)
(* holds.  A body without elements gets 400.                               *)
(***************************************************************************)
PostSet(c, n, k, body) ==
  /\ req[c] = Idle
  /\ n \in Reach[c]
  /\ requests < MaxRequests
  /\ body.remove # <<>> \/ body.add # <<>>
  /\ \E vvs \in {ctx[c][k], NoContexts} :
       req' = [req EXCEPT ![c] = [busy |-> TRUE, node |-> n, key |-> k, vvs |-> vvs,
                                  remove |-> body.remove, add |-> body.add]]
  /\ requests' = requests + 1
  /\ UNCHANGED <<store, delta, ctx, history, gossipVars>>

(***************************************************************************)
(* Merge the delta d of an operation on element e into the set and log it. *)
(***************************************************************************)
Apply(n, k, e, d, add, vv) ==
  /\ store' = [store EXCEPT ![n][k] = ORMerge(@, d)]
  /\ delta' = [delta EXCEPT ![n] = Append(@, [key |-> k, val |-> d])]
  /\ history' = [history EXCEPT ![k] = @ \cup {OperationOf(n, e, d, add, vv)}]

(***************************************************************************)
(* Store.RemoveSet does nothing if the set or the element is unknown.      *)
(***************************************************************************)
RemoveSet(n, k, e, vv) ==
  LET d == ORRemove(store[n][k], n, e, vv)
  IN  IF d = NewORSet
        THEN UNCHANGED <<store, delta, history>>
        ELSE Apply(n, k, e, d, FALSE, vv)

AddSet(n, k, e, vv) == Apply(n, k, e, ORAdd(store[n][k], n, e, vv), TRUE, vv)

(***************************************************************************)
(* The request proceeds one element at a time, removes first.  muSets is   *)
(* released in between, so gossip and other clients get in.                *)
(***************************************************************************)
RemoveStep(c) ==
  /\ req[c].busy
  /\ req[c].remove # <<>>
  /\ LET e == Head(req[c].remove)
     IN  RemoveSet(req[c].node, req[c].key, e, req[c].vvs[e])
  /\ req' = [req EXCEPT ![c].remove = Tail(@)]
  /\ UNCHANGED <<ctx, requests, gossipVars>>

AddStep(c) ==
  /\ req[c].busy
  /\ req[c].remove = <<>>
  /\ req[c].add # <<>>
  /\ LET e == Head(req[c].add)
     IN  AddSet(req[c].node, req[c].key, e, req[c].vvs[e])
  /\ req' = [req EXCEPT ![c].add = Tail(@)]
  /\ UNCHANGED <<ctx, requests, gossipVars>>

(***************************************************************************)
(* The response has the contexts of the set as it is now, or is a 404.     *)
(***************************************************************************)
Respond(c) ==
  /\ req[c].busy
  /\ req[c].remove = <<>> /\ req[c].add = <<>>
  /\ LET or == store[req[c].node][req[c].key]
     IN  ctx' = IF or = NewORSet THEN ctx
                ELSE [ctx EXCEPT ![c][req[c].key] = CausalContexts(or)]
  /\ req' = [req EXCEPT ![c] = Idle]
  /\ UNCHANGED <<store, delta, requests, history, gossipVars>>

-----------------------------------------------------------------------------
(***************************************************************************)
(* Store.Delta.  Unlike those of counters, the deltas of sets are cloned   *)
(* before others are merged into them, so the log stays as it was.         *)
(***************************************************************************)
Joined(log, a, k) ==
  LET upTo[i \in (a - 1) .. Len(log)] ==
        IF i = a - 1
          THEN NewORSet
          ELSE IF log[i].key = k THEN ORMerge(upTo[i - 1], log[i].val) ELSE upTo[i - 1]
  IN  upTo[Len(log)]

\* Mutant: off by one: the first delta the peer lacks is left out.
IntervalMutantSkips(n, a) == [k \in Keys |-> Joined(delta[n], a + 1, k)]

Interval(n, a) == [k \in Keys |-> Joined(delta[n], a, k)]

HasNews(n, p) == ack[n][p] = 0 \/ ack[n][p] < setsSeq(n)

Delta(n, p) == IF ack[n][p] = 0 THEN store[n] ELSE Interval(n, ack[n][p])

StartGossip(n, p) ==
  /\ HasNews(n, p)
  /\ SendGossip([src |-> n, dst |-> p, seq |-> setsSeq(n),
                 sets |-> Delta(n, p), snap |-> store[n]])
  /\ UNCHANGED setVars

(***************************************************************************)
(* Store.Merge.                                                            *)
(***************************************************************************)
News(m) == {k \in Keys : ~ORLessOrEqual(m.sets[k], store[m.dst][k])}

\* Mutant: what arrives replaces what is there.
MergeMutantReplaces(n, sets, keys) ==
  [k \in Keys |-> IF k \in keys THEN sets[k] ELSE store[n][k]]

Merge(n, sets, keys) ==
  [k \in Keys |-> IF k \in keys THEN ORMerge(store[n][k], sets[k]) ELSE store[n][k]]

Logged(sets, order) == [i \in DOMAIN order |-> [key |-> order[i], val |-> sets[order[i]]]]

PostGossip(m) ==
  /\ ReceiveGossip(m)
  /\ store' = [store EXCEPT ![m.dst] = Merge(m.dst, m.sets, News(m))]
  /\ \E order \in Surjection(1 .. Cardinality(News(m)), News(m)) :
       delta' = [delta EXCEPT ![m.dst] = @ \o Logged(m.sets, order)]
  /\ UNCHANGED <<ctx, req, requests, history>>

-----------------------------------------------------------------------------
Client(c) ==
  \/ \E n \in Nodes, k \in Keys : GetSet(c, n, k) \/ \E b \in Bodies : PostSet(c, n, k, b)
  \/ RemoveStep(c) \/ AddStep(c) \/ Respond(c)

Transport ==
  \/ \E a \in acks : PostAck(a) \/ DropAck(a)
  \/ \E m \in gossip : DropGossip(m)
  \/ Membership

Next ==
  \/ \E c \in Clients : Client(c)
  \/ \E n, p \in Nodes : StartGossip(n, p)
  \/ \E m \in gossip : PostGossip(m)
  \/ Transport /\ UNCHANGED setVars

Spec == Init /\ [][Next]_vars

-----------------------------------------------------------------------------
TypeOK ==
  /\ store \in [Nodes -> Stores]
  /\ delta \in [Nodes -> Seq(Deltas)]
  /\ ctx \in [Clients -> [Keys -> Contexts]]
  /\ req \in [Clients -> Requests \cup {Idle}]
  /\ history \in [Keys -> SUBSET Operations]
  /\ peers \in [Nodes -> SUBSET Nodes]
  /\ ack \in [Nodes -> [Nodes -> Nat]]
  /\ gossip \subseteq Messages
  /\ acks \subseteq Acks

(***************************************************************************)
(* SiblingsExact.  The observed-remove semantics: what is left of an       *)
(* element at a node are the adds and removes the node knows of and that   *)
(* no other operation it knows of had observed.  So a remove never hides   *)
(* an add its client had not seen, and always hides one it had seen,       *)
(* whatever Sync, discard and the truncated value lists went through.      *)
(***************************************************************************)
SiblingsExact ==
  \A n \in Nodes, k \in Keys : MarkersExact(store[n][k], history[k])

(***************************************************************************)
(* SkipHarmless.  Store.Merge skips a set whose counters tell the receiver *)
(* nothing new, without looking at the values: merging it would indeed     *)
(* have changed nothing.                                                   *)
(***************************************************************************)
SkipHarmless ==
  \A m \in gossip : \A k \in Keys \ News(m) :
    ORMerge(store[m.dst][k], m.sets[k]) = store[m.dst][k]

(***************************************************************************)
(* CausalDeltaMerging.  The condition the README claims of the gossip      *)
(* protocol: merging the message a node receives has the same effect as    *)
(* merging the sender's whole store as it was when the message was built,  *)
(* siblings that were dropped since included.                              *)
(***************************************************************************)
CausalDeltaMerging ==
  \A m \in gossip : \A k \in Keys :
    ORMerge(store[m.dst][k], m.sets[k]) = ORMerge(store[m.dst][k], m.snap[k])

(***************************************************************************)
(* QuietConverged.  When the gossip loops of a fully connected cluster     *)
(* have nothing left to send, all nodes hold the same sets.                *)
(***************************************************************************)
Quiet == \A n \in Nodes : \A p \in peers[n] : ~HasNews(n, p)

FullMembership == \A n \in Nodes : peers[n] = Nodes \ {n}

QuietConverged == Quiet /\ FullMembership => \A n, p \in Nodes : store[n] = store[p]

-----------------------------------------------------------------------------
(***************************************************************************)
(* The inductive invariant of clients that stay at one node.  Every set of *)
(* the program is closed under the history of its key, wherever it is.     *)
(***************************************************************************)
StickyClients == \A c \in Clients : \A n, p \in Reach[c] : n = p

AllClosed ==
  /\ \A n \in Nodes, k \in Keys : Closed(store[n][k], history[k])
  /\ \A n \in Nodes : \A j \in DOMAIN delta[n] :
       Closed(delta[n][j].val, history[delta[n][j].key])
  /\ \A m \in gossip, k \in Keys :
       Closed(m.sets[k], history[k]) /\ Closed(m.snap[k], history[k])

(***************************************************************************)
(* Nobody knows more dots of a node than the node itself, which knows      *)
(* those of the history; what is logged or under way is behind its node.   *)
(***************************************************************************)
DotsOwned ==
  /\ \A n, i \in Nodes, k \in Keys, e \in Elements :
       store[n][k][e][i].counter <= store[i][k][e][i].counter
  /\ \A k \in Keys : \A x \in history[k] :
       x.dot <= store[x.node][k][x.elem][x.node].counter

NothingAhead ==
  /\ \A n \in Nodes : \A j \in DOMAIN delta[n] :
       ORLessOrEqual(delta[n][j].val, store[n][delta[n][j].key])
  /\ \A m \in gossip, k \in Keys : ORLessOrEqual(m.sets[k], store[m.src][k])

(***************************************************************************)
(* The contexts a client holds, and those of its request under way, are    *)
(* behind the one node it talks to.                                        *)
(***************************************************************************)
Behind(vvs, or) == \A e \in Elements, i \in Nodes : vvs[e][i] <= or[e][i].counter

ContextsKnown ==
  \A c \in Clients :
    /\ \A n \in Reach[c], k \in Keys : Behind(ctx[c][k], store[n][k])
    /\ req[c].busy => /\ req[c].node \in Reach[c]
                      /\ Behind(req[c].vvs, store[req[c].node][req[c].key])

(***************************************************************************)
(* Whatever a node knows, some delta in its log tells.                     *)
(***************************************************************************)
StoresLogged ==
  \A n \in Nodes, k \in Keys, e \in Elements, i \in Nodes :
    \/ store[n][k][e][i].counter = 0
    \/ \E j \in DOMAIN delta[n] :
         delta[n][j].key = k /\ store[n][k][e][i].counter <= delta[n][j].val[e][i].counter

(***************************************************************************)
(* Node n may drop the deltas below a from what it sends p ...             *)
(***************************************************************************)
SafeToSkip(n, p, a) ==
  /\ 0 < a /\ a <= setsSeq(n)
  /\ \A j \in 1 .. (a - 1) : ORLessOrEqual(delta[n][j].val, store[p][delta[n][j].key])

(***************************************************************************)
(* ... and will be able to, once m is merged, up to the number m carries.  *)
(* What m leaves out of the store it was built from, its receiver knows.   *)
(***************************************************************************)
Complete(m) ==
  \A k \in Keys :
    /\ ORLessOrEqual(m.sets[k], m.snap[k]) /\ ORLessOrEqual(m.snap[k], store[m.src][k])
    /\ \A e \in Elements, i \in Nodes :
         \/ m.snap[k][e][i].counter <= m.sets[k][e][i].counter
         \/ m.snap[k][e][i].counter <= store[m.dst][k][e][i].counter

SafeToMerge(m) ==
  /\ 0 < m.seq /\ m.seq <= setsSeq(m.src)
  /\ \A j \in 1 .. (m.seq - 1) :
       \/ ORLessOrEqual(delta[m.src][j].val, m.sets[delta[m.src][j].key])
       \/ ORLessOrEqual(delta[m.src][j].val, store[m.dst][delta[m.src][j].key])

Inv ==
  /\ TypeOK
  /\ \A k \in Keys : DotsUnique(history[k])
  /\ AllClosed /\ DotsOwned /\ NothingAhead /\ ContextsKnown /\ StoresLogged
  /\ \A n, p \in Nodes : ack[n][p] > 0 => SafeToSkip(n, p, ack[n][p])
  /\ \A a \in acks : SafeToSkip(a.dst, a.src, a.seq)
  /\ \A m \in gossip : SafeToMerge(m) /\ Complete(m)

-----------------------------------------------------------------------------
(***************************************************************************)
(* ImplementsStateBased.  The README's claim of equivalence to a           *)
(* state-based CRDT, which needs clients that stay at one node: read every *)
(* message as the store it was built from and each step is a step of       *)
(* StateGossip, in which clients use contexts of the past of their node.   *)
(***************************************************************************)
Past(or, e) ==
  {vv \in [Nodes -> UNION {0 .. or[e][i].counter : i \in Nodes}] :
     \A i \in Nodes : vv[i] <= or[e][i].counter}

SetUpdates(n, or) ==
  UNION {UNION {{ORAdd(or, n, e, vv), ORRemove(or, n, e, vv)} : vv \in Past(or, e)} : e \in Elements}

SB == INSTANCE StateGossip WITH
        Bottom <- NewORSet,
        Lub <- ORMerge,
        Updates <- SetUpdates,
        state <- store,
        flight <- {[src |-> m.src, dst |-> m.dst, state |-> m.snap] : m \in gossip}

ImplementsStateBased == SB!Spec
=============================================================================
