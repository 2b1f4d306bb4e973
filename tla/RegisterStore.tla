--------------------------- MODULE RegisterStore ----------------------------
(***************************************************************************)
(* The registers of internal/server/store.go, replicated by the same       *)
(* delta-interval gossip as the counters, and the clocks they depend on.   *)
(***************************************************************************)
EXTENDS LWWRegister, Gossip, Integers, Sequences, Functions

CONSTANTS
  Keys,       \* the register keys clients use
  Starts,     \* the wall clock readings a node may start with (clock skew)
  WallSteps,  \* how far the wall clock may move while the monotonic one ticks
  MaxTime,    \* bound: the latest wall clock reading
  MaxTicks,   \* bound: the latest monotonic clock reading
  MaxWrites   \* bound: client writes in a behaviour

ASSUME RegisterStoreAssumption ==
  /\ IsFiniteSet(Keys)
  /\ Starts \subseteq 1 .. MaxTime
  /\ WallSteps \subseteq Int
  /\ MaxTime \in Nat /\ MaxTicks \in Nat /\ MaxWrites \in Nat

(***************************************************************************)
(* Wall clocks run unevenly but are never set back and never stand still.  *)
(* The code relies on it without saying so: the README of this project     *)
(* shows what happens otherwise.                                           *)
(***************************************************************************)
ClocksAdvance == \A w \in WallSteps : w > 0

VARIABLES
  store,   \* store[n][k]: Store.registers
  delta,   \* delta[n][i]: the delta Store.deltaRegisters holds at i
  clock,   \* clock[n][t]: what the wall clock of n read at the monotonic time t
  written, \* the entries clients wrote, as peers see them (a history variable)
  writes   \* how many writes there were (for the bound)

storeVars == <<store, delta, written, writes>>
vars == <<storeVars, clock, gossipVars>>

(***************************************************************************)
(* The two readings of time.Now: the wall clock's and the monotonic        *)
(* clock's.  Only the last reading is the clock's state; the earlier ones  *)
(* are history, which no action reads.                                     *)
(***************************************************************************)
Mono(n) == Len(clock[n])

Wall(n) == clock[n][Mono(n)]

Stores == [Keys -> Entries \cup {NoEntry}]

Deltas == [key : Keys, val : Entries]

(***************************************************************************)
(* The view peers have of a node's registers.                              *)
(***************************************************************************)
Seen(n) == [k \in Keys |-> Wire(store[n][k])]

(***************************************************************************)
(* A gossip request, and the registers it was computed from, as peers see  *)
(* them: snap is a history field, which no action reads.                   *)
(***************************************************************************)
Messages == [src : Nodes, dst : Nodes, seq : Nat, registers : Stores, snap : Stores]

registersSeq(n) == Len(delta[n]) + 1

Init ==
  /\ GossipInit
  /\ store = [n \in Nodes |-> [k \in Keys |-> NoEntry]]
  /\ delta = [n \in Nodes |-> <<>>]
  /\ clock \in [Nodes -> {<<t>> : t \in Starts}]
  /\ written = {}
  /\ writes = 0

-----------------------------------------------------------------------------
(***************************************************************************)
(* Time passes at a node.  Clocks of different nodes are not synchronised, *)
(* and a node's wall clock does not run at the pace of its monotonic one:  *)
(* it is slewed, and it jumps, to follow the time of day.                  *)
(***************************************************************************)
Tick(n) ==
  /\ Mono(n) < MaxTicks
  /\ \E w \in WallSteps :
       /\ Wall(n) + w \in 1 .. MaxTime
       /\ clock' = [clock EXCEPT ![n] = Append(@, Wall(n) + w)]
  /\ UNCHANGED <<storeVars, gossipVars>>

(***************************************************************************)
(* putRegister calls SetRegister: the delta is logged even if merging it   *)
(* left the register alone, because the entry held is not older.           *)
(***************************************************************************)
SetRegister(n, k, v) ==
  LET d == Set(n, Wall(n), Mono(n), v)
  IN  /\ writes < MaxWrites
      /\ store' = [store EXCEPT ![n][k] = LWWMerge(@, d)]
      /\ delta' = [delta EXCEPT ![n] = Append(@, [key |-> k, val |-> d])]
      /\ written' = written \cup {[key |-> k, val |-> Wire(d)]}
      /\ writes' = writes + 1
      /\ UNCHANGED <<clock, gossipVars>>

\* Mutant: a delta overwrites the ones before it, later or not.
JoinedMutantLast(log, a, k) ==
  LET upTo[i \in (a - 1) .. Len(log)] ==
        IF i = a - 1
          THEN NoEntry
          ELSE IF log[i].key = k THEN log[i].val ELSE upTo[i - 1]
  IN  upTo[Len(log)]

(***************************************************************************)
(* Store.Delta.  The deltas are merged in log order, with whatever         *)
(* monotonic readings they still have.                                     *)
(***************************************************************************)
Joined(log, a, k) ==
  LET upTo[i \in (a - 1) .. Len(log)] ==
        IF i = a - 1
          THEN NoEntry
          ELSE IF log[i].key = k THEN LWWMerge(upTo[i - 1], log[i].val) ELSE upTo[i - 1]
  IN  upTo[Len(log)]

Interval(n, a) == [k \in Keys |-> Joined(delta[n], a, k)]

HasNews(n, p) == ack[n][p] = 0 \/ ack[n][p] < registersSeq(n)

Delta(n, p) ==
  LET registers == IF ack[n][p] = 0 THEN store[n] ELSE Interval(n, ack[n][p])
  IN  [k \in Keys |-> Wire(registers[k])]

StartGossip(n, p) ==
  /\ HasNews(n, p)
  /\ SendGossip([src |-> n, dst |-> p, seq |-> registersSeq(n),
                 registers |-> Delta(n, p), snap |-> Seen(n)])
  /\ UNCHANGED <<storeVars, clock>>

(***************************************************************************)
(* Store.Merge.                                                            *)
(***************************************************************************)
News(m) == {k \in Keys : ~LWWLessOrEqual(m.registers[k], store[m.dst][k])}

Merge(n, registers, keys) ==
  [k \in Keys |-> IF k \in keys THEN LWWMerge(store[n][k], registers[k]) ELSE store[n][k]]

Logged(registers, order) ==
  [i \in DOMAIN order |-> [key |-> order[i], val |-> registers[order[i]]]]

PostGossip(m) ==
  /\ ReceiveGossip(m)
  /\ store' = [store EXCEPT ![m.dst] = Merge(m.dst, m.registers, News(m))]
  /\ \E order \in Surjection(1 .. Cardinality(News(m)), News(m)) :
       delta' = [delta EXCEPT ![m.dst] = @ \o Logged(m.registers, order)]
  /\ UNCHANGED <<written, writes, clock>>

-----------------------------------------------------------------------------
Transport ==
  \/ \E a \in acks : PostAck(a) \/ DropAck(a)
  \/ \E m \in gossip : DropGossip(m)
  \/ Membership

Next ==
  \/ \E n \in Nodes, k \in Keys, v \in Values : SetRegister(n, k, v)
  \/ \E n, p \in Nodes : StartGossip(n, p)
  \/ \E m \in gossip : PostGossip(m)
  \/ \E n \in Nodes : Tick(n)
  \/ Transport /\ UNCHANGED <<storeVars, clock>>

Spec == Init /\ [][Next]_vars

-----------------------------------------------------------------------------
TypeOK ==
  /\ store \in [Nodes -> Stores]
  /\ delta \in [Nodes -> Seq(Deltas)]
  /\ clock \in [Nodes -> Seq(1 .. MaxTime) \ {<<>>}]
  /\ written \subseteq Deltas
  /\ peers \in [Nodes -> SUBSET Nodes]
  /\ ack \in [Nodes -> [Nodes -> Nat]]
  /\ gossip \subseteq Messages
  /\ acks \subseteq Acks

(***************************************************************************)
(* SilenceJustified.  Delta reports nothing to send to a peer only if no   *)
(* register of the node is later than the peer's, and registers with the   *)
(* same time and writer hold the same value.  Two writes of one node in    *)
(* the same clock tick have the same timestamp and writer; if replicas     *)
(* could keep different ones of the two, no gossip would ever repair it.   *)
(***************************************************************************)
SilenceJustified ==
  \A n, p \in Nodes : ~HasNews(n, p) =>
    \A k \in Keys : After(Seen(p)[k], Seen(n)[k]) \/ Seen(p)[k] = Seen(n)[k]

(***************************************************************************)
(* QuietConverged.  When the gossip loops of a fully connected cluster     *)
(* have nothing left to send, every node holds the same entry for every    *)
(* key, although a node orders its own writes by its monotonic clock and   *)
(* everybody else orders them by its wall clock, which runs at another     *)
(* pace.                                                                   *)
(***************************************************************************)
Quiet == \A n \in Nodes : \A p \in peers[n] : ~HasNews(n, p)

FullMembership == \A n \in Nodes : peers[n] = Nodes \ {n}

QuietConverged == Quiet /\ FullMembership => \A n, p \in Nodes : Seen(n) = Seen(p)

(***************************************************************************)
(* LastWriteWins.  In such a cluster no entry anybody ever wrote has a     *)
(* later timestamp than the one that is left: "merge picks the highest     *)
(* timestamp" holds of the cluster, not only of one call of Merge.         *)
(***************************************************************************)
LastWriteWins ==
  Quiet /\ FullMembership =>
    \A n \in Nodes : \A e \in written : ~After(e.val, Seen(n)[e.key])

-----------------------------------------------------------------------------
(***************************************************************************)
(* The inductive invariant behind the properties above.  As peers see      *)
(* them, entries are ordered by wall clock and writer.                     *)
(***************************************************************************)
NotLater(e, f) == ~After(Wire(e), Wire(f))

SameTime(e, f) == e.wall = f.wall /\ e.rank = f.rank

(***************************************************************************)
(* The monotonic readings at a node are its own, and belong to the wall    *)
(* clock readings they came with.  If both clocks only ever move forward,  *)
(* comparing by either gives the same order.                               *)
(***************************************************************************)
OwnClock(n, e) ==
  e.mono > 0 => e.rank = Rank[n] /\ e.mono <= Mono(n) /\ e.wall = clock[n][e.mono]

ClocksAgree ==
  \A n \in Nodes : /\ \A k \in Keys : OwnClock(n, store[n][k])
                   /\ \A j \in DOMAIN delta[n] : OwnClock(n, delta[n][j].val)

Forward(n) == \A i, j \in DOMAIN clock[n] : i < j => clock[n][i] < clock[n][j]

(***************************************************************************)
(* Of the writes of one node to k in one tick of its clock the first to be *)
(* logged is the genuine one: the only one that may end up in a register.  *)
(***************************************************************************)
Genuine(k, e) ==
  \E n \in Nodes : \E j \in DOMAIN delta[n] :
    /\ e.rank = Rank[n]
    /\ delta[n][j].key = k
    /\ Wire(delta[n][j].val) = Wire(e)
    /\ \A i \in 1 .. (j - 1) : delta[n][i].key = k => ~SameTime(delta[n][i].val, e)

(***************************************************************************)
(* A register and the log of its node agree on the latest entry, and the   *)
(* only entries that are not genuine are a node's own, in its own log.     *)
(***************************************************************************)
LogsTrue ==
  \A n \in Nodes : \A j \in DOMAIN delta[n] :
    /\ NotLater(delta[n][j].val, store[n][delta[n][j].key])
    /\ delta[n][j].val.rank = Rank[n] \/ Genuine(delta[n][j].key, delta[n][j].val)

StoresLogged ==
  \A n \in Nodes, k \in Keys : store[n][k] = NoEntry \/
    /\ Genuine(k, store[n][k])
    /\ \E j \in DOMAIN delta[n] : delta[n][j].key = k /\ NotLater(store[n][k], delta[n][j].val)

(***************************************************************************)
(* Node n may drop the deltas below a from what it sends p.                *)
(***************************************************************************)
SafeToSkip(n, p, a) ==
  /\ 0 < a /\ a <= registersSeq(n)
  /\ \A j \in 1 .. (a - 1) : NotLater(delta[n][j].val, store[p][delta[n][j].key])

(***************************************************************************)
(* Once m is merged its sequence number is safe to skip, and the entries   *)
(* that the merge adopts are genuine.                                      *)
(***************************************************************************)
SafeToMerge(m) ==
  /\ 0 < m.seq /\ m.seq <= registersSeq(m.src)
  /\ \A j \in 1 .. (m.seq - 1) :
       \/ NotLater(delta[m.src][j].val, m.registers[delta[m.src][j].key])
       \/ NotLater(delta[m.src][j].val, store[m.dst][delta[m.src][j].key])
  /\ \A k \in Keys :
       /\ m.registers[k].mono = 0
       /\ NotLater(m.registers[k], store[m.dst][k]) \/ Genuine(k, m.registers[k])

(***************************************************************************)
(* If m lacks an entry of the registers it was built from, neither that    *)
(* entry nor what m has in its place is news to the receiver.              *)
(***************************************************************************)
Complete(m) ==
  \A k \in Keys :
    \/ m.registers[k] = m.snap[k]
    \/ NotLater(m.registers[k], store[m.dst][k]) /\ NotLater(m.snap[k], store[m.dst][k])

Inv ==
  /\ TypeOK
  /\ \A n \in Nodes : Forward(n)
  /\ ClocksAgree
  /\ LogsTrue
  /\ StoresLogged
  /\ \A n, p \in Nodes : ack[n][p] > 0 => SafeToSkip(n, p, ack[n][p])
  /\ \A a \in acks : SafeToSkip(a.dst, a.src, a.seq)
  /\ \A m \in gossip : SafeToMerge(m) /\ Complete(m)
  /\ \A e \in written : \E n \in Nodes : NotLater(e.val, store[n][e.key])
-----------------------------------------------------------------------------
(***************************************************************************)
(* ImplementsStateBased.  The README's claim of equivalence to a           *)
(* state-based CRDT: as peers see the registers, and with every message    *)
(* read as the registers it was built from, each step is a step of         *)
(* StateGossip.  Which of two writes of one clock tick a replica holds     *)
(* would depend on the deltas it was sent if it were not always the first. *)
(***************************************************************************)
RegisterUpdates(n, e) ==
  [wall : 1 .. MaxTime, mono : {0}, rank : {Rank[n]}, value : Values]

SB == INSTANCE StateGossip WITH
        Bottom <- NoEntry,
        Lub <- LWWMerge,
        Updates <- RegisterUpdates,
        state <- [n \in Nodes |-> Seen(n)],
        flight <- {[src |-> m.src, dst |-> m.dst, state |-> m.snap] : m \in gossip}

ImplementsStateBased == SB!Spec
=============================================================================
