------------------------------- MODULE Probe --------------------------------
(***************************************************************************)
(* The failure detector of internal/swim: the Probe and Listen loops of    *)
(* every node, the goroutines that relay a ping-req, the channels between  *)
(* them and the UDP messages between nodes.                                *)
(*                                                                         *)
(* A timer may fire at any moment, because the network and the scheduler   *)
(* may be as slow as they like.  slips counts what goes wrong in a round:  *)
(* a message lost or still under way when its period ends, an address that *)
(* does not resolve, a relay that gives up too soon, an ack dropped while  *)
(* the prober has yet to take the one before it.  A ping-req sent while    *)
(* the direct ack is still on its way is no slip: a slow peer.             *)
(*                                                                         *)
(* Which member is probed next is left open.  Piggybacked events are the   *)
(* subject of Swim.                                                        *)
(***************************************************************************)
EXTENDS Naturals, Sequences, FiniteSets, Bags, BagsExt

CONSTANTS
  Nodes,
  SubgroupSize,  \* k, the number of members asked to probe indirectly
  Periods,       \* bound: Periods[n] protocol periods of node n
  Crashing,      \* the nodes that may crash
  MaxSlips       \* bound: slips, see above

ASSUME ProbeAssumption ==
  /\ IsFiniteSet(Nodes)
  /\ "none" \notin Nodes
  /\ SubgroupSize \in Nat \ {0}
  /\ Periods \in [Nodes -> Nat]
  /\ Crashing \subseteq Nodes
  /\ MaxSlips \in Nat

VARIABLES
  members,    \* members[n]: the peers on the list of n
  period,     \* Member.period
  phase,      \* phase[n]: where the Probe loop of n is
  target,     \* target[n]: the peer n probes, n itself when it probes none
  acks,       \* Member.acks, a channel of capacity 1
  listen,     \* listen[n]: the ack the Listen loop of n is about to deliver
  relays,     \* relays[n]: the relay goroutines of n
  relayAcks,  \* relayAcks[n]: the relays in the table of n's Listen loop
  net,        \* the UDP messages in flight, a bag
  up,         \* the nodes that run
  panicked,   \* the nodes whose process ended in a panic
  slips,      \* slips so far
  pinged,     \* history: <<x, n, p, k>>, x pinged p for the probe number k of n
  answered,   \* history: <<x, p, k>>, p answered a ping of x with the number k
  accused,    \* history: nodes declared dead while they ran, see Blame
  shared      \* history: a relay had the key of its node's probe or of another relay

loops == <<phase, target, period>>
relaying == <<relays, relayAcks>>
machines == <<up, panicked>>
history == <<pinged, answered, accused, shared>>
vars == <<members, loops, acks, listen, relaying, net, machines, slips, history>>

NoTarget == "none"
AckOf(p, k) == [addr |-> p, period |-> k]
Message(kind, src, dst, k, t) ==
  [kind |-> kind, src |-> src, dst |-> dst, period |-> k, target |-> t]

Init ==
  /\ members = [n \in Nodes |-> Nodes \ {n}]
  /\ period = [n \in Nodes |-> 0]
  /\ phase = [n \in Nodes |-> "idle"]
  /\ target = [n \in Nodes |-> n]
  /\ acks = [n \in Nodes |-> <<>>]
  /\ listen = [n \in Nodes |-> <<>>]
  /\ relays = [n \in Nodes |-> {}]
  /\ relayAcks = [n \in Nodes |-> {}]
  /\ net = EmptyBag
  /\ up = Nodes
  /\ panicked = {}
  /\ slips = 0
  /\ pinged = {}
  /\ answered = {}
  /\ accused = {}
  /\ shared = FALSE

Key(r) == <<r.target, r.period>>
AckAddr(m) == IF m.target = NoTarget THEN m.src ELSE m.target
Waiting(n) == phase[n] \in {"waiting", "asked"}

(***************************************************************************)
(* Nothing with period number k is on its way, and no goroutine has        *)
(* anything to do about it but to wait for a timer.  Over: nor that.       *)
(***************************************************************************)
Delivered(k) ==
  /\ \A m \in BagToSet(net) : m.period # k
  /\ \A n \in up :
       /\ listen[n] # <<>> => Head(listen[n]).ack.period # k
       /\ \A r \in relays[n] : r.id.period = k => r.at = "waiting" /\ r.chan = <<>>

Over(k) == Delivered(k) /\ \A n \in up : \A r \in relays[n] : r.id.period # k

(***************************************************************************)
(* A step that slips k times.                                              *)
(***************************************************************************)
Slip(k) == slips + k <= MaxSlips /\ slips' = slips + k

Send(ms) == net (+) SetToBag(ms)
Replace(m, ms) == BagRemove(net, m) (+) SetToBag(ms)

-----------------------------------------------------------------------------
(***************************************************************************)
(* Probe: a new period begins with a ping.  If there is nobody to ping or  *)
(* the address does not resolve, the period passes without a verdict.      *)
(***************************************************************************)
StartPeriod(n, p) ==
  /\ n \in up
  /\ phase[n] = "idle"
  /\ period[n] < Periods[n]
  /\ p \in members[n]
  /\ period' = [period EXCEPT ![n] = @ + 1]
  /\ phase' = [phase EXCEPT ![n] = "waiting"]
  /\ target' = [target EXCEPT ![n] = p]
  /\ net' = Send({Message("ping", n, p, period[n] + 1, NoTarget)})
  /\ pinged' = pinged \cup {<<n, n, p, period[n] + 1>>}
  /\ shared' = (shared \/ \E r \in relayAcks[n] : Key(r) = <<p, period[n] + 1>>)
  /\ UNCHANGED <<members, acks, listen, relaying, machines, slips, answered, accused>>

SkipPeriod(n) ==
  /\ n \in up
  /\ phase[n] = "idle"
  /\ period[n] < Periods[n]
  /\ period' = [period EXCEPT ![n] = @ + 1]
  /\ UNCHANGED <<members, phase, target, acks, listen, relaying, net, machines, slips, history>>

(***************************************************************************)
(* Probe: the ack timer fires and up to k other members are asked          *)
(* (kRandomPeers may draw fewer).  The timer is not set again in this      *)
(* period.                                                                 *)
(***************************************************************************)
Subgroups(n) ==
  LET candidates == members[n] \ {target[n]}
  IN  IF Cardinality(candidates) <= SubgroupSize
      THEN {candidates}
      ELSE {g \in SUBSET candidates : Cardinality(g) \in 1 .. SubgroupSize}

AckTimeout(n) ==
  /\ n \in up
  /\ phase[n] = "waiting"
  /\ \E g \in Subgroups(n) :
       net' = Send({Message("pingReq", n, h, period[n], target[n]) : h \in g})
  /\ phase' = [phase EXCEPT ![n] = "asked"]
  /\ UNCHANGED <<members, target, period, acks, listen, relaying, machines, slips, history>>

\* Mutant: the period of the ack is not compared.
MatchesMutantPeriod(a, p, k) == a.addr = p

(***************************************************************************)
(* The test of Probe and of a relay: the ack answers this very ping.       *)
(***************************************************************************)
Matches(a, p, k) == a.addr = p /\ a.period = k

TakeAck(n) ==
  /\ n \in up
  /\ Waiting(n)
  /\ acks[n] # <<>>
  /\ acks' = [acks EXCEPT ![n] = <<>>]
  /\ phase' = [phase EXCEPT ![n] =
                 IF Matches(Head(acks[n]), target[n], period[n]) THEN "alive" ELSE @]
  /\ UNCHANGED <<members, target, period, listen, relaying, net, machines, slips, history>>

(***************************************************************************)
(* Probe: the period ends.  Without an ack the peer is dead, and process   *)
(* takes it from the list; if that was too soon it is two slips, for a     *)
(* period cut short defeats both ways to reach a peer.  Blame is what the  *)
(* history notes: a peer that runs, although all members run and there was *)
(* one to ask.                                                             *)
(***************************************************************************)
Blame(n) == {p \in {target[n]} : members[n] \subseteq up /\ members[n] # {p}}

PeriodEnds(n) ==
  /\ n \in up
  /\ phase[n] # "idle"
  /\ phase' = [phase EXCEPT ![n] = "idle"]
  /\ target' = [target EXCEPT ![n] = n]
  /\ \/ /\ phase[n] = "alive"
        /\ Slip(IF Over(period[n]) THEN 0 ELSE 1)
        /\ UNCHANGED <<members, accused>>
     \/ /\ Waiting(n)
        /\ members' = [members EXCEPT ![n] = @ \ {target[n]}]
        /\ accused' = accused \cup Blame(n)
        /\ Slip(IF Over(period[n]) /\ phase[n] = "asked" /\ acks[n] = <<>> THEN 0 ELSE 2)
  /\ UNCHANGED <<period, acks, listen, relaying, net, machines, pinged, answered, shared>>

-----------------------------------------------------------------------------
(***************************************************************************)
(* Listen: a ping is answered at once.                                     *)
(***************************************************************************)
ReceivePing(n, m) ==
  /\ m.kind = "ping"
  /\ net' = Replace(m, {Message("ack", n, m.src, m.period, NoTarget)})
  /\ answered' = answered \cup {<<m.src, n, m.period>>}
  /\ UNCHANGED <<members, loops, acks, listen, relaying, machines, slips, pinged, accused, shared>>

\* Mutant: the key of a relay is its target alone.
TakersMutantTarget(n, addr, k) == {r \in relayAcks[n] : r.target = addr}

(***************************************************************************)
(* Listen: the ack of a relay carries the target.  The channel is looked   *)
(* up under the lock and used after it: the relay whose key matches, or    *)
(* the channel of the Probe loop.                                          *)
(***************************************************************************)
Takers(n, addr, k) == {r \in relayAcks[n] : Key(r) = <<addr, k>>}

ReceiveAck(n, m) ==
  LET addr == AckAddr(m)
  IN  /\ m.kind = "ack"
      /\ listen' = [listen EXCEPT ![n] =
           <<[ack |-> AckOf(addr, m.period), relay |-> Takers(n, addr, m.period)]>>]
      /\ net' = BagRemove(net, m)
      /\ UNCHANGED <<members, loops, acks, relaying, machines, slips, history>>

(***************************************************************************)
(* Listen: the send that does not block.  Without room the ack is dropped; *)
(* on the channel of a relay that has ended, it panics.                    *)
(***************************************************************************)
Running(n, id) == {r \in relays[n] : r.id = id}

Deliver(n) ==
  LET a == Head(listen[n]).ack
      to == Head(listen[n]).relay
  IN  /\ n \in up
      /\ listen[n] # <<>>
      /\ listen' = [listen EXCEPT ![n] = <<>>]
      /\ \/ /\ to = {}
            /\ acks' = [acks EXCEPT ![n] = IF @ = <<>> THEN <<a>> ELSE @]
            /\ Slip(IF Waiting(n) /\ acks[n] # <<>> THEN 1 ELSE 0)
            /\ UNCHANGED <<relays, machines>>
         \/ /\ to # {}
            /\ \A id \in to : Running(n, id) # {}
            /\ relays' = [relays EXCEPT ![n] =
                 {IF r.id \in to /\ r.chan = <<>> THEN [r EXCEPT !.chan = <<a>>] ELSE r : r \in @}]
            /\ UNCHANGED <<acks, machines, slips>>
         \/ /\ \E id \in to : Running(n, id) = {}
            /\ up' = up \ {n}
            /\ panicked' = panicked \cup {n}
            /\ UNCHANGED <<acks, relays, slips>>
      /\ UNCHANGED <<members, loops, relayAcks, net, history>>

(***************************************************************************)
(* Listen: a ping-req starts a relay, which takes over the key from any    *)
(* relay that has it, and pings the target if its address resolves.  The   *)
(* goroutine pings later than this; a ping that is slow does the same.     *)
(***************************************************************************)
ReceivePingReq(n, m) ==
  LET id == [src |-> m.src, target |-> m.target, period |-> m.period]
      relay(at) == [id |-> id, at |-> at, chan |-> <<>>]
  IN  /\ m.kind = "pingReq"
      /\ relayAcks' = [relayAcks EXCEPT ![n] = {r \in @ : Key(r) # Key(id)} \cup {id}]
      /\ \/ /\ net' = Replace(m, {Message("ping", n, m.target, m.period, NoTarget)})
            /\ relays' = [relays EXCEPT ![n] = @ \cup {relay("waiting")}]
            /\ pinged' = pinged \cup {<<n, m.src, m.target, m.period>>}
            /\ UNCHANGED slips
         \/ /\ net' = BagRemove(net, m)
            /\ relays' = [relays EXCEPT ![n] = @ \cup {relay("done")}]
            /\ Slip(1)
            /\ UNCHANGED pinged
      /\ shared' = \/ shared
                   \/ Waiting(n) /\ Key(id) = <<target[n], period[n]>>
                   \/ \E r \in relayAcks[n] : Key(r) = Key(id)
      /\ UNCHANGED <<members, loops, acks, listen, machines, answered, accused>>

Receive(n) ==
  /\ n \in up
  /\ listen[n] = <<>>
  /\ \E m \in BagToSet(net) :
       /\ m.dst = n
       /\ ReceivePing(n, m) \/ ReceiveAck(n, m) \/ ReceivePingReq(n, m)

-----------------------------------------------------------------------------
\* Mutant: the relay answers in its own name.
ReplyMutantOwn(n, id) == Message("ack", n, id.src, id.period, NoTarget)

(***************************************************************************)
(* What a relay answers: an ack that carries the target.                   *)
(***************************************************************************)
Reply(n, id) == Message("ack", n, id.src, id.period, id.target)

(***************************************************************************)
(* The relay goroutine: it forwards the ack it waits for, or gives up when *)
(* its timer fires.                                                        *)
(***************************************************************************)
RelayAck(n, r) ==
  LET a == Head(r.chan)
      found == Matches(a, r.id.target, r.id.period)
      rest == [r EXCEPT !.chan = <<>>, !.at = IF found THEN "done" ELSE @]
  IN  /\ r.at = "waiting"
      /\ r.chan # <<>>
      /\ relays' = [relays EXCEPT ![n] = (@ \ {r}) \cup {rest}]
      /\ net' = IF found THEN Send({Reply(n, r.id)}) ELSE net
      /\ UNCHANGED <<members, loops, acks, listen, relayAcks, machines, slips, history>>

RelayTimeout(n, r) ==
  /\ r.at = "waiting"
  /\ relays' = [relays EXCEPT ![n] = (@ \ {r}) \cup {[r EXCEPT !.at = "done"]}]
  /\ Slip(IF Delivered(r.id.period) THEN 0 ELSE 1)
  /\ UNCHANGED <<members, loops, acks, listen, relayAcks, net, machines, history>>

\* Mutant: the key stays in the table.
RelayDoneMutantKeeps(n, r) ==
  /\ r.at = "done"
  /\ relays' = [relays EXCEPT ![n] = @ \ {r}]
  /\ UNCHANGED <<relayAcks, members, loops, acks, listen, net, machines, slips, history>>

(***************************************************************************)
(* done: the channel is closed and the key deleted, whoever has it now.    *)
(***************************************************************************)
RelayDone(n, r) ==
  /\ r.at = "done"
  /\ relays' = [relays EXCEPT ![n] = @ \ {r}]
  /\ relayAcks' = [relayAcks EXCEPT ![n] = {i \in @ : Key(i) # Key(r.id)}]
  /\ UNCHANGED <<members, loops, acks, listen, net, machines, slips, history>>

Relay(n) ==
  n \in up /\ \E r \in relays[n] : RelayAck(n, r) \/ RelayTimeout(n, r) \/ RelayDone(n, r)

(***************************************************************************)
(* What the network and the machines may do.                               *)
(***************************************************************************)
Lose(m) ==
  /\ net' = BagRemove(net, m)
  /\ Slip(IF m.dst \in up THEN 1 ELSE 0)
  /\ UNCHANGED <<members, loops, acks, listen, relaying, machines, history>>

Crash(n) ==
  /\ n \in up
  /\ up' = up \ {n}
  /\ UNCHANGED <<members, loops, acks, listen, relaying, net, panicked, slips, history>>

Next ==
  \/ \E n, p \in Nodes : StartPeriod(n, p)
  \/ \E n \in Nodes :
       \/ SkipPeriod(n) \/ AckTimeout(n) \/ TakeAck(n) \/ PeriodEnds(n)
       \/ Receive(n) \/ Deliver(n) \/ Relay(n)
  \/ \E m \in BagToSet(net) : Lose(m)
  \/ \E n \in Crashing : Crash(n)

Spec == Init /\ [][Next]_vars

-----------------------------------------------------------------------------
(***************************************************************************)
(* TypeOK.  Also: the table knows only relays that run and one of each     *)
(* key, and the channels keep their capacity.                              *)
(***************************************************************************)
Ids == [src : Nodes, target : Nodes, period : Nat]
Acks == [addr : Nodes, period : Nat]
Relays == [id : Ids, at : {"waiting", "done"}, chan : Seq(Acks)]
Messages ==
  [kind : {"ping", "ack", "pingReq"}, src : Nodes, dst : Nodes, period : Nat,
   target : Nodes \cup {NoTarget}]

LoopsOK ==
  /\ members \in [Nodes -> SUBSET Nodes]
  /\ period \in [Nodes -> Nat]
  /\ phase \in [Nodes -> {"idle", "waiting", "asked", "alive"}]
  /\ target \in [Nodes -> Nodes]
  /\ \A n \in Nodes : n \notin members[n]
  /\ up \subseteq Nodes /\ up \cap panicked = {}

MessagesOK ==
  /\ BagToSet(net) \subseteq Messages
  /\ \A m \in BagToSet(net) : m.kind = "pingReq" => m.target \in Nodes

ChannelsOK ==
  /\ acks \in [Nodes -> Seq(Acks)]
  /\ listen \in [Nodes -> Seq([ack : Acks, relay : SUBSET Ids])]
  /\ \A n \in Nodes : Len(acks[n]) <= 1

RelaysOK ==
  /\ relays \in [Nodes -> SUBSET Relays]
  /\ relayAcks \in [Nodes -> SUBSET Ids]
  /\ \A n \in Nodes :
       /\ \A r \in relays[n] : Len(r.chan) <= 1
       /\ \A i \in relayAcks[n] : Running(n, i) # {}
       /\ \A i, j \in relayAcks[n] : Key(i) = Key(j) => i = j

TypeOK == LoopsOK /\ MessagesOK /\ ChannelsOK /\ RelaysOK

(***************************************************************************)
(* VerdictEvidenced.  A node that found its target alive in a period had   *)
(* the target answer a ping that was sent for this very probe, by the node *)
(* itself or by a relay: neither an ack of an earlier period, nor one of   *)
(* another peer, nor one of another node's probe, is taken for it.         *)
(*                                                                         *)
(* The exception is a probe that is Crossed.  Every node numbers its       *)
(* periods itself, and an ack carries no more than the number, so when a   *)
(* node that pings the target for this probe, the prober or a relay, also  *)
(* pings it with the same number for another one, the answer to either     *)
(* ping passes for an answer to the other, even one the target sent before *)
(* the other ping.  All that is left then is that the target answered some *)
(* ping with this number.                                                  *)
(***************************************************************************)
Served(x, p, k) == {n \in Nodes : <<x, n, p, k>> \in pinged}
Crossed(n, p, k) == \E x \in Nodes : n \in Served(x, p, k) /\ Served(x, p, k) # {n}

VerdictEvidenced ==
  \A n \in up : phase[n] = "alive" =>
    \E x \in Nodes :
      /\ <<x, target[n], period[n]>> \in answered
      /\ Served(x, target[n], period[n]) = {n} \/ Crossed(n, target[n], period[n])

(***************************************************************************)
(* EvidenceInv.  The invariant behind it: whatever says that a peer        *)
(* answered, in a datagram, in the hands of a listener, in a channel of a  *)
(* prober or of a relay, is true of some probe for which the node that has *)
(* it pinged that peer.                                                    *)
(***************************************************************************)
Vouched(n, p, k) ==
  \E x \in Nodes : <<x, p, k>> \in answered /\ (n \in Served(x, p, k) \/ Crossed(n, p, k))

Supported(n, a) == \E q \in Served(n, a.addr, a.period) : Vouched(q, a.addr, a.period)

MessagesTrue ==
  \A m \in BagToSet(net) :
    /\ m.kind = "ping" => Served(m.src, m.dst, m.period) # {}
    /\ m.kind = "pingReq" => m.src \in Served(m.src, m.target, m.period)
    /\ m.kind = "ack" /\ m.target = NoTarget =>
         <<m.dst, m.src, m.period>> \in answered /\ Served(m.dst, m.src, m.period) # {}
    /\ m.kind = "ack" /\ m.target # NoTarget =>
         m.dst \in Served(m.dst, m.target, m.period) /\ Vouched(m.dst, m.target, m.period)

ChannelsTrue ==
  \A n \in Nodes :
    /\ listen[n] # <<>> => Supported(n, Head(listen[n]).ack)
    /\ acks[n] # <<>> => Supported(n, Head(acks[n]))

RelaysTrue ==
  \A n \in Nodes : \A r \in relays[n] :
    /\ r.chan # <<>> => Supported(n, Head(r.chan))
    /\ r.id.src \in Served(r.id.src, r.id.target, r.id.period)
    /\ r.at = "waiting" => r.id.src \in Served(n, r.id.target, r.id.period)

VerdictsTrue ==
  \A n \in Nodes :
    /\ Waiting(n) => n \in Served(n, target[n], period[n])
    /\ phase[n] = "alive" => Vouched(n, target[n], period[n])

EvidenceInv == TypeOK /\ MessagesTrue /\ ChannelsTrue /\ RelaysTrue /\ VerdictsTrue

(***************************************************************************)
(* OneSlipTolerated.  Direct and indirect probing back each other up: with *)
(* all members running, one slip, wherever it happens, makes nobody        *)
(* declare a running peer dead, as long as no relay had the key of its own *)
(* node's probe or of another relay.                                       *)
(***************************************************************************)
Undisturbed == panicked = {} /\ ~shared
OneSlipTolerated == slips <= 1 /\ Undisturbed => accused = {}

(***************************************************************************)
(* BackupInv.  The invariant behind it.  A prober whose members all run    *)
(* has two ways to hear of its target, a direct one and one through a      *)
(* relay, and every way that is cut off has cost a slip: the ack is in its *)
(* channel, or the slips and the ways still open are two.  The way through *)
(* a relay is open until the prober asks, and then as long as something in *)
(* a datagram, in a listener or in a relay keeps it open.                  *)
(***************************************************************************)
Mail(a, t, k) == {Message("ping", a, t, k, NoTarget), Message("ack", t, a, k, NoTarget)}
InFlight(ms) == ms \cap BagToSet(net) # {}
Holds(n, p, k, to) ==
  listen[n] # <<>> /\ Head(listen[n]) = [ack |-> AckOf(p, k), relay |-> to]

Direct(n) == InFlight(Mail(n, target[n], period[n]))
Heard(n) == Holds(n, target[n], period[n], {})

Pinging(h, r) ==
  /\ r.at = "waiting"
  /\ \/ r.chan # <<>>
     \/ InFlight(Mail(h, r.id.target, r.id.period))
     \/ Holds(h, r.id.target, r.id.period, {r.id})

ProbeId(n) == [src |-> n, target |-> target[n], period |-> period[n]]
Asked(n, h) == Message("pingReq", n, h, period[n], target[n])

Through(n, h) ==
  InFlight({Asked(n, h), Reply(h, ProbeId(n))}) \/ \E r \in Running(h, ProbeId(n)) : Pinging(h, r)
Indirect(n) == phase[n] = "waiting" \/ \E h \in members[n] : Through(n, h)

Open(way) == IF way THEN 1 ELSE 0

Backed(n) ==
  Waiting(n) /\ Blame(n) # {} =>
    \/ acks[n] = <<AckOf(target[n], period[n])>>
    \/ slips + Open(Direct(n)) + Open(Indirect(n)) + Open(Heard(n)) >= 2

\* What is in the channels answers the one that waits for it.
TargetsListed == \A n \in Nodes : Waiting(n) => target[n] \in members[n]
ListenersRight ==
  \A n \in Nodes : listen[n] # <<>> =>
    \A id \in Head(listen[n]).relay : AckOf(id.target, id.period) = Head(listen[n]).ack
RelaysRight ==
  \A n \in Nodes : \A r \in relays[n] :
    r.chan # <<>> => Head(r.chan) = AckOf(r.id.target, r.id.period)
Addressed == TargetsListed /\ ListenersRight /\ RelaysRight

\* Every relay is in the table, and nothing else has its key.
ProbesApart ==
  \A n \in Nodes : Waiting(n) => \A i \in relayAcks[n] : Key(i) # <<target[n], period[n]>>
RelaysApart ==
  \A n \in Nodes :
    /\ \A r \in relays[n] : r.id \in relayAcks[n]
    /\ \A r, q \in relays[n] : r.id = q.id => r = q
KeysApart == ProbesApart /\ RelaysApart

BackupInv ==
  /\ Addressed
  /\ slips \in Nat
  /\ Undisturbed => KeysApart /\ \A n \in up : Backed(n)
  /\ OneSlipTolerated

(***************************************************************************)
(* Inv.  Both together, the inductive invariant: every ack is true, and    *)
(* every way to hear of a running peer that is cut off has cost a slip.    *)
(***************************************************************************)
Inv == EvidenceInv /\ BackupInv

(***************************************************************************)
(* FallbackSaves.  The comment on the send that does not block: an ack     *)
(* that the prober does not get is harmless, because indirect probing      *)
(* makes up for it.  So without any slip no running peer is declared dead. *)
(***************************************************************************)
FallbackSaves == slips = 0 => accused = {}

(***************************************************************************)
(* NoPanic.  The same comment on the send itself: the ack lands in the     *)
(* channel or is dropped.                                                  *)
(***************************************************************************)
NoPanic == panicked = {}
=============================================================================
