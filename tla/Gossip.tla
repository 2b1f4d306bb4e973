------------------------------- MODULE Gossip -------------------------------
(***************************************************************************)
(* The part of internal/server that every data type of the store shares:   *)
(* the pool of peers SWIM feeds, the gossip requests and acknowledgements  *)
(* in flight between nodes, and the highest sequence number each peer has  *)
(* acknowledged.                                                           *)
(*                                                                         *)
(* A request is lost, refused or delayed past its timeout without the      *)
(* sender learning which; requests overtake one another, because a request *)
(* that timed out at the sender may still reach the receiver's handler and *)
(* because every acknowledgement is sent by a goroutine of its own.        *)
(***************************************************************************)
EXTENDS NodeIDs

CONSTANTS
  Host,        \* Host[n]: the host name node n advertises
  Pools,       \* Pools[n]: the peers n knows when the behaviour begins
  Departing,   \* the nodes SWIM may report dead (and alive again)
  MaxInFlight, \* bound: gossip requests in flight at a time
  MaxAcks      \* bound: acknowledgements in flight at a time

ASSUME GossipAssumption ==
  /\ DOMAIN Host = Nodes
  /\ Pools \in [Nodes -> SUBSET Nodes]
  /\ Departing \subseteq Nodes
  /\ MaxInFlight \in Nat \ {0}
  /\ MaxAcks \in Nat \ {0}

VARIABLES
  peers,   \* peers[n]: the pool of n, Server.peers
  ack,     \* ack[n][p]: the highest sequence number p acknowledged to n
  gossip,  \* POST /internal/gossip requests in flight
  acks     \* POST /internal/ack requests in flight

gossipVars == <<peers, ack, gossip, acks>>

Acks == [src : Nodes, dst : Nodes, seq : Nat]

(***************************************************************************)
(* A new server has acknowledgements from nobody.  Its pool is empty too;  *)
(* behaviours begin when SWIM's first alive notifications have filled it.  *)
(***************************************************************************)
GossipInit ==
  /\ peers  = Pools
  /\ ack    = [n \in Nodes |-> [p \in Nodes |-> 0]]
  /\ gossip = {}
  /\ acks   = {}

(***************************************************************************)
(* parseNodeAddr: a request from a node outside the pool gets 400.         *)
(***************************************************************************)
KnownSender(m) == m.src \in peers[m.dst]

(***************************************************************************)
(* Server.Notify.  A dead peer is matched by host name, so every pool      *)
(* member on the dead node's host leaves with it.  The acknowledgements of *)
(* a peer that leaves are kept.                                            *)
(***************************************************************************)
NotifyAlive(n, p) ==
  /\ p \notin peers[n]
  /\ peers' = [peers EXCEPT ![n] = @ \cup {p}]
  /\ UNCHANGED <<ack, gossip, acks>>

NotifyDead(n, p) ==
  /\ \E q \in peers[n] : Host[q] = Host[p]
  /\ peers' = [peers EXCEPT ![n] = {q \in @ : Host[q] # Host[p]}]
  /\ UNCHANGED <<ack, gossip, acks>>

Membership ==
  \E n \in Nodes, p \in Departing :
    n # p /\ (NotifyAlive(n, p) \/ NotifyDead(n, p))

(***************************************************************************)
(* One turn of the StartGossip loop sends a message built by the store.    *)
(***************************************************************************)
SendGossip(m) ==
  /\ m.dst \in peers[m.src]
  /\ Cardinality(gossip) < MaxInFlight
  /\ gossip' = gossip \cup {m}
  /\ UNCHANGED <<peers, ack, acks>>

(***************************************************************************)
(* postGossip hands the message to the store and leaves a goroutine behind *)
(* that sends the acknowledgement.                                         *)
(***************************************************************************)
AckOf(m) == [src |-> m.dst, dst |-> m.src, seq |-> m.seq]

ReceiveGossip(m) ==
  /\ m \in gossip
  /\ KnownSender(m)
  /\ Cardinality(acks) < MaxAcks
  /\ gossip' = gossip \ {m}
  /\ acks' = acks \cup {AckOf(m)}
  /\ UNCHANGED <<peers, ack>>

\* Mutant: off by one.
AckMutantAhead(a) == [ack EXCEPT ![a.dst][a.src] = IF @ < a.seq THEN a.seq + 1 ELSE @]

(***************************************************************************)
(* postAck and Store.Ack.                                                  *)
(***************************************************************************)
Ack(a) == [ack EXCEPT ![a.dst][a.src] = IF @ < a.seq THEN a.seq ELSE @]

PostAck(a) ==
  /\ a \in acks
  /\ KnownSender(a)
  /\ ack' = Ack(a)
  /\ acks' = acks \ {a}
  /\ UNCHANGED <<peers, gossip>>

(***************************************************************************)
(* A request that is lost, times out, or is refused by parseNodeAddr.      *)
(***************************************************************************)
DropGossip(m) ==
  /\ m \in gossip
  /\ gossip' = gossip \ {m}
  /\ UNCHANGED <<peers, ack, acks>>

DropAck(a) ==
  /\ a \in acks
  /\ acks' = acks \ {a}
  /\ UNCHANGED <<peers, ack, gossip>>
=============================================================================
