--------------------------- MODULE CounterRestart ---------------------------
(***************************************************************************)
(* Counters when nodes crash and restart.  Nothing is persisted: a node    *)
(* comes back with the empty store NewStore returns, under its old node ID *)
(* and address, and SWIM fills its pool again.  What it sent before the    *)
(* crash may still arrive, and so may what was sent to it.                 *)
(***************************************************************************)
EXTENDS CounterStore

CONSTANT Crashing  \* the nodes that may crash, each at most once (a bound)

VARIABLE restarted  \* the nodes that have restarted

restartVars == <<vars, restarted>>

RestartInit == Init /\ restarted = {}

Restart(n) ==
  /\ n \notin restarted
  /\ restarted' = restarted \cup {n}
  /\ store' = [store EXCEPT ![n] = EmptyStore]
  /\ delta' = [delta EXCEPT ![n] = <<>>]
  /\ ack'   = [ack EXCEPT ![n] = [p \in Nodes |-> 0]]
  /\ peers' = [peers EXCEPT ![n] = Pools[n]]
  /\ UNCHANGED <<issued, gossip, acks>>

RestartNext ==
  \/ Next /\ UNCHANGED restarted
  \/ \E n \in Crashing : Restart(n)

RestartSpec == RestartInit /\ [][RestartNext]_restartVars

(***************************************************************************)
(* Rehydrated.  What the README says of a restarted node: gossip brings it *)
(* up to date.  It must have caught up by the time nobody in the cluster   *)
(* has anything left to send, because nothing is sent after that.          *)
(***************************************************************************)
Rehydrated == QuietConverged
=============================================================================
