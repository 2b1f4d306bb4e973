---------------------------- MODULE StateGossip -----------------------------
(***************************************************************************)
(* The abstract specification of replicated data: a standard state-based   *)
(* CRDT.  Every replica holds a state per key, merges into it what its     *)
(* clients have it do, sends all it has to others whenever it likes, and   *)
(* merges whatever arrives.  What is in flight may be lost, delayed,       *)
(* reordered and delivered twice.                                          *)
(***************************************************************************)
EXTENDS NodeIDs

CONSTANTS
  Keys,
  Bottom,        \* the state of a key nobody has written
  Lub(_, _),     \* the merge of two states
  Updates(_, _)  \* Updates(n, s): what a client may have node n merge into s

VARIABLES
  state,   \* state[n][k]
  flight   \* states on their way from one node to another

Init ==
  /\ state = [n \in Nodes |-> [k \in Keys |-> Bottom]]
  /\ flight = {}

\* A write that changes nothing is no step.
Write(n, k) ==
  /\ state' # state
  /\ UNCHANGED flight
  /\ \E u \in Updates(n, state[n][k]) : state' = [state EXCEPT ![n][k] = Lub(@, u)]

Send(n, p) ==
  /\ flight' = flight \cup {[src |-> n, dst |-> p, state |-> state[n]]}
  /\ UNCHANGED state

Receive(f) ==
  /\ flight' = flight \/ flight' = flight \ {f}
  /\ state' = [state EXCEPT ![f.dst] = [k \in Keys |-> Lub(@[k], f.state[k])]]

Lose(f) ==
  /\ flight' = flight \ {f}
  /\ UNCHANGED state

Next ==
  \/ \E n \in Nodes, k \in Keys : Write(n, k)
  \/ \E n, p \in Nodes : Send(n, p)
  \/ \E f \in flight : Receive(f) \/ Lose(f)

Spec == Init /\ [][Next]_<<state, flight>>
=============================================================================
