--------------------------- MODULE ORSetReplicas ----------------------------
(***************************************************************************)
(* One observed-remove set as a state-based CRDT: replicas send each other *)
(* their whole set (what Store.Delta does for a peer that has not          *)
(* acknowledged anything) and merge what they receive as Store.Merge does. *)
(* SetStore has the deltas, acknowledgements and messages; this module     *)
(* leaves them out to reach more replicas, operations and contexts.        *)
(***************************************************************************)
EXTENDS ORSet

CONSTANTS
  Clients,
  Reach,         \* Reach[c]: the replicas client c talks to
  MaxOperations  \* bound: client operations in a behaviour

ASSUME ORSetReplicasAssumption ==
  /\ Reach \in [Clients -> SUBSET Nodes]
  /\ MaxOperations \in Nat

VARIABLES
  set,        \* set[n]: the set at replica n
  ctx,        \* ctx[c]: the contexts client c last read
  history,    \* the operations so far (a history variable)
  operations  \* how many there were (for the bound)

vars == <<set, ctx, history, operations>>

Init ==
  /\ set = [n \in Nodes |-> NewORSet]
  /\ ctx = [c \in Clients |-> NoContexts]
  /\ history = {}
  /\ operations = 0

Read(c, n) ==
  /\ n \in Reach[c]
  /\ set[n] # NewORSet
  /\ ctx' = [ctx EXCEPT ![c] = CausalContexts(set[n])]
  /\ UNCHANGED <<set, history, operations>>

(***************************************************************************)
(* AddSet and RemoveSet, with or without the context the client holds.     *)
(***************************************************************************)
Operate(c, n, e, add) ==
  /\ n \in Reach[c]
  /\ operations < MaxOperations
  /\ operations' = operations + 1
  /\ \E vv \in {ctx[c][e], NoContexts[e]} :
       LET d == IF add THEN ORAdd(set[n], n, e, vv) ELSE ORRemove(set[n], n, e, vv)
       IN  /\ d # NewORSet
           /\ set' = [set EXCEPT ![n] = ORMerge(@, d)]
           /\ history' = history \cup {OperationOf(n, e, d, add, vv)}
  /\ UNCHANGED ctx

(***************************************************************************)
(* Store.Merge at p of the set of n, which is skipped if it is no news.    *)
(***************************************************************************)
MergeSet(or, other) == IF ORLessOrEqual(other, or) THEN or ELSE ORMerge(or, other)

Exchange(n, p) ==
  /\ set' = [set EXCEPT ![p] = MergeSet(@, set[n])]
  /\ UNCHANGED <<ctx, history, operations>>

Next ==
  \/ \E c \in Clients, n \in Nodes : Read(c, n)
  \/ \E c \in Clients, n \in Nodes, e \in Elements, add \in BOOLEAN : Operate(c, n, e, add)
  \/ \E n, p \in Nodes : Exchange(n, p)

Spec == Init /\ [][Next]_vars

-----------------------------------------------------------------------------
TypeOK ==
  /\ set \in [Nodes -> ORSets]
  /\ ctx \in [Clients -> Contexts]
  /\ history \subseteq Operations

(***************************************************************************)
(* SiblingsExact.  As in SetStore: a replica holds the markers of exactly  *)
(* the operations it knows that none it knows had observed.                *)
(***************************************************************************)
SiblingsExact == \A n \in Nodes : MarkersExact(set[n], history)

(***************************************************************************)
(* ExchangesConverge.  When no exchange between two replicas would change  *)
(* anything any more, all replicas hold the same set: Store.Merge skips no *)
(* set that it needed.                                                     *)
(***************************************************************************)
ExchangesConverge ==
  (\A n, p \in Nodes : MergeSet(set[p], set[n]) = set[p]) =>
    \A n, p \in Nodes : set[n] = set[p]

(***************************************************************************)
(* ReadsConverge.  Or, of what clients see: all replicas then report the   *)
(* same elements.                                                          *)
(***************************************************************************)
ReadsConverge ==
  (\A n, p \in Nodes : MergeSet(set[p], set[n]) = set[p]) =>
    \A n, p \in Nodes : SetValues(set[n]) = SetValues(set[p])

-----------------------------------------------------------------------------
(***************************************************************************)
(* The inductive invariant of clients that stay at one replica.  Nobody    *)
(* knows more dots of a replica than that replica, which knows those of    *)
(* the history, and a client's contexts are behind its replica.            *)
(***************************************************************************)
StickyClients == \A c \in Clients : \A n, p \in Reach[c] : n = p

DotsOwned ==
  /\ \A n, i \in Nodes, e \in Elements : set[n][e][i].counter <= set[i][e][i].counter
  /\ \A x \in history : x.dot <= set[x.node][x.elem][x.node].counter

ContextsKnown ==
  \A c \in Clients : \A n \in Reach[c], e \in Elements, i \in Nodes :
    ctx[c][e][i] <= set[n][e][i].counter

Inv ==
  /\ TypeOK
  /\ DotsUnique(history)
  /\ \A n \in Nodes : Closed(set[n], history)
  /\ DotsOwned
  /\ ContextsKnown
=============================================================================
