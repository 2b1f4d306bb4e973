----------------------------- MODULE PNCounter -----------------------------
(***************************************************************************)
(* The counters of internal/crdt/crdt.go.  A GCounter maps node IDs to the *)
(* amounts those nodes have added; a PNCounter is a pair of GCounters.     *)
(*                                                                         *)
(* A Go map without an entry reads as zero and a client can add only       *)
(* positive amounts, so an absent entry and a zero one are the same        *)
(* function value here, and the counter that is zero everywhere is the one *)
(* the program has not created (or has left out of its JSON).              *)
(*                                                                         *)
(* Amounts are machine integers: they wrap at MaxUint + 1 (2^64 in Go).    *)
(***************************************************************************)
EXTENDS NodeIDs, Integers, Functions

CONSTANT MaxUint   \* the largest value of the counter's machine integer

ASSUME MaxUintAssumption == MaxUint \in Nat \ {0}

Uint == 0 .. MaxUint

Signs == {"inc", "dec"}

GCounter == [Nodes -> Uint]

PNCounter == [Signs -> GCounter]

(***************************************************************************)
(* NewGCounter and NewPNCounter: no entries.                               *)
(***************************************************************************)
GZero == [i \in Nodes |-> 0]

PNZero == [s \in Signs |-> GZero]

\* Mutant: the integer does not wrap.
GIncrementMutantUnbounded(g, n, v) == [GZero EXCEPT ![n] = g[n] + v]

(***************************************************************************)
(* GCounter.Increment returns a delta, it does not change the counter: a   *)
(* GCounter with the single entry of the writing node.                     *)
(***************************************************************************)
GIncrement(g, n, v) == [GZero EXCEPT ![n] = (g[n] + v) % (MaxUint + 1)]

(***************************************************************************)
(* PNCounter.Increment and PNCounter.Decrement, told apart by the sign.    *)
(***************************************************************************)
PNAdd(pn, n, s, v) == [PNZero EXCEPT ![s] = GIncrement(pn[s], n, v)]

GMerge(g, h) == [i \in Nodes |-> IF g[i] < h[i] THEN h[i] ELSE g[i]]

\* Mutant: merging overwrites.
PNMergeMutantReplaces(p, q) == q

PNMerge(p, q) == [s \in Signs |-> GMerge(p[s], q[s])]

GLessOrEqual(g, h) == \A i \in Nodes : g[i] <= h[i]

PNLessOrEqual(p, q) == \A s \in Signs : GLessOrEqual(p[s], q[s])

(***************************************************************************)
(* GCounter.Value sums modulo the width; PNCounter.Value reads both sums   *)
(* as signed integers of the same width and subtracts, wrapping again.     *)
(***************************************************************************)
GValue(g) == SumFunction(g) % (MaxUint + 1)

Signed(x) ==
  LET y == x % (MaxUint + 1)
  IN  IF y <= MaxUint \div 2 THEN y ELSE y - (MaxUint + 1)

\* Mutant: decrements count as increments.
PNValueMutantAdds(pn) == Signed(Signed(GValue(pn["inc"])) + Signed(GValue(pn["dec"])))

PNValue(pn) == Signed(Signed(GValue(pn["inc"])) - Signed(GValue(pn["dec"])))
=============================================================================
