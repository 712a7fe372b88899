------------------------------ MODULE GCounter ------------------------------
(***************************************************************************)
(* The grow-only counter of crdt/gcounter.py: the object as a record and   *)
(* its methods as operators.  A missing dictionary key is a count of 0,    *)
(* the default of every .get in the class.  _delta_counts only ever holds  *)
(* the object's own key (increment is its one writer), so it is a number,  *)
(* 0 when the key is absent.  The vector clock is carried but never read   *)
(* by this class and is left out.                                          *)
(***************************************************************************)
EXTENDS Integers

CONSTANT Node

MaxOf(x, y) == IF x >= y THEN x ELSE y

CountMap == [Node -> Nat]
GCounterType == [node_id : Node, counts : CountMap, delta : Nat]

NewGCounter(n) == [node_id |-> n, counts |-> [m \in Node |-> 0], delta |-> 0]

\* Pointwise maximum, the loop of merge.
Join(a, b) == [m \in Node |-> MaxOf(a[m], b[m])]

\* Mutant: the amount is subtracted.
IncrementDown(c, amount) == [c EXCEPT !.counts[c.node_id] = @ - amount]

\* increment: the amount is positive, the code raises ValueError otherwise.
Increment(c, amount) ==
  LET total == c.counts[c.node_id] + amount
  IN [c EXCEPT !.counts[c.node_id] = total, !.delta = total]

\* Mutant: the counts of the other object replace those of self.
MergeReplace(c, other) == [c EXCEPT !.counts = other.counts, !.delta = 0]

\* merge builds a new object: the pending delta of self is not carried over.
Merge(c, other) ==
  [node_id |-> c.node_id, counts |-> Join(c.counts, other.counts), delta |-> 0]

\* The content of delta(): its source and, unless the tracker is empty, the new
\* total of that source.
DeltaOf(c) == [kind |-> "delta", source |-> c.node_id, total |-> c.delta]

\* Mutant: the total of the delta is stored without comparing.
ApplyDeltaReplace(c, d) == [c EXCEPT !.counts[d.source] = d.total]

\* apply_delta: the larger total stays.
ApplyDelta(c, d) ==
  [c EXCEPT !.counts[d.source] = MaxOf(c.counts[d.source], d.total)]

ResetDelta(c) == [c EXCEPT !.delta = 0]
=============================================================================
