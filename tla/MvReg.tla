-------------------------------- MODULE MvReg --------------------------------
(***************************************************************************)
(* The multi-value register of crdt/mvreg.py over the clocks of            *)
(* crdt/vector_clock.py: replicas that write, merge each other's states    *)
(* and apply each other's deltas.  What is written does not matter: a      *)
(* write is its tag.  A key that a clock does not have counts as 0.        *)
(***************************************************************************)
EXTENDS Naturals, FiniteSets

CONSTANTS Author,     \* the nodes
          MaxWrites   \* bound on the writes of all nodes

ASSUME MvRegAssumption == MaxWrites \in Nat

VARIABLES clock,    \* _vector_clock of each replica
          values,   \* _values: its tags, each with a clock
          heard,    \* history: the tags each replica has had
          past,     \* history: pairs of tags, the first of which the writer of the
                    \* second had heard of
          byDelta   \* history: a delta has been applied

mvVars == <<clock, values, heard, past, byDelta>>

Clock == [Author -> 0..2 * MaxWrites]
Tag == Author \X (1..2 * MaxWrites)

MvTypeOK ==
  /\ clock \in [Author -> Clock] /\ values \in [Author -> SUBSET (Tag \X Clock)]
  /\ \A a \in Author : \A v, w \in values[a] : v[1] = w[1] => v = w
  /\ heard \in [Author -> SUBSET Tag] /\ past \subseteq Tag \X Tag /\ byDelta \in BOOLEAN

MvInit ==
  /\ clock = [a \in Author |-> [b \in Author |-> 0]]
  /\ values = [a \in Author |-> {}] /\ heard = [a \in Author |-> {}]
  /\ past = {} /\ byDelta = FALSE

Ticked(c, a) == [c EXCEPT ![a] = @ + 1]
MergeClocks(c, d) == [a \in Author |-> IF c[a] >= d[a] THEN c[a] ELSE d[a]]
TagsOf(vals) == {v[1] : v \in vals}

\* Mutant: a clock is before another that is ahead of it anywhere.
HappensBeforeSomewhere(c, d) == \E a \in Author : c[a] < d[a]

HappensBefore(c, d) == (\A a \in Author : c[a] <= d[a]) /\ c # d

Dominated(vals) == {v \in vals : \E w \in vals : HappensBefore(v[2], w[2])}

\* _prune_ancestors() goes over the pairs of a list of tags, in any order, and drops
\* the earlier of each; with three tags it may come to one it has dropped, and raises
\* KeyError having dropped some.
Pruned(vals) == vals \ Dominated(vals)
MayRaise(vals) == Cardinality(vals) >= 3 /\ Dominated(vals) # {}

\* write() ticks for the tag, and again for the clock beside it; it drops nothing.
Write(a) ==
  LET tag == <<a, clock[a][a] + 1>>
      now == Ticked(Ticked(clock[a], a), a) IN
  /\ Cardinality(UNION {heard[b] : b \in Author}) < MaxWrites
  /\ clock' = [clock EXCEPT ![a] = now]
  /\ values' = [values EXCEPT ![a] = @ \cup {<<tag, now>>}]
  /\ heard' = [heard EXCEPT ![a] = @ \cup {tag}]
  /\ past' = past \cup (heard[a] \X {tag})
  /\ UNCHANGED byDelta

\* Of two clocks for one tag either may be kept: they are compared as lists, in the
\* order in which their keys came to be.
Joins(f, g) ==
  {vals \in SUBSET (f \cup g) :
     \A t \in TagsOf(f \cup g) : Cardinality({v \in vals : v[1] = t}) = 1}

\* merge() makes a new register; when it raises, there is none.
MergeState(a, b) ==
  /\ a # b
  /\ \E vals \in Joins(values[a], values[b]) : values' = [values EXCEPT ![a] = Pruned(vals)]
  /\ clock' = [clock EXCEPT ![a] = MergeClocks(@, clock[b])]
  /\ heard' = [heard EXCEPT ![a] = @ \cup heard[b]]
  /\ UNCHANGED <<past, byDelta>>

\* apply_delta(): the tags it did not have come with the clock of the whole register
\* they are from, and its own clock stays behind: the merge of the two is not kept.
RegisterDelta(b) == [tags |-> TagsOf(values[b]), vector_clock |-> clock[b]]
ApplyRegisterDelta(a, b) ==
  LET delta == RegisterDelta(b)
      new == {<<t, delta.vector_clock>> : t \in delta.tags \ TagsOf(values[a])}
      all == values[a] \cup new IN
  /\ a # b
  /\ \E left \in {Pruned(all)} \cup
                  (IF MayRaise(all) THEN {Pruned(all) \cup D : D \in SUBSET Dominated(all)} ELSE {}) :
       values' = [values EXCEPT ![a] = left]
  /\ heard' = [heard EXCEPT ![a] = @ \cup delta.tags]
  /\ byDelta' = TRUE /\ UNCHANGED <<clock, past>>

MvNext ==
  \/ \E a \in Author : Write(a)
  \/ \E a, b \in Author : MergeState(a, b) \/ ApplyRegisterDelta(a, b)

MvSpec == MvInit /\ [][MvNext]_mvVars
-----------------------------------------------------------------------------
(* Properties *)

\* A replica has every write it heard of, or one whose writer had heard of that.
AllKept ==
  \A a \in Author : \A t \in heard[a] :
    t \in TagsOf(values[a]) \/ \E u \in TagsOf(values[a]) : <<t, u>> \in past

\* Where only states are exchanged no concurrent write is lost, and with nothing on the
\* way the clocks tell what was heard of.
StatesKeepWrites == byDelta \/ AllKept

\* "This ensures no data is lost during concurrent writes" (crdt/mvreg.py): but a delta
\* gives its writes the clock of the register, which is after others they do not follow.
WritesSurvive == AllKept
=============================================================================
