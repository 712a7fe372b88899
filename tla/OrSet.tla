------------------------------- MODULE OrSet --------------------------------
(***************************************************************************)
(* The observed-remove set of crdt/orset.py: the object as a record and    *)
(* its methods as operators.  _add_set and _rem_set map an element to a    *)
(* set of tags; they are sets of pairs <<element, tag>> here, an element   *)
(* being a key of _add_set when it has a pair (no method stores an empty   *)
(* tag set there).  Elements are strings: delta() and to_binary() apply    *)
(* str to them.  The vector clock is never read and is left out.           *)
(***************************************************************************)
EXTENDS Integers

CONSTANTS Node, Elem

\* f"{node_id}:{tag_counter}"
Tag == Node \X Nat
Pair == Elem \X Tag

OrSetType == [node_id : Node, add : SUBSET Pair, rem : SUBSET Pair,
              delta_add : SUBSET Pair, delta_rem : SUBSET Pair, tag_counter : Nat]

NewOrSet(n) == [node_id |-> n, add |-> {}, rem |-> {},
                delta_add |-> {}, delta_rem |-> {}, tag_counter |-> 0]

PairsOf(pairs, e) == {p \in pairs : p[1] = e}
Keys(pairs) == {p[1] : p \in pairs}

\* value(): the elements with a tag that is not removed.
Visible(s) == Keys(s.add \ s.rem)

NextPair(s, e) == <<e, <<s.node_id, s.tag_counter + 1>>>>

AddElem(s, e) ==
  [s EXCEPT !.tag_counter = @ + 1,
            !.add = @ \cup {NextPair(s, e)},
            !.delta_add = @ \cup {NextPair(s, e)}]

\* The tags remove finds: those it has seen added and not yet removed.
LivePairs(s, e) == PairsOf(s.add \ s.rem, e)

\* Mutants: remove also tombstones the tag the next add will use; remove hands
\* a tag back.
RemoveElemAndNext(s, e) ==
  LET gone == LivePairs(s, e) \cup {NextPair(s, e)}
  IN [s EXCEPT !.rem = @ \cup gone, !.delta_rem = @ \cup gone]
RemoveElemUncount(s, e) ==
  [s EXCEPT !.rem = @ \cup LivePairs(s, e), !.delta_rem = @ \cup LivePairs(s, e),
            !.tag_counter = @ - 1]

\* remove: nothing happens when no live tag is known.
RemoveElem(s, e) ==
  [s EXCEPT !.rem = @ \cup LivePairs(s, e), !.delta_rem = @ \cup LivePairs(s, e)]

\* Mutant: merge keeps only the tombstones both sides have.
MergeOrSetCommonRem(s, other) ==
  [NewOrSet(s.node_id) EXCEPT !.add = s.add \cup other.add, !.rem = s.rem \cap other.rem]

\* merge builds a new object: its tag counter starts again at 0, its deltas are
\* empty, and it walks the elements that have an add tag on either side, so
\* tombstones of other elements are dropped.
MergeOrSet(s, other) ==
  LET add == s.add \cup other.add
  IN [NewOrSet(s.node_id) EXCEPT
        !.add = add,
        !.rem = {p \in s.rem \cup other.rem : p[1] \in Keys(add)}]

\* apply_delta: additions, then removals, whether or not the tag was seen.
ApplyOrSetDelta(s, d) == [s EXCEPT !.add = @ \cup d.add, !.rem = @ \cup d.rem]

OrSetState(s) == [kind |-> "state", add |-> s.add, rem |-> s.rem]
OrSetDelta(s) == [kind |-> "delta", add |-> s.delta_add, rem |-> s.delta_rem]
ResetOrSetDelta(s) == [s EXCEPT !.delta_add = {}, !.delta_rem = {}]
=============================================================================
