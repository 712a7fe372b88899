------------------------------ MODULE OrSetSync ------------------------------
(***************************************************************************)
(* Replicas of one OrSet, one on each node, whose users exchange full      *)
(* states and, up to MaxDeltas times, deltas; no code of the repository    *)
(* holds an OrSet or merges one.  channel holds all that was ever encoded: *)
(* a message may be delivered late, out of order, many times or never.     *)
(* With each message goes, as history, what it tells of.                   *)
(***************************************************************************)
EXTENDS OrSet

CONSTANTS MaxAdds,     \* bound on the calls of add
          MaxDeltas    \* bound on the deltas sent

ASSUME OrSetAssumption == MaxAdds \in Nat /\ MaxDeltas \in Nat

VARIABLES set,       \* set[n]: the OrSet object of node n
          issued,    \* history: the calls of add, numbered, with the pair each stored
          heard,     \* history: the adds each node has made or heard of
          gone,      \* history: the adds each node has removed or heard to be removed
          adds,      \* number of calls of add so far
          deltas,    \* number of deltas sent so far
          channel    \* every state and delta sent so far

vars == <<set, issued, heard, gone, adds, deltas, channel>>

\* One call of add: its number and its pair.
Event == Nat \X Pair
PairsIn(E) == {a[2] : a \in E}
With(E, pairs) == {a \in E : a[2] \in pairs}

Message == [kind : {"state", "delta"}, add : SUBSET Pair, rem : SUBSET Pair]

\* A message, with the adds and the removals it tells of.
Sent == Message \X (SUBSET issued) \X (SUBSET issued)

TypeOK ==
  /\ set \in [Node -> OrSetType]
  /\ \A n \in Node : set[n].node_id = n
  /\ issued \subseteq Event /\ adds \in Nat /\ deltas \in Nat
  /\ heard \in [Node -> SUBSET issued] /\ gone \in [Node -> SUBSET issued]
  /\ channel \subseteq Sent

Init ==
  /\ set = [n \in Node |-> NewOrSet(n)]
  /\ issued = {} /\ adds = 0 /\ deltas = 0
  /\ heard = [n \in Node |-> {}] /\ gone = [n \in Node |-> {}]
  /\ channel = {}

Add(n, e) ==
  /\ adds < MaxAdds
  /\ adds' = adds + 1
  /\ set' = [set EXCEPT ![n] = AddElem(set[n], e)]
  /\ issued' = issued \cup {<<adds', NextPair(set[n], e)>>}
  /\ heard' = [heard EXCEPT ![n] = @ \cup {<<adds', NextPair(set[n], e)>>}]
  /\ UNCHANGED <<gone, deltas, channel>>

Remove(n, e) ==
  /\ LivePairs(set[n], e) # {}
  /\ set' = [set EXCEPT ![n] = RemoveElem(set[n], e)]
  /\ gone' = [gone EXCEPT ![n] = @ \cup With(heard[n], LivePairs(set[n], e))]
  /\ UNCHANGED <<issued, heard, adds, deltas, channel>>

\* to_binary().
SendState(n) ==
  /\ channel' = channel \cup {<<OrSetState(set[n]), heard[n], gone[n]>>}
  /\ UNCHANGED <<set, issued, heard, gone, adds, deltas>>

\* delta() and reset_delta().
SendDelta(n) ==
  /\ deltas < MaxDeltas
  /\ deltas' = deltas + 1
  /\ channel' = channel \cup {<<OrSetDelta(set[n]), With(heard[n], set[n].delta_add),
                                With(gone[n], set[n].delta_rem)>>}
  /\ set' = [set EXCEPT ![n] = ResetOrSetDelta(set[n])]
  /\ UNCHANGED <<issued, heard, gone, adds>>

\* n has heard of what the message tells of.
Hears(n, sent) ==
  /\ heard' = [heard EXCEPT ![n] = @ \cup sent[2]]
  /\ gone' = [gone EXCEPT ![n] = @ \cup sent[3]]

\* from_binary() and merge(): the receiver replaces its object by the result.
ReceiveState(n, sent) ==
  /\ sent[1].kind = "state" /\ Hears(n, sent)
  /\ set' = [set EXCEPT ![n] = MergeOrSet(set[n], sent[1])]
  /\ UNCHANGED <<issued, adds, deltas, channel>>

ReceiveDelta(n, sent) ==
  /\ sent[1].kind = "delta" /\ Hears(n, sent)
  /\ set' = [set EXCEPT ![n] = ApplyOrSetDelta(set[n], sent[1])]
  /\ UNCHANGED <<issued, adds, deltas, channel>>

Next ==
  \/ \E n \in Node, e \in Elem : Add(n, e) \/ Remove(n, e)
  \/ \E n \in Node : SendState(n) \/ SendDelta(n)
  \/ \E n \in Node, sent \in channel : ReceiveState(n, sent) \/ ReceiveDelta(n, sent)

Spec == Init /\ [][Next]_vars
-----------------------------------------------------------------------------
(* Properties *)

\* No two adds have stored the same tag with the same element.
TagsApart == \A a, b \in issued : a[2] = b[2] => a = b

\* The elements of the adds a node has heard of and not heard to be removed.
Standing(n) == {a[2][1] : a \in heard[n] \ gone[n]}

\* What an observed-remove set promises: a replica shows the element of every add it
\* has heard of, unless it has heard of a remove that saw this add, so that an add
\* survives every remove concurrent with it; and where only states travel it shows
\* nothing else.  The first holds as long as no two adds got one tag (TagsUnique: they
\* may); with deltas a removed element may come back.
ObservedRemove ==
  \A n \in Node : /\ TagsApart => Standing(n) \subseteq Visible(set[n])
                  /\ deltas = 0 => Visible(set[n]) \subseteq Standing(n)

StepKeeps == \A n \in Node : /\ set[n].add \subseteq set'[n].add
                             /\ set[n].rem \subseteq set'[n].rem
StatesKeep == deltas = 0 => StepKeeps

\* "a semi-lattice merge function" (docs/ARCHITECTURE.md): with full states only
\* no step takes a tag or a tombstone away from a replica, so what was removed
\* stays so.  With deltas it may: a tombstone that came before its tag is dropped
\* by the next merge, and the element is back when the tag arrives.
StatesForgetNothing == [][StatesKeep]_vars

\* "Uses tags (unique IDs)" (crdt/orset.py): add never stores a tag that some
\* add has stored before.  merge restarts the tag counter, so it does.
TagsUnique ==
  [][\A n \in Node, e \in Elem :
       Add(n, e) => \A a \in issued : a[2][2] # NextPair(set[n], e)[2]]_vars
=============================================================================
