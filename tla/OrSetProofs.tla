----------------------------- MODULE OrSetProofs -----------------------------
(***************************************************************************)
(* Theorems about the OrSet and its replication, for every set of nodes    *)
(* and elements and every number of additions.                             *)
(***************************************************************************)
EXTENDS OrSetSync, TLAPS

\* A new set is empty.
LEMMA NewOrSetFields ==
  ASSUME NEW n \in Node
  PROVE  /\ NewOrSet(n) \in OrSetType /\ NewOrSet(n).node_id = n
         /\ NewOrSet(n).add = {} /\ NewOrSet(n).rem = {}
         /\ NewOrSet(n).delta_add = {} /\ NewOrSet(n).delta_rem = {}
BY DEF NewOrSet, OrSetType

\* What add does to the fields of an object.
LEMMA AddFields ==
  ASSUME NEW s \in OrSetType, NEW e \in Elem
  PROVE  /\ NextPair(s, e) \in Pair
         /\ AddElem(s, e) \in OrSetType /\ AddElem(s, e).node_id = s.node_id
         /\ AddElem(s, e).add = s.add \cup {NextPair(s, e)}
         /\ AddElem(s, e).rem = s.rem
         /\ AddElem(s, e).delta_add = s.delta_add \cup {NextPair(s, e)}
         /\ AddElem(s, e).delta_rem = s.delta_rem
<1>1. NextPair(s, e) \in Pair
  BY DEF NextPair, Pair, Tag, OrSetType
<1> DEFINE p == NextPair(s, e)
           k == s.tag_counter + 1
<1>2. AddElem(s, e) = [s EXCEPT !.tag_counter = k, !.add = s.add \cup {p},
                                !.delta_add = s.delta_add \cup {p}]
  BY DEF AddElem, OrSetType
<1>3. k \in Nat /\ s.add \cup {p} \in SUBSET Pair /\ s.delta_add \cup {p} \in SUBSET Pair
  BY <1>1 DEF OrSetType
<1> HIDE DEF p, k
<1>4. QED
  BY <1>1, <1>2, <1>3 DEF OrSetType, p

\* What remove does to the fields of an object.
LEMMA RemoveFields ==
  ASSUME NEW s \in OrSetType, NEW e \in Elem
  PROVE  /\ LivePairs(s, e) \subseteq s.add
         /\ RemoveElem(s, e) \in OrSetType /\ RemoveElem(s, e).node_id = s.node_id
         /\ RemoveElem(s, e).add = s.add
         /\ RemoveElem(s, e).rem = s.rem \cup LivePairs(s, e)
         /\ RemoveElem(s, e).delta_add = s.delta_add
         /\ RemoveElem(s, e).delta_rem = s.delta_rem \cup LivePairs(s, e)
<1>1. LivePairs(s, e) \subseteq s.add
  BY DEF LivePairs, PairsOf
<1> HIDE DEF LivePairs
<1>2. QED
  BY <1>1 DEF RemoveElem, OrSetType

\* What merge does to the fields of an object.
LEMMA MergeOrSetFields ==
  ASSUME NEW s \in OrSetType, NEW msg \in Message
  PROVE  /\ MergeOrSet(s, msg) \in OrSetType /\ MergeOrSet(s, msg).node_id = s.node_id
         /\ MergeOrSet(s, msg).add = s.add \cup msg.add
         /\ MergeOrSet(s, msg).rem \subseteq s.rem \cup msg.rem
         /\ MergeOrSet(s, msg).delta_add = {} /\ MergeOrSet(s, msg).delta_rem = {}
         /\ s.rem \subseteq s.add => s.rem \subseteq MergeOrSet(s, msg).rem
<1> DEFINE add == s.add \cup msg.add
           rem == {p \in s.rem \cup msg.rem : p[1] \in Keys(add)}
<1>1. add \subseteq Pair /\ rem \subseteq Pair /\ rem \subseteq s.rem \cup msg.rem
  BY DEF OrSetType, Message
<1>2. s.rem \subseteq s.add => s.rem \subseteq rem
  BY DEF Keys
<1>3. MergeOrSet(s, msg) = [NewOrSet(s.node_id) EXCEPT !.add = add, !.rem = rem]
  BY DEF MergeOrSet
<1>4. s.node_id \in Node
  BY DEF OrSetType
<1> HIDE DEF add, rem
<1>5. /\ MergeOrSet(s, msg) \in OrSetType /\ MergeOrSet(s, msg).node_id = s.node_id
      /\ MergeOrSet(s, msg).add = add /\ MergeOrSet(s, msg).rem = rem
      /\ MergeOrSet(s, msg).delta_add = {} /\ MergeOrSet(s, msg).delta_rem = {}
  <2>1. MergeOrSet(s, msg) = [node_id |-> s.node_id, add |-> add, rem |-> rem,
                              delta_add |-> {}, delta_rem |-> {}, tag_counter |-> 0]
    BY <1>3 DEF NewOrSet
  <2>2. QED
    BY <1>1, <1>4, <2>1 DEF OrSetType
<1>6. QED
  BY <1>1, <1>2, <1>5 DEF add

\* What apply_delta does to the fields of an object.
LEMMA ApplyOrSetDeltaFields ==
  ASSUME NEW s \in OrSetType, NEW msg \in Message
  PROVE  /\ ApplyOrSetDelta(s, msg) \in OrSetType
         /\ ApplyOrSetDelta(s, msg).node_id = s.node_id
         /\ ApplyOrSetDelta(s, msg).add = s.add \cup msg.add
         /\ ApplyOrSetDelta(s, msg).rem = s.rem \cup msg.rem
         /\ ApplyOrSetDelta(s, msg).delta_add = s.delta_add
         /\ ApplyOrSetDelta(s, msg).delta_rem = s.delta_rem
BY DEF ApplyOrSetDelta, OrSetType, Message

\* What a set sends, and what resetting the delta leaves.
LEMMA SentFields ==
  ASSUME NEW s \in OrSetType
  PROVE  /\ OrSetState(s) \in Message /\ OrSetState(s).kind = "state"
         /\ OrSetState(s).add = s.add /\ OrSetState(s).rem = s.rem
         /\ OrSetDelta(s) \in Message
         /\ OrSetDelta(s).add = s.delta_add /\ OrSetDelta(s).rem = s.delta_rem
         /\ ResetOrSetDelta(s) \in OrSetType /\ ResetOrSetDelta(s).node_id = s.node_id
         /\ ResetOrSetDelta(s).add = s.add /\ ResetOrSetDelta(s).rem = s.rem
         /\ ResetOrSetDelta(s).delta_add = {} /\ ResetOrSetDelta(s).delta_rem = {}
BY DEF OrSetState, OrSetDelta, ResetOrSetDelta, OrSetType, Message
-----------------------------------------------------------------------------
\* Every operation keeps the sets, the histories and the channel well typed.
THEOREM TypeCorrect == Spec => []TypeOK
<1>1. Init => TypeOK
  BY NewOrSetFields DEF Init, TypeOK
<1>2. TypeOK /\ [Next]_vars => TypeOK'
  <2> SUFFICES ASSUME TypeOK, [Next]_vars PROVE TypeOK'
    OBVIOUS
  <2> USE DEF TypeOK
  <2>1. ASSUME NEW n \in Node, NEW e \in Elem, Add(n, e) PROVE TypeOK'
    <3>1. NextPair(set[n], e) \in Pair /\ AddElem(set[n], e) \in OrSetType
          /\ AddElem(set[n], e).node_id = n
      BY AddFields
    <3> DEFINE new == <<adds', NextPair(set[n], e)>>
    <3>2. new \in Event /\ issued' = issued \cup {new} /\ adds' \in Nat
      BY <2>1, <3>1 DEF Add, Event
    <3>3. /\ set' = [set EXCEPT ![n] = AddElem(set[n], e)]
          /\ heard' = [heard EXCEPT ![n] = @ \cup {new}]
          /\ UNCHANGED <<gone, deltas, channel>>
      BY <2>1 DEF Add
    <3> HIDE DEF new
    <3>4. heard' \in [Node -> SUBSET issued'] /\ gone' \in [Node -> SUBSET issued']
      BY <3>2, <3>3
    <3>5. channel' \subseteq Sent'
      BY <3>2, <3>3 DEF Sent
    <3>6. QED
      BY <3>1, <3>2, <3>3, <3>4, <3>5
  <2>2. ASSUME NEW n \in Node, NEW e \in Elem, Remove(n, e) PROVE TypeOK'
    <3>1. RemoveElem(set[n], e) \in OrSetType /\ RemoveElem(set[n], e).node_id = n
      BY RemoveFields
    <3>2. With(heard[n], LivePairs(set[n], e)) \subseteq heard[n]
      BY DEF With
    <3>3. QED
      BY <2>2, <3>1, <3>2 DEF Remove, Sent
  <2>3. ASSUME NEW n \in Node, SendState(n) PROVE TypeOK'
    <3>1. <<OrSetState(set[n]), heard[n], gone[n]>> \in Sent
      BY SentFields DEF Sent
    <3>2. QED
      BY <2>3, <3>1 DEF SendState, Sent
  <2>4. ASSUME NEW n \in Node, SendDelta(n) PROVE TypeOK'
    <3>1. /\ With(heard[n], set[n].delta_add) \subseteq heard[n]
          /\ With(gone[n], set[n].delta_rem) \subseteq gone[n]
      BY DEF With
    <3>2. <<OrSetDelta(set[n]), With(heard[n], set[n].delta_add),
            With(gone[n], set[n].delta_rem)>> \in Sent
      BY <3>1, SentFields DEF Sent
    <3>3. QED
      BY <2>4, <3>2, SentFields DEF SendDelta, Sent
  <2>5. ASSUME NEW n \in Node, NEW sent \in channel,
               ReceiveState(n, sent) \/ ReceiveDelta(n, sent)
        PROVE  TypeOK'
    <3>1. sent[1] \in Message /\ sent[2] \subseteq issued /\ sent[3] \subseteq issued
      BY DEF Sent
    <3>2. /\ MergeOrSet(set[n], sent[1]) \in OrSetType
          /\ MergeOrSet(set[n], sent[1]).node_id = n
          /\ ApplyOrSetDelta(set[n], sent[1]) \in OrSetType
          /\ ApplyOrSetDelta(set[n], sent[1]).node_id = n
      BY <3>1, MergeOrSetFields, ApplyOrSetDeltaFields
    <3>3. QED
      BY <2>5, <3>1, <3>2 DEF ReceiveState, ReceiveDelta, Hears, Sent
  <2>6. CASE UNCHANGED vars
    BY <2>6 DEF vars, Sent
  <2>7. QED
    BY <2>1, <2>2, <2>3, <2>4, <2>5, <2>6 DEF Next
<1>3. QED
  BY <1>1, <1>2, PTL DEF Spec
-----------------------------------------------------------------------------
\* The pairs of events.
LEMMA PairsOfTwo ==
  ASSUME NEW E, NEW F PROVE PairsIn(E \cup F) = PairsIn(E) \cup PairsIn(F)
BY DEF PairsIn

LEMMA PairOfOne ==
  ASSUME NEW i, NEW p PROVE PairsIn({<<i, p>>}) = {p}
BY DEF PairsIn

LEMMA PairsWith ==
  ASSUME NEW E, NEW P, P \subseteq PairsIn(E) PROVE PairsIn(With(E, P)) = P
BY DEF PairsIn, With

\* Tags and tombstones are those of the adds and removals told of: all of these, or of
\* the removals as many as deltas, d of them, have left; and a removal is of an add told of.
Matches(d, add, rem, H, G) ==
  /\ add = PairsIn(H) /\ rem \subseteq PairsIn(G)
  /\ d = 0 => PairsIn(G) \subseteq rem /\ G \subseteq H

\* ObservedRemove speaks of replicas only; messages match as well, and what waits to be
\* sent is in the set.
SafetyInv ==
  /\ \A n \in Node : /\ Matches(deltas, set[n].add, set[n].rem, heard[n], gone[n])
                     /\ set[n].delta_add \subseteq set[n].add
                     /\ set[n].delta_rem \subseteq set[n].rem
  /\ \A sent \in channel : Matches(deltas, sent[1].add, sent[1].rem, sent[2], sent[3])

\* Two that match, joined, match; a merge loses no tombstone that has its tag.
LEMMA MatchesJoin ==
  ASSUME NEW d, NEW a, NEW r, NEW H, NEW G, Matches(d, a, r, H, G),
         NEW b, NEW q, NEW I, NEW J, Matches(d, b, q, I, J),
         NEW z, z \subseteq r \cup q, d = 0 => r \cup q \subseteq z
  PROVE  Matches(d, a \cup b, z, H \cup I, G \cup J)
<1>1. PairsIn(H \cup I) = PairsIn(H) \cup PairsIn(I)
  BY PairsOfTwo
<1>2. PairsIn(G \cup J) = PairsIn(G) \cup PairsIn(J)
  BY PairsOfTwo
<1>3. a \cup b = PairsIn(H \cup I)
  BY <1>1 DEF Matches
<1>4. z \subseteq PairsIn(G \cup J)
  BY <1>2 DEF Matches
<1>5. ASSUME d = 0 PROVE PairsIn(G \cup J) \subseteq z /\ G \cup J \subseteq H \cup I
  BY <1>2, <1>5 DEF Matches
<1>6. QED
  BY <1>3, <1>4, <1>5 DEF Matches

\* A tombstone of an element that has an add tag stays through a merge.
LEMMA MergeKeeps ==
  ASSUME NEW s \in OrSetType, NEW msg \in Message,
         s.rem \cup msg.rem \subseteq s.add \cup msg.add
  PROVE  s.rem \cup msg.rem \subseteq MergeOrSet(s, msg).rem
<1> DEFINE add == s.add \cup msg.add
           rem == {p \in s.rem \cup msg.rem : p[1] \in Keys(add)}
<1>1. s.rem \cup msg.rem \subseteq rem
  BY DEF Keys
<1>2. MergeOrSet(s, msg) = [NewOrSet(s.node_id) EXCEPT !.add = add, !.rem = rem]
  BY DEF MergeOrSet
<1> HIDE DEF add, rem
<1>3. MergeOrSet(s, msg).rem = rem
  BY <1>2 DEF NewOrSet
<1>4. QED
  BY <1>1, <1>3

\* One step preserves the safety invariant.
LEMMA SafetyStep ==
  ASSUME TypeOK, SafetyInv, [Next]_vars PROVE SafetyInv'
<1> USE DEF TypeOK
<1>1. ASSUME NEW n \in Node, NEW e \in Elem, Add(n, e) PROVE SafetyInv'
  <2> DEFINE p == NextPair(set[n], e)
             new == {<<adds', p>>}
  <2>1. set'[n] = AddElem(set[n], e) /\ \A o \in Node \ {n} : set'[o] = set[o]
    BY <1>1 DEF Add
  <2>2. /\ set'[n].add = set[n].add \cup {p} /\ set'[n].rem = set[n].rem
        /\ set'[n].delta_add = set[n].delta_add \cup {p}
        /\ set'[n].delta_rem = set[n].delta_rem
    BY <2>1, AddFields
  <2>3. /\ heard'[n] = heard[n] \cup new /\ \A o \in Node \ {n} : heard'[o] = heard[o]
        /\ UNCHANGED <<gone, deltas, channel>>
    BY <1>1 DEF Add
  <2>4. PairsIn(new) = {p}
    BY PairOfOne
  <2> HIDE DEF p, new
  <2>5. PairsIn(heard[n] \cup new) = PairsIn(heard[n]) \cup {p}
    BY <2>4, PairsOfTwo
  <2>6. Matches(deltas, set'[n].add, set'[n].rem, heard'[n], gone'[n])
    BY <2>2, <2>3, <2>5 DEF SafetyInv, Matches
  <2>7. QED
    BY <2>1, <2>2, <2>3, <2>6 DEF SafetyInv
<1>2. ASSUME NEW n \in Node, NEW e \in Elem, Remove(n, e) PROVE SafetyInv'
  <2> DEFINE L == LivePairs(set[n], e)
             seen == With(heard[n], L)
  <2>1. set'[n] = RemoveElem(set[n], e) /\ \A o \in Node \ {n} : set'[o] = set[o]
    BY <1>2 DEF Remove
  <2>2. /\ set'[n].add = set[n].add /\ set'[n].rem = set[n].rem \cup L
        /\ set'[n].delta_add = set[n].delta_add
        /\ set'[n].delta_rem = set[n].delta_rem \cup L /\ L \subseteq set[n].add
    BY <2>1, RemoveFields
  <2>3. /\ gone'[n] = gone[n] \cup seen /\ \A o \in Node \ {n} : gone'[o] = gone[o]
        /\ UNCHANGED <<heard, deltas, channel>>
    BY <1>2 DEF Remove
  <2>4. Matches(deltas, set[n].add, set[n].rem, heard[n], gone[n])
    BY DEF SafetyInv
  <2>5. PairsIn(seen) = L
    <3>1. L \subseteq PairsIn(heard[n])
      BY <2>2, <2>4 DEF Matches
    <3> HIDE DEF L
    <3>2. QED
      BY <3>1, PairsWith
  <2>6. seen \subseteq heard[n]
    BY DEF With
  <2> HIDE DEF L, seen
  <2>7. PairsIn(gone[n] \cup seen) = PairsIn(gone[n]) \cup L
    BY <2>5, PairsOfTwo
  <2>8. Matches(deltas, set'[n].add, set'[n].rem, heard'[n], gone'[n])
    BY <2>2, <2>3, <2>4, <2>6, <2>7 DEF Matches
  <2>9. QED
    BY <2>1, <2>2, <2>3, <2>8 DEF SafetyInv
<1>3. ASSUME NEW n \in Node, SendState(n) PROVE SafetyInv'
  <2> DEFINE sent == <<OrSetState(set[n]), heard[n], gone[n]>>
  <2>1. Matches(deltas, sent[1].add, sent[1].rem, sent[2], sent[3])
    BY SentFields DEF SafetyInv
  <2>2. channel' = channel \cup {sent} /\ UNCHANGED <<set, heard, gone, deltas>>
    BY <1>3 DEF SendState
  <2> HIDE DEF sent
  <2>3. QED
    BY <2>1, <2>2 DEF SafetyInv
<1>4. ASSUME NEW n \in Node, SendDelta(n) PROVE SafetyInv'
  <2> DEFINE H == With(heard[n], set[n].delta_add)
             G == With(gone[n], set[n].delta_rem)
             sent == <<OrSetDelta(set[n]), H, G>>
  <2>1. set'[n] = ResetOrSetDelta(set[n]) /\ \A o \in Node \ {n} : set'[o] = set[o]
    BY <1>4 DEF SendDelta
  <2>2. /\ set'[n].add = set[n].add /\ set'[n].rem = set[n].rem
        /\ set'[n].delta_add = {} /\ set'[n].delta_rem = {}
    BY <2>1, SentFields
  <2>3. /\ channel' = channel \cup {sent} /\ UNCHANGED <<heard, gone>>
        /\ deltas' = deltas + 1 /\ deltas' # 0
    BY <1>4 DEF SendDelta
  <2>4. ASSUME NEW a, NEW r, NEW A, NEW R, Matches(deltas, a, r, A, R)
        PROVE  Matches(deltas', a, r, A, R)
    BY <2>3, <2>4 DEF Matches
  <2>5. Matches(deltas', set[n].delta_add, set[n].delta_rem, H, G)
    <3>1. set[n].delta_add \subseteq PairsIn(heard[n]) /\ set[n].delta_rem \subseteq PairsIn(gone[n])
      BY DEF SafetyInv, Matches
    <3>2. PairsIn(H) = set[n].delta_add /\ PairsIn(G) = set[n].delta_rem
      BY <3>1, PairsWith
    <3>3. QED
      BY <2>3, <3>2 DEF Matches
  <2>6. /\ sent[1].add = set[n].delta_add /\ sent[1].rem = set[n].delta_rem
        /\ sent[2] = H /\ sent[3] = G
    BY SentFields
  <2> HIDE DEF sent, H, G
  <2>7. \A o \in Node : Matches(deltas', set'[o].add, set'[o].rem, heard'[o], gone'[o])
    BY <2>1, <2>2, <2>3, <2>4 DEF SafetyInv
  <2>8. \A m \in channel' : Matches(deltas', m[1].add, m[1].rem, m[2], m[3])
    BY <2>3, <2>4, <2>5, <2>6 DEF SafetyInv
  <2>9. QED
    BY <2>1, <2>2, <2>7, <2>8 DEF SafetyInv
<1>5. ASSUME NEW n \in Node, NEW sent \in channel,
             ReceiveState(n, sent) \/ ReceiveDelta(n, sent)
      PROVE  SafetyInv'
  <2> DEFINE s == set[n]
             m == sent[1]
  <2>1. m \in Message /\ s \in OrSetType
    BY DEF Sent
  <2>2. /\ Matches(deltas, s.add, s.rem, heard[n], gone[n])
        /\ s.delta_add \subseteq s.add /\ s.delta_rem \subseteq s.rem
        /\ Matches(deltas, m.add, m.rem, sent[2], sent[3])
    BY DEF SafetyInv
  <2>3. /\ set'[n] \in {MergeOrSet(s, m), ApplyOrSetDelta(s, m)}
        /\ \A o \in Node \ {n} : set'[o] = set[o] /\ heard'[o] = heard[o] /\ gone'[o] = gone[o]
        /\ heard'[n] = heard[n] \cup sent[2] /\ gone'[n] = gone[n] \cup sent[3]
        /\ UNCHANGED <<deltas, channel>>
    BY <1>5 DEF ReceiveState, ReceiveDelta, Hears
  <2> HIDE DEF s, m
  <2>4. deltas = 0 => s.rem \cup m.rem \subseteq s.add \cup m.add
    BY <2>2 DEF Matches, PairsIn
  <2>5. /\ set'[n].add = s.add \cup m.add /\ set'[n].rem \subseteq s.rem \cup m.rem
        /\ deltas = 0 => s.rem \cup m.rem \subseteq set'[n].rem
        /\ set'[n].delta_add \subseteq set'[n].add /\ set'[n].delta_rem \subseteq set'[n].rem
    <3>1. CASE set'[n] = MergeOrSet(s, m)
      <4>1. deltas = 0 => s.rem \cup m.rem \subseteq MergeOrSet(s, m).rem
        BY <2>1, <2>4, MergeKeeps
      <4>2. /\ MergeOrSet(s, m).add = s.add \cup m.add
            /\ MergeOrSet(s, m).rem \subseteq s.rem \cup m.rem
            /\ MergeOrSet(s, m).delta_add = {} /\ MergeOrSet(s, m).delta_rem = {}
        BY <2>1, MergeOrSetFields
      <4>3. QED
        BY <3>1, <4>1, <4>2
    <3>2. CASE set'[n] = ApplyOrSetDelta(s, m)
      <4>1. /\ ApplyOrSetDelta(s, m).add = s.add \cup m.add
            /\ ApplyOrSetDelta(s, m).rem = s.rem \cup m.rem
            /\ ApplyOrSetDelta(s, m).delta_add = s.delta_add
            /\ ApplyOrSetDelta(s, m).delta_rem = s.delta_rem
        BY <2>1, ApplyOrSetDeltaFields
      <4>2. QED
        BY <2>2, <3>2, <4>1
    <3>3. QED
      BY <2>3, <3>1, <3>2
  <2> DEFINE z == set'[n].rem
  <2>6. z \subseteq s.rem \cup m.rem /\ (deltas = 0 => s.rem \cup m.rem \subseteq z)
    BY <2>5
  <2> HIDE DEF z
  <2>7. Matches(deltas, s.add \cup m.add, z, heard[n] \cup sent[2], gone[n] \cup sent[3])
    BY <2>2, <2>6, MatchesJoin
  <2>8. Matches(deltas, set'[n].add, set'[n].rem, heard'[n], gone'[n])
    BY <2>3, <2>5, <2>7 DEF z
  <2>9. QED
    BY <2>3, <2>5, <2>8 DEF SafetyInv
<1>6. CASE UNCHANGED vars
  BY <1>6 DEF vars, SafetyInv
<1>7. QED
  BY <1>1, <1>2, <1>3, <1>4, <1>5, <1>6 DEF Next

\* The strengthened invariant holds throughout.
LEMMA SafetyInvariant == Spec => []SafetyInv
<1>1. Init => SafetyInv
  BY NewOrSetFields DEF Init, SafetyInv, Matches, PairsIn
<1>2. TypeOK /\ SafetyInv /\ [Next]_vars => SafetyInv'
  BY SafetyStep
<1>3. QED
  BY <1>1, <1>2, TypeCorrect, PTL DEF Spec

\* Whatever is lost, repeated or reordered, a replica shows every add it heard of and
\* not heard to be removed, unless two adds got one tag, and with states only no other.
THEOREM RemovesAreObserved == Spec => []ObservedRemove
<1>1. TypeOK /\ SafetyInv => ObservedRemove
  <2> SUFFICES ASSUME TypeOK, SafetyInv, NEW n \in Node
               PROVE  /\ TagsApart => Standing(n) \subseteq Visible(set[n])
                      /\ deltas = 0 => Visible(set[n]) \subseteq Standing(n)
    BY DEF ObservedRemove
  <2>1. Matches(deltas, set[n].add, set[n].rem, heard[n], gone[n])
    BY DEF SafetyInv
  <2>2. heard[n] \subseteq issued /\ gone[n] \subseteq issued
    BY DEF TypeOK
  <2>3. ASSUME TagsApart, NEW a \in heard[n] \ gone[n]
        PROVE  a[2] \in set[n].add \ set[n].rem
    BY <2>1, <2>2, <2>3 DEF Matches, PairsIn, TagsApart
  <2>4. TagsApart => Standing(n) \subseteq Visible(set[n])
    BY <2>3 DEF Standing, Visible, Keys
  <2>5. ASSUME deltas = 0, NEW p \in set[n].add \ set[n].rem
        PROVE  \E a \in heard[n] \ gone[n] : a[2] = p
    BY <2>1, <2>5 DEF Matches, PairsIn
  <2>6. deltas = 0 => Visible(set[n]) \subseteq Standing(n)
    BY <2>5 DEF Standing, Visible, Keys
  <2>7. QED
    BY <2>4, <2>6
<1>2. QED
  BY <1>1, TypeCorrect, SafetyInvariant, PTL

\* With full states only, a replica never loses a tag or a tombstone.
THEOREM StatesOnlyGrow == Spec => StatesForgetNothing
<1>1. TypeOK /\ SafetyInv /\ [Next]_vars => [StatesKeep]_vars
  <2> SUFFICES ASSUME TypeOK, SafetyInv, [Next]_vars, deltas = 0, NEW n \in Node
               PROVE  set[n].add \subseteq set'[n].add /\ set[n].rem \subseteq set'[n].rem
    BY DEF StatesKeep, StepKeeps
  <2> USE DEF TypeOK
  <2>1. ASSUME NEW o \in Node, NEW e \in Elem, Add(o, e) \/ Remove(o, e)
        PROVE  set[n].add \subseteq set'[n].add /\ set[n].rem \subseteq set'[n].rem
    <3>1. set'[n] \in {set[n], AddElem(set[n], e), RemoveElem(set[n], e)}
      BY <2>1 DEF Add, Remove
    <3>2. QED
      BY <3>1, AddFields, RemoveFields
  <2>2. ASSUME NEW o \in Node, SendState(o) \/ SendDelta(o)
        PROVE  set[n].add \subseteq set'[n].add /\ set[n].rem \subseteq set'[n].rem
    <3>1. set'[n] \in {set[n], ResetOrSetDelta(set[n])}
      BY <2>2 DEF SendState, SendDelta
    <3>2. QED
      BY <3>1, SentFields
  <2>3. ASSUME NEW o \in Node, NEW sent \in channel, ReceiveState(o, sent) \/ ReceiveDelta(o, sent)
        PROVE  set[n].add \subseteq set'[n].add /\ set[n].rem \subseteq set'[n].rem
    <3>1. set'[n] \in {set[n], MergeOrSet(set[n], sent[1]), ApplyOrSetDelta(set[n], sent[1])}
      BY <2>3 DEF ReceiveState, ReceiveDelta
    <3>2. set[n].rem \subseteq set[n].add /\ sent[1] \in Message
      BY DEF SafetyInv, Matches, PairsIn, Sent
    <3>3. QED
      BY <3>1, <3>2, MergeOrSetFields, ApplyOrSetDeltaFields
  <2>4. CASE UNCHANGED vars
    BY <2>4 DEF vars
  <2>5. QED
    BY <2>1, <2>2, <2>3, <2>4 DEF Next
<1>2. QED
  BY <1>1, TypeCorrect, SafetyInvariant, PTL DEF Spec, StatesForgetNothing
=============================================================================
