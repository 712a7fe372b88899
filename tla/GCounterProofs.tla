--------------------------- MODULE GCounterProofs ---------------------------
(***************************************************************************)
(* Theorems about the GCounter and its replication, for every set of nodes *)
(* and every bound.                                                        *)
(***************************************************************************)
EXTENDS GCounterSync, TLAPS

\* The loop of merge is a join of the lattice of count maps: the order in which
\* states are merged, and how often, makes no difference.
THEOREM JoinIsSemilattice ==
  ASSUME NEW a \in CountMap, NEW b \in CountMap, NEW c \in CountMap
  PROVE  /\ Join(a, b) \in CountMap
         /\ Join(a, a) = a
         /\ Join(a, b) = Join(b, a)
         /\ Join(a, Join(b, c)) = Join(Join(a, b), c)
BY DEF Join, MaxOf, CountMap

\* A join reports at least what each side reports, and nothing neither reports.
LEMMA JoinBounds ==
  ASSUME NEW a \in CountMap, NEW b \in CountMap, NEW m \in Node
  PROVE  /\ a[m] <= Join(a, b)[m]
         /\ b[m] <= Join(a, b)[m]
         /\ Join(a, b)[m] \in {a[m], b[m]}
BY DEF Join, MaxOf, CountMap
-----------------------------------------------------------------------------
\* A new object is well typed.
LEMMA NewGCounterType ==
  ASSUME NEW n \in Node
  PROVE  NewGCounter(n) \in GCounterType /\ NewGCounter(n).node_id = n
BY DEF NewGCounter, GCounterType, CountMap

\* What increment does to the fields of an object.
LEMMA IncrementFields ==
  ASSUME NEW c \in GCounterType, NEW amount \in Nat
  PROVE  /\ Increment(c, amount) \in GCounterType
         /\ Increment(c, amount).node_id = c.node_id
         /\ Increment(c, amount).delta = c.counts[c.node_id] + amount
         /\ Increment(c, amount).counts
              = [c.counts EXCEPT ![c.node_id] = c.counts[c.node_id] + amount]
<1> DEFINE total == c.counts[c.node_id] + amount
<1>1. total \in Nat
  BY DEF GCounterType, CountMap
<1>2. Increment(c, amount) = [c EXCEPT !.counts = [c.counts EXCEPT ![c.node_id] = total],
                                       !.delta = total]
  BY DEF Increment, GCounterType
<1>3. [c.counts EXCEPT ![c.node_id] = total] \in CountMap
  BY <1>1 DEF GCounterType, CountMap
<1> HIDE DEF total
<1>4. QED
  BY <1>1, <1>2, <1>3 DEF GCounterType, total

\* What merge does to the fields of an object.
LEMMA MergeFields ==
  ASSUME NEW c \in GCounterType, NEW other, other.counts \in CountMap
  PROVE  /\ Merge(c, other) \in GCounterType
         /\ Merge(c, other).node_id = c.node_id
         /\ Merge(c, other).delta = 0
         /\ Merge(c, other).counts = Join(c.counts, other.counts)
<1>1. Join(c.counts, other.counts) \in CountMap
  BY JoinIsSemilattice DEF GCounterType
<1>2. QED
  BY <1>1 DEF Merge, GCounterType

\* What apply_delta does to the fields of an object.
LEMMA ApplyDeltaFields ==
  ASSUME NEW c \in GCounterType, NEW d, d.source \in Node, d.total \in Nat
  PROVE  /\ ApplyDelta(c, d) \in GCounterType
         /\ ApplyDelta(c, d).node_id = c.node_id
         /\ ApplyDelta(c, d).delta = c.delta
         /\ ApplyDelta(c, d).counts
              = [c.counts EXCEPT ![d.source] = MaxOf(c.counts[d.source], d.total)]
<1> DEFINE new == MaxOf(c.counts[d.source], d.total)
<1>1. new \in Nat
  BY DEF GCounterType, CountMap, MaxOf
<1>2. ApplyDelta(c, d) = [c EXCEPT !.counts = [c.counts EXCEPT ![d.source] = new]]
  BY DEF ApplyDelta, GCounterType
<1>3. [c.counts EXCEPT ![d.source] = new] \in CountMap
  BY <1>1 DEF GCounterType, CountMap
<1> HIDE DEF new
<1>4. QED
  BY <1>1, <1>2, <1>3 DEF GCounterType, new

\* What reset_delta does to the fields of an object.
LEMMA ResetDeltaFields ==
  ASSUME NEW c \in GCounterType
  PROVE  /\ ResetDelta(c) \in GCounterType
         /\ ResetDelta(c).node_id = c.node_id
         /\ ResetDelta(c).delta = 0
         /\ ResetDelta(c).counts = c.counts
BY DEF ResetDelta, GCounterType
-----------------------------------------------------------------------------
\* Every operation keeps the counters, the history and the channel well typed.
THEOREM TypeCorrect == Spec => []TypeOK
<1>1. Init => TypeOK
  BY NewGCounterType DEF Init, TypeOK
<1>2. TypeOK /\ [Next]_vars => TypeOK'
  <2> SUFFICES ASSUME TypeOK, [Next]_vars PROVE TypeOK'
    OBVIOUS
  <2> USE DEF TypeOK
  <2>1. ASSUME NEW n \in Node, NEW amount \in 1..MaxCount, Count(n, amount)
        PROVE  TypeOK'
    <3>1. amount \in Nat /\ done[n] + amount \in Nat
      BY BoundsAssumption
    <3>2. /\ Increment(counter[n], amount) \in GCounterType
          /\ Increment(counter[n], amount).node_id = n
      BY <3>1, IncrementFields
    <3>3. QED
      BY <2>1, <3>1, <3>2 DEF Count
  <2>2. ASSUME NEW n \in Node, SendState(n) PROVE TypeOK'
    BY <2>2 DEF SendState, StateMsg, GCounterType
  <2>3. ASSUME NEW n \in Node, SendDelta(n) PROVE TypeOK'
    <3>1. DeltaOf(counter[n]) \in DeltaMsg
      BY DEF GCounterType, DeltaOf, DeltaMsg
    <3>2. QED
      BY <2>3, <3>1, ResetDeltaFields DEF SendDelta
  <2>4. ASSUME NEW n \in Node, Restart(n) PROVE TypeOK'
    BY <2>4, NewGCounterType DEF Restart
  <2>5. ASSUME NEW n \in Node, NEW msg \in channel, ReceiveState(n, msg)
        PROVE  TypeOK'
    <3>1. msg.counts \in CountMap
      BY <2>5 DEF ReceiveState, StateMsg, DeltaMsg
    <3>2. QED
      BY <2>5, <3>1, MergeFields DEF ReceiveState
  <2>6. ASSUME NEW n \in Node, NEW msg \in channel, ReceiveDelta(n, msg)
        PROVE  TypeOK'
    <3>1. msg.source \in Node /\ msg.total \in Nat
      BY <2>6 DEF ReceiveDelta, StateMsg, DeltaMsg
    <3>2. /\ ApplyDelta(counter[n], msg) \in GCounterType
          /\ ApplyDelta(counter[n], msg).node_id = n
      BY <3>1, ApplyDeltaFields
    <3>3. QED
      BY <2>6, <3>2 DEF ReceiveDelta
  <2>7. CASE UNCHANGED vars
    BY <2>7 DEF vars
  <2>8. QED
    BY <2>1, <2>2, <2>3, <2>4, <2>5, <2>6, <2>7 DEF Next
<1>3. QED
  BY <1>1, <1>2, PTL DEF Spec
-----------------------------------------------------------------------------
\* The claims of all replicas, pending deltas and messages stay below the truth;
\* with nobody restarted a node's own count is the truth.  The two invariants
\* are inductive together: a state that comes back to the node it was sent by,
\* bounded by what that node did, cannot raise its own exact count.
SafetyInv == NeverOvercounts /\ OwnCountExact

\* One step of the replicas preserves the safety invariant.
LEMMA SafetyStep ==
  ASSUME TypeOK, SafetyInv, [Next]_vars PROVE SafetyInv'
<1> USE DEF SafetyInv
<1> USE DEF TypeOK
<1>1. ASSUME NEW n \in Node, NEW amount \in 1..MaxCount, Count(n, amount)
      PROVE  SafetyInv'
  <2>1. amount \in Nat /\ amount > 0
    BY BoundsAssumption
  <2>2. /\ Increment(counter[n], amount).delta = counter[n].counts[n] + amount
        /\ Increment(counter[n], amount).counts
              = [counter[n].counts EXCEPT ![n] = counter[n].counts[n] + amount]
    BY <2>1, IncrementFields
  <2>3. \A m \in Node : done[m] <= done'[m] /\ done'[m] \in Nat
    BY <1>1, <2>1 DEF Count
  <2>4. /\ done'[n] = done[n] + amount
        /\ \A o \in Node \ {n} : counter'[o] = counter[o] /\ done'[o] = done[o]
        /\ counter'[n].delta = counter[n].counts[n] + amount
        /\ counter'[n].counts[n] = counter[n].counts[n] + amount
        /\ \A o \in Node \ {n} : counter'[n].counts[o] = counter[n].counts[o]
    BY <1>1, <2>2 DEF Count, GCounterType, CountMap
  <2>5. \A x, y \in Node : counter[x].counts[y] \in Nat /\ counter[x].delta \in Nat
    BY DEF GCounterType, CountMap
  <2>6. \A x, y \in Node : counter'[x].counts[y] <= done'[y]
    BY <2>1, <2>3, <2>4, <2>5 DEF NeverOvercounts
  <2>7. \A x \in Node : counter'[x].delta <= done'[x]
    BY <2>1, <2>3, <2>4, <2>5 DEF NeverOvercounts
  <2>8. OwnCountExact'
    BY <1>1, <2>4 DEF OwnCountExact, Count
  <2>9. channel' = channel
    BY <1>1 DEF Count
  <2>10. \A msg \in channel : IF msg.kind = "state"
                              THEN \A m \in Node : msg.counts[m] <= done'[m]
                              ELSE msg.total <= done'[msg.source]
    BY <2>3 DEF NeverOvercounts, StateMsg, DeltaMsg, CountMap
  <2>11. QED
    BY <2>6, <2>7, <2>8, <2>9, <2>10 DEF NeverOvercounts
<1>2. ASSUME NEW n \in Node, SendState(n) PROVE SafetyInv'
  BY <1>2 DEF SendState, NeverOvercounts, OwnCountExact
<1>3. ASSUME NEW n \in Node, SendDelta(n) PROVE SafetyInv'
  <2>1. /\ ResetDelta(counter[n]).delta = 0
        /\ ResetDelta(counter[n]).counts = counter[n].counts
    BY ResetDeltaFields
  <2>2. QED
    BY <1>3, <2>1 DEF SendDelta, DeltaOf, NeverOvercounts, OwnCountExact
<1>4. ASSUME NEW n \in Node, Restart(n) PROVE SafetyInv'
  <2>1. NewGCounter(n).delta = 0 /\ \A m \in Node : NewGCounter(n).counts[m] = 0
    BY DEF NewGCounter
  <2>2. QED
    BY <1>4, <2>1 DEF Restart, NeverOvercounts, OwnCountExact
<1>5. ASSUME NEW n \in Node, NEW msg \in channel, ReceiveState(n, msg)
      PROVE  SafetyInv'
  <2>1. msg.counts \in CountMap /\ counter[n].counts \in CountMap
    BY <1>5 DEF ReceiveState, StateMsg, DeltaMsg, GCounterType
  <2>2. /\ counter'[n].delta = 0
        /\ counter'[n].counts = Join(counter[n].counts, msg.counts)
        /\ \A o \in Node \ {n} : counter'[o] = counter[o]
        /\ UNCHANGED <<done, channel, restarts>>
    BY <1>5, <2>1, MergeFields DEF ReceiveState
  <2>3. \A m \in Node : /\ msg.counts[m] <= done[m]
                        /\ counter[n].counts[m] <= done[m]
    BY <1>5 DEF ReceiveState, NeverOvercounts
  <2>4. \A m \in Node : counter'[n].counts[m] <= done[m]
    BY <2>1, <2>2, <2>3, JoinBounds
  <2>5. counter[n].counts[n] <= counter'[n].counts[n]
    BY <2>1, <2>2, JoinBounds
  <2>6. counter'[n].counts[n] \in Nat
    BY <2>1, <2>2, JoinIsSemilattice DEF CountMap
  <2>7. OwnCountExact'
    BY <2>2, <2>4, <2>5, <2>6 DEF OwnCountExact
  <2>8. QED
    BY <2>2, <2>4, <2>7 DEF NeverOvercounts
<1>6. ASSUME NEW n \in Node, NEW msg \in channel, ReceiveDelta(n, msg)
      PROVE  SafetyInv'
  <2>1. msg.source \in Node /\ msg.total \in Nat /\ msg.kind # "state"
    BY <1>6 DEF ReceiveDelta, StateMsg, DeltaMsg
  <2>2. /\ counter'[n].delta = counter[n].delta
        /\ counter'[n].counts
             = [counter[n].counts EXCEPT ![msg.source]
                  = MaxOf(counter[n].counts[msg.source], msg.total)]
        /\ \A o \in Node \ {n} : counter'[o] = counter[o]
        /\ UNCHANGED <<done, channel, restarts>>
    BY <1>6, <2>1, ApplyDeltaFields DEF ReceiveDelta
  <2>3. msg.total <= done[msg.source] /\ counter[n].counts \in CountMap
    BY <2>1 DEF NeverOvercounts, GCounterType
  <2>4. \A m \in Node : /\ counter'[n].counts[m] <= done[m]
                        /\ counter[n].counts[m] <= counter'[n].counts[m]
                        /\ counter'[n].counts[m] \in Nat
    <3>1. \A m \in Node : counter[n].counts[m] \in Nat /\ counter[n].counts[m] <= done[m]
      BY <2>3 DEF NeverOvercounts, CountMap
    <3>2. CASE counter[n].counts[msg.source] >= msg.total
      BY <2>1, <2>2, <2>3, <3>1, <3>2 DEF MaxOf, CountMap
    <3>3. CASE ~(counter[n].counts[msg.source] >= msg.total)
      BY <2>1, <2>2, <2>3, <3>1, <3>3 DEF MaxOf, CountMap
    <3>4. QED
      BY <3>2, <3>3
  <2>5. OwnCountExact'
    <3>1. ASSUME restarts = 0 PROVE counter'[n].counts[n] = done[n]
      <4> DEFINE old == counter[n].counts[n]
                 new == counter'[n].counts[n]
                 true == done[n]
      <4>1. old = true /\ old \in Nat
        BY <2>3, <3>1 DEF OwnCountExact, CountMap
      <4>2. new <= true /\ old <= new /\ new \in Nat
        BY <2>4
      <4> HIDE DEF old, new, true
      <4>3. new = true
        BY <4>1, <4>2
      <4>4. QED
        BY <4>3 DEF new, true
    <3>2. ASSUME restarts = 0, NEW o \in Node \ {n}
          PROVE  counter'[o].counts[o] = done[o]
      BY <2>2, <3>2 DEF OwnCountExact
    <3>3. QED
      BY <2>2, <3>1, <3>2 DEF OwnCountExact
  <2>6. QED
    BY <2>2, <2>4, <2>5 DEF NeverOvercounts
<1>7. CASE UNCHANGED vars
  BY <1>7 DEF vars, NeverOvercounts, OwnCountExact
<1>8. QED
  BY <1>1, <1>2, <1>3, <1>4, <1>5, <1>6, <1>7 DEF Next

\* No replica, delta or message ever claims an increment that was not made, and
\* a node's own count is exact until somebody restarts: for any number of nodes,
\* messages and restarts.
THEOREM CounterSafety == Spec => []CountsAreTrue
<1>1. Init => SafetyInv
  <2>1. ASSUME Init PROVE \A n, m \in Node : /\ counter[n].counts[m] = 0
                                            /\ counter[n].delta = 0
                                            /\ done[m] = 0
    BY <2>1 DEF Init, NewGCounter
  <2>2. QED
    BY <2>1 DEF Init, SafetyInv, NeverOvercounts, OwnCountExact
<1>2. TypeOK /\ SafetyInv /\ [Next]_vars => SafetyInv'
  BY SafetyStep
<1>3. SafetyInv => CountsAreTrue
  BY DEF SafetyInv, CountsAreTrue
<1>4. QED
  BY <1>1, <1>2, <1>3, TypeCorrect, PTL DEF Spec
-----------------------------------------------------------------------------
\* What a step may do to the reports of the replicas, the core of both action
\* theorems below.
LEMMA StepRefines ==
  ASSUME TypeOK, TypeOK', SafetyInv, SafetyInv', [Next]_vars
  PROVE  [Knowledge!KNext]_(Knowledge!kvars)
<1> DEFINE known == [x \in Node |-> counter[x].counts]
<1>1. /\ known \in [Node -> CountMap] /\ known' \in [Node -> CountMap]
      /\ \A x \in Node : known[x] = counter[x].counts /\ known'[x] = counter'[x].counts
      /\ \A x, m \in Node : known'[x][m] <= done'[m]
  BY DEF TypeOK, GCounterType, SafetyInv, NeverOvercounts
<1> HIDE DEF known
<1>2. ASSUME NEW n \in Node,
             \A o \in Node \ {n} : counter'[o] = counter[o],
             \A m \in Node : counter[n].counts[m] <= counter'[n].counts[m]
      PROVE  Knowledge!Advances(n)
  BY <1>1, <1>2 DEF Knowledge!Advances, known, CountMap
<1>3. ASSUME NEW n \in Node, NEW amount \in 1..MaxCount, Count(n, amount)
      PROVE  Knowledge!Grow(n)
  <2>1. amount \in Nat /\ amount > 0
    BY BoundsAssumption
  <2>2. Increment(counter[n], amount).counts
          = [counter[n].counts EXCEPT ![n] = counter[n].counts[n] + amount]
    BY <2>1, IncrementFields DEF TypeOK
  <2>3. /\ counter'[n].counts = [counter[n].counts EXCEPT ![n] = counter[n].counts[n] + amount]
        /\ \A o \in Node \ {n} : counter'[o] = counter[o]
        /\ done' = [done EXCEPT ![n] = @ + amount]
    BY <1>3, <2>2 DEF Count, TypeOK
  <2>4. counter[n].counts \in CountMap /\ done \in [Node -> Nat] /\ done' \in [Node -> Nat]
    BY DEF TypeOK, GCounterType
  <2>5. \A m \in Node : counter[n].counts[m] <= counter'[n].counts[m]
    BY <2>1, <2>3, <2>4 DEF CountMap
  <2>6. known'[n][n] > known[n][n]
    BY <1>1, <2>1, <2>3, <2>4 DEF CountMap
  <2>7. done'[n] > done[n] /\ \A o \in Node \ {n} : done'[o] = done[o]
    BY <2>1, <2>3, <2>4
  <2>8. Knowledge!Advances(n)
    BY <1>2, <2>3, <2>5
  <2>9. QED
    BY <2>4, <2>6, <2>7, <2>8 DEF Knowledge!Grow, known
<1>4. ASSUME NEW n \in Node, NEW msg \in channel, ReceiveState(n, msg)
      PROVE  Knowledge!Learn(n)
  <2>1. msg.counts \in CountMap /\ counter[n].counts \in CountMap
    BY <1>4 DEF ReceiveState, StateMsg, DeltaMsg, GCounterType, TypeOK
  <2>2. /\ counter'[n].counts = Join(counter[n].counts, msg.counts)
        /\ \A o \in Node \ {n} : counter'[o] = counter[o]
        /\ UNCHANGED done
    BY <1>4, <2>1, MergeFields DEF ReceiveState, TypeOK
  <2>3. \A m \in Node : counter[n].counts[m] <= counter'[n].counts[m]
    BY <2>1, <2>2, JoinBounds
  <2>4. QED
    BY <1>2, <2>2, <2>3 DEF Knowledge!Learn
<1>5. ASSUME NEW n \in Node, NEW msg \in channel, ReceiveDelta(n, msg)
      PROVE  Knowledge!Learn(n)
  <2>1. msg.source \in Node /\ msg.total \in Nat /\ counter[n].counts \in CountMap
    BY <1>5 DEF ReceiveDelta, StateMsg, DeltaMsg, TypeOK, GCounterType
  <2>2. /\ counter'[n].counts
             = [counter[n].counts EXCEPT ![msg.source]
                  = MaxOf(counter[n].counts[msg.source], msg.total)]
        /\ \A o \in Node \ {n} : counter'[o] = counter[o]
        /\ UNCHANGED done
    <3>1. ApplyDelta(counter[n], msg).counts
            = [counter[n].counts EXCEPT ![msg.source]
                 = MaxOf(counter[n].counts[msg.source], msg.total)]
      BY <2>1, ApplyDeltaFields DEF TypeOK
    <3>2. QED
      BY <1>5, <3>1 DEF ReceiveDelta, TypeOK
  <2>3. \A m \in Node : counter[n].counts[m] <= counter'[n].counts[m]
    BY <2>1, <2>2 DEF MaxOf, CountMap
  <2>4. QED
    BY <1>2, <2>2, <2>3 DEF Knowledge!Learn
<1>6. ASSUME NEW n \in Node, Restart(n) PROVE Knowledge!Forget(n)
  BY <1>6 DEF Restart, Knowledge!Forget, NewGCounter, TypeOK
<1>7. ASSUME NEW n \in Node, SendState(n) \/ SendDelta(n)
      PROVE  UNCHANGED Knowledge!kvars
  <2>1. counter[n] \in GCounterType
    BY DEF TypeOK
  <2>2. ResetDelta(counter[n]).counts = counter[n].counts
    BY <2>1, ResetDeltaFields
  <2>3. \A x \in Node : counter'[x].counts = counter[x].counts
    BY <1>7, <2>2 DEF SendState, SendDelta, TypeOK
  <2>4. UNCHANGED done
    BY <1>7 DEF SendState, SendDelta
  <2>5. QED
    BY <2>3, <2>4 DEF Knowledge!kvars
<1>8. CASE UNCHANGED vars
  BY <1>8 DEF vars, Knowledge!kvars
<1>9. QED
  BY <1>3, <1>4, <1>5, <1>6, <1>7, <1>8 DEF Next, Knowledge!KNext

\* The replicas, their deltas, merges and restarts implement the abstract
\* grow-only counter.
THEOREM CounterImplementsKnowledge == Spec => ImplementsKnowledge
<1>1. Init => Knowledge!KInit
  BY DEF Init, Knowledge!KInit, NewGCounter
<1>2. TypeOK /\ TypeOK' /\ SafetyInv /\ SafetyInv' /\ [Next]_vars
        => [Knowledge!KNext]_(Knowledge!kvars)
  BY StepRefines
<1>3. Spec => []SafetyInv
  BY CounterSafety DEF SafetyInv, CountsAreTrue
<1>4. QED
  BY <1>1, <1>2, <1>3, TypeCorrect, PTL
     DEF Spec, ImplementsKnowledge, Knowledge!KSpec
=============================================================================
