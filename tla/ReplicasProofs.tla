--------------------------- MODULE ReplicasProofs ---------------------------
(***************************************************************************)
(* Theorems of MvReg and Replicas: the replicated objects beside those that *)
(* have modules of theorems of their own.                                  *)
(***************************************************************************)
EXTENDS MvReg, Replicas, FiniteSetTheorems, WellFoundedInduction, TLAPS

-----------------------------------------------------------------------------
(* The multi-value register *)

AllHeard == UNION {heard[a] : a \in Author}

\* Clocks go up by two with every write, a tag is not ahead of the clock of its author,
\* and no clock is ahead of an author's own: whatever is exchanged, and how.
MvBounded ==
  /\ clock \in [Author -> [Author -> Nat]]
  /\ values \in [Author -> SUBSET ((Author \X Nat) \X [Author -> Nat])]
  /\ heard \in [Author -> SUBSET (Author \X (Nat \ {0}))]
  /\ byDelta \in BOOLEAN
  /\ IsFiniteSet(AllHeard) /\ Cardinality(AllHeard) <= MaxWrites
  /\ past \subseteq AllHeard \X AllHeard
  /\ \A a \in Author : /\ clock[a][a] <= 2 * Cardinality(AllHeard)
                       /\ \A b \in Author : clock[b][a] <= clock[a][a]
                       /\ \A t \in heard[a] : t[2] <= clock[t[1]][t[1]]
                       /\ IsFiniteSet(values[a])
                       /\ \A v, w \in values[a] : v[1] = w[1] => v = w
                       /\ \A v \in values[a] : /\ v[1] \in heard[a]
                                               /\ \A b \in Author : v[2][b] <= clock[b][b]

\* Who has heard of a tag has heard of all that its writer had heard of.
PastIsHeard ==
  /\ \A a \in Author : \A t \in AllHeard, u \in heard[a] : <<t, u>> \in past => t \in heard[a]
  /\ \A t, u, s \in AllHeard : <<t, u>> \in past /\ <<u, s>> \in past => <<t, s>> \in past

\* While states are exchanged, a clock that has reached a tag belongs to one who has heard
\* of it: the replica, or the writer of the value that has the clock.
ClocksTell ==
  \A a \in Author :
    /\ \A t \in AllHeard : t[2] <= clock[a][t[1]] => t \in heard[a]
    /\ \A v \in values[a] :
         /\ \A b \in Author : v[2][b] <= clock[a][b] /\ (\A w \in values[b] : v[1] = w[1] => v = w)
         /\ v[1][2] <= v[2][v[1][1]]
         /\ \A t \in AllHeard : t[2] <= v[2][t[1]] => t = v[1] \/ <<t, v[1]>> \in past

MvInv == MvBounded /\ (byDelta \/ (PastIsHeard /\ ClocksTell /\ AllKept))

\* Clocks are ordered.
LEMMA BeforeIsAnOrder ==
  ASSUME NEW c \in [Author -> Nat], NEW d \in [Author -> Nat], NEW e \in [Author -> Nat]
  PROVE  /\ ~HappensBefore(c, c)
         /\ HappensBefore(c, d) /\ HappensBefore(d, e) => HappensBefore(c, e)
<1> USE DEF HappensBefore
<1>1. ASSUME HappensBefore(c, d), HappensBefore(d, e) PROVE HappensBefore(c, e)
  <2>1. \A a \in Author : c[a] <= d[a] /\ d[a] <= e[a] /\ c[a] \in Nat /\ d[a] \in Nat /\ e[a] \in Nat
    BY <1>1
  <2>2. PICK a \in Author : c[a] # d[a]
    BY <1>1
  <2>3. c[a] # e[a]
    BY <2>1, <2>2
  <2>4. QED
    BY <2>1, <2>3
<1>2. QED
  BY <1>1

\* Of finitely many values each one that another dominates is dominated by one that stays:
\* go up to one with as few as can be after it.
LEMMA DominatedByOneThatStays ==
  ASSUME NEW vals \in SUBSET ((Author \X Nat) \X [Author -> Nat]), IsFiniteSet(vals),
         NEW v \in Dominated(vals)
  PROVE  \E w \in Pruned(vals) : HappensBefore(v[2], w[2])
<1> DEFINE After(x) == {y \in vals : HappensBefore(x[2], y[2])}
           S == {After(x) : x \in After(v)}
           R == StrictSubsetOrdering(vals)
<1>1. S \subseteq SUBSET vals /\ S # {}
  <2>1. PICK x \in vals : HappensBefore(v[2], x[2])
    BY DEF Dominated
  <2>2. x \in After(v)
    BY <2>1
  <2>3. After(x) \in S
    BY <2>2
  <2>4. QED
    BY <2>3
<1>2. IsWellFoundedOn(R, SUBSET vals)
  BY FS_StrictSubsetOrderingWellFounded, FS_FiniteSubsetsOfFinite
<1>3. PICK m \in S : \A n \in S : ~ (<<n, m>> \in R)
  <2> HIDE DEF S, R
  <2>1. QED
    BY <1>1, <1>2, WFMin
<1>4. PICK w \in After(v) : m = After(w)
  OBVIOUS
<1>5. ASSUME NEW y \in After(w) PROVE FALSE
  <2>0. /\ v[2] \in [Author -> Nat] /\ w[2] \in [Author -> Nat] /\ y[2] \in [Author -> Nat]
        /\ y \in vals /\ w \in vals
    BY <1>5 DEF Dominated
  <2>1. y \in After(v)
    BY <2>0, BeforeIsAnOrder
  <2>2. After(y) \subseteq After(w)
    <3>1. ASSUME NEW z \in After(y) PROVE z \in After(w)
      <4>1. z[2] \in [Author -> Nat]
        BY <3>1
      <4>2. QED
        BY <2>0, <3>1, <4>1, <1>5, BeforeIsAnOrder
    <3>2. QED
      BY <3>1
  <2>3. y \notin After(y)
    BY <2>0, BeforeIsAnOrder
  <2>4. <<After(y), m>> \in R
    BY <1>4, <1>5, <2>2, <2>3 DEF StrictSubsetOrdering
  <2>5. QED
    BY <1>3, <2>1, <2>4
<1>6. QED
  BY <1>5, <1>4 DEF Pruned, Dominated

\* What a replica has after a merge: the values of both.
LEMMA MergeOfStates ==
  ASSUME MvBounded, ClocksTell, NEW a \in Author, NEW b \in Author,
         NEW vals \in Joins(values[a], values[b])
  PROVE  vals = values[a] \cup values[b]
<1> DEFINE all == values[a] \cup values[b]
<1>1. vals \subseteq all /\ IsFiniteSet(vals)
  BY FS_Union, FS_Subset DEF Joins, MvBounded
<1>2. \A v, w \in all : v[1] = w[1] => v = w
  BY DEF ClocksTell
<1>3. ASSUME NEW v \in all PROVE v \in vals
  <2> DEFINE same == {w \in vals : w[1] = v[1]}
  <2>1. Cardinality(same) = 1
    BY <1>3 DEF Joins, TagsOf
  <2>2. same # {}
    BY <2>1, FS_EmptySet
  <2>3. QED
    BY <1>1, <1>2, <1>3, <2>2
<1>4. QED
  BY <1>1, <1>3

\* Where the tags of a set of values differ, nothing of it is lost when it is pruned.
LEMMA PruningKeeps ==
  ASSUME NEW vals \in SUBSET ((Author \X Nat) \X [Author -> Nat]), IsFiniteSet(vals),
         NEW v \in vals
  PROVE  v \in Pruned(vals) \/ \E w \in Pruned(vals) : HappensBefore(v[2], w[2])
BY DominatedByOneThatStays DEF Pruned

\* Merging states keeps the clocks' word, and with it every write.
LEMMA MergeKeeps ==
  ASSUME MvBounded, PastIsHeard, ClocksTell, AllKept,
         NEW a \in Author, NEW b \in Author, MergeState(a, b)
  PROVE  PastIsHeard' /\ ClocksTell' /\ AllKept'
<1> DEFINE all == values[a] \cup values[b]
<1>1. /\ values' = [values EXCEPT ![a] = Pruned(all)]
      /\ clock' = [clock EXCEPT ![a] = MergeClocks(clock[a], clock[b])]
      /\ heard' = [heard EXCEPT ![a] = heard[a] \cup heard[b]]
      /\ past' = past
  BY MergeOfStates DEF MergeState
<1>2. /\ \A c \in Author : values'[c] = IF c = a THEN Pruned(all) ELSE values[c]
      /\ \A c \in Author : heard'[c] = IF c = a THEN heard[a] \cup heard[b] ELSE heard[c]
      /\ \A c, d \in Author : clock'[c][d] = IF c = a /\ clock[b][d] > clock[a][d]
                                            THEN clock[b][d] ELSE clock[c][d]
  BY <1>1 DEF MvBounded, MergeClocks
<1>3. Pruned(all) \subseteq all
  BY DEF Pruned
<1>4. AllHeard' = AllHeard
  BY <1>2 DEF AllHeard
<1>5. PastIsHeard'
  BY <1>1, <1>2, <1>4 DEF PastIsHeard
<1>6. ClocksTell'
  <2>1. ASSUME NEW c \in Author, NEW t \in AllHeard, t[2] <= clock'[c][t[1]] PROVE t \in heard'[c]
    <3>1. t[1] \in Author
      BY DEF AllHeard, MvBounded
    <3>2. clock'[c][t[1]] = clock[c][t[1]] \/ (c = a /\ clock'[c][t[1]] = clock[b][t[1]])
      BY <1>2, <3>1
    <3>3. QED
      BY <1>2, <2>1, <3>2 DEF ClocksTell
  <2>2. ASSUME NEW c \in Author, NEW v \in values'[c]
        PROVE  /\ \A d \in Author : v[2][d] <= clock'[c][d]
               /\ v[1][2] <= v[2][v[1][1]]
               /\ \A d \in Author : \A w \in values'[d] : v[1] = w[1] => v = w
               /\ \A t \in AllHeard : t[2] <= v[2][t[1]] => t = v[1] \/ <<t, v[1]>> \in past
    <3>1. PICK o \in Author : v \in values[o] /\ (c # a => o = c) /\ (c = a => o \in {a, b})
      BY <1>2, <1>3, <2>2
    <3>2. \A d \in Author : v[2][d] <= clock'[c][d]
      <4> TAKE d \in Author
      <4>1. /\ clock[a][d] \in Nat /\ clock[b][d] \in Nat /\ clock[c][d] \in Nat /\ v[2][d] \in Nat
        BY <3>1 DEF MvBounded
      <4>2. v[2][d] <= clock[o][d]
        BY <3>1 DEF ClocksTell
      <4>3. QED
        BY <1>2, <3>1, <4>1, <4>2
    <3>3. \A d \in Author : \A w \in values'[d] : v[1] = w[1] => v = w
      <4> TAKE d \in Author
      <4> TAKE w \in values'[d]
      <4>1. PICK p \in Author : w \in values[p]
        BY <1>2, <1>3
      <4>2. QED
        BY <3>1, <4>1 DEF ClocksTell
    <3>4. QED
      BY <3>1, <3>2, <3>3 DEF ClocksTell
  <2>3. past' = past
    BY <1>1
  <2>4. ASSUME NEW c \in Author
        PROVE  \A t \in AllHeard' : t[2] <= clock'[c][t[1]] => t \in heard'[c]
    BY <1>4, <2>1
  <2>5. ASSUME NEW c \in Author, NEW v \in values'[c]
        PROVE  /\ \A d \in Author : v[2][d] <= clock'[c][d] /\ (\A w \in values'[d] : v[1] = w[1] => v = w)
               /\ v[1][2] <= v[2][v[1][1]]
               /\ \A t \in AllHeard' : t[2] <= v[2][t[1]] => t = v[1] \/ <<t, v[1]>> \in past'
    <3>1. /\ \A d \in Author : v[2][d] <= clock'[c][d] /\ (\A w \in values'[d] : v[1] = w[1] => v = w)
          /\ v[1][2] <= v[2][v[1][1]]
      BY <2>2
    <3>2. \A t \in AllHeard' : t[2] <= v[2][t[1]] => t = v[1] \/ <<t, v[1]>> \in past'
      BY <1>4, <2>2, <2>3
    <3>3. QED
      BY <3>1, <3>2
  <2>6. QED
    BY <2>4, <2>5 DEF ClocksTell
<1>7. AllKept'
  <2> SUFFICES ASSUME NEW c \in Author, NEW t \in heard'[c]
      PROVE  t \in TagsOf(values'[c]) \/ \E u \in TagsOf(values'[c]) : <<t, u>> \in past
    BY <1>1 DEF AllKept
  <2>1. CASE c # a
    BY <1>2, <2>1 DEF AllKept
  <2>2. CASE c = a
    <3>1. PICK o \in {a, b} : t \in heard[o]
      BY <1>2, <2>2
    <3>2. PICK v \in all : t = v[1] \/ <<t, v[1]>> \in past
      BY <3>1 DEF AllKept, TagsOf
    <3>3. all \in SUBSET ((Author \X Nat) \X [Author -> Nat]) /\ IsFiniteSet(all)
      BY FS_Union DEF MvBounded
    <3>4. CASE v \in Pruned(all)
      BY <1>2, <2>2, <3>2, <3>4 DEF TagsOf
    <3>5. CASE v \notin Pruned(all)
      <4>1. PICK w \in Pruned(all) : HappensBefore(v[2], w[2])
        BY <3>3, <3>5, PruningKeeps
      <4>2. PICK p, q \in Author : v \in values[p] /\ w \in values[q]
        BY <1>3
      <4>3. v[1] \in AllHeard /\ w[1] \in AllHeard /\ t \in AllHeard
        <5>1. v[1] \in heard[p] /\ w[1] \in heard[q] /\ t \in heard[o] /\ o \in Author
          BY <3>1, <4>2 DEF MvBounded
        <5>2. QED
          BY <5>1 DEF AllHeard
      <4>4. v[1][2] <= w[2][v[1][1]]
        <5>1. v[1][2] \in Nat /\ v[1][1] \in Author /\ v[2] \in [Author -> Nat] /\ w[2] \in [Author -> Nat]
          BY <4>2 DEF MvBounded
        <5>2. v[1][2] <= v[2][v[1][1]] /\ v[2][v[1][1]] <= w[2][v[1][1]]
          BY <4>1, <4>2, <5>1 DEF ClocksTell, HappensBefore
        <5>3. QED
          BY <5>1, <5>2
      <4>5. v[1] # w[1]
        <5>1. v[1] = w[1] => v = w
          BY <4>2 DEF ClocksTell
        <5>2. QED
          BY <4>1, <5>1 DEF HappensBefore
      <4>6. <<v[1], w[1]>> \in past
        BY <4>2, <4>3, <4>4, <4>5 DEF ClocksTell
      <4>7. <<t, w[1]>> \in past
        BY <3>2, <4>3, <4>6 DEF PastIsHeard
      <4>8. QED
        BY <1>2, <2>2, <4>7 DEF TagsOf
    <3>6. QED
      BY <3>4, <3>5
  <2>3. QED
    BY <2>1, <2>2
<1>8. QED
  BY <1>5, <1>6, <1>7

\* A write is beside what its writer had heard of, and after it.
LEMMA WriteKeeps ==
  ASSUME MvBounded, PastIsHeard, ClocksTell, AllKept, NEW a \in Author, Write(a)
  PROVE  PastIsHeard' /\ ClocksTell' /\ AllKept'
<1> DEFINE n == clock[a][a]
           tag == <<a, n + 1>>
           now == Ticked(Ticked(clock[a], a), a)
<1>1. /\ clock' = [clock EXCEPT ![a] = now]
      /\ values' = [values EXCEPT ![a] = values[a] \cup {<<tag, now>>}]
      /\ heard' = [heard EXCEPT ![a] = heard[a] \cup {tag}]
      /\ past' = past \cup (heard[a] \X {tag})
  BY DEF Write
<1>2. /\ n \in Nat /\ now \in [Author -> Nat] /\ now[a] = n + 2
      /\ \A b \in Author \ {a} : now[b] = clock[a][b]
  BY DEF MvBounded, Ticked
<1> HIDE DEF now
<1>3. /\ \A c \in Author : values'[c] = IF c = a THEN values[a] \cup {<<tag, now>>} ELSE values[c]
      /\ \A c \in Author : heard'[c] = IF c = a THEN heard[a] \cup {tag} ELSE heard[c]
      /\ \A c \in Author : clock'[c] = IF c = a THEN now ELSE clock[c]
  BY <1>1 DEF MvBounded
<1>4. AllHeard' = AllHeard \cup {tag} /\ tag[1] = a /\ tag[2] = n + 1
  BY <1>3 DEF AllHeard
<1>5. \A t \in AllHeard : t[1] \in Author /\ t[2] \in Nat /\ (t[1] = a => t[2] <= n)
  BY DEF AllHeard, MvBounded
<1>6. tag \notin AllHeard
  BY <1>2, <1>4, <1>5
<1>7. \A t \in AllHeard : t[2] <= now[t[1]] => t \in heard[a]
  <2> SUFFICES ASSUME NEW t \in AllHeard, t[2] <= now[t[1]] PROVE t \in heard[a]
    OBVIOUS
  <2>1. t[2] <= clock[a][t[1]]
    BY <1>2, <1>5
  <2>2. QED
    BY <2>1 DEF ClocksTell
<1> HIDE DEF tag, n
<1>8. past \subseteq AllHeard \X AllHeard /\ \A c \in Author : heard[c] \subseteq AllHeard
  BY DEF MvBounded, AllHeard
<1>9. PastIsHeard'
  <2>1. ASSUME NEW c \in Author, NEW t \in AllHeard', NEW u \in heard'[c], <<t, u>> \in past'
        PROVE  t \in heard'[c]
    <3>1. CASE u = tag
      BY <1>1, <1>3, <1>6, <1>8, <2>1, <3>1
    <3>2. CASE u # tag
      <4>1. <<t, u>> \in past /\ u \in heard[c]
        BY <1>1, <1>3, <2>1, <3>2
      <4>2. t \in heard[c]
        BY <1>8, <4>1 DEF PastIsHeard
      <4>3. QED
        BY <1>3, <4>2
    <3>3. QED
      BY <3>1, <3>2
  <2>2. ASSUME NEW t \in AllHeard', NEW u \in AllHeard', NEW s \in AllHeard',
               <<t, u>> \in past', <<u, s>> \in past'
        PROVE  <<t, s>> \in past'
    <3>1. u # tag
      BY <1>1, <1>6, <1>8, <2>2
    <3>2. <<t, u>> \in past
      BY <1>1, <2>2, <3>1
    <3>3. CASE s = tag
      <4>1. u \in heard[a]
        BY <1>1, <1>6, <1>8, <2>2, <3>3
      <4>2. t \in heard[a]
        BY <1>8, <3>2, <4>1 DEF PastIsHeard
      <4>3. QED
        BY <1>1, <3>3, <4>2
    <3>4. CASE s # tag
      <4>1. <<u, s>> \in past
        BY <1>1, <2>2, <3>4
      <4>2. QED
        BY <1>1, <1>8, <3>2, <4>1 DEF PastIsHeard
    <3>5. QED
      BY <3>3, <3>4
  <2>3. QED
    BY <2>1, <2>2 DEF PastIsHeard
<1>10. ClocksTell'
  <2>1. ASSUME NEW c \in Author, NEW t \in AllHeard', t[2] <= clock'[c][t[1]] PROVE t \in heard'[c]
    <3>1. CASE c = a
      BY <1>3, <1>4, <1>7, <2>1, <3>1
    <3>2. CASE c # a
      <4>1. clock[c][a] <= n /\ clock[c][a] \in Nat
        BY DEF MvBounded, n
      <4>2. t # tag
        BY <1>2, <1>3, <1>4, <2>1, <3>2, <4>1
      <4>3. QED
        BY <1>3, <1>4, <2>1, <3>2, <4>2 DEF ClocksTell
    <3>3. QED
      BY <3>1, <3>2
  <2>2. ASSUME NEW c \in Author, NEW v \in values[c]
        PROVE  /\ \A b \in Author : v[2][b] <= clock'[c][b] /\ (\A w \in values'[b] : v[1] = w[1] => v = w)
               /\ v[1][2] <= v[2][v[1][1]]
               /\ \A t \in AllHeard' : t[2] <= v[2][t[1]] => t = v[1] \/ <<t, v[1]>> \in past'
    <3>1. v[1] \in AllHeard /\ v[1] # tag /\ v[2] \in [Author -> Nat] /\ v[2][a] <= n
      BY <1>6, <1>8 DEF MvBounded, n
    <3>2. ASSUME NEW b \in Author PROVE v[2][b] <= clock'[c][b]
      <4>1. v[2][b] <= clock[c][b]
        BY DEF ClocksTell
      <4>2. CASE c = a /\ b = a
        BY <1>2, <1>3, <3>1, <4>2
      <4>3. CASE ~(c = a /\ b = a)
        BY <1>2, <1>3, <4>1, <4>3
      <4>4. QED
        BY <4>2, <4>3
    <3>3. ASSUME NEW b \in Author, NEW w \in values'[b], v[1] = w[1] PROVE v = w
      <4>1. w[1] # tag
        BY <3>1, <3>3
      <4>2. w \in values[b]
        BY <1>3, <4>1
      <4>3. QED
        BY <3>3, <4>2 DEF ClocksTell
    <3>4. ASSUME NEW t \in AllHeard', t[2] <= v[2][t[1]] PROVE t = v[1] \/ <<t, v[1]>> \in past'
      <4>1. t # tag
        BY <1>2, <1>4, <3>1, <3>4
      <4>2. QED
        BY <1>1, <1>4, <3>4, <4>1 DEF ClocksTell
    <3>5. QED
      BY <3>2, <3>3, <3>4 DEF ClocksTell
  <2>3. ASSUME NEW v, v = <<tag, now>>
        PROVE  /\ \A b \in Author : v[2][b] <= clock'[a][b] /\ (\A w \in values'[b] : v[1] = w[1] => v = w)
               /\ v[1][2] <= v[2][v[1][1]]
               /\ \A t \in AllHeard' : t[2] <= v[2][t[1]] => t = v[1] \/ <<t, v[1]>> \in past'
    <3>1. v[1] = tag /\ v[2] = now
      BY <2>3
    <3>2. ASSUME NEW b \in Author PROVE v[2][b] <= clock'[a][b]
      BY <1>2, <1>3, <3>1
    <3>3. ASSUME NEW b \in Author, NEW w \in values'[b], v[1] = w[1] PROVE v = w
      <4>1. ASSUME w \in values[b] PROVE FALSE
        BY <1>6, <1>8, <3>1, <3>3, <4>1 DEF MvBounded
      <4>2. QED
        BY <1>3, <2>3, <4>1
    <3>4. v[1][2] <= v[2][v[1][1]]
      BY <1>2, <1>4, <3>1
    <3>5. ASSUME NEW t \in AllHeard', t[2] <= v[2][t[1]] PROVE t = v[1] \/ <<t, v[1]>> \in past'
      BY <1>1, <1>4, <1>7, <3>1, <3>5
    <3>6. QED
      BY <3>2, <3>3, <3>4, <3>5
  <2>4. ASSUME NEW c \in Author, NEW v \in values'[c]
        PROVE  /\ \A b \in Author : v[2][b] <= clock'[c][b] /\ (\A w \in values'[b] : v[1] = w[1] => v = w)
               /\ v[1][2] <= v[2][v[1][1]]
               /\ \A t \in AllHeard' : t[2] <= v[2][t[1]] => t = v[1] \/ <<t, v[1]>> \in past'
    <3>1. v \in values[c] \/ (c = a /\ v = <<tag, now>>)
      BY <1>3
    <3>2. CASE v \in values[c]
      BY <2>2, <3>2
    <3>3. CASE c = a /\ v = <<tag, now>>
      BY <2>3, <3>3
    <3>4. QED
      BY <3>1, <3>2, <3>3
  <2>5. QED
    BY <2>1, <2>4 DEF ClocksTell
<1>11. AllKept'
  <2> SUFFICES ASSUME NEW c \in Author, NEW t \in heard'[c]
      PROVE  t \in TagsOf(values'[c]) \/ \E u \in TagsOf(values'[c]) : <<t, u>> \in past'
    BY DEF AllKept
  <2>1. values[c] \subseteq values'[c] /\ past \subseteq past'
    BY <1>1, <1>3
  <2>2. CASE t \in heard[c]
    BY <2>1, <2>2 DEF AllKept, TagsOf
  <2>3. CASE t \notin heard[c]
    <3>1. t = tag /\ <<tag, now>> \in values'[c]
      BY <1>3, <2>3
    <3>2. QED
      BY <3>1 DEF TagsOf
  <2>4. QED
    BY <2>2, <2>3
<1>12. QED
  BY <1>9, <1>10, <1>11

\* At the start nothing is written.
LEMMA MvInitially == MvInit => MvInv
<1> SUFFICES ASSUME MvInit PROVE MvInv
  OBVIOUS
<1>1. AllHeard = {}
  BY DEF AllHeard, MvInit
<1>2. IsFiniteSet({}) /\ Cardinality({}) = 0
  BY FS_EmptySet
<1>3. MvBounded
  <2>1. IsFiniteSet(AllHeard) /\ Cardinality(AllHeard) = 0
    BY <1>1, <1>2
  <2>2. \A a, b \in Author : clock[a][b] = 0 /\ values[a] = {} /\ heard[a] = {}
    BY DEF MvInit
  <2>3. \A a \in Author : IsFiniteSet(values[a])
    BY <1>2, <2>2
  <2>4. /\ clock \in [Author -> [Author -> Nat]]
        /\ values \in [Author -> SUBSET ((Author \X Nat) \X [Author -> Nat])]
        /\ heard \in [Author -> SUBSET (Author \X (Nat \ {0}))]
        /\ past = {} /\ byDelta \in BOOLEAN
    BY DEF MvInit
  <2>5. QED
    BY <2>1, <2>2, <2>3, <2>4, MvRegAssumption DEF MvBounded
<1>4. PastIsHeard /\ ClocksTell /\ AllKept
  BY <1>1 DEF PastIsHeard, ClocksTell, AllKept, MvInit
<1>5. QED
  BY <1>3, <1>4 DEF MvInv

\* What a replica hears from another has been heard before.
LEMMA HeardOfAnother ==
  ASSUME NEW a \in Author, NEW more, heard \in [Author -> SUBSET (Author \X (Nat \ {0}))],
         more \subseteq AllHeard, heard' = [heard EXCEPT ![a] = @ \cup more]
  PROVE  AllHeard' = AllHeard
<1>1. \A c \in Author : heard'[c] = IF c = a THEN heard[a] \cup more ELSE heard[c]
  OBVIOUS
<1>2. QED
  BY <1>1 DEF AllHeard

\* The bounds hold over a write.
LEMMA WriteIsBounded ==
  ASSUME MvBounded, NEW a \in Author, Write(a) PROVE MvBounded'
<1> DEFINE n == clock[a][a]
           tag == <<a, n + 1>>
           now == Ticked(Ticked(clock[a], a), a)
<1>1. /\ clock' = [clock EXCEPT ![a] = now]
      /\ values' = [values EXCEPT ![a] = values[a] \cup {<<tag, now>>}]
      /\ heard' = [heard EXCEPT ![a] = heard[a] \cup {tag}]
      /\ past' = past \cup (heard[a] \X {tag})
      /\ byDelta' = byDelta /\ Cardinality(AllHeard) < MaxWrites
  BY DEF Write, AllHeard
<1>2. /\ n \in Nat /\ now \in [Author -> Nat] /\ now[a] = n + 2
      /\ \A b \in Author \ {a} : now[b] = clock[a][b]
  BY DEF MvBounded, Ticked
<1> HIDE DEF now
<1>3. /\ \A c \in Author : values'[c] = IF c = a THEN values[a] \cup {<<tag, now>>} ELSE values[c]
      /\ \A c \in Author : heard'[c] = IF c = a THEN heard[a] \cup {tag} ELSE heard[c]
      /\ \A c \in Author : clock'[c] = IF c = a THEN now ELSE clock[c]
  BY <1>1 DEF MvBounded
<1>4. /\ AllHeard' = AllHeard \cup {tag} /\ tag[1] = a /\ tag[2] = n + 1
      /\ tag \in Author \X (Nat \ {0})
  BY <1>2, <1>3 DEF AllHeard
<1>5. tag \notin AllHeard
  BY <1>2, <1>4 DEF AllHeard, MvBounded
<1> HIDE DEF tag
<1>6. /\ IsFiniteSet(AllHeard') /\ Cardinality(AllHeard') = Cardinality(AllHeard) + 1
      /\ Cardinality(AllHeard) \in Nat
  BY <1>4, <1>5, FS_AddElement, FS_CardinalityType DEF MvBounded
<1>7. Cardinality(AllHeard') <= MaxWrites
  BY <1>1, <1>6, MvRegAssumption
<1>8. past' \subseteq AllHeard' \X AllHeard'
  BY <1>1, <1>4 DEF MvBounded, AllHeard
<1>9. clock' \in [Author -> [Author -> Nat]] /\ heard' \in [Author -> SUBSET (Author \X (Nat \ {0}))]
  BY <1>1, <1>2, <1>4 DEF MvBounded
<1>10. values' \in [Author -> SUBSET ((Author \X Nat) \X [Author -> Nat])]
  <2>1. <<tag, now>> \in (Author \X Nat) \X [Author -> Nat]
    BY <1>2, <1>4
  <2>2. QED
    BY <1>1, <2>1 DEF MvBounded
<1>11. \A c \in Author : clock'[c][c] >= clock[c][c] /\ (c = a => clock'[c][c] = n + 2) /\ clock[c][c] \in Nat
  BY <1>2, <1>3 DEF MvBounded
<1>12. ASSUME NEW c \in Author
       PROVE  /\ clock'[c][c] <= 2 * Cardinality(AllHeard')
              /\ \A b \in Author : clock'[b][c] <= clock'[c][c]
  <2>1. clock'[c][c] <= 2 * Cardinality(AllHeard')
    <3>1. clock[c][c] <= 2 * Cardinality(AllHeard)
      BY DEF MvBounded
    <3>2. CASE c = a
      BY <1>2, <1>6, <1>11, <3>1, <3>2
    <3>3. CASE c # a
      <4>1. clock'[c][c] = clock[c][c]
        BY <1>3, <3>3
      <4>2. QED
        BY <1>6, <1>11, <3>1, <4>1
    <3>4. QED
      BY <3>2, <3>3
  <2>2. ASSUME NEW b \in Author PROVE clock'[b][c] <= clock'[c][c]
    <3>1. clock[b][c] <= clock[c][c] /\ clock[b][c] \in Nat /\ clock[c][c] \in Nat
      BY DEF MvBounded
    <3>2. clock'[b][c] = clock[b][c] \/ (b = a /\ c = a)
      BY <1>2, <1>3
    <3>3. QED
      BY <1>2, <1>11, <1>3, <3>1, <3>2
  <2>3. QED
    BY <2>1, <2>2
<1>13. ASSUME NEW c \in Author, NEW t \in heard'[c] PROVE t[2] <= clock'[t[1]][t[1]]
  <2>1. CASE t = tag
    BY <1>2, <1>3, <1>4, <2>1
  <2>2. CASE t # tag
    <3>1. t \in heard[c]
      BY <1>3, <2>2
    <3>2. t[1] \in Author /\ t[2] \in Nat /\ t[2] <= clock[t[1]][t[1]]
      BY <3>1 DEF MvBounded
    <3>3. clock'[t[1]][t[1]] \in Nat
      BY <1>9, <3>2
    <3>4. QED
      BY <1>11, <3>2, <3>3
  <2>3. QED
    BY <2>1, <2>2
<1>14. ASSUME NEW c \in Author
       PROVE  /\ IsFiniteSet(values'[c])
              /\ \A v, w \in values'[c] : v[1] = w[1] => v = w
              /\ \A v \in values'[c] : /\ v[1] \in heard'[c]
                                       /\ \A b \in Author : v[2][b] <= clock'[b][b]
  <2>1. IsFiniteSet(values'[c])
    <3>1. IsFiniteSet(values[c]) /\ IsFiniteSet(values[a] \cup {<<tag, now>>})
      BY FS_AddElement DEF MvBounded
    <3>2. QED
      BY <1>3, <3>1
  <2>2. \A v \in values[c] : v[1] # tag /\ v[1] \in heard[c]
    BY <1>5 DEF MvBounded, AllHeard
  <2>3. \A v, w \in values'[c] : v[1] = w[1] => v = w
    <3> SUFFICES ASSUME NEW v \in values'[c], NEW w \in values'[c], v[1] = w[1] PROVE v = w
      OBVIOUS
    <3>1. \A u \in values'[c] : u \in values[c] \/ u = <<tag, now>>
      BY <1>3
    <3>2. v \in values[c] /\ w \in values[c] => v = w
      BY DEF MvBounded
    <3>3. QED
      BY <2>2, <3>1, <3>2
  <2>4. ASSUME NEW v \in values'[c] PROVE v[1] \in heard'[c]
    BY <1>3, <2>2
  <2>5. ASSUME NEW v \in values'[c], NEW b \in Author PROVE v[2][b] <= clock'[b][b]
    <3>1. CASE v \in values[c]
      <4>1. v[2][b] \in Nat /\ v[2][b] <= clock[b][b]
        BY <3>1 DEF MvBounded
      <4>2. clock'[b][b] \in Nat
        BY <1>9
      <4>3. QED
        BY <1>11, <4>1, <4>2
    <3>2. CASE v = <<tag, now>>
      <4>1. v[2] = now
        BY <3>2
      <4>2. b # a => now[b] <= clock'[b][b]
        <5>1. clock[a][b] <= clock[b][b]
          BY DEF MvBounded
        <5>2. QED
          BY <1>2, <1>3, <5>1
      <4>3. QED
        BY <1>2, <1>11, <4>1, <4>2
    <3>3. QED
      BY <1>3, <3>1, <3>2
  <2>6. QED
    BY <2>1, <2>3, <2>4, <2>5
<1>15. byDelta' \in BOOLEAN
  BY <1>1 DEF MvBounded
<1>16. QED
  BY <1>6, <1>7, <1>8, <1>9, <1>10, <1>12, <1>13, <1>14, <1>15 DEF MvBounded

\* A replica takes over values, a clock and news that it or another has.
TakesOver(a, b, vals, now, more) ==
  /\ more \subseteq heard[b] /\ now \in [Author -> Nat] /\ now[a] >= clock[a][a]
  /\ \A c \in Author : now[c] = clock[a][c] \/ now[c] = clock[b][c]
  /\ IsFiniteSet(vals) /\ vals \subseteq (Author \X Nat) \X [Author -> Nat]
  /\ \A v, w \in vals : v[1] = w[1] => v = w
  /\ \A v \in vals : v[1] \in heard[a] \cup more /\ \A c \in Author : v[2][c] <= clock[c][c]
  /\ clock' = [clock EXCEPT ![a] = now] /\ values' = [values EXCEPT ![a] = vals]
  /\ heard' = [heard EXCEPT ![a] = @ \cup more] /\ past' = past /\ byDelta' \in BOOLEAN

\* The bounds hold when it does.
LEMMA TakingOverIsBounded ==
  ASSUME MvBounded, NEW a \in Author, NEW b \in Author, NEW vals, NEW now, NEW more,
         TakesOver(a, b, vals, now, more)
  PROVE  MvBounded'
<1> USE DEF TakesOver
<1>1. AllHeard' = AllHeard
  BY HeardOfAnother DEF MvBounded, AllHeard
<1>2. /\ \A c \in Author : values'[c] = IF c = a THEN vals ELSE values[c]
      /\ \A c \in Author : heard'[c] = IF c = a THEN heard[a] \cup more ELSE heard[c]
      /\ \A c \in Author : clock'[c] = IF c = a THEN now ELSE clock[c]
  BY DEF MvBounded
<1>3. \A c \in Author : clock'[c][c] = clock[c][c]
  <2>1. clock[b][a] <= clock[a][a] /\ clock[a][a] \in Nat /\ clock[b][a] \in Nat
    BY DEF MvBounded
  <2>2. now[a] = clock[a][a]
    BY <2>1
  <2>3. QED
    BY <1>2, <2>2
<1>4. \A c, d \in Author : clock'[d][c] <= clock'[c][c]
  BY <1>2, <1>3 DEF MvBounded
<1>5. /\ clock' \in [Author -> [Author -> Nat]]
      /\ heard' \in [Author -> SUBSET (Author \X (Nat \ {0}))]
      /\ values' \in [Author -> SUBSET ((Author \X Nat) \X [Author -> Nat])]
  BY DEF MvBounded
<1>6. \A c \in Author : \A t \in heard'[c] : t[2] <= clock'[t[1]][t[1]]
  <2> SUFFICES ASSUME NEW c \in Author, NEW t \in heard'[c] PROVE t[2] <= clock'[t[1]][t[1]]
    OBVIOUS
  <2>1. PICK d \in Author : t \in heard[d]
    BY <1>2
  <2>2. QED
    BY <1>3, <2>1 DEF MvBounded
<1>7. ASSUME NEW c \in Author
      PROVE  /\ IsFiniteSet(values'[c])
             /\ \A v, w \in values'[c] : v[1] = w[1] => v = w
             /\ \A v \in values'[c] : /\ v[1] \in heard'[c]
                                      /\ \A d \in Author : v[2][d] <= clock'[d][d]
  BY <1>2, <1>3 DEF MvBounded
<1>8. past' \subseteq AllHeard' \X AllHeard'
  BY <1>1 DEF MvBounded
<1>9. \A c \in Author : clock'[c][c] <= 2 * Cardinality(AllHeard)'
  BY <1>1, <1>3 DEF MvBounded
<1>10. QED
  BY <1>1, <1>4, <1>5, <1>6, <1>7, <1>8, <1>9 DEF MvBounded

\* So they do over a merge.
LEMMA MergeIsBounded ==
  ASSUME MvBounded, NEW a \in Author, NEW b \in Author, MergeState(a, b) PROVE MvBounded'
<1>1. PICK vals \in Joins(values[a], values[b]) : values' = [values EXCEPT ![a] = Pruned(vals)]
  BY DEF MergeState
<1>2. vals \subseteq values[a] \cup values[b] /\ Pruned(vals) \subseteq vals
  BY DEF Joins, Pruned
<1>3. IsFiniteSet(vals) /\ IsFiniteSet(Pruned(vals))
  BY <1>2, FS_Union, FS_Subset DEF MvBounded
<1>4. \A v, w \in vals : v[1] = w[1] => v = w
  <2> SUFFICES ASSUME NEW v \in vals, NEW w \in vals, v[1] = w[1] PROVE v = w
    OBVIOUS
  <2> DEFINE same == {u \in vals : u[1] = v[1]}
  <2>1. Cardinality(same) = 1
    BY <1>2 DEF Joins, TagsOf
  <2>2. IsFiniteSet(same)
    BY <1>3, FS_Subset
  <2>3. PICK x : same = {x}
    BY <2>1, <2>2, FS_Singleton
  <2>4. v \in same /\ w \in same
    OBVIOUS
  <2>5. QED
    BY <2>3, <2>4
<1>5. \A v \in vals : v \in (Author \X Nat) \X [Author -> Nat] /\ v[1] \in heard[a] \cup heard[b]
                     /\ \A c \in Author : v[2][c] <= clock[c][c]
  BY <1>2 DEF MvBounded
<1> DEFINE now == MergeClocks(clock[a], clock[b])
<1>6. now \in [Author -> Nat] /\ now[a] >= clock[a][a]
      /\ \A c \in Author : now[c] = clock[a][c] \/ now[c] = clock[b][c]
  BY DEF MergeClocks, MvBounded
<1>7. /\ clock' = [clock EXCEPT ![a] = now] /\ heard' = [heard EXCEPT ![a] = @ \cup heard[b]]
      /\ past' = past /\ byDelta' \in BOOLEAN
  BY DEF MergeState, MvBounded
<1> DEFINE kept == Pruned(vals)
<1>8. /\ values' = [values EXCEPT ![a] = kept] /\ IsFiniteSet(kept)
      /\ kept \subseteq (Author \X Nat) \X [Author -> Nat]
      /\ \A v, w \in kept : v[1] = w[1] => v = w
      /\ \A v \in kept : v[1] \in heard[a] \cup heard[b] /\ \A c \in Author : v[2][c] <= clock[c][c]
  BY <1>1, <1>2, <1>3, <1>4, <1>5
<1>9. TakesOver(a, b, kept, now, heard[b])
  <2> HIDE DEF now, kept
  <2>1. QED
    BY <1>6, <1>7, <1>8 DEF TakesOver
<1>10. QED
  BY <1>9, TakingOverIsBounded

\* And when a delta is applied, however its pruning ends.
LEMMA DeltaIsBounded ==
  ASSUME MvBounded, NEW a \in Author, NEW b \in Author, ApplyRegisterDelta(a, b) PROVE MvBounded'
<1> DEFINE tags == TagsOf(values[b]) \ TagsOf(values[a])
           new == {<<t, clock[b]>> : t \in tags}
           all == values[a] \cup new
<1>1. PICK left : values' = [values EXCEPT ![a] = left] /\ left \subseteq all
  <2>1. Pruned(all) \subseteq all /\ Dominated(all) \subseteq all
    BY DEF Pruned, Dominated
  <2> DEFINE delta == RegisterDelta(b)
             added == values[a] \cup
                        {<<t, delta.vector_clock>> : t \in delta.tags \ TagsOf(values[a])}
  <2>2. PICK left \in {Pruned(added)} \cup
                       (IF MayRaise(added) THEN {Pruned(added) \cup D : D \in SUBSET Dominated(added)} ELSE {}) :
          values' = [values EXCEPT ![a] = left]
    BY DEF ApplyRegisterDelta
  <2>3. added = all
    BY DEF RegisterDelta
  <2>4. QED
    BY <2>1, <2>2, <2>3
<1>2. IsFiniteSet(all)
  <2> DEFINE f == [v \in values[b] |-> v[1]]
             g == [t \in tags |-> <<t, clock[b]>>]
  <2>1. f \in Surjection(values[b], TagsOf(values[b]))
    BY DEF Surjection, TagsOf
  <2>2. IsFiniteSet(TagsOf(values[b]))
    BY <2>1, FS_Surjection DEF MvBounded
  <2>3. IsFiniteSet(tags)
    BY <2>2, FS_Subset
  <2>4. g \in Surjection(tags, new)
    BY DEF Surjection
  <2>5. IsFiniteSet(new)
    BY <2>3, <2>4, FS_Surjection
  <2>6. QED
    BY <2>5, FS_Union DEF MvBounded
<1>3. IsFiniteSet(left)
  BY <1>1, <1>2, FS_Subset
<1>4. \A v \in new : v[1] \in tags /\ v[2] = clock[b]
  OBVIOUS
<1>5. \A t \in tags : t \in heard[b] /\ t \in Author \X Nat
  BY DEF TagsOf, MvBounded
<1>6. new \subseteq (Author \X Nat) \X [Author -> Nat]
  BY <1>5 DEF MvBounded
<1>7. \A v, w \in left : v[1] = w[1] => v = w
  <2> SUFFICES ASSUME NEW v \in left, NEW w \in left, v[1] = w[1] PROVE v = w
    OBVIOUS
  <2>1. v \in values[a] => w \in values[a]
    BY <1>1, <1>4 DEF TagsOf
  <2>2. w \in values[a] => v \in values[a]
    BY <1>1, <1>4 DEF TagsOf
  <2>3. CASE v \in values[a]
    BY <2>1, <2>3 DEF MvBounded
  <2>4. CASE v \notin values[a]
    BY <1>1, <1>4, <2>2, <2>4
  <2>5. QED
    BY <2>3, <2>4
<1> DEFINE more == TagsOf(values[b])
<1>8. more \subseteq heard[b]
  BY DEF TagsOf, MvBounded
<1>9. \A v \in left : v[1] \in heard[a] \cup more /\ \A c \in Author : v[2][c] <= clock[c][c]
  BY <1>1, <1>4, <1>5 DEF MvBounded
<1>10. left \subseteq (Author \X Nat) \X [Author -> Nat]
  BY <1>1, <1>6 DEF MvBounded
<1>11. /\ clock' = [clock EXCEPT ![a] = clock[a]] /\ heard' = [heard EXCEPT ![a] = @ \cup more]
       /\ past' = past /\ byDelta' \in BOOLEAN
  BY DEF ApplyRegisterDelta, RegisterDelta, MvBounded
<1>12. clock[a] \in [Author -> Nat] /\ clock[a][a] >= clock[a][a]
  BY DEF MvBounded
<1>13. TakesOver(a, b, left, clock[a], more)
  <2> HIDE DEF all, new, tags, more
  <2>1. QED
    BY <1>1, <1>3, <1>7, <1>8, <1>9, <1>10, <1>11, <1>12 DEF TakesOver
<1>14. QED
  BY <1>13, TakingOverIsBounded

\* Every step keeps the invariant.
LEMMA MvStep ==
  ASSUME MvInv, [MvNext]_mvVars PROVE MvInv'
<1> USE DEF MvInv
<1>1. ASSUME NEW a \in Author, Write(a) PROVE MvInv'
  <2>1. byDelta' = byDelta
    BY <1>1 DEF Write
  <2>2. QED
    BY <1>1, <2>1, WriteIsBounded, WriteKeeps
<1>2. ASSUME NEW a \in Author, NEW b \in Author, MergeState(a, b) PROVE MvInv'
  <2>1. byDelta' = byDelta
    BY <1>2 DEF MergeState
  <2>2. QED
    BY <1>2, <2>1, MergeIsBounded, MergeKeeps
<1>3. ASSUME NEW a \in Author, NEW b \in Author, ApplyRegisterDelta(a, b) PROVE MvInv'
  <2>1. byDelta'
    BY <1>3 DEF ApplyRegisterDelta
  <2>2. QED
    BY <1>3, <2>1, DeltaIsBounded
<1>4. CASE UNCHANGED mvVars
  <2>1. MvBounded' /\ (byDelta' = byDelta)
    BY <1>4 DEF mvVars, MvBounded, AllHeard
  <2>2. PastIsHeard /\ ClocksTell /\ AllKept => PastIsHeard' /\ ClocksTell' /\ AllKept'
    BY <1>4 DEF mvVars, PastIsHeard, ClocksTell, AllKept, AllHeard
  <2>3. QED
    BY <2>1, <2>2
<1>5. QED
  BY <1>1, <1>2, <1>3, <1>4 DEF MvNext

\* For any number of replicas and writes: as long as only states are merged, in whatever
\* order and however often, every write is at each replica that has heard of it, or one
\* that follows it is.
THEOREM NoConcurrentWriteIsLost == MvSpec => []StatesKeepWrites
<1>1. MvInv => StatesKeepWrites
  BY DEF MvInv, StatesKeepWrites
<1>2. QED
  BY MvInitially, MvStep, <1>1, PTL DEF MvSpec

\* The register's state is of its type, and the clocks are bounded by the writes.
LEMMA MvTyped == MvInv => MvTypeOK
<1> SUFFICES ASSUME MvInv PROVE MvTypeOK
  OBVIOUS
<1>1. MvBounded /\ Cardinality(AllHeard) \in Nat
  BY FS_CardinalityType DEF MvInv, MvBounded
<1>2. \A a \in Author : clock[a][a] \in 0..2 * MaxWrites
  BY <1>1, MvRegAssumption DEF MvBounded
<1>3. clock \in [Author -> Clock]
  <2>1. \A a, b \in Author : clock[a][b] \in 0..2 * MaxWrites
    BY <1>1, <1>2, MvRegAssumption DEF MvBounded
  <2>2. QED
    BY <1>1, <2>1 DEF MvBounded, Clock
<1>4. ASSUME NEW a \in Author, NEW t \in heard[a] PROVE t \in Tag
  BY <1>1, <1>2, MvRegAssumption DEF MvBounded, Tag
<1>5. ASSUME NEW a \in Author, NEW v \in values[a] PROVE v \in Tag \X Clock
  <2>1. v \in (Author \X Nat) \X [Author -> Nat] /\ v[1] \in heard[a]
        /\ \A b \in Author : v[2][b] <= clock[b][b]
    BY <1>1 DEF MvBounded
  <2>2. \A b \in Author : v[2][b] \in 0..2 * MaxWrites
    BY <1>2, <2>1, MvRegAssumption
  <2>3. v[2] \in Clock
    BY <2>1, <2>2 DEF Clock
  <2>4. QED
    BY <1>4, <2>1, <2>3
<1>6. past \subseteq Tag \X Tag
  <2>1. AllHeard \subseteq Tag
    BY <1>4 DEF AllHeard
  <2>2. QED
    BY <1>1, <2>1 DEF MvBounded
<1>7. QED
  BY <1>1, <1>3, <1>4, <1>5, <1>6 DEF MvTypeOK, MvBounded

-----------------------------------------------------------------------------
(* The objects of Replicas: what they show, place by place *)

\* Every node is a place.
LEMMA Places == Node \subseteq Place /\ Mail \subseteq Place /\ \A p \in Place : p \in Node \/ p \in Mail
BY DEF Place
USE Places

\* The node an object is made at.
Origin(p) == IF p \in Node THEN p ELSE Someone

\* There is one.
LEMMA OriginIsNode ==
  Someone \in Node /\ \A p : Origin(p) \in Node /\ (p \in Node => Origin(p) = p)
BY ReplicasAssumption DEF Someone, Origin

\* What a register shows, and what one shows that was never written.
Of(r) == [ts |-> r.ts, value |-> r.value]
Blank == [ts |-> 0, value |-> None]

\* What a map shows under a key.
Spot(m, k) == IF k \in DOMAIN m.data THEN Of(m.data[k]) ELSE Blank

\* Tables by keys, registers that were written, maps, and a register with a map.
Tables(S) == UNION {[D -> S] : D \in SUBSET Key}
WrittenReg == {r \in LwwRegType : r.ts > 0}
MapType == {m \in [node : Node, data : Tables(WrittenReg), dirty : SUBSET Key] :
              m.dirty \subseteq DOMAIN m.data}
RoverType == [status : LwwRegType, tasks : MapType]

\* A place goes from g to h by a write of time t, or shows the later of two others.
RegMoves(g, h, t) == h = g \/ (h.ts = t /\ t > g.ts)
RegJoins(g, a, b) == g.ts >= a.ts /\ g.ts >= b.ts /\ (g = a \/ g = b)

\* A write to a register,
LEMMA RegisterMoves ==
  ASSUME NEW r \in LwwRegType, NEW v \in Content, NEW t \in Nat \ {0}, t # r.ts
  PROVE  /\ SetReg(r, v, t) \in WrittenReg
         /\ RegMoves(Of(r), Of(SetReg(r, v, t)), t)
<1>1. CASE Accepts(r, t)
  <2>1. /\ SetReg(r, v, t) \in LwwRegType
        /\ SetReg(r, v, t).ts = t /\ SetReg(r, v, t).value = v
    BY <1>1 DEF SetReg, LwwRegType
  <2>2. t > r.ts
    BY <1>1 DEF Accepts, Later
  <2>3. QED
    BY <2>1, <2>2 DEF RegMoves, Of, WrittenReg
<1>2. CASE ~ Accepts(r, t)
  <2>1. SetReg(r, v, t) = r
    BY <1>2 DEF SetReg
  <2>2. r.ts > t /\ r.ts \in Nat
    BY <1>2 DEF Accepts, Later, LwwRegType
  <2>3. QED
    BY <2>1, <2>2 DEF RegMoves, WrittenReg
<1>3. QED
  BY <1>1, <1>2

\* ... a merge of two,
LEMMA RegisterJoins ==
  ASSUME NEW a \in LwwRegType, NEW b \in LwwRegType
  PROVE  /\ MergeReg(a, b) \in LwwRegType
         /\ RegJoins(Of(MergeReg(a, b)), Of(a), Of(b))
<1> DEFINE m == MergeReg(a, b)
<1>1. CASE Later(b.ts, b.node_id, a.ts, a.node_id)
  <2>1. m \in LwwRegType /\ m.ts = b.ts /\ m.value = b.value
    BY <1>1 DEF MergeReg, LwwRegType, Content
  <2>2. b.ts >= a.ts /\ a.ts \in Nat /\ b.ts \in Nat
    BY <1>1 DEF Later, LwwRegType
  <2>3. QED
    BY <2>1, <2>2 DEF RegJoins, Of
<1>2. CASE ~ Later(b.ts, b.node_id, a.ts, a.node_id)
  <2>1. m \in LwwRegType /\ m.ts = a.ts /\ m.value = a.value
    BY <1>2 DEF MergeReg, LwwRegType, Content
  <2>2. a.ts >= b.ts /\ a.ts \in Nat /\ b.ts \in Nat
    BY <1>2 DEF Later, LwwRegType
  <2>3. QED
    BY <2>1, <2>2 DEF RegJoins, Of
<1>3. QED
  BY <1>1, <1>2

\* ... one that is new, and one whose delta is reset.
LEMMA RegisterShows ==
  /\ \A n \in Node : NewReg(n, None) \in LwwRegType /\ Of(NewReg(n, None)) = Blank
  /\ \A r \in LwwRegType : ResetRegDelta(r) \in LwwRegType /\ Of(ResetRegDelta(r)) = Of(r)
BY DEF NewReg, LwwRegType, Content, Of, Blank, ResetRegDelta

\* What a table is.
LEMMA TableForm ==
  ASSUME NEW S, NEW f
  PROVE  f \in Tables(S) <=> DOMAIN f \subseteq Key /\ f \in [DOMAIN f -> S]
<1>1. ASSUME f \in Tables(S) PROVE DOMAIN f \subseteq Key /\ f \in [DOMAIN f -> S]
  <2>1. PICK D \in SUBSET Key : f \in [D -> S]
    BY <1>1 DEF Tables
  <2>2. QED
    BY <2>1
<1>2. ASSUME DOMAIN f \subseteq Key, f \in [DOMAIN f -> S] PROVE f \in Tables(S)
  BY <1>2 DEF Tables
<1>3. QED
  BY <1>1, <1>2

\* What a map is, and what it shows.
LEMMA MapForm ==
  /\ \A m \in MapType :
       /\ m.node \in Node /\ m.data \in [DOMAIN m.data -> WrittenReg]
       /\ DOMAIN m.data \subseteq Key /\ m.dirty \subseteq DOMAIN m.data
  /\ \A n \in Node, D \in SUBSET Key, E \in SUBSET Key : \A f \in [D -> WrittenReg] :
       E \subseteq D => [node |-> n, data |-> f, dirty |-> E] \in MapType
  /\ \A m \in MapType, k \in Key :
       /\ Spot(m, k) \in [ts : Nat, value : Content]
       /\ k \in DOMAIN m.data <=> Spot(m, k).ts # 0
       /\ k \in DOMAIN m.data => m.data[k].value = Spot(m, k).value
       /\ Spot(m, k).ts = 0 => Spot(m, k) = Blank
<1>1. ASSUME NEW m \in MapType
      PROVE  /\ m.node \in Node /\ m.data \in [DOMAIN m.data -> WrittenReg]
             /\ DOMAIN m.data \subseteq Key /\ m.dirty \subseteq DOMAIN m.data
  <2>1. m.node \in Node /\ m.data \in Tables(WrittenReg) /\ m.dirty \subseteq DOMAIN m.data
    BY DEF MapType
  <2>2. QED
    BY <2>1, TableForm
<1>2. ASSUME NEW n \in Node, NEW D \in SUBSET Key, NEW E \in SUBSET Key,
             NEW f \in [D -> WrittenReg], E \subseteq D
      PROVE  [node |-> n, data |-> f, dirty |-> E] \in MapType
  <2>1. f \in Tables(WrittenReg) /\ DOMAIN f = D
    BY DEF Tables
  <2>2. QED
    BY <1>2, <2>1 DEF MapType
<1>3. ASSUME NEW m \in MapType, NEW k \in Key
      PROVE  /\ Spot(m, k) \in [ts : Nat, value : Content]
             /\ k \in DOMAIN m.data <=> Spot(m, k).ts # 0
             /\ k \in DOMAIN m.data => m.data[k].value = Spot(m, k).value
             /\ Spot(m, k).ts = 0 => Spot(m, k) = Blank
  <2>1. CASE k \in DOMAIN m.data
    <3>1. m.data[k] \in LwwRegType /\ m.data[k].ts > 0
      BY <1>1, <2>1 DEF WrittenReg
    <3>2. /\ m.data[k].ts \in Nat /\ m.data[k].value \in Content
      BY <3>1 DEF LwwRegType
    <3>3. Spot(m, k) = [ts |-> m.data[k].ts, value |-> m.data[k].value]
      BY <2>1 DEF Spot, Of
    <3>4. QED
      BY <2>1, <3>1, <3>2, <3>3
  <2>2. CASE k \notin DOMAIN m.data
    BY <2>2 DEF Spot, Blank, Content
  <2>3. QED
    BY <2>1, <2>2
<1>4. QED
  BY <1>1, <1>2, <1>3

\* A write under a key, without what it does to the keys that wait to be sent,
LEMMA TableMoves ==
  ASSUME NEW m \in MapType, NEW t \in Nat \ {0}, \A j \in Key : Spot(m, j).ts # t,
         NEW D \in SUBSET Key, NEW vals \in [D -> Content],
         NEW z \in MapType, DOMAIN z.data = DOMAIN m.data \cup D,
         \A j \in D : z.data[j] = SetReg(RegisterAt(m, j), vals[j], t),
         \A j \in DOMAIN m.data \ D : z.data[j] = m.data[j]
  PROVE  \A j \in Key : RegMoves(Spot(m, j), Spot(z, j), t)
<1> SUFFICES ASSUME NEW j \in Key PROVE RegMoves(Spot(m, j), Spot(z, j), t)
  OBVIOUS
<1>1. /\ m.node \in Node
      /\ j \in DOMAIN m.data => m.data[j] \in LwwRegType
  BY MapForm DEF WrittenReg
<1>2. CASE j \in D
  <2>1. RegisterAt(m, j) \in LwwRegType /\ Of(RegisterAt(m, j)) = Spot(m, j)
    BY <1>1, RegisterShows DEF RegisterAt, Spot
  <2>2. RegisterAt(m, j).ts = Spot(m, j).ts
    BY <2>1 DEF Of
  <2>3. vals[j] \in Content
    BY <1>2
  <2>4. RegMoves(Spot(m, j), Of(z.data[j]), t)
    BY <1>2, <2>1, <2>2, <2>3, RegisterMoves
  <2>5. QED
    BY <1>2, <2>4 DEF Spot
<1>3. CASE j \notin D
  BY <1>3 DEF Spot, RegMoves
<1>4. QED
  BY <1>2, <1>3

\* ... what is written there is a table again.
LEMMA TableStays ==
  ASSUME NEW m \in MapType, NEW t \in Nat \ {0}, \A j \in Key : Spot(m, j).ts # t,
         NEW j \in Key, NEW v \in Content
  PROVE  SetReg(RegisterAt(m, j), v, t) \in WrittenReg
<1>1. /\ m.node \in Node
      /\ j \in DOMAIN m.data => m.data[j] \in LwwRegType
  BY MapForm DEF WrittenReg
<1>2. RegisterAt(m, j) \in LwwRegType /\ Of(RegisterAt(m, j)) = Spot(m, j)
  BY <1>1, RegisterShows DEF RegisterAt, Spot
<1>3. RegisterAt(m, j).ts = Spot(m, j).ts
  BY <1>2 DEF Of
<1>4. QED
  BY <1>2, <1>3, RegisterMoves

\* So a map moves by set() and delete(),
LEMMA MapMoves ==
  ASSUME NEW m \in MapType, NEW t \in Nat \ {0}, \A j \in Key : Spot(m, j).ts # t,
         NEW k \in Key, NEW v \in Content
  PROVE  /\ SetKey(m, k, v, t) \in MapType
         /\ \A j \in Key : RegMoves(Spot(m, j), Spot(SetKey(m, k, v, t), j), t)
<1> DEFINE w == SetReg(RegisterAt(m, k), v, t)
           f == Put(m.data, k, w)
           z == SetKey(m, k, v, t)
           vals == [j \in {k} |-> v]
<1>1. /\ m.node \in Node /\ m.data \in [DOMAIN m.data -> WrittenReg]
      /\ DOMAIN m.data \subseteq Key /\ m.dirty \subseteq DOMAIN m.data
  BY MapForm
<1>2. w \in WrittenReg
  BY TableStays
<1>3. /\ f \in [DOMAIN m.data \cup {k} -> WrittenReg]
      /\ f[k] = w /\ \A j \in DOMAIN m.data \ {k} : f[j] = m.data[j]
  <2> HIDE DEF w
  <2>1. QED
    BY <1>1, <1>2 DEF Put
<1>4. z = [node |-> m.node, data |-> f, dirty |-> m.dirty \cup {k}]
  <2>1. m = [node |-> m.node, data |-> m.data, dirty |-> m.dirty]
    BY DEF MapType
  <2> DEFINE y == [node |-> m.node, data |-> m.data, dirty |-> m.dirty]
  <2>2. z = [m EXCEPT !.data = f, !.dirty = m.dirty \cup {k}]
    BY DEF SetKey
  <2> HIDE DEF f
  <2>3. z = [[m EXCEPT !.data = f] EXCEPT !.dirty = m.dirty \cup {k}]
    BY <2>2
  <2>4. [y EXCEPT !.data = f] = [node |-> m.node, data |-> f, dirty |-> m.dirty]
    OBVIOUS
  <2> DEFINE x == [node |-> m.node, data |-> f, dirty |-> m.dirty]
  <2>5. \A e : [x EXCEPT !.dirty = e] = [node |-> m.node, data |-> f, dirty |-> e]
    OBVIOUS
  <2>6. [m EXCEPT !.data = f] = x
    BY <2>1, <2>4
  <2> HIDE DEF x, y
  <2>7. QED
    BY <2>3, <2>5, <2>6
<1> HIDE DEF f, w
<1>5. z \in MapType /\ z.data = f
  <2>1. /\ DOMAIN m.data \cup {k} \in SUBSET Key /\ m.dirty \cup {k} \in SUBSET Key
        /\ m.dirty \cup {k} \subseteq DOMAIN m.data \cup {k}
    BY <1>1
  <2>2. [node |-> m.node, data |-> f, dirty |-> m.dirty \cup {k}] \in MapType
    BY <1>1, <1>3, <2>1, MapForm
  <2>3. QED
    BY <1>4, <2>2
<1> HIDE DEF z
<1>6. \A j \in Key : RegMoves(Spot(m, j), Spot(z, j), t)
  <2>1. /\ {k} \in SUBSET Key /\ vals \in [{k} -> Content] /\ vals[k] = v
        /\ DOMAIN z.data = DOMAIN m.data \cup {k}
    BY <1>3, <1>5
  <2>2. /\ \A j \in {k} : z.data[j] = SetReg(RegisterAt(m, j), vals[j], t)
        /\ \A j \in DOMAIN m.data \ {k} : z.data[j] = m.data[j]
    BY <1>3, <1>5, <2>1 DEF w
  <2> HIDE DEF vals
  <2>3. QED
    BY <1>5, <2>1, <2>2, TableMoves
<1>7. QED
  BY <1>5, <1>6 DEF z

\* ... and by apply_delta().
LEMMA MapMovesByDelta ==
  ASSUME NEW m \in MapType, NEW t \in Nat \ {0}, \A j \in Key : Spot(m, j).ts # t,
         NEW D \in SUBSET Key, NEW vals \in [D -> Content]
  PROVE  /\ ApplyMapDelta(m, vals, t) \in MapType
         /\ \A j \in Key : RegMoves(Spot(m, j), Spot(ApplyMapDelta(m, vals, t), j), t)
<1> DEFINE f == [k \in DOMAIN m.data \cup DOMAIN vals |->
                   IF k \in DOMAIN vals THEN SetReg(RegisterAt(m, k), vals[k], t) ELSE m.data[k]]
           z == ApplyMapDelta(m, vals, t)
<1>1. /\ m.node \in Node /\ m.data \in [DOMAIN m.data -> WrittenReg]
      /\ DOMAIN m.data \subseteq Key /\ m.dirty \subseteq DOMAIN m.data /\ DOMAIN vals = D
  BY MapForm
<1>2. \A j \in D : SetReg(RegisterAt(m, j), vals[j], t) \in WrittenReg
  <2>1. \A j \in D : j \in Key /\ vals[j] \in Content
    OBVIOUS
  <2>2. QED
    BY <2>1, TableStays
<1>3. /\ f \in [DOMAIN m.data \cup D -> WrittenReg]
      /\ \A j \in D : f[j] = SetReg(RegisterAt(m, j), vals[j], t)
      /\ \A j \in DOMAIN m.data \ D : f[j] = m.data[j]
  BY <1>1, <1>2
<1>4. z = [node |-> m.node, data |-> f, dirty |-> m.dirty]
  <2>1. m = [node |-> m.node, data |-> m.data, dirty |-> m.dirty]
    BY DEF MapType
  <2>2. z = [m EXCEPT !.data = f]
    BY DEF ApplyMapDelta
  <2> DEFINE y == [node |-> m.node, data |-> m.data, dirty |-> m.dirty]
  <2> HIDE DEF f
  <2>3. [y EXCEPT !.data = f] = [node |-> m.node, data |-> f, dirty |-> m.dirty]
    OBVIOUS
  <2>4. QED
    BY <2>1, <2>2, <2>3
<1> HIDE DEF f
<1>5. z \in MapType /\ z.data = f
  <2>1. /\ DOMAIN m.data \cup D \in SUBSET Key /\ m.dirty \in SUBSET Key
        /\ m.dirty \subseteq DOMAIN m.data \cup D
    BY <1>1
  <2>2. [node |-> m.node, data |-> f, dirty |-> m.dirty] \in MapType
    BY <1>1, <1>3, <2>1, MapForm
  <2>3. QED
    BY <1>4, <2>2
<1> HIDE DEF z
<1>6. \A j \in Key : RegMoves(Spot(m, j), Spot(z, j), t)
  BY <1>3, <1>5, TableMoves
<1>7. QED
  BY <1>5, <1>6 DEF z

\* The merge of two maps shows the later under each key.
LEMMA MapJoins ==
  ASSUME NEW m \in MapType, NEW o \in MapType
  PROVE  /\ MergeMap(m, o) \in MapType
         /\ \A j \in Key : RegJoins(Spot(MergeMap(m, o), j), Spot(m, j), Spot(o, j))
<1> DEFINE f == [k \in DOMAIN m.data \cup DOMAIN o.data |->
                   IF k \notin DOMAIN m.data THEN o.data[k]
                   ELSE IF k \notin DOMAIN o.data THEN m.data[k] ELSE MergeReg(m.data[k], o.data[k])]
           z == MergeMap(m, o)
<1>1. /\ m.node \in Node /\ m.data \in [DOMAIN m.data -> WrittenReg] /\ DOMAIN m.data \subseteq Key
      /\ o.data \in [DOMAIN o.data -> WrittenReg] /\ DOMAIN o.data \subseteq Key
  BY MapForm
<1>2. ASSUME NEW a \in WrittenReg, NEW b \in WrittenReg
      PROVE  MergeReg(a, b) \in WrittenReg /\ RegJoins(Of(MergeReg(a, b)), Of(a), Of(b))
  <2>1. a \in LwwRegType /\ b \in LwwRegType /\ a.ts > 0 /\ a.ts \in Nat /\ b.ts \in Nat
    BY DEF WrittenReg, LwwRegType
  <2>2. MergeReg(a, b) \in LwwRegType /\ RegJoins(Of(MergeReg(a, b)), Of(a), Of(b))
    BY <2>1, RegisterJoins
  <2>3. MergeReg(a, b).ts > 0
    <3>1. MergeReg(a, b).ts \in Nat
      BY <2>2 DEF LwwRegType
    <3>2. MergeReg(a, b).ts >= a.ts
      BY <2>2 DEF RegJoins, Of
    <3>3. QED
      BY <2>1, <3>1, <3>2
  <2>4. QED
    BY <2>2, <2>3 DEF WrittenReg
<1>3. f \in [DOMAIN m.data \cup DOMAIN o.data -> WrittenReg]
  BY <1>1, <1>2
<1>4. z = [node |-> m.node, data |-> f, dirty |-> {}]
  BY DEF MergeMap, Union
<1>5. ASSUME NEW j \in Key PROVE RegJoins(Spot(z, j), Spot(m, j), Spot(o, j))
  <2>1. z.data = f
    BY <1>4
  <2>2. /\ Spot(m, j) \in [ts : Nat, value : Content] /\ Spot(o, j) \in [ts : Nat, value : Content]
    BY MapForm
  <2>3. CASE j \in DOMAIN m.data /\ j \in DOMAIN o.data
    <3>1. f[j] = MergeReg(m.data[j], o.data[j]) /\ j \in DOMAIN f
      BY <2>3
    <3>2. m.data[j] \in WrittenReg /\ o.data[j] \in WrittenReg
      BY <1>1, <2>3
    <3> HIDE DEF f, z
    <3>3. QED
      BY <1>2, <2>1, <2>3, <3>1, <3>2 DEF Spot
  <2>4. CASE j \notin DOMAIN m.data
    <3>1. j \in DOMAIN o.data => f[j] = o.data[j] /\ j \in DOMAIN f
      BY <2>4
    <3>2. j \notin DOMAIN o.data => j \notin DOMAIN f
      BY <2>4
    <3> HIDE DEF f, z
    <3>3. Spot(z, j) = Spot(o, j) /\ Spot(m, j) = Blank
      BY <2>1, <2>4, <3>1, <3>2 DEF Spot
    <3>4. QED
      BY <2>2, <3>3 DEF RegJoins, Blank
  <2>5. CASE j \in DOMAIN m.data /\ j \notin DOMAIN o.data
    <3>1. f[j] = m.data[j] /\ j \in DOMAIN f
      BY <2>5
    <3> HIDE DEF f, z
    <3>2. Spot(z, j) = Spot(m, j) /\ Spot(o, j) = Blank
      BY <2>1, <2>5, <3>1 DEF Spot
    <3>3. QED
      BY <2>2, <3>2 DEF RegJoins, Blank
  <2>6. QED
    BY <2>3, <2>4, <2>5
<1>6. z \in MapType
  <2> HIDE DEF f
  <2>1. f \in Tables(WrittenReg)
    BY <1>1, <1>3, TableForm
  <2>2. QED
    BY <1>1, <1>4, <2>1 DEF MapType
<1>7. QED
  BY <1>5, <1>6

\* A new map is empty, and what comes over the wire shows what was sent.
LEMMA MapShows ==
  /\ \A n \in Node : NewMap(n) \in MapType /\ \A j \in Key : Spot(NewMap(n), j) = Blank
  /\ \A m \in MapType : WireMap(m) \in MapType /\ \A j \in Key : Spot(WireMap(m), j) = Spot(m, j)
<1>1. ASSUME NEW n \in Node PROVE NewMap(n) \in MapType /\ \A j \in Key : Spot(NewMap(n), j) = Blank
  <2>1. NoKeys \in [{} -> WrittenReg] /\ DOMAIN NoKeys = {}
    BY DEF NoKeys
  <2>2. NewMap(n) = [node |-> n, data |-> NoKeys, dirty |-> {}]
    BY DEF NewMap
  <2>3. [node |-> n, data |-> NoKeys, dirty |-> {}] \in MapType
    BY <2>1, MapForm
  <2>4. \A j \in Key : Spot(NewMap(n), j) = Blank
    BY <2>1, <2>2 DEF Spot
  <2>5. QED
    BY <2>2, <2>3, <2>4
<1>2. ASSUME NEW m \in MapType
      PROVE  WireMap(m) \in MapType /\ \A j \in Key : Spot(WireMap(m), j) = Spot(m, j)
  <2>1. /\ m.node \in Node /\ m.data \in [DOMAIN m.data -> WrittenReg]
        /\ DOMAIN m.data \subseteq Key /\ m.data \in Tables(WrittenReg)
    BY MapForm DEF MapType
  <2>2. WireMap(m) = [node |-> m.node, data |-> m.data, dirty |-> {}]
    BY DEF WireMap, MapType
  <2>3. WireMap(m) \in MapType
    BY <2>1, <2>2 DEF MapType
  <2>4. WireMap(m).data = m.data
    BY <2>2
  <2>5. QED
    BY <2>3, <2>4 DEF Spot
<1>3. QED
  BY <1>1, <1>2
-----------------------------------------------------------------------------
(* Places and the times their replicas have heard of *)

\* h is what a place shows at each node, T the times each node has heard of there: a
\* node shows nothing or something it heard of, nothing later than it is anywhere that
\* it heard of too, and what is of one time is the same everywhere.
InOrder(h, T) ==
  \A x \in Place :
    /\ h[x] \in [ts : Nat, value : Content] /\ T[x] \subseteq Nat \ {0}
    /\ h[x].ts \in T[x] \cup {0} /\ (h[x].ts = 0 => h[x] = Blank)
    /\ \A y \in Place : /\ h[y].ts \in T[x] => h[x].ts >= h[y].ts
                        /\ h[x].ts = h[y].ts => h[x] = h[y]

\* Who heard of the same shows the same.
LEMMA OrderAgrees ==
  ASSUME NEW h, NEW T, InOrder(h, T), NEW x \in Place, NEW y \in Place, T[x] = T[y]
  PROVE  h[x] = h[y]
<1>1. /\ h[x].ts \in Nat /\ h[y].ts \in Nat
      /\ h[x].ts \in T[x] \cup {0} /\ h[y].ts \in T[y] \cup {0}
  BY DEF InOrder
<1>2. /\ h[y].ts \in T[x] => h[x].ts >= h[y].ts
      /\ h[x].ts \in T[y] => h[y].ts >= h[x].ts
  BY DEF InOrder
<1>3. h[x].ts = h[y].ts
  BY <1>1, <1>2
<1>4. QED
  BY <1>3 DEF InOrder

\* A place stays in order when a node hears of a new time, and shows it or not,
LEMMA OrderMoves ==
  ASSUME NEW h, NEW T, InOrder(h, T), NEW n \in Place,
         NEW t \in Nat \ {0}, \A x \in Place : t \notin T[x],
         NEW i, NEW S, \A x \in Place \ {n} : i[x] = h[x] /\ S[x] = T[x],
         i[n] \in [ts : Nat, value : Content], RegMoves(h[n], i[n], t), S[n] = T[n] \cup {t}
  PROVE  InOrder(i, S)
<1>1. \A x \in Place : h[x].ts # t
  BY DEF InOrder
<1>2. i[n] = h[n] \/ (i[n].ts = t /\ t > h[n].ts)
  BY DEF RegMoves
<1>3. ASSUME NEW x \in Place
      PROVE  /\ i[x] \in [ts : Nat, value : Content] /\ S[x] \subseteq Nat \ {0}
             /\ i[x].ts \in S[x] \cup {0} /\ (i[x].ts = 0 => i[x] = Blank)
  <2>1. CASE x = n
    BY <1>2, <2>1 DEF InOrder
  <2>2. CASE x # n
    BY <2>2 DEF InOrder
  <2>3. QED
    BY <2>1, <2>2
<1>4. ASSUME NEW x \in Place, NEW y \in Place
      PROVE  /\ i[y].ts \in S[x] => i[x].ts >= i[y].ts
             /\ i[x].ts = i[y].ts => i[x] = i[y]
  <2>1. /\ h[x].ts \in Nat /\ h[y].ts \in Nat
        /\ h[y].ts \in T[x] => h[x].ts >= h[y].ts
        /\ h[x].ts = h[y].ts => h[x] = h[y]
        /\ h[x].ts # t /\ h[y].ts # t /\ t \notin T[x]
    BY <1>1 DEF InOrder
  <2>2. CASE x = n /\ y = n
    BY <1>3, <2>2
  <2>3. CASE x = n /\ y # n
    BY <1>2, <2>1, <2>3
  <2>4. CASE x # n /\ y = n
    BY <1>2, <2>1, <2>4
  <2>5. CASE x # n /\ y # n
    BY <2>1, <2>5
  <2>6. QED
    BY <2>2, <2>3, <2>4, <2>5
<1>5. QED
  BY <1>3, <1>4 DEF InOrder

\* ... when it starts again with nothing, having heard of a new time at most,
LEMMA OrderStarts ==
  ASSUME NEW h, NEW T, InOrder(h, T), NEW n \in Place,
         NEW N \in SUBSET (Nat \ {0}), \A x \in Place : T[x] \cap N = {},
         NEW i, NEW S, \A x \in Place \ {n} : i[x] = h[x] /\ S[x] = T[x],
         i[n] = Blank, S[n] = N
  PROVE  InOrder(i, S)
<1>1. \A x \in Place : h[x].ts \notin N
  BY DEF InOrder
<1>2. Blank \in [ts : Nat, value : Content] /\ Blank.ts = 0
  BY DEF Blank, Content
<1>3. ASSUME NEW x \in Place
      PROVE  /\ i[x] \in [ts : Nat, value : Content] /\ S[x] \subseteq Nat \ {0}
             /\ i[x].ts \in S[x] \cup {0} /\ (i[x].ts = 0 => i[x] = Blank)
  <2>1. CASE x = n
    BY <1>2, <2>1
  <2>2. CASE x # n
    BY <2>2 DEF InOrder
  <2>3. QED
    BY <2>1, <2>2
<1>4. ASSUME NEW x \in Place, NEW y \in Place
      PROVE  /\ i[y].ts \in S[x] => i[x].ts >= i[y].ts
             /\ i[x].ts = i[y].ts => i[x] = i[y]
  <2>1. /\ h[x].ts \in Nat /\ h[y].ts \in Nat
        /\ h[y].ts \in T[x] => h[x].ts >= h[y].ts
        /\ h[x].ts = h[y].ts => h[x] = h[y]
        /\ (h[x].ts = 0 => h[x] = Blank) /\ (h[y].ts = 0 => h[y] = Blank)
    BY DEF InOrder
  <2>2. CASE x = n /\ y = n
    BY <1>2, <2>2
  <2>3. CASE x = n /\ y # n
    <3>1. i[x] = Blank /\ i[y] = h[y] /\ S[x] = N
      BY <2>3
    <3>2. h[y].ts = 0 => h[y] = Blank
      BY DEF InOrder
    <3>3. QED
      BY <1>1, <1>2, <3>1, <3>2
  <2>4. CASE x # n /\ y = n
    <3>1. i[x] = h[x] /\ i[y] = Blank /\ S[x] = T[x]
      BY <2>4
    <3>2. h[x].ts = 0 => h[x] = Blank
      BY DEF InOrder
    <3>3. T[x] \subseteq Nat \ {0}
      BY DEF InOrder
    <3>4. QED
      BY <1>2, <3>1, <3>2, <3>3
  <2>5. CASE x # n /\ y # n
    BY <2>1, <2>5
  <2>6. QED
    BY <2>2, <2>3, <2>4, <2>5
<1>5. QED
  BY <1>3, <1>4 DEF InOrder

\* ... and when it takes over what another shows and heard of.
LEMMA OrderJoins ==
  ASSUME NEW h, NEW T, InOrder(h, T), NEW n \in Place, NEW m \in Place,
         NEW i, NEW S, \A x \in Place \ {n} : i[x] = h[x] /\ S[x] = T[x],
         RegJoins(i[n], h[n], h[m]), S[n] = T[n] \cup T[m]
  PROVE  InOrder(i, S)
<1>1. /\ i[n].ts >= h[n].ts /\ i[n].ts >= h[m].ts /\ (i[n] = h[n] \/ i[n] = h[m])
  BY DEF RegJoins
<1>2. ASSUME NEW x \in Place
      PROVE  /\ i[x] \in [ts : Nat, value : Content] /\ S[x] \subseteq Nat \ {0}
             /\ i[x].ts \in S[x] \cup {0} /\ (i[x].ts = 0 => i[x] = Blank)
  <2>1. CASE x = n
    BY <1>1, <2>1 DEF InOrder
  <2>2. CASE x # n
    BY <2>2 DEF InOrder
  <2>3. QED
    BY <2>1, <2>2
<1>3. \A x \in Place : \E y \in Place : i[x] = h[y] /\ (x # n => y = x)
  BY <1>1
<1>4. ASSUME NEW x \in Place, NEW y \in Place
      PROVE  /\ i[y].ts \in S[x] => i[x].ts >= i[y].ts
             /\ i[x].ts = i[y].ts => i[x] = i[y]
  <2>1. PICK u \in Place : i[x] = h[u]
    BY <1>3
  <2>2. PICK v \in Place : i[y] = h[v]
    BY <1>3
  <2>3. i[x].ts = i[y].ts => i[x] = i[y]
    BY <2>1, <2>2 DEF InOrder
  <2>4. ASSUME i[y].ts \in S[x] PROVE i[x].ts >= i[y].ts
    <3>1. h[x].ts \in Nat /\ h[n].ts \in Nat /\ h[m].ts \in Nat /\ h[v].ts \in Nat /\ i[n].ts \in Nat
      BY <1>2 DEF InOrder
    <3>2. CASE x # n
      BY <2>2, <2>4, <3>2 DEF InOrder
    <3>3. CASE x = n
      <4>1. h[v].ts \in T[n] \/ h[v].ts \in T[m]
        BY <2>2, <2>4, <3>3
      <4>2. h[n].ts >= h[v].ts \/ h[m].ts >= h[v].ts
        BY <4>1 DEF InOrder
      <4>3. QED
        BY <1>1, <2>2, <3>1, <3>3, <4>2
    <3>4. QED
      BY <3>2, <3>3
  <2>5. QED
    BY <2>3, <2>4
<1>5. QED
  BY <1>2, <1>4 DEF InOrder

\* ... when what a node shows is told elsewhere,
LEMMA OrderCopies ==
  ASSUME NEW h, NEW T, InOrder(h, T), NEW n \in Place, NEW p \in Place,
         NEW i, NEW S, \A x \in Place \ {p} : i[x] = h[x] /\ S[x] = T[x],
         i[p] = h[n], S[p] = T[n]
  PROVE  InOrder(i, S)
<1> DEFINE at(x) == IF x = p THEN n ELSE x
<1>1. \A x \in Place : at(x) \in Place /\ i[x] = h[at(x)] /\ S[x] = T[at(x)]
  OBVIOUS
<1> HIDE DEF at
<1>2. QED
  BY <1>1 DEF InOrder

\* What the places show decides.
LEMMA OrderSame ==
  ASSUME NEW h, NEW T, InOrder(h, T), NEW i, NEW S, \A x \in Place : i[x] = h[x] /\ S[x] = T[x]
  PROVE  InOrder(i, S)
BY DEF InOrder

\* At first there is nothing.
LEMMA OrderInitially ==
  ASSUME NEW h, NEW T, \A x \in Place : h[x] = Blank /\ T[x] = {}
  PROVE  InOrder(h, T)
<1>1. Blank \in [ts : Nat, value : Content] /\ Blank.ts = 0
  BY DEF Blank, Content
<1>2. \A x \in Place : h[x].ts \notin {}
  OBVIOUS
<1> SUFFICES ASSUME NEW x \in Place
    PROVE  /\ h[x] \in [ts : Nat, value : Content] /\ T[x] \subseteq Nat \ {0}
           /\ h[x].ts \in T[x] \cup {0} /\ (h[x].ts = 0 => h[x] = Blank)
           /\ \A y \in Place : /\ h[y].ts \in T[x] => h[x].ts >= h[y].ts
                               /\ h[x].ts = h[y].ts => h[x] = h[y]
  BY DEF InOrder
<1>3. /\ h[x] \in [ts : Nat, value : Content] /\ T[x] \subseteq Nat \ {0}
      /\ h[x].ts \in T[x] \cup {0} /\ (h[x].ts = 0 => h[x] = Blank)
  BY <1>1
<1>4. \A y \in Place : /\ h[y].ts \in T[x] => h[x].ts >= h[y].ts
                       /\ h[x].ts = h[y].ts => h[x] = h[y]
  OBVIOUS
<1>5. QED
  BY <1>3, <1>4
-----------------------------------------------------------------------------
(* A register with a map: a rover, and by it a mission, a map, a leader *)

\* One moves by a write, shows the later of two, or the same as another.
SheetMoves(s, z, t) ==
  /\ z \in RoverType /\ RegMoves(Of(s.status), Of(z.status), t)
  /\ \A k \in Key : RegMoves(Spot(s.tasks, k), Spot(z.tasks, k), t)
SheetJoins(z, a, b) ==
  /\ z \in RoverType /\ RegJoins(Of(z.status), Of(a.status), Of(b.status))
  /\ \A k \in Key : RegJoins(Spot(z.tasks, k), Spot(a.tasks, k), Spot(b.tasks, k))
SheetShows(z, s) ==
  /\ z \in RoverType /\ Of(z.status) = Of(s.status)
  /\ \A k \in Key : Spot(z.tasks, k) = Spot(s.tasks, k)

\* All its places are in order.
SheetsHold(S, T) ==
  /\ \A x \in Place : S[x] \in RoverType
  /\ InOrder([x \in Place |-> Of(S[x].status)], T)
  /\ \A k \in Key : InOrder([x \in Place |-> Spot(S[x].tasks, k)], T)

\* What a place of a sheet is.
LEMMA SheetForm ==
  ASSUME NEW s \in RoverType
  PROVE  /\ s.status \in LwwRegType /\ s.tasks \in MapType
         /\ Of(s.status) \in [ts : Nat, value : Content]
         /\ \A k \in Key : Spot(s.tasks, k) \in [ts : Nat, value : Content]
<1>1. s.status \in LwwRegType /\ s.tasks \in MapType
  BY DEF RoverType
<1>2. Of(s.status) \in [ts : Nat, value : Content]
  BY <1>1 DEF Of, LwwRegType
<1>3. QED
  BY <1>1, <1>2, MapForm

\* Sheets stay in order: by a write,
LEMMA SheetsMove ==
  ASSUME NEW S, NEW T, SheetsHold(S, T), NEW n \in Place,
         NEW t \in Nat \ {0}, \A x \in Place : t \notin T[x],
         NEW Z, NEW U, \A x \in Place \ {n} : Z[x] = S[x] /\ U[x] = T[x],
         SheetMoves(S[n], Z[n], t), U[n] = T[n] \cup {t}
  PROVE  SheetsHold(Z, U)
<1>1. \A x \in Place : Z[x] \in RoverType
  BY DEF SheetsHold, SheetMoves
<1>2. InOrder([x \in Place |-> Of(Z[x].status)], U)
  <2> DEFINE h == [x \in Place |-> Of(S[x].status)]
             i == [x \in Place |-> Of(Z[x].status)]
  <2>1. InOrder(h, T)
    BY DEF SheetsHold
  <2>2. i[n] \in [ts : Nat, value : Content]
    BY <1>1, SheetForm
  <2>3. /\ \A x \in Place \ {n} : i[x] = h[x] /\ U[x] = T[x]
        /\ RegMoves(h[n], i[n], t)
    BY DEF SheetMoves
  <2> HIDE DEF h, i
  <2>4. InOrder(i, U)
    BY <2>1, <2>2, <2>3, OrderMoves
  <2>5. QED
    BY <2>4 DEF i
<1>3. ASSUME NEW k \in Key PROVE InOrder([x \in Place |-> Spot(Z[x].tasks, k)], U)
  <2> DEFINE h == [x \in Place |-> Spot(S[x].tasks, k)]
             i == [x \in Place |-> Spot(Z[x].tasks, k)]
  <2>1. InOrder(h, T)
    BY DEF SheetsHold
  <2>2. i[n] \in [ts : Nat, value : Content]
    BY <1>1, SheetForm
  <2>3. /\ \A x \in Place \ {n} : i[x] = h[x] /\ U[x] = T[x]
        /\ RegMoves(h[n], i[n], t)
    BY DEF SheetMoves
  <2> HIDE DEF h, i
  <2>4. InOrder(i, U)
    BY <2>1, <2>2, <2>3, OrderMoves
  <2>5. QED
    BY <2>4 DEF i
<1>4. QED
  BY <1>1, <1>2, <1>3 DEF SheetsHold

\* ... by beginning anew,
LEMMA SheetsStart ==
  ASSUME NEW S, NEW T, SheetsHold(S, T), NEW n \in Place,
         NEW N \in SUBSET (Nat \ {0}), \A x \in Place : T[x] \cap N = {},
         NEW Z, NEW U, \A x \in Place \ {n} : Z[x] = S[x] /\ U[x] = T[x],
         Z[n] \in RoverType, Of(Z[n].status) = Blank,
         \A k \in Key : Spot(Z[n].tasks, k) = Blank, U[n] = N
  PROVE  SheetsHold(Z, U)
<1>1. \A x \in Place : Z[x] \in RoverType
  BY DEF SheetsHold
<1>2. InOrder([x \in Place |-> Of(Z[x].status)], U)
  <2> DEFINE h == [x \in Place |-> Of(S[x].status)]
             i == [x \in Place |-> Of(Z[x].status)]
  <2>1. InOrder(h, T)
    BY DEF SheetsHold
  <2>2. i[n] = Blank /\ \A x \in Place \ {n} : i[x] = h[x] /\ U[x] = T[x]
    OBVIOUS
  <2> HIDE DEF h, i
  <2>3. InOrder(i, U)
    BY <2>1, <2>2, OrderStarts
  <2>4. QED
    BY <2>3 DEF i
<1>3. ASSUME NEW k \in Key PROVE InOrder([x \in Place |-> Spot(Z[x].tasks, k)], U)
  <2> DEFINE h == [x \in Place |-> Spot(S[x].tasks, k)]
             i == [x \in Place |-> Spot(Z[x].tasks, k)]
  <2>1. InOrder(h, T)
    BY DEF SheetsHold
  <2>2. i[n] = Blank /\ \A x \in Place \ {n} : i[x] = h[x] /\ U[x] = T[x]
    OBVIOUS
  <2> HIDE DEF h, i
  <2>3. InOrder(i, U)
    BY <2>1, <2>2, OrderStarts
  <2>4. QED
    BY <2>3 DEF i
<1>4. QED
  BY <1>1, <1>2, <1>3 DEF SheetsHold

\* ... and by taking over what another node's shows, as it comes over the wire.
LEMMA SheetsJoin ==
  ASSUME NEW S, NEW T, SheetsHold(S, T), NEW n \in Place, NEW m \in Place,
         NEW Z, NEW U, \A x \in Place \ {n} : Z[x] = S[x] /\ U[x] = T[x],
         NEW w, SheetShows(w, S[m]), SheetJoins(Z[n], S[n], w), U[n] = T[n] \cup T[m]
  PROVE  SheetsHold(Z, U)
<1>1. \A x \in Place : Z[x] \in RoverType
  BY DEF SheetsHold, SheetJoins
<1>2. InOrder([x \in Place |-> Of(Z[x].status)], U)
  <2> DEFINE h == [x \in Place |-> Of(S[x].status)]
             i == [x \in Place |-> Of(Z[x].status)]
  <2>1. InOrder(h, T)
    BY DEF SheetsHold
  <2>2. RegJoins(i[n], h[n], h[m]) /\ \A x \in Place \ {n} : i[x] = h[x] /\ U[x] = T[x]
    BY DEF SheetJoins, SheetShows
  <2> HIDE DEF h, i
  <2>3. InOrder(i, U)
    BY <2>1, <2>2, OrderJoins
  <2>4. QED
    BY <2>3 DEF i
<1>3. ASSUME NEW k \in Key PROVE InOrder([x \in Place |-> Spot(Z[x].tasks, k)], U)
  <2> DEFINE h == [x \in Place |-> Spot(S[x].tasks, k)]
             i == [x \in Place |-> Spot(Z[x].tasks, k)]
  <2>1. InOrder(h, T)
    BY DEF SheetsHold
  <2>2. RegJoins(i[n], h[n], h[m]) /\ \A x \in Place \ {n} : i[x] = h[x] /\ U[x] = T[x]
    BY DEF SheetJoins, SheetShows
  <2> HIDE DEF h, i
  <2>3. InOrder(i, U)
    BY <2>1, <2>2, OrderJoins
  <2>4. QED
    BY <2>3 DEF i
<1>4. QED
  BY <1>1, <1>2, <1>3 DEF SheetsHold

\* ... by what a node sends, when p shows the sheet of n,
LEMMA SheetsCopy ==
  ASSUME NEW S, NEW T, SheetsHold(S, T), NEW n \in Place, NEW p \in Place,
         NEW Z, NEW U, \A x \in Place \ {p} : Z[x] = S[x] /\ U[x] = T[x],
         Z[p] = S[n], U[p] = T[n]
  PROVE  SheetsHold(Z, U)
<1>1. \A x \in Place : Z[x] \in RoverType
  BY DEF SheetsHold
<1>2. InOrder([x \in Place |-> Of(Z[x].status)], U)
  <2> DEFINE h == [x \in Place |-> Of(S[x].status)]
             i == [x \in Place |-> Of(Z[x].status)]
  <2>1. InOrder(h, T) /\ i[p] = h[n] /\ \A x \in Place \ {p} : i[x] = h[x]
    BY DEF SheetsHold
  <2> HIDE DEF h, i
  <2>2. InOrder(i, U)
    BY <2>1, OrderCopies
  <2>3. QED
    BY <2>2 DEF i
<1>3. ASSUME NEW k \in Key PROVE InOrder([x \in Place |-> Spot(Z[x].tasks, k)], U)
  <2> DEFINE h == [x \in Place |-> Spot(S[x].tasks, k)]
             i == [x \in Place |-> Spot(Z[x].tasks, k)]
  <2>1. InOrder(h, T) /\ i[p] = h[n] /\ \A x \in Place \ {p} : i[x] = h[x]
    BY DEF SheetsHold
  <2> HIDE DEF h, i
  <2>2. InOrder(i, U)
    BY <2>1, OrderCopies
  <2>3. QED
    BY <2>2 DEF i
<1>4. QED
  BY <1>1, <1>2, <1>3 DEF SheetsHold

\* What they show decides.
LEMMA SheetsSame ==
  ASSUME NEW S, NEW T, SheetsHold(S, T), NEW Z, NEW U,
         \A x \in Place : SheetShows(Z[x], S[x]) /\ U[x] = T[x]
  PROVE  SheetsHold(Z, U)
<1>1. \A x \in Place : Z[x] \in RoverType
  BY DEF SheetShows
<1>2. InOrder([x \in Place |-> Of(Z[x].status)], U)
  <2> DEFINE h == [x \in Place |-> Of(S[x].status)]
             i == [x \in Place |-> Of(Z[x].status)]
  <2>1. InOrder(h, T) /\ \A x \in Place : i[x] = h[x] /\ U[x] = T[x]
    BY DEF SheetsHold, SheetShows
  <2> HIDE DEF h, i
  <2>2. InOrder(i, U)
    BY <2>1, OrderSame
  <2>3. QED
    BY <2>2 DEF i
<1>3. ASSUME NEW k \in Key PROVE InOrder([x \in Place |-> Spot(Z[x].tasks, k)], U)
  <2> DEFINE h == [x \in Place |-> Spot(S[x].tasks, k)]
             i == [x \in Place |-> Spot(Z[x].tasks, k)]
  <2>1. InOrder(h, T) /\ \A x \in Place : i[x] = h[x] /\ U[x] = T[x]
    BY DEF SheetsHold, SheetShows
  <2> HIDE DEF h, i
  <2>2. InOrder(i, U)
    BY <2>1, OrderSame
  <2>3. QED
    BY <2>2 DEF i
<1>4. QED
  BY <1>1, <1>2, <1>3 DEF SheetsHold

\* At first they show nothing.
LEMMA SheetsInitially ==
  ASSUME NEW S, NEW T,
         \A x \in Place : /\ S[x] \in RoverType /\ Of(S[x].status) = Blank /\ T[x] = {}
                          /\ \A k \in Key : Spot(S[x].tasks, k) = Blank
  PROVE  SheetsHold(S, T)
<1>1. InOrder([x \in Place |-> Of(S[x].status)], T)
  <2> DEFINE h == [x \in Place |-> Of(S[x].status)]
  <2>1. \A x \in Place : h[x] = Blank /\ T[x] = {}
    OBVIOUS
  <2> HIDE DEF h
  <2>2. InOrder(h, T)
    BY <2>1, OrderInitially
  <2>3. QED
    BY <2>2 DEF h
<1>2. ASSUME NEW k \in Key PROVE InOrder([x \in Place |-> Spot(S[x].tasks, k)], T)
  <2> DEFINE h == [x \in Place |-> Spot(S[x].tasks, k)]
  <2>1. \A x \in Place : h[x] = Blank /\ T[x] = {}
    OBVIOUS
  <2> HIDE DEF h
  <2>2. InOrder(h, T)
    BY <2>1, OrderInitially
  <2>3. QED
    BY <2>2 DEF h
<1>3. QED
  BY <1>1, <1>2 DEF SheetsHold

\* Nodes that heard of the same times show the same value and the same map.
LEMMA SheetsAgree ==
  ASSUME NEW S, NEW T, SheetsHold(S, T), NEW x \in Place, NEW y \in Place, T[x] = T[y]
  PROVE  /\ S[x].status.value = S[y].status.value
         /\ MapValue(S[x].tasks) = MapValue(S[y].tasks)
<1>1. S[x].status.value = S[y].status.value
  <2> DEFINE h == [z \in Place |-> Of(S[z].status)]
  <2>1. InOrder(h, T)
    BY DEF SheetsHold
  <2>2. h[x] = h[y]
    <3> HIDE DEF h
    <3>1. QED
      BY <2>1, OrderAgrees
  <2>3. QED
    BY <2>2 DEF Of
<1>2. \A k \in Key : Spot(S[x].tasks, k) = Spot(S[y].tasks, k)
  <2> SUFFICES ASSUME NEW k \in Key PROVE Spot(S[x].tasks, k) = Spot(S[y].tasks, k)
    OBVIOUS
  <2> DEFINE h == [z \in Place |-> Spot(S[z].tasks, k)]
  <2>1. InOrder(h, T)
    BY DEF SheetsHold
  <2>2. h[x] = h[y]
    <3> HIDE DEF h
    <3>1. QED
      BY <2>1, OrderAgrees
  <2>3. QED
    BY <2>2
<1>3. /\ S[x].tasks \in MapType /\ S[y].tasks \in MapType
  BY DEF SheetsHold, RoverType
<1>4. DOMAIN S[x].tasks.data = DOMAIN S[y].tasks.data
  <2>1. \A k \in Key : k \in DOMAIN S[x].tasks.data <=> k \in DOMAIN S[y].tasks.data
    BY <1>2, <1>3, MapForm
  <2>2. DOMAIN S[x].tasks.data \subseteq Key /\ DOMAIN S[y].tasks.data \subseteq Key
    BY <1>3, MapForm
  <2>3. QED
    BY <2>1, <2>2
<1>5. \A k \in DOMAIN S[x].tasks.data : S[x].tasks.data[k].value = S[y].tasks.data[k].value
  <2>1. \A k \in DOMAIN S[x].tasks.data : k \in Key
    BY <1>3, MapForm
  <2>2. QED
    BY <1>2, <1>3, <1>4, <2>1, MapForm
<1>6. QED
  BY <1>1, <1>4, <1>5 DEF MapValue

\* The methods of a rover: a field set, a task set, a merge, a rover that is new, and one
\* that comes over the wire.
LEMMA RoverMoves ==
  ASSUME NEW s \in RoverType, NEW t \in Nat \ {0}, s.status.ts # t,
         \A k \in Key : Spot(s.tasks, k).ts # t, NEW v \in Content
  PROVE  /\ SheetMoves(s, s, t)
         /\ SheetMoves(s, [status |-> SetReg(s.status, v, t), tasks |-> s.tasks], t)
         /\ \A k \in Key :
              /\ SheetMoves(s, [status |-> s.status, tasks |-> SetKey(s.tasks, k, v, t)], t)
              /\ SheetMoves(s, [status |-> SetReg(s.status, v, t), tasks |-> SetKey(s.tasks, k, v, t)], t)
<1> DEFINE r == SetReg(s.status, v, t)
<1>1. s.status \in LwwRegType /\ s.tasks \in MapType
  BY SheetForm
<1>2. r \in LwwRegType /\ RegMoves(Of(s.status), Of(r), t)
  BY <1>1, RegisterMoves DEF WrittenReg
<1>3. \A k \in Key : /\ SetKey(s.tasks, k, v, t) \in MapType
                     /\ \A j \in Key : RegMoves(Spot(s.tasks, j), Spot(SetKey(s.tasks, k, v, t), j), t)
  BY <1>1, MapMoves
<1>4. RegMoves(Of(s.status), Of(s.status), t) /\ \A j \in Key : RegMoves(Spot(s.tasks, j), Spot(s.tasks, j), t)
  BY DEF RegMoves
<1> HIDE DEF r
<1>5. \A a \in {s.status, r}, m \in {s.tasks} \cup {SetKey(s.tasks, k, v, t) : k \in Key} :
        SheetMoves(s, [status |-> a, tasks |-> m], t)
  <2> SUFFICES ASSUME NEW a \in {s.status, r},
                      NEW m \in {s.tasks} \cup {SetKey(s.tasks, k, v, t) : k \in Key}
               PROVE  SheetMoves(s, [status |-> a, tasks |-> m], t)
    OBVIOUS
  <2>1. a \in LwwRegType /\ RegMoves(Of(s.status), Of(a), t)
    BY <1>1, <1>2, <1>4
  <2>2. m \in MapType /\ \A j \in Key : RegMoves(Spot(s.tasks, j), Spot(m, j), t)
    BY <1>1, <1>3, <1>4
  <2>3. QED
    BY <2>1, <2>2 DEF SheetMoves, RoverType
<1>6. s = [status |-> s.status, tasks |-> s.tasks]
  BY DEF RoverType
<1>7. QED
  BY <1>5, <1>6 DEF r

\* ... the merge of two,
LEMMA RoverJoins ==
  ASSUME NEW a \in RoverType, NEW b \in RoverType
  PROVE  SheetJoins(MergeRover(a, b), a, b)
<1>1. /\ a.status \in LwwRegType /\ a.tasks \in MapType /\ b.status \in LwwRegType /\ b.tasks \in MapType
  BY SheetForm
<1>2. /\ MergeReg(a.status, b.status) \in LwwRegType
      /\ RegJoins(Of(MergeReg(a.status, b.status)), Of(a.status), Of(b.status))
      /\ MergeMap(a.tasks, b.tasks) \in MapType
      /\ \A j \in Key : RegJoins(Spot(MergeMap(a.tasks, b.tasks), j), Spot(a.tasks, j), Spot(b.tasks, j))
  BY <1>1, RegisterJoins, MapJoins
<1>3. QED
  BY <1>2 DEF MergeRover, SheetJoins, RoverType

\* ... and the others.
LEMMA RoverShows ==
  /\ \A n \in Node : /\ NewRover(n) \in RoverType /\ Of(NewRover(n).status) = Blank
                     /\ \A k \in Key : Spot(NewRover(n).tasks, k) = Blank
  /\ \A s \in RoverType : SheetShows(s, s) /\ SheetShows(WireRover(s), s)
<1>1. ASSUME NEW n \in Node
      PROVE  /\ NewRover(n) \in RoverType /\ Of(NewRover(n).status) = Blank
             /\ \A k \in Key : Spot(NewRover(n).tasks, k) = Blank
  <2>1. /\ NewReg(n, None) \in LwwRegType /\ Of(NewReg(n, None)) = Blank
        /\ NewMap(n) \in MapType /\ \A k \in Key : Spot(NewMap(n), k) = Blank
    BY RegisterShows, MapShows
  <2>2. QED
    BY <2>1 DEF NewRover, RoverType
<1>2. ASSUME NEW s \in RoverType PROVE SheetShows(s, s) /\ SheetShows(WireRover(s), s)
  <2>1. s.status \in LwwRegType /\ s.tasks \in MapType
    BY SheetForm
  <2>2. /\ ResetRegDelta(s.status) \in LwwRegType /\ Of(ResetRegDelta(s.status)) = Of(s.status)
        /\ WireMap(s.tasks) \in MapType /\ \A k \in Key : Spot(WireMap(s.tasks), k) = Spot(s.tasks, k)
    BY <2>1, RegisterShows, MapShows
  <2>3. SheetShows(WireRover(s), s)
    BY <2>2 DEF WireRover, SheetShows, RoverType
  <2>4. QED
    BY <2>3 DEF SheetShows
<1>3. QED
  BY <1>1, <1>2
-----------------------------------------------------------------------------
(* Counters and the increments their replicas have heard of *)

\* c is how far each node has counted the increments of o, K the changes of o each has
\* heard of: all that is heard of o are states o was in, so that of two nodes one has
\* heard of what the other has, and counts no less.
Chained(c, K, o) ==
  \A x \in Place :
    /\ c[x] \in Nat /\ K[x] \subseteq K[o] /\ (K[x] = {} => c[x] = 0)
    /\ \A y \in Place : /\ K[x] \subseteq K[y] \/ K[y] \subseteq K[x]
                        /\ K[x] \subseteq K[y] => c[y] >= c[x]

\* It stays so when o goes on,
LEMMA ChainGrows ==
  ASSUME NEW c, NEW K, NEW o \in Node, Chained(c, K, o), NEW u, \A x \in Place : u \notin K[x],
         NEW d, NEW L, \A x \in Place \ {o} : d[x] = c[x] /\ L[x] = K[x],
         d[o] \in Nat, d[o] >= c[o], L[o] = K[o] \cup {u}
  PROVE  Chained(d, L, o)
<1>1. ASSUME NEW x \in Place
      PROVE  d[x] \in Nat /\ L[x] \subseteq L[o] /\ (L[x] = {} => d[x] = 0)
  <2>1. CASE x = o
    BY <2>1
  <2>2. CASE x # o
    BY <2>2 DEF Chained
  <2>3. QED
    BY <2>1, <2>2
<1>2. ASSUME NEW x \in Place, NEW y \in Place
      PROVE  /\ L[x] \subseteq L[y] \/ L[y] \subseteq L[x]
             /\ L[x] \subseteq L[y] => d[y] >= d[x]
  <2>1. /\ K[x] \subseteq K[y] => c[y] >= c[x]
        /\ K[x] \subseteq K[y] \/ K[y] \subseteq K[x]
        /\ K[x] \subseteq K[o] /\ K[y] \subseteq K[o]
        /\ c[x] \in Nat /\ c[y] \in Nat
    BY DEF Chained
  <2>2. CASE x = o /\ y = o
    BY <2>2
  <2>3. CASE x = o /\ y # o
    BY <2>1, <2>3
  <2>4. CASE x # o /\ y = o
    BY <2>1, <2>4
  <2>5. CASE x # o /\ y # o
    BY <2>1, <2>5
  <2>6. QED
    BY <2>2, <2>3, <2>4, <2>5
<1>3. QED
  BY <1>1, <1>2 DEF Chained

\* ... and when a node takes over from another.
LEMMA ChainJoins ==
  ASSUME NEW c, NEW K, NEW o \in Node, Chained(c, K, o), NEW n \in Node, NEW m \in Place,
         NEW d, NEW L, \A x \in Place \ {n} : d[x] = c[x] /\ L[x] = K[x],
         d[n] >= c[n], d[n] >= c[m], d[n] = c[n] \/ d[n] = c[m], L[n] = K[n] \cup K[m]
  PROVE  Chained(d, L, o)
<1>1. /\ c[n] \in Nat /\ c[m] \in Nat /\ d[n] \in Nat
      /\ K[n] \subseteq K[m] \/ K[m] \subseteq K[n]
      /\ K[n] \subseteq K[o] /\ K[m] \subseteq K[o]
      /\ (K[n] = {} => c[n] = 0) /\ (K[m] = {} => c[m] = 0)
      /\ \A x \in Place : /\ K[n] \subseteq K[x] => c[x] >= c[n]
                          /\ K[m] \subseteq K[x] => c[x] >= c[m]
                          /\ K[x] \subseteq K[n] => c[n] >= c[x]
                          /\ K[x] \subseteq K[m] => c[m] >= c[x]
                          /\ K[x] \subseteq K[n] \/ K[n] \subseteq K[x]
                          /\ K[x] \subseteq K[m] \/ K[m] \subseteq K[x]
                          /\ c[x] \in Nat
  BY DEF Chained
<1>2. L[n] = K[n] \/ L[n] = K[m]
  BY <1>1
<1>3. L[o] = K[o]
  BY <1>1
<1>4. ASSUME NEW x \in Place
      PROVE  d[x] \in Nat /\ L[x] \subseteq L[o] /\ (L[x] = {} => d[x] = 0)
  <2>1. CASE x = n
    BY <1>1, <1>3, <2>1
  <2>2. CASE x # n
    BY <1>3, <2>2 DEF Chained
  <2>3. QED
    BY <2>1, <2>2
<1>5. ASSUME NEW x \in Place, NEW y \in Place
      PROVE  /\ L[x] \subseteq L[y] \/ L[y] \subseteq L[x]
             /\ L[x] \subseteq L[y] => d[y] >= d[x]
  <2>1. CASE x = n /\ y = n
    BY <1>1, <2>1
  <2>2. CASE x = n /\ y # n
    <3>1. d[y] = c[y] /\ L[y] = K[y]
      BY <2>2
    <3>2. L[x] \subseteq L[y] \/ L[y] \subseteq L[x]
      BY <1>1, <1>2, <2>2, <3>1
    <3>3. ASSUME L[x] \subseteq L[y] PROVE d[y] >= d[x]
      <4>1. K[n] \subseteq K[y] /\ K[m] \subseteq K[y]
        BY <2>2, <3>1, <3>3
      <4>2. c[y] >= c[n] /\ c[y] >= c[m]
        BY <1>1, <4>1
      <4>3. QED
        BY <2>2, <3>1, <4>2
    <3>4. QED
      BY <3>2, <3>3
  <2>3. CASE x # n /\ y = n
    <3>1. d[x] = c[x] /\ L[x] = K[x]
      BY <2>3
    <3>2. L[x] \subseteq L[y] \/ L[y] \subseteq L[x]
      BY <1>1, <1>2, <2>3, <3>1
    <3>3. ASSUME L[x] \subseteq L[y] PROVE d[y] >= d[x]
      <4>1. K[x] \subseteq K[n] \/ K[x] \subseteq K[m]
        BY <1>2, <2>3, <3>1, <3>3
      <4>2. c[n] >= c[x] \/ c[m] >= c[x]
        BY <1>1, <4>1
      <4>3. c[x] \in Nat
        BY <1>1
      <4>4. QED
        BY <1>1, <2>3, <3>1, <4>2, <4>3
    <3>4. QED
      BY <3>2, <3>3
  <2>4. CASE x # n /\ y # n
    BY <2>4 DEF Chained
  <2>5. QED
    BY <2>1, <2>2, <2>3, <2>4
<1>6. QED
  BY <1>4, <1>5 DEF Chained

\* ... when what one told is told again elsewhere,
LEMMA ChainCopies ==
  ASSUME NEW c, NEW K, NEW o \in Node, Chained(c, K, o),
         NEW n \in Place, NEW p \in Place, p # o,
         NEW d, NEW L, \A x \in Place \ {p} : d[x] = c[x] /\ L[x] = K[x],
         d[p] = c[n], L[p] = K[n]
  PROVE  Chained(d, L, o)
<1> DEFINE at(x) == IF x = p THEN n ELSE x
<1>1. \A x \in Place : at(x) \in Place /\ d[x] = c[at(x)] /\ L[x] = K[at(x)]
  OBVIOUS
<1>2. L[o] = K[o]
  OBVIOUS
<1> HIDE DEF at
<1>3. QED
  BY <1>1, <1>2 DEF Chained

\* ... and what the chain is made of decides.
LEMMA ChainSame ==
  ASSUME NEW c, NEW K, NEW o \in Node, Chained(c, K, o),
         NEW d, NEW L, \A x \in Place : d[x] = c[x] /\ L[x] = K[x]
  PROVE  Chained(d, L, o)
BY DEF Chained

\* Of some changes those made at o.
By(K, o) == {u \in K : u[2] = o}

\* A counter of node n: what waits to be sent, if anything does, is its own count.
OwnCounter(c, n) ==
  c \in G!GCounterType /\ c.node_id = n /\ (c.delta # 0 => c.delta = c.counts[n])

\* At a node is its own counter, in a message that of some node.
AllCounters(C) ==
  /\ \A x \in Place : C[x].node_id \in Node /\ OwnCounter(C[x], C[x].node_id)
  /\ \A x \in Node : C[x].node_id = x

\* Counters and the changes that have been heard of.
CountersHold(C, K) ==
  /\ AllCounters(C)
  /\ \A o \in Node : Chained([x \in Place |-> C[x].counts[o]], [x \in Place |-> By(K[x], o)], o)

\* ... and those made at one of O.
MadeAt(K, O) == {u \in K : u[2] \in O}

\* Counters D after a change u at n, which nobody else has heard of,
Counted(D, C, L, K, n, u) ==
  /\ u[2] = n /\ \A x \in Place : u \notin K[x]
  /\ \A x \in Place \ {n} : D[x] = C[x] /\ L[x] = K[x]
  /\ OwnCounter(D[n], n) /\ \A o \in Node \ {n} : D[n].counts[o] = C[n].counts[o]
  /\ D[n].counts[n] >= C[n].counts[n] /\ L[n] = K[n] \cup {u}

\* ... after n took over from m what it has of the origins O,
TakesCounts(D, C, n, m, O) ==
  /\ O \subseteq Node /\ OwnCounter(D[n], n) /\ \A x \in Place \ {n} : D[x] = C[x]
  /\ \A o \in Node \ O : D[n].counts[o] = C[n].counts[o]
  /\ \A o \in O : D[n].counts[o] = G!MaxOf(C[n].counts[o], C[m].counts[o])

\* ... and with it has heard of what m has heard of them.
HearsOf(L, K, n, m, O) ==
  /\ \A x \in Place \ {n} : L[x] = K[x]
  /\ L[n] = K[n] \cup MadeAt(K[m], O)

\* They go on by a change of their own node,
LEMMA CountersGrow ==
  ASSUME NEW C, NEW K, CountersHold(C, K), NEW n \in Node, NEW u,
         NEW D, NEW L, Counted(D, C, L, K, n, u)
  PROVE  CountersHold(D, L)
<1>1. AllCounters(D)
  <2>1. ASSUME NEW x \in Place PROVE D[x].node_id \in Node /\ OwnCounter(D[x], D[x].node_id)
    <3>1. CASE x = n
      BY <3>1 DEF Counted, OwnCounter
    <3>2. CASE x # n
      BY <3>2 DEF Counted, CountersHold, AllCounters
    <3>3. QED
      BY <3>1, <3>2
  <2>2. ASSUME NEW x \in Node PROVE D[x].node_id = x
    <3>1. CASE x = n
      BY <3>1 DEF Counted, OwnCounter
    <3>2. CASE x # n
      BY <3>2 DEF Counted, CountersHold, AllCounters
    <3>3. QED
      BY <3>1, <3>2
  <2>3. QED
    BY <2>1, <2>2 DEF AllCounters
<1>2. ASSUME NEW o \in Node
      PROVE  Chained([x \in Place |-> D[x].counts[o]], [x \in Place |-> By(L[x], o)], o)
  <2> DEFINE c == [x \in Place |-> C[x].counts[o]]
             B == [x \in Place |-> By(K[x], o)]
             d == [x \in Place |-> D[x].counts[o]]
             E == [x \in Place |-> By(L[x], o)]
  <2>1. Chained(c, B, o)
    BY DEF CountersHold
  <2>2. \A x \in Place \ {n} : d[x] = c[x] /\ E[x] = B[x]
    BY DEF Counted
  <2>3. CASE o = n
    <3>1. E[n] = B[n] \cup {u} /\ \A x \in Place : u \notin B[x]
      BY <2>3 DEF By, Counted
    <3>2. d[n] \in Nat /\ d[n] >= c[n]
      BY <2>3 DEF Counted, OwnCounter, G!GCounterType, G!CountMap
    <3> HIDE DEF c, B, d, E
    <3>3. Chained(d, E, o)
      BY <2>1, <2>2, <2>3, <3>1, <3>2, ChainGrows
    <3>4. QED
      BY <3>3 DEF d, E
  <2>4. CASE o # n
    <3>1. E[n] = B[n] /\ d[n] = c[n]
      BY <2>4 DEF By, Counted
    <3>2. \A x \in Place : d[x] = c[x] /\ E[x] = B[x]
      BY <2>2, <3>1
    <3> HIDE DEF c, B, d, E
    <3>3. Chained(d, E, o)
      BY <2>1, <3>2, ChainSame
    <3>4. QED
      BY <3>3 DEF d, E
  <2>5. QED
    BY <2>3, <2>4
<1>3. QED
  BY <1>1, <1>2 DEF CountersHold

\* ... and by taking over what another has of some origins O: of all by a merge, of one
\* by a delta, of none when nothing waits to be sent.
LEMMA CountersJoin ==
  ASSUME NEW C, NEW K, CountersHold(C, K), NEW n \in Node, NEW m \in Place, NEW O,
         NEW D, NEW L, TakesCounts(D, C, n, m, O), HearsOf(L, K, n, m, O)
  PROVE  CountersHold(D, L)
<1>1. AllCounters(D)
  <2>1. ASSUME NEW x \in Place PROVE D[x].node_id \in Node /\ OwnCounter(D[x], D[x].node_id)
    <3>1. CASE x = n
      BY <3>1 DEF TakesCounts, OwnCounter
    <3>2. CASE x # n
      BY <3>2 DEF TakesCounts, CountersHold, AllCounters
    <3>3. QED
      BY <3>1, <3>2
  <2>2. ASSUME NEW x \in Node PROVE D[x].node_id = x
    <3>1. CASE x = n
      BY <3>1 DEF TakesCounts, OwnCounter
    <3>2. CASE x # n
      BY <3>2 DEF TakesCounts, CountersHold, AllCounters
    <3>3. QED
      BY <3>1, <3>2
  <2>3. QED
    BY <2>1, <2>2 DEF AllCounters
<1>2. ASSUME NEW o \in Node
      PROVE  Chained([x \in Place |-> D[x].counts[o]], [x \in Place |-> By(L[x], o)], o)
  <2> DEFINE c == [x \in Place |-> C[x].counts[o]]
             B == [x \in Place |-> By(K[x], o)]
             d == [x \in Place |-> D[x].counts[o]]
             E == [x \in Place |-> By(L[x], o)]
  <2>1. Chained(c, B, o)
    BY DEF CountersHold
  <2>2. \A x \in Place \ {n} : d[x] = c[x] /\ E[x] = B[x]
    BY DEF TakesCounts, HearsOf
  <2>3. CASE o \in O
    <3>1. E[n] = B[n] \cup B[m]
      BY <2>3 DEF By, MadeAt, HearsOf
    <3>2. c[n] \in Nat /\ c[m] \in Nat
      BY DEF CountersHold, AllCounters, OwnCounter, G!GCounterType, G!CountMap
    <3>3. d[n] = G!MaxOf(c[n], c[m])
      BY <2>3 DEF TakesCounts
    <3> HIDE DEF c, B, d, E
    <3>4. d[n] >= c[n] /\ d[n] >= c[m] /\ (d[n] = c[n] \/ d[n] = c[m])
      BY <3>2, <3>3 DEF G!MaxOf
    <3>5. Chained(d, E, o)
      BY <2>1, <2>2, <3>1, <3>4, ChainJoins
    <3>6. QED
      BY <3>5 DEF d, E
  <2>4. CASE o \notin O
    <3>1. E[n] = B[n] /\ d[n] = c[n]
      BY <2>4 DEF By, MadeAt, HearsOf, TakesCounts
    <3>2. \A x \in Place : d[x] = c[x] /\ E[x] = B[x]
      BY <2>2, <3>1
    <3> HIDE DEF c, B, d, E
    <3>3. Chained(d, E, o)
      BY <2>1, <3>2, ChainSame
    <3>4. QED
      BY <3>3 DEF d, E
  <2>5. QED
    BY <2>3, <2>4
<1>3. QED
  BY <1>1, <1>2 DEF CountersHold

\* ... by what a node sends,
LEMMA CountersCopy ==
  ASSUME NEW C, NEW K, CountersHold(C, K), NEW n \in Node, NEW p \in Mail,
         NEW D, NEW L, \A x \in Place \ {p} : D[x] = C[x] /\ L[x] = K[x],
         D[p] = C[n], L[p] = K[n]
  PROVE  CountersHold(D, L)
<1>1. p \in Place /\ n \in Place /\ p \notin Node
  BY ReplicasAssumption
<1>2. AllCounters(D)
  <2>1. \A x \in Place : \E y \in Place : D[x] = C[y]
    BY <1>1
  <2>2. \A x \in Node : D[x] = C[x]
    BY <1>1
  <2>3. QED
    BY <2>1, <2>2 DEF CountersHold, AllCounters
<1>3. ASSUME NEW o \in Node
      PROVE  Chained([x \in Place |-> D[x].counts[o]], [x \in Place |-> By(L[x], o)], o)
  <2> DEFINE c == [x \in Place |-> C[x].counts[o]]
             B == [x \in Place |-> By(K[x], o)]
             d == [x \in Place |-> D[x].counts[o]]
             E == [x \in Place |-> By(L[x], o)]
  <2>1. Chained(c, B, o)
    BY DEF CountersHold
  <2>2. \A x \in Place \ {p} : d[x] = c[x] /\ E[x] = B[x]
    OBVIOUS
  <2>3. d[p] = c[n] /\ E[p] = B[n]
    BY <1>1
  <2>4. p # o
    BY <1>1
  <2> HIDE DEF c, B, d, E
  <2>5. Chained(d, E, o)
    BY <1>1, <2>1, <2>2, <2>3, <2>4, ChainCopies
  <2>6. QED
    BY <2>5 DEF d, E
<1>4. QED
  BY <1>2, <1>3 DEF CountersHold

\* What heard of the same counts the same.
LEMMA CountersAgree ==
  ASSUME NEW C, NEW K, CountersHold(C, K), NEW x \in Place, NEW y \in Place, K[x] = K[y]
  PROVE  C[x].counts = C[y].counts
<1>1. C[x].counts \in [Node -> Nat] /\ C[y].counts \in [Node -> Nat]
  BY DEF CountersHold, AllCounters, OwnCounter, G!GCounterType, G!CountMap
<1>2. ASSUME NEW o \in Node PROVE C[x].counts[o] = C[y].counts[o]
  <2> DEFINE c == [z \in Place |-> C[z].counts[o]]
             B == [z \in Place |-> By(K[z], o)]
  <2>1. Chained(c, B, o) /\ B[x] = B[y]
    BY DEF CountersHold
  <2>2. c[x] = c[y]
    <3> HIDE DEF c, B
    <3>1. c[x] >= c[y] /\ c[y] >= c[x] /\ c[x] \in Nat /\ c[y] \in Nat
      BY <2>1 DEF Chained
    <3>2. QED
      BY <3>1
  <2>3. QED
    BY <2>2
<1>3. QED
  BY <1>1, <1>2

\* A new counter,
LEMMA CounterNew ==
  ASSUME NEW x \in Node
  PROVE  OwnCounter(G!NewGCounter(x), x) /\ \A o \in Node : G!NewGCounter(x).counts[o] = 0
<1> DEFINE g == [o \in Node |-> 0]
<1>1. g \in [Node -> Nat] /\ \A o \in Node : g[o] = 0
  OBVIOUS
<1>2. G!NewGCounter(x) = [node_id |-> x, counts |-> g, delta |-> 0]
  BY DEF G!NewGCounter
<1> HIDE DEF g
<1>3. [node_id |-> x, counts |-> g, delta |-> 0] \in [node_id : Node, counts : [Node -> Nat], delta : Nat]
  BY <1>1
<1>4. QED
  BY <1>1, <1>2, <1>3 DEF OwnCounter, G!GCounterType, G!CountMap

\* ... and at first nothing is counted.
LEMMA CountersInitially ==
  ASSUME NEW C, NEW K, \A x \in Place : C[x] = G!NewGCounter(Origin(x)) /\ K[x] = {}
  PROVE  CountersHold(C, K)
<1>1. ASSUME NEW x \in Place
      PROVE  OwnCounter(C[x], Origin(x)) /\ \A o \in Node : C[x].counts[o] = 0
  <2>1. Origin(x) \in Node /\ C[x] = G!NewGCounter(Origin(x))
    BY OriginIsNode
  <2>2. QED
    BY <2>1, CounterNew
<1>4. AllCounters(C)
  <2>1. \A x \in Place : C[x].node_id = Origin(x)
    BY <1>1 DEF OwnCounter
  <2>2. QED
    BY <1>1, <2>1, OriginIsNode DEF AllCounters
<1>2. ASSUME NEW o \in Node
      PROVE  Chained([x \in Place |-> C[x].counts[o]], [x \in Place |-> By(K[x], o)], o)
  <2> DEFINE c == [x \in Place |-> C[x].counts[o]]
             B == [x \in Place |-> By(K[x], o)]
  <2>1. \A x \in Place : c[x] = 0 /\ B[x] = {}
    BY <1>1 DEF By
  <2> HIDE DEF c, B
  <2>2. ASSUME NEW x \in Place
        PROVE  c[x] \in Nat /\ B[x] \subseteq B[o] /\ (B[x] = {} => c[x] = 0)
    <3>1. c[x] = 0 /\ B[x] = {}
      BY <2>1
    <3>2. c[x] \in Nat
      BY <3>1
    <3>3. B[x] \subseteq B[o]
      BY <3>1
    <3>4. QED
      BY <3>1, <3>2, <3>3
  <2>3. \A x, y \in Place : (B[x] \subseteq B[y] \/ B[y] \subseteq B[x]) /\ c[y] >= c[x]
    BY <2>1
  <2>4. Chained(c, B, o)
    BY <2>2, <2>3 DEF Chained
  <2>5. QED
    BY <2>4 DEF c, B
<1>3. QED
  BY <1>2, <1>4 DEF CountersHold

\* A counter by its fields.
CounterOf(k, g, e) == [node_id |-> k, counts |-> g, delta |-> e]

\* Its parts are there,
LEMMA CounterParts ==
  ASSUME NEW c, NEW n \in Node, OwnCounter(c, n)
  PROVE  /\ c = CounterOf(n, c.counts, c.delta) /\ c.node_id = n
         /\ c.counts \in [Node -> Nat] /\ c.delta \in Nat /\ (c.delta # 0 => c.delta = c.counts[n])
         /\ \A o \in Node : c.counts[o] \in Nat
<1>1. /\ c \in [node_id : Node, counts : [Node -> Nat], delta : Nat] /\ c.node_id = n
      /\ c.delta # 0 => c.delta = c.counts[n]
  BY DEF OwnCounter, G!GCounterType, G!CountMap
<1>2. c.counts \in [Node -> Nat] /\ c.delta \in Nat
  BY <1>1
<1>3. c = CounterOf(n, c.counts, c.delta)
  BY <1>1 DEF CounterOf
<1>4. QED
  BY <1>1, <1>2, <1>3

\* ... and of such parts it is made.
LEMMA CounterMade ==
  ASSUME NEW n \in Node, NEW g \in [Node -> Nat], NEW e \in Nat, e = 0 \/ e = g[n]
  PROVE  /\ OwnCounter(CounterOf(n, g, e), n) /\ CounterOf(n, g, e).counts = g
         /\ CounterOf(n, g, e).delta = e
<1>1. /\ CounterOf(n, g, e).counts = g /\ CounterOf(n, g, e).delta = e
      /\ CounterOf(n, g, e).node_id = n
  BY DEF CounterOf
<1>2. CounterOf(n, g, e) \in [node_id : Node, counts : [Node -> Nat], delta : Nat]
  BY DEF CounterOf
<1>3. QED
  BY <1>1, <1>2 DEF OwnCounter, G!GCounterType, G!CountMap

\* An increment is of its own count,
LEMMA CounterIncrements ==
  ASSUME NEW c, NEW n \in Node, OwnCounter(c, n)
  PROVE  /\ OwnCounter(G!Increment(c, 1), n) /\ G!Increment(c, 1).counts[n] >= c.counts[n]
         /\ \A o \in Node \ {n} : G!Increment(c, 1).counts[o] = c.counts[o]
<1> DEFINE z == G!Increment(c, 1)
           g == [c.counts EXCEPT ![n] = c.counts[n] + 1]
<1>1. /\ c = CounterOf(n, c.counts, c.delta) /\ c.node_id = n
      /\ c.counts \in [Node -> Nat] /\ c.counts[n] \in Nat
  BY CounterParts
<1>2. g \in [Node -> Nat] /\ g[n] = c.counts[n] + 1 /\ \A o \in Node \ {n} : g[o] = c.counts[o]
  BY <1>1
<1>3. z = [c EXCEPT !.counts[n] = c.counts[n] + 1, !.delta = c.counts[n] + 1]
  BY <1>1 DEF G!Increment
<1>4. z = [[c EXCEPT !.counts = g] EXCEPT !.delta = c.counts[n] + 1]
  BY <1>3
<1> HIDE DEF g
<1>5. [c EXCEPT !.counts = g] = CounterOf(n, g, c.delta)
  BY <1>1 DEF CounterOf
<1>6. \A e : [CounterOf(n, g, c.delta) EXCEPT !.delta = e] = CounterOf(n, g, e)
  BY DEF CounterOf
<1>7. z = CounterOf(n, g, g[n])
  BY <1>2, <1>4, <1>5, <1>6
<1>8. g[n] \in Nat /\ g[n] >= c.counts[n]
  BY <1>1, <1>2
<1>9. OwnCounter(z, n) /\ z.counts = g
  BY <1>2, <1>7, <1>8, CounterMade
<1>10. QED
  BY <1>2, <1>8, <1>9

\* ... no count goes with what waits to be sent,
LEMMA CounterResets ==
  ASSUME NEW c, NEW n \in Node, OwnCounter(c, n)
  PROVE  OwnCounter(G!ResetDelta(c), n) /\ G!ResetDelta(c).counts = c.counts
<1> DEFINE z == G!ResetDelta(c)
<1>1. c = CounterOf(n, c.counts, c.delta) /\ c.counts \in [Node -> Nat]
  BY CounterParts
<1>2. z = CounterOf(n, c.counts, 0)
  <2> DEFINE g == c.counts
  <2>1. c = CounterOf(n, g, c.delta)
    BY <1>1
  <2> HIDE DEF g
  <2>2. z = CounterOf(n, g, 0)
    BY <2>1 DEF G!ResetDelta, CounterOf
  <2>3. QED
    BY <2>2 DEF g
<1>3. QED
  BY <1>1, <1>2, CounterMade

\* ... a merge z of c and d has the greater count of each origin,
IsMerge(z, c, d, n) ==
  OwnCounter(z, n) /\ \A o \in Node : z.counts[o] = G!MaxOf(c.counts[o], d.counts[o])

\* ... and with a delta z is c with the sender's count alone.
HasDelta(z, c, d, n, m) ==
  /\ OwnCounter(z, n) /\ \A o \in Node \ {m} : z.counts[o] = c.counts[o]
  /\ z.counts[m] = IF d.delta # 0 THEN G!MaxOf(c.counts[m], d.counts[m]) ELSE c.counts[m]

\* Such are the merge
LEMMA CounterMerges ==
  ASSUME NEW c, NEW n \in Node, OwnCounter(c, n), NEW d, NEW m \in Node, OwnCounter(d, m)
  PROVE  IsMerge(G!Merge(c, G!ResetDelta(d)), c, d, n)
<1> DEFINE z == G!Merge(c, G!ResetDelta(d))
           g == [o \in Node |-> G!MaxOf(c.counts[o], d.counts[o])]
<1>1. /\ c.node_id = n /\ \A o \in Node : c.counts[o] \in Nat /\ d.counts[o] \in Nat
      /\ G!ResetDelta(d).counts = d.counts
  BY CounterParts, CounterResets
<1>2. g \in [Node -> Nat] /\ \A o \in Node : g[o] = G!MaxOf(c.counts[o], d.counts[o])
  BY <1>1 DEF G!MaxOf
<1>3. z = CounterOf(n, g, 0)
  BY <1>1 DEF G!Merge, G!Join, CounterOf
<1> HIDE DEF g
<1>4. OwnCounter(z, n) /\ z.counts = g
  BY <1>2, <1>3, CounterMade
<1>5. QED
  BY <1>2, <1>4 DEF IsMerge

\* ... and the application of a delta.
LEMMA CounterTakesDelta ==
  ASSUME NEW c, NEW n \in Node, OwnCounter(c, n), NEW d, NEW m \in Node, OwnCounter(d, m),
         n # m \/ d.counts[n] <= c.counts[n]
  PROVE  HasDelta(G!ApplyDelta(c, G!DeltaOf(d)), c, d, n, m)
<1> DEFINE z == G!ApplyDelta(c, G!DeltaOf(d))
           e == G!MaxOf(c.counts[m], d.delta)
           g == [c.counts EXCEPT ![m] = e]
<1>1. /\ c = CounterOf(n, c.counts, c.delta) /\ c.counts \in [Node -> Nat] /\ c.counts[m] \in Nat
      /\ c.delta \in Nat /\ (c.delta # 0 => c.delta = c.counts[n])
  BY CounterParts
<1>2. /\ d.node_id = m /\ d.counts[m] \in Nat /\ d.delta \in Nat
      /\ d.delta # 0 => d.delta = d.counts[m]
  BY CounterParts
<1>3. e \in Nat /\ e = IF d.delta # 0 THEN G!MaxOf(c.counts[m], d.counts[m]) ELSE c.counts[m]
  BY <1>1, <1>2 DEF G!MaxOf
<1>4. z = [c EXCEPT !.counts[m] = e]
  BY <1>2 DEF G!ApplyDelta, G!DeltaOf
<1> HIDE DEF e
<1>5. g \in [Node -> Nat] /\ g[m] = e /\ \A o \in Node \ {m} : g[o] = c.counts[o]
  BY <1>1, <1>3
<1>6. z = [c EXCEPT !.counts = g]
  BY <1>4
<1> HIDE DEF g
<1>7. [c EXCEPT !.counts = g] = CounterOf(n, g, c.delta)
  BY <1>1 DEF CounterOf
<1>8. g[n] = c.counts[n]
  <2>1. CASE n # m
    BY <1>5, <2>1
  <2>2. CASE n = m
    BY <1>1, <1>2, <1>3, <1>5, <2>2 DEF G!MaxOf
  <2>3. QED
    BY <2>1, <2>2
<1>9. c.delta = 0 \/ c.delta = g[n]
  BY <1>1, <1>8
<1>10. OwnCounter(z, n) /\ z.counts = g
  BY <1>1, <1>5, <1>6, <1>7, <1>9, CounterMade
<1>11. QED
  BY <1>3, <1>5, <1>10 DEF HasDelta
-----------------------------------------------------------------------------
(* The steps of Replicas, by what is replicated *)

\* The times of some changes, and those that were to something.
Stamps(K) == {u[1] : u \in K}
ToIt(K, w) == {u \in K : u[3] = w}

ChangeType == (1..MaxUpdates) \X Node \X (Key \cup {"pos", "neg", "all"})

\* What holds of all kinds.
Based ==
  /\ kind \in Kinds /\ bent \in BOOLEAN /\ replica = [x \in Place |-> replica[x]]
  /\ known \in [Place -> SUBSET ChangeType]

\* Nobody has heard of time t,
Unheard(t, kn) == \A x \in Place : \A u \in kn[x] : u[1] # t

\* ... and what goes for one place at a step.
OnlyAt(n, x, W) ==
  /\ n \in Place /\ replica' = [y \in Place |-> replica'[y]]
  /\ replica'[n] = x /\ known'[n] = W
  /\ \A y \in Place \ {n} : replica'[y] = replica[y] /\ known'[y] = known[y]

\* A change at a place is such a step,
LEMMA StepIsAt ==
  ASSUME Based, NEW n \in Place, NEW x, NEW W,
         replica' = [replica EXCEPT ![n] = x], known' = [known EXCEPT ![n] = W]
  PROVE  OnlyAt(n, x, W)
BY DEF Based, OnlyAt

\* ... and of a new time.
LEMMA ChangeIsAt ==
  ASSUME Based, NEW n \in Node, NEW t \in 1..MaxUpdates, NEW w, NEW x, Sets(n, t, w, x)
  PROVE  /\ OnlyAt(n, x, known[n] \cup {<<t, n, w>>})
         /\ Unheard(t, known) /\ t \in Nat \ {0} /\ t \in Content
<1>1. OnlyAt(n, x, known[n] \cup {<<t, n, w>>})
  <2>1. known' = [known EXCEPT ![n] = known[n] \cup {<<t, n, w>>}]
    BY DEF Sets
  <2>2. replica' = [replica EXCEPT ![n] = x]
    BY DEF Sets
  <2>3. QED
    BY <2>1, <2>2, StepIsAt
<1>2. Unheard(t, known)
  BY DEF Sets, Used, Unheard
<1>3. t \in Nat \ {0} /\ t \in Content
  BY ReplicasAssumption DEF Content
<1>4. QED
  BY <1>1, <1>2, <1>3

\* Times and marks of changes that come together.
LEMMA StampsJoin ==
  ASSUME NEW K, NEW L
  PROVE  /\ Stamps(K \cup L) = Stamps(K) \cup Stamps(L)
         /\ \A w : ToIt(K \cup L, w) = ToIt(K, w) \cup ToIt(L, w)
BY DEF Stamps, ToIt

\* One change.
LEMMA StampOfOne ==
  ASSUME NEW t, NEW n, NEW w
  PROVE  /\ Stamps({<<t, n, w>>}) = {t}
         /\ ToIt({<<t, n, w>>}, w) = {<<t, n, w>>}
         /\ \A v : v # w => ToIt({<<t, n, w>>}, v) = {}
BY DEF Stamps, ToIt

\* What nobody heard of is new to every place.
LEMMA UnheardIsNew ==
  ASSUME NEW kn, NEW t, Unheard(t, kn)
  PROVE  /\ \A x \in Place : t \notin Stamps(kn[x]) /\ \A w : t \notin Stamps(ToIt(kn[x], w))
         /\ \A x \in Place : \A n, w : <<t, n, w>> \notin kn[x]
BY DEF Unheard, Stamps, ToIt

\* Sets hold what was added at those they heard of.
SetsHold(rep, kn) ==
  \A x \in Place : /\ rep[x] \in [all : SUBSET Key, fresh : SUBSET Key]
                   /\ rep[x].fresh \subseteq rep[x].all
                   /\ rep[x].all = {u[3] : u \in kn[x]}

\* Only some actions are of a kind, and what was bent stays so.
LEMMA StepsAre ==
  ASSUME Based, ReplicasNext
  PROVE  /\ kind' = kind /\ (bent => bent') /\ bent' \in BOOLEAN
         /\ \/ \E n \in Node : ResetDeltas(n)
            \/ \E n \in Node, m \in Place : MergeFrom(n, m) \/ ApplyDeltaFrom(n, m)
            \/ \E n \in Node, m \in Mail : SendTo(n, m)
            \/ \E n \in Node, t \in 1..MaxUpdates :
                 \/ kind = "rover" /\ UpdateOwn(n, t)
                 \/ kind = "mission" /\ (CompleteObjective(n, t) \/ SetPhase(n, t))
                 \/ kind = "swarm" /\ SetLeader(n, t)
                 \/ kind = "pncounter" /\ \E way \in {"pos", "neg"} : Count(n, t, way)
                 \/ kind = "lwwmap" /\ \E m \in Place : ApplyMapDeltaFrom(n, m, t)
                 \/ \E k \in Key :
                      \/ kind = "gset" /\ Add(n, t, k)
                      \/ kind = "lwwmap" /\ (SetInMap(n, t, k) \/ DeleteInMap(n, t, k))
                      \/ kind = "mission" /\
                           (CreateMission(n, t, k) \/ SetMissionTask(n, t, k) \/ UpdateMission(n, t, k))
                      \/ kind = "mission" /\ UpdateTaskStatus(n, t, k)
                      \/ kind = "swarm" /\ (AddRover(n, t, k) \/ UpdateRover(n, t, k))
            \/ \E n \in Node, k \in Key : kind = "swarm" /\ RemoveRover(n, k)
<1> DEFINE Stays == kind' = kind /\ (bent => bent') /\ bent' \in BOOLEAN
<1>0. (kind' = kind /\ bent' = bent) => Stays
  BY DEF Based
<1>1. \A k \in KeysOf[kind] : k \in Key
  BY ReplicasAssumption DEF Based
<1>2. ASSUME NEW n \in Node, NEW t \in 1..MaxUpdates
      PROVE  /\ UpdateOwn(n, t) => kind = "rover" /\ Stays
             /\ CompleteObjective(n, t) => kind = "mission" /\ Stays
             /\ SetPhase(n, t) => kind = "mission" /\ Stays
             /\ CancelMission(n, t) => SetPhase(n, t)
             /\ SetLeader(n, t) => kind = "swarm" /\ Stays
             /\ \A way : Count(n, t, way) => kind = "pncounter" /\ Stays
             /\ \A m : ApplyMapDeltaFrom(n, m, t) => kind = "lwwmap" /\ Stays
  <2> HIDE DEF Stays
  <2>1. QED
    BY <1>0 DEF UpdateOwn, CompleteObjective, SetPhase, CancelMission, SetLeader, Count, ApplyMapDeltaFrom,
                Changes, Sets
<1>3. ASSUME NEW n \in Node, NEW t \in 1..MaxUpdates, NEW k
      PROVE  /\ Add(n, t, k) => kind = "gset" /\ Stays
             /\ SetInMap(n, t, k) => kind = "lwwmap" /\ Stays
             /\ DeleteInMap(n, t, k) => kind = "lwwmap" /\ Stays
             /\ CreateMission(n, t, k) => kind = "mission" /\ Stays
             /\ SetMissionTask(n, t, k) => kind = "mission" /\ Stays
             /\ UpdateMission(n, t, k) => kind = "mission" /\ Stays
             /\ AddRover(n, t, k) => kind = "swarm" /\ Stays
             /\ UpdateRover(n, t, k) => kind = "swarm" /\ Stays
  <2> HIDE DEF Stays
  <2>1. QED
    BY <1>0 DEF Add, SetInMap, DeleteInMap, CreateMission, SetMissionTask, UpdateMission, AddRover, UpdateRover,
                Changes, Sets
<1>4. ASSUME NEW n, NEW t, NEW k, UpdateTaskStatus(n, t, k) PROVE kind = "mission" /\ Stays
  <2>1. bent' = (bent \/ ~ Accepts(replica[n].tasks.data[k], t)) /\ kind' = kind /\ kind = "mission"
    BY <1>4 DEF UpdateTaskStatus, Sets
  <2>2. Accepts(replica[n].tasks.data[k], t) \in BOOLEAN
    BY DEF Accepts, Later
  <2>3. bent \in BOOLEAN
    BY DEF Based
  <2>4. QED
    BY <2>1, <2>2, <2>3, Zenon
<1>5. ASSUME NEW n \in Node, NEW k, RemoveRover(n, k) PROVE kind = "swarm" /\ Stays
  BY <1>0, <1>5 DEF RemoveRover
<1>6. \A n : ResetDeltas(n) => Stays
  BY <1>0 DEF ResetDeltas
<1>7. ASSUME NEW n \in Node, NEW m \in Place
      PROVE  (MergeFrom(n, m) => Stays) /\ (ApplyDeltaFrom(n, m) => Stays) /\ (SendTo(n, m) => Stays)
  BY <1>0 DEF MergeFrom, ApplyDeltaFrom, SendTo
<1> HIDE DEF Stays
<1>8. \/ \E n \in Node, t \in 1..MaxUpdates :
           \/ UpdateOwn(n, t) \/ CompleteObjective(n, t) \/ SetPhase(n, t) \/ CancelMission(n, t)
           \/ SetLeader(n, t)
           \/ \E way \in {"pos", "neg"} : Count(n, t, way)
           \/ \E m \in Place : ApplyMapDeltaFrom(n, m, t)
           \/ \E k \in Key :
                \/ Add(n, t, k) \/ SetInMap(n, t, k) \/ DeleteInMap(n, t, k)
                \/ CreateMission(n, t, k) \/ SetMissionTask(n, t, k) \/ UpdateTaskStatus(n, t, k)
                \/ UpdateMission(n, t, k) \/ AddRover(n, t, k) \/ UpdateRover(n, t, k)
      \/ \E n \in Node : ResetDeltas(n) \/ \E k \in Key : RemoveRover(n, k)
      \/ \E n \in Node, m \in Mail : SendTo(n, m)
      \/ \E n \in Node, m \in Place : MergeFrom(n, m) \/ ApplyDeltaFrom(n, m)
  BY <1>1, Zenon DEF ReplicasNext
<1>9. CASE \E n \in Node, t \in 1..MaxUpdates :
           \/ UpdateOwn(n, t) \/ CompleteObjective(n, t) \/ SetPhase(n, t) \/ CancelMission(n, t)
           \/ SetLeader(n, t)
           \/ \E way \in {"pos", "neg"} : Count(n, t, way)
           \/ \E m \in Place : ApplyMapDeltaFrom(n, m, t)
  BY <1>2, <1>9, Zenon DEF Stays
<1>10. CASE \E n \in Node, t \in 1..MaxUpdates, k \in Key :
           \/ Add(n, t, k) \/ SetInMap(n, t, k) \/ DeleteInMap(n, t, k)
           \/ CreateMission(n, t, k) \/ SetMissionTask(n, t, k) \/ UpdateTaskStatus(n, t, k)
           \/ UpdateMission(n, t, k) \/ AddRover(n, t, k) \/ UpdateRover(n, t, k)
  BY <1>3, <1>4, <1>10, Zenon DEF Stays
<1>11. CASE \E n \in Node : ResetDeltas(n) \/ \E k \in Key : RemoveRover(n, k)
  BY <1>5, <1>6, <1>11, Zenon DEF Stays
<1>12. CASE \/ \E n \in Node, m \in Place : MergeFrom(n, m) \/ ApplyDeltaFrom(n, m)
            \/ \E n \in Node, m \in Mail : SendTo(n, m)
  BY <1>7, <1>12, Places, Zenon DEF Stays
<1>13. QED
  BY <1>8, <1>9, <1>10, <1>11, <1>12, Zenon

\* A merge, a message and a reset of the deltas are such steps too.
LEMMA MergeIsAt ==
  ASSUME Based, NEW n \in Node, NEW m \in Place
  PROVE  /\ SendTo(n, m) => OnlyAt(m, replica[n], known[n])
         /\ MergeFrom(n, m) => OnlyAt(n, Merged(replica[n], OnWire(replica[m])), known[n] \cup known[m])
         /\ ResetDeltas(n) => OnlyAt(n, OnWire(replica[n]), known[n])
<1>1. ASSUME MergeFrom(n, m)
      PROVE  OnlyAt(n, Merged(replica[n], OnWire(replica[m])), known[n] \cup known[m])
  <2>1. /\ replica' = [replica EXCEPT ![n] = Merged(replica[n], OnWire(replica[m]))]
        /\ known' = [known EXCEPT ![n] = known[n] \cup known[m]]
    BY <1>1 DEF MergeFrom
  <2>2. QED
    BY <2>1, StepIsAt
<1>2. ASSUME ResetDeltas(n) PROVE OnlyAt(n, OnWire(replica[n]), known[n])
  <2>1. /\ replica' = [replica EXCEPT ![n] = OnWire(replica[n])] /\ known' = known
    BY <1>2 DEF ResetDeltas
  <2>2. QED
    BY <2>1 DEF Based, OnlyAt
<1>3. SendTo(n, m) => OnlyAt(m, replica[n], known[n])
  BY StepIsAt DEF SendTo
<1>4. QED
  BY <1>1, <1>2, <1>3

\* A new element, a message and a merge of sets,
LEMMA SetsStep ==
  ASSUME Based, kind = "gset", SetsHold(replica, known), ReplicasNext
  PROVE  SetsHold(replica', known')
<1>1. ASSUME NEW n \in Place, NEW x, NEW W, OnlyAt(n, x, W),
             x \in [all : SUBSET Key, fresh : SUBSET Key], x.fresh \subseteq x.all,
             x.all = {u[3] : u \in W}
      PROVE  SetsHold(replica', known')
  BY <1>1 DEF SetsHold, OnlyAt
<1>2. \A n \in Place : /\ replica[n] \in [all : SUBSET Key, fresh : SUBSET Key]
                       /\ replica[n].fresh \subseteq replica[n].all
                       /\ replica[n].all = {u[3] : u \in known[n]}
  BY DEF SetsHold
<1>3. ASSUME NEW n \in Node, NEW t \in 1..MaxUpdates, NEW e \in Key, Add(n, t, e)
      PROVE  SetsHold(replica', known')
  <2> DEFINE x == AddElement(replica[n], e)
  <2>1. e \notin replica[n].all /\ Sets(n, t, e, x)
    BY <1>3 DEF Add, Changes
  <2>2. x = [all |-> replica[n].all \cup {e}, fresh |-> replica[n].fresh \cup {e}]
    BY <2>1 DEF AddElement
  <2> HIDE DEF x
  <2>3. OnlyAt(n, x, known[n] \cup {<<t, n, e>>})
    BY <2>1, ChangeIsAt
  <2>4. /\ x \in [all : SUBSET Key, fresh : SUBSET Key] /\ x.fresh \subseteq x.all
        /\ x.all = replica[n].all \cup {e}
    BY <1>2, <2>2
  <2>5. x.all = {u[3] : u \in known[n] \cup {<<t, n, e>>}}
    <3>1. \A K, c : {u[3] : u \in K \cup {c}} = {u[3] : u \in K} \cup {c[3]}
      OBVIOUS
    <3>2. <<t, n, e>>[3] = e
      OBVIOUS
    <3>3. {u[3] : u \in known[n] \cup {<<t, n, e>>}} = {u[3] : u \in known[n]} \cup {e}
      BY <3>1, <3>2
    <3>4. QED
      BY <1>2, <2>4, <3>3
  <2>6. QED
    BY <1>1, <2>3, <2>4, <2>5
<1>4. ASSUME NEW n \in Node, NEW m \in Place, MergeFrom(n, m) PROVE SetsHold(replica', known')
  <2> DEFINE x == MergeSet(replica[n], WireSet(replica[m]))
  <2>1. Merged(replica[n], OnWire(replica[m])) = x
    BY DEF Merged, OnWire
  <2>2. OnlyAt(n, x, known[n] \cup known[m])
    BY <1>4, <2>1, MergeIsAt
  <2>3. WireSet(replica[m]).all = replica[m].all
    BY <1>2 DEF WireSet
  <2>4. x = [all |-> replica[n].all \cup replica[m].all, fresh |-> {}]
    BY <2>3 DEF MergeSet
  <2> HIDE DEF x
  <2>5. /\ x \in [all : SUBSET Key, fresh : SUBSET Key] /\ x.fresh \subseteq x.all
        /\ x.all = replica[n].all \cup replica[m].all
    BY <1>2, <2>4
  <2>6. x.all = {u[3] : u \in known[n] \cup known[m]}
    BY <1>2, <2>5
  <2>7. QED
    BY <1>1, <2>2, <2>5, <2>6
<1>5. ASSUME NEW n \in Node, NEW m \in Place, ApplyDeltaFrom(n, m) PROVE SetsHold(replica', known')
  <2> DEFINE x == ApplySetDelta(replica[n], replica[m])
             W == known[n] \cup {u \in known[m] : u[3] \in replica[m].fresh}
  <2>1. replica' = [replica EXCEPT ![n] = x] /\ known' = [known EXCEPT ![n] = W]
    BY <1>5 DEF ApplyDeltaFrom
  <2>2. OnlyAt(n, x, W)
    <3> HIDE DEF x, W
    <3>1. QED
      BY <2>1, StepIsAt
  <2>3. /\ x.all = replica[n].all \cup replica[m].fresh /\ x.fresh = replica[n].fresh
        /\ x \in [all : SUBSET Key, fresh : SUBSET Key]
    BY <1>2 DEF ApplySetDelta
  <2>4. x.all = {u[3] : u \in W}
    <3> HIDE DEF x
    <3>1. replica[m].fresh \subseteq {u[3] : u \in known[m]}
      BY <1>2
    <3>2. {u[3] : u \in W} = {u[3] : u \in known[n]} \cup replica[m].fresh
      BY <3>1
    <3>3. QED
      BY <1>2, <2>3, <3>2
  <2> HIDE DEF x, W
  <2>5. x.fresh \subseteq x.all
    BY <1>2, <2>3
  <2>6. QED
    BY <1>1, <2>2, <2>3, <2>4, <2>5
<1>6. ASSUME NEW n \in Node, ResetDeltas(n) PROVE SetsHold(replica', known')
  <2> DEFINE x == WireSet(replica[n])
  <2>1. OnWire(replica[n]) = x
    BY DEF OnWire
  <2>2. OnlyAt(n, x, known[n])
    BY <1>6, <2>1, MergeIsAt
  <2>3. x \in [all : SUBSET Key, fresh : SUBSET Key] /\ x.all = replica[n].all /\ x.fresh = {}
    BY <1>2 DEF WireSet
  <2> HIDE DEF x
  <2>4. QED
    BY <1>1, <1>2, <2>2, <2>3
<1>7. ASSUME NEW n \in Node, NEW m \in Mail, SendTo(n, m) PROVE SetsHold(replica', known')
  <2>1. m \in Place /\ n \in Place
    BY Places
  <2>2. OnlyAt(m, replica[n], known[n])
    BY <1>7, <2>1, MergeIsAt
  <2>3. QED
    BY <1>1, <1>2, <2>1, <2>2
<1>8. QED
  BY <1>3, <1>4, <1>5, <1>6, <1>7, StepsAre

\* What each has heard of that went way w,
ByWay(kn, w) == [x \in Place |-> ToIt(kn[x], w)]

\* ... and one counter of two, by the changes that went its way.
WayHolds(C, kn, w) == CountersHold(C, ByWay(kn, w))

\* A change to ln by which n has heard of V too, of which U went way w,
HeardTo(ln, kn, n, w, U) ==
  /\ \A x \in Place \ {n} : ln[x] = kn[x]
  /\ ToIt(ln[n], w) = ToIt(kn[n], w) \cup U

\* ... as far as one way is concerned.
LEMMA WayHeard ==
  ASSUME NEW kn, NEW ln, NEW n \in Node, NEW w, NEW U, HeardTo(ln, kn, n, w, U)
  PROVE  /\ \A x \in Place \ {n} : ByWay(ln, w)[x] = ByWay(kn, w)[x]
         /\ ByWay(ln, w)[n] = ByWay(kn, w)[n] \cup U
BY DEF HeardTo, ByWay

\* A counter holds by what another has,
LEMMA WayJoins ==
  ASSUME NEW C, NEW kn, NEW w, NEW n \in Node, NEW m \in Place, NEW O, WayHolds(C, kn, w),
         NEW D, NEW ln, TakesCounts(D, C, n, m, O),
         HeardTo(ln, kn, n, w, MadeAt(ToIt(kn[m], w), O))
  PROVE  WayHolds(D, ln, w)
<1>1. ByWay(kn, w)[m] = ToIt(kn[m], w)
  BY DEF ByWay
<1>2. HearsOf(ByWay(ln, w), ByWay(kn, w), n, m, O)
  <2> DEFINE U == MadeAt(ToIt(kn[m], w), O)
  <2>1. HeardTo(ln, kn, n, w, U)
    OBVIOUS
  <2>2. U = MadeAt(ByWay(kn, w)[m], O)
    BY <1>1
  <2> HIDE DEF U
  <2> HIDE Places
  <2>3. /\ \A x \in Place \ {n} : ByWay(ln, w)[x] = ByWay(kn, w)[x]
        /\ ByWay(ln, w)[n] = ByWay(kn, w)[n] \cup U
    BY <2>1, WayHeard, SMTT(30)
  <2>4. QED
    BY <2>2, <2>3 DEF HearsOf
<1>3. QED
  BY <1>2, CountersJoin DEF WayHolds

\* ... by an increment of its own node,
LEMMA WayGrows ==
  ASSUME NEW C, NEW kn, NEW w, NEW n \in Node, NEW t, Unheard(t, kn), WayHolds(C, kn, w),
         NEW D, NEW ln, \A x \in Place \ {n} : D[x] = C[x], D[n] = G!Increment(C[n], 1),
         HeardTo(ln, kn, n, w, {<<t, n, w>>})
  PROVE  WayHolds(D, ln, w)
<1> DEFINE u == <<t, n, w>>
           K == ByWay(kn, w)
           L == ByWay(ln, w)
<1>1. u[2] = n /\ \A x \in Place : u \notin K[x]
  BY UnheardIsNew DEF ToIt, ByWay
<1>2. (\A x \in Place \ {n} : L[x] = K[x]) /\ L[n] = K[n] \cup {u}
  <2> HIDE Places
  <2>1. QED
    BY WayHeard
<1>3. CountersHold(C, K) /\ OwnCounter(C[n], n)
  BY DEF WayHolds, CountersHold, AllCounters
<1>4. /\ OwnCounter(D[n], n) /\ D[n].counts[n] >= C[n].counts[n]
      /\ \A o \in Node \ {n} : D[n].counts[o] = C[n].counts[o]
  BY <1>3, CounterIncrements
<1>5. Counted(D, C, L, K, n, u)
  <2> HIDE DEF u, K, L
  <2>1. QED
    BY <1>1, <1>2, <1>4 DEF Counted
<1>6. CountersHold(D, L)
  <2> HIDE DEF u, K, L
  <2>1. QED
    BY <1>3, <1>5, CountersGrow
<1>7. QED
  BY <1>6 DEF WayHolds

\* ... and through what is heard of the other.
LEMMA WaySame ==
  ASSUME NEW C, NEW kn, NEW w, NEW n \in Node, WayHolds(C, kn, w),
         NEW D, NEW ln, \A x \in Place : D[x] = C[x], NEW U, U = {}, HeardTo(ln, kn, n, w, U)
  PROVE  WayHolds(D, ln, w)
<1> DEFINE K == ByWay(kn, w)
           L == ByWay(ln, w)
<1>1. \A x \in Place : L[x] = K[x]
  <2>1. \A x \in Place \ {n} : L[x] = K[x]
    BY DEF HeardTo, ByWay
  <2>2. ToIt(ln[n], w) = ToIt(kn[n], w)
    BY DEF HeardTo
  <2>3. L[n] = K[n]
    BY <2>2 DEF ByWay
  <2> HIDE DEF K, L
  <2>4. QED
    BY <2>1, <2>3
<1>2. CountersHold(C, K)
  BY DEF WayHolds
<1>3. \A o \in Node : /\ [x \in Place |-> By(L[x], o)] = [x \in Place |-> By(K[x], o)]
                      /\ [x \in Place |-> D[x].counts[o]] = [x \in Place |-> C[x].counts[o]]
  BY <1>1
<1>4. CountersHold(D, L)
  <2> HIDE DEF K, L
  <2>1. AllCounters(D)
    BY <1>2 DEF CountersHold, AllCounters
  <2> HIDE Places
  <2>2. QED
    BY <1>2, <1>3, <2>1 DEF CountersHold
<1>5. QED
  BY <1>4 DEF WayHolds

\* ... and by what a node sends.
LEMMA WayCopies ==
  ASSUME NEW C, NEW kn, NEW w, NEW n \in Node, NEW p \in Mail, WayHolds(C, kn, w),
         NEW D, NEW ln, \A x \in Place \ {p} : D[x] = C[x] /\ ln[x] = kn[x],
         D[p] = C[n], ln[p] = kn[n]
  PROVE  WayHolds(D, ln, w)
<1> DEFINE K == ByWay(kn, w)
           L == ByWay(ln, w)
<1>1. CountersHold(C, K)
  BY DEF WayHolds
<1>2. (\A x \in Place \ {p} : D[x] = C[x] /\ L[x] = K[x]) /\ L[p] = K[n]
  BY Places DEF ByWay
<1> HIDE DEF K, L
<1>3. CountersHold(D, L)
  BY <1>1, <1>2, CountersCopy
<1>4. QED
  BY <1>3 DEF WayHolds, L

\* Nobody counts more of a node than itself.
LEMMA WayBehind ==
  ASSUME NEW C, NEW kn, NEW w, NEW n \in Node, NEW m \in Place, WayHolds(C, kn, w)
  PROVE  C[m].counts[n] <= C[n].counts[n]
<1> DEFINE c == [x \in Place |-> C[x].counts[n]]
           B == [x \in Place |-> By(ByWay(kn, w)[x], n)]
<1>1. Chained(c, B, n)
  BY DEF WayHolds, CountersHold
<1>2. c[n] >= c[m]
  <2> HIDE DEF c, B
  <2>1. QED
    BY <1>1 DEF Chained
<1>3. QED
  BY <1>2

\* A counter of both ways, the field of one for each place, and what is kept.
IsPn(r) == r = [pos |-> r.pos, neg |-> r.neg] /\ r.neg.node_id = r.pos.node_id
Poss(rep) == [x \in Place |-> rep[x].pos]
Negs(rep) == [x \in Place |-> rep[x].neg]

PnHolds(rep, kn) ==
  /\ \A x \in Place : IsPn(rep[x])
  /\ WayHolds(Poss(rep), kn, "pos") /\ WayHolds(Negs(rep), kn, "neg")

\* A record of two, by its fields' names.
LEMMA BothWays ==
  ASSUME NEW r, IsPn(r)
  PROVE  /\ r["pos"] = r.pos /\ r["neg"] = r.neg
         /\ \A i : [r EXCEPT !["pos"] = i] = [pos |-> i, neg |-> r.neg]
         /\ \A i : [r EXCEPT !["neg"] = i] = [pos |-> r.pos, neg |-> i]
<1> DEFINE a == r.pos
           b == r.neg
<1>1. r = [pos |-> a, neg |-> b]
  BY DEF IsPn
<1> HIDE DEF a, b
<1>2. r["pos"] = a /\ r["neg"] = b
  BY <1>1
<1>3. ASSUME NEW i PROVE [r EXCEPT !["pos"] = i] = [pos |-> i, neg |-> b]
  BY <1>1
<1>4. ASSUME NEW i PROVE [r EXCEPT !["neg"] = i] = [pos |-> a, neg |-> i]
  BY <1>1
<1>5. QED
  BY <1>2, <1>3, <1>4 DEF a, b

\* The fields, after a step at one node.
LEMMA PnAt ==
  ASSUME Based, PnHolds(replica, known), NEW n \in Place, NEW p, NEW q, q.node_id = p.node_id, NEW W,
         OnlyAt(n, [pos |-> p, neg |-> q], W)
  PROVE  /\ \A x \in Place : IsPn(replica'[x])
         /\ Poss(replica')[n] = p /\ Negs(replica')[n] = q
         /\ \A x \in Place \ {n} : /\ Poss(replica')[x] = Poss(replica)[x]
                                   /\ Negs(replica')[x] = Negs(replica)[x]
<1>1. /\ replica'[n] = [pos |-> p, neg |-> q]
      /\ \A x \in Place \ {n} : replica'[x] = replica[x]
  BY DEF OnlyAt
<1>2. replica'[n].pos = p /\ replica'[n].neg = q
  BY <1>1
<1>3. ASSUME NEW x \in Place PROVE IsPn(replica'[x])
  <2>1. CASE x = n
    BY <1>1, <1>2, <2>1 DEF IsPn
  <2>2. CASE x # n
    BY <1>1, <2>2 DEF PnHolds
  <2>3. QED
    BY <2>1, <2>2
<1>4. QED
  BY <1>1, <1>2, <1>3 DEF Poss, Negs

\* A counter whose every method keeps both.
LEMMA PnStep ==
  ASSUME Based, kind = "pncounter", PnHolds(replica, known), ReplicasNext
  PROVE  PnHolds(replica', known')
<1> DEFINE P == Poss(replica)
           N == Negs(replica)
<1>1. /\ WayHolds(P, known, "pos") /\ WayHolds(N, known, "neg")
      /\ \A x \in Node : OwnCounter(P[x], x) /\ OwnCounter(N[x], x)
      /\ \A x \in Place : /\ P[x].node_id \in Node /\ N[x].node_id = P[x].node_id /\ IsPn(replica[x])
                          /\ OwnCounter(P[x], P[x].node_id) /\ OwnCounter(N[x], P[x].node_id)
                          /\ replica[x].pos = P[x] /\ replica[x].neg = N[x]
                          /\ replica[x]["pos"] = P[x] /\ replica[x]["neg"] = N[x]
  <2>1. /\ WayHolds(P, known, "pos") /\ WayHolds(N, known, "neg")
        /\ \A x \in Place : IsPn(replica[x])
    BY DEF PnHolds
  <2>2. AllCounters(P) /\ AllCounters(N)
    <3> HIDE DEF P, N
    <3>1. QED
      BY <2>1 DEF WayHolds, CountersHold
  <2>3. \A x \in Place : replica[x].pos = P[x] /\ replica[x].neg = N[x]
    BY DEF Poss, Negs
  <2>4. \A x \in Place : replica[x]["pos"] = replica[x].pos /\ replica[x]["neg"] = replica[x].neg
    BY <2>1, BothWays
  <2>5. \A x \in Place : N[x].node_id = P[x].node_id
    BY <2>1, <2>3 DEF IsPn
  <2> HIDE DEF P, N
  <2>6. /\ \A x \in Node : OwnCounter(P[x], x) /\ OwnCounter(N[x], x)
        /\ \A x \in Place : /\ P[x].node_id \in Node
                            /\ OwnCounter(P[x], P[x].node_id) /\ OwnCounter(N[x], P[x].node_id)
    BY <2>2, <2>5 DEF AllCounters
  <2>7. QED
    BY <2>1, <2>3, <2>4, <2>5, <2>6
<1> DEFINE P2 == Poss(replica')
           N2 == Negs(replica')
<1>2. ASSUME NEW n \in Place, NEW p, NEW q, q.node_id = p.node_id, NEW W,
             OnlyAt(n, [pos |-> p, neg |-> q], W)
      PROVE  /\ \A x \in Place : IsPn(replica'[x])
             /\ P2[n] = p /\ N2[n] = q
             /\ \A x \in Place \ {n} : P2[x] = P[x] /\ N2[x] = N[x]
  BY <1>2, PnAt
<1>3. ASSUME \A x \in Place : IsPn(replica'[x]), WayHolds(P2, known', "pos"), WayHolds(N2, known', "neg")
      PROVE  PnHolds(replica', known')
  BY <1>3 DEF PnHolds
<1>4. ASSUME NEW n \in Node, NEW x, NEW V, OnlyAt(n, x, known[n] \cup V), NEW w, NEW U, ToIt(V, w) = U
      PROVE  HeardTo(known', known, n, w, U)
  <2>1. known'[n] = known[n] \cup V /\ \A y \in Place \ {n} : known'[y] = known[y]
    BY <1>4 DEF OnlyAt
  <2>2. ToIt(known[n] \cup V, w) = ToIt(known[n], w) \cup ToIt(V, w)
    BY StampsJoin
  <2>3. QED
    BY <1>4, <2>1, <2>2 DEF HeardTo
<1> HIDE DEF P, N, P2, N2
<1>5. ASSUME NEW n \in Node, NEW t \in 1..MaxUpdates, NEW way \in {"pos", "neg"}, Count(n, t, way)
      PROVE  PnHolds(replica', known')
  <2>1. Sets(n, t, way, [replica[n] EXCEPT ![way] = G!Increment(replica[n][way], 1)])
    BY <1>5 DEF Count, Changes
  <2>2. CASE way = "pos"
    <3> DEFINE p == G!Increment(P[n], 1)
    <3>1. [replica[n] EXCEPT ![way] = G!Increment(replica[n][way], 1)] = [pos |-> p, neg |-> N[n]]
      <4>1. replica[n][way] = P[n]
        BY <1>1, <2>2
      <4>2. [replica[n] EXCEPT !["pos"] = p] = [pos |-> p, neg |-> replica[n].neg]
        BY <1>1, BothWays
      <4>3. QED
        BY <1>1, <2>2, <4>1, <4>2
    <3>2. /\ OnlyAt(n, [pos |-> p, neg |-> N[n]], known[n] \cup {<<t, n, "pos">>})
          /\ Unheard(t, known)
      BY <2>1, <2>2, <3>1, ChangeIsAt
    <3>9. N[n].node_id = p.node_id
      BY <1>1 DEF G!Increment
    <3>3. /\ \A x \in Place : IsPn(replica'[x])
          /\ P2[n] = p /\ \A x \in Place : N2[x] = N[x]
          /\ \A x \in Place \ {n} : P2[x] = P[x]
      <4> HIDE DEF p
      <4>1. QED
        BY <1>2, <3>2, <3>9
    <3> DEFINE V == {<<t, n, "pos">>}
    <3>4. ToIt(V, "pos") = V /\ ToIt(V, "neg") = {}
      BY StampOfOne
    <3>5. HeardTo(known', known, n, "pos", V) /\ HeardTo(known', known, n, "neg", {})
      <4>1. OnlyAt(n, replica'[n], known[n] \cup V)
        BY <3>2 DEF OnlyAt
      <4> HIDE DEF V
      <4>2. QED
        BY <1>4, <3>4, <4>1
    <3>6. WayHolds(P2, known', "pos")
      BY <1>1, <3>2, <3>3, <3>5, WayGrows
    <3>7. WayHolds(N2, known', "neg")
      BY <1>1, <3>3, <3>5, WaySame
    <3>8. QED
      BY <1>3, <3>3, <3>6, <3>7
  <2>3. CASE way = "neg"
    <3> DEFINE q == G!Increment(N[n], 1)
    <3>1. [replica[n] EXCEPT ![way] = G!Increment(replica[n][way], 1)] = [pos |-> P[n], neg |-> q]
      <4>1. replica[n][way] = N[n]
        BY <1>1, <2>3
      <4>2. [replica[n] EXCEPT !["neg"] = q] = [pos |-> replica[n].pos, neg |-> q]
        BY <1>1, BothWays
      <4>3. QED
        BY <1>1, <2>3, <4>1, <4>2
    <3>2. /\ OnlyAt(n, [pos |-> P[n], neg |-> q], known[n] \cup {<<t, n, "neg">>})
          /\ Unheard(t, known)
      BY <2>1, <2>3, <3>1, ChangeIsAt
    <3>9. q.node_id = P[n].node_id
      BY <1>1 DEF G!Increment
    <3>3. /\ \A x \in Place : IsPn(replica'[x])
          /\ N2[n] = q /\ \A x \in Place : P2[x] = P[x]
          /\ \A x \in Place \ {n} : N2[x] = N[x]
      <4> HIDE DEF q
      <4>1. QED
        BY <1>2, <3>2, <3>9
    <3> DEFINE V == {<<t, n, "neg">>}
    <3>4. ToIt(V, "neg") = V /\ ToIt(V, "pos") = {}
      BY StampOfOne
    <3>5. HeardTo(known', known, n, "neg", V) /\ HeardTo(known', known, n, "pos", {})
      <4>1. OnlyAt(n, replica'[n], known[n] \cup V)
        BY <3>2 DEF OnlyAt
      <4> HIDE DEF V
      <4>2. QED
        BY <1>4, <3>4, <4>1
    <3>6. WayHolds(N2, known', "neg")
      BY <1>1, <3>2, <3>3, <3>5, WayGrows
    <3>7. WayHolds(P2, known', "pos")
      BY <1>1, <3>3, <3>5, WaySame
    <3>8. QED
      BY <1>3, <3>3, <3>6, <3>7
  <2>4. QED
    BY <2>2, <2>3
<1>6. ASSUME NEW n \in Node, NEW m \in Place, NEW p, NEW q, NEW V, NEW O, NEW Q,
             OnlyAt(n, [pos |-> p, neg |-> q], known[n] \cup V), q.node_id = p.node_id,
             ToIt(V, "pos") = MadeAt(ToIt(known[m], "pos"), O),
             ToIt(V, "neg") = MadeAt(ToIt(known[m], "neg"), Q),
             P2[n] = p => TakesCounts(P2, P, n, m, O), N2[n] = q => TakesCounts(N2, N, n, m, Q)
      PROVE  PnHolds(replica', known')
  <2>1. /\ \A x \in Place : IsPn(replica'[x])
        /\ P2[n] = p /\ N2[n] = q
    BY <1>2, <1>6
  <2>2. HeardTo(known', known, n, "pos", MadeAt(ToIt(known[m], "pos"), O))
    BY <1>4, <1>6
  <2>3. HeardTo(known', known, n, "neg", MadeAt(ToIt(known[m], "neg"), Q))
    BY <1>4, <1>6
  <2>4. WayHolds(P2, known', "pos")
    BY <1>1, <1>6, <2>1, <2>2, WayJoins
  <2>5. WayHolds(N2, known', "neg")
    BY <1>1, <1>6, <2>1, <2>3, WayJoins
  <2>6. QED
    BY <1>3, <2>1, <2>4, <2>5
<1>7. ASSUME NEW n \in Node, NEW m \in Place, MergeFrom(n, m) PROVE PnHolds(replica', known')
  <2> DEFINE p == G!Merge(P[n], G!ResetDelta(P[m]))
             q == G!Merge(N[n], G!ResetDelta(N[m]))
  <2>1. Merged(replica[n], OnWire(replica[m])) = [pos |-> p, neg |-> q]
    <3>1. Merged(replica[n], OnWire(replica[m])) = MergePn(replica[n], WirePn(replica[m]))
      BY DEF Merged, OnWire
    <3>2. WirePn(replica[m]) = [pos |-> G!ResetDelta(P[m]), neg |-> G!ResetDelta(N[m])]
      BY <1>1 DEF WirePn
    <3>3. QED
      BY <1>1, <3>1, <3>2 DEF MergePn
  <2>2. OwnCounter(p, n) /\ \A o \in Node : p.counts[o] = G!MaxOf(P[n].counts[o], P[m].counts[o])
    <3>1. P[m].node_id \in Node /\ OwnCounter(P[n], n) /\ OwnCounter(P[m], P[m].node_id)
      BY <1>1
    <3>2. IsMerge(p, P[n], P[m], n)
      BY <3>1, CounterMerges
    <3>3. QED
      BY <3>2 DEF IsMerge
  <2>3. OwnCounter(q, n) /\ \A o \in Node : q.counts[o] = G!MaxOf(N[n].counts[o], N[m].counts[o])
    <3>1. P[m].node_id \in Node /\ OwnCounter(N[n], n) /\ OwnCounter(N[m], P[m].node_id)
      BY <1>1
    <3>2. IsMerge(q, N[n], N[m], n)
      BY <3>1, CounterMerges
    <3>3. QED
      BY <3>2 DEF IsMerge
  <2> HIDE DEF p, q
  <2>4. OnlyAt(n, [pos |-> p, neg |-> q], known[n] \cup known[m])
    BY <1>7, <2>1, MergeIsAt
  <2>10. q.node_id = p.node_id
    BY <2>2, <2>3 DEF OwnCounter
  <2>5. \A x \in Place \ {n} : P2[x] = P[x] /\ N2[x] = N[x]
    BY <1>2, <2>4, <2>10
  <2>6. \A w : ToIt(known[m], w) = MadeAt(ToIt(known[m], w), Node)
    <3>1. \A u \in known[m] : u[2] \in Node
      BY DEF Based, ChangeType
    <3>2. QED
      BY <3>1 DEF ToIt, MadeAt
  <2>7. P2[n] = p => TakesCounts(P2, P, n, m, Node)
    BY <2>2, <2>5 DEF TakesCounts
  <2>8. N2[n] = q => TakesCounts(N2, N, n, m, Node)
    BY <2>3, <2>5 DEF TakesCounts
  <2> DEFINE V == known[m]
  <2>11. /\ ToIt(V, "pos") = MadeAt(ToIt(known[m], "pos"), Node)
         /\ ToIt(V, "neg") = MadeAt(ToIt(known[m], "neg"), Node)
         /\ OnlyAt(n, [pos |-> p, neg |-> q], known[n] \cup V)
    BY <2>4, <2>6
  <2> HIDE DEF V
  <2>9. QED
    BY <1>6, <2>7, <2>8, <2>10, <2>11
<1>8. ASSUME NEW n \in Node, NEW m \in Place, ApplyDeltaFrom(n, m) PROVE PnHolds(replica', known')
  <2> DEFINE a == P[m].node_id
  <2>0. /\ a \in Node /\ OwnCounter(P[m], a) /\ OwnCounter(N[m], a)
        /\ P[m].counts[n] <= P[n].counts[n] /\ N[m].counts[n] <= N[n].counts[n]
    BY <1>1, WayBehind
  <2>12. replica[m].pos.node_id = a
    BY <1>1
  <2> DEFINE p == G!ApplyDelta(P[n], G!DeltaOf(P[m]))
             q == G!ApplyDelta(N[n], G!DeltaOf(N[m]))
             W == {u \in known[m] : u[2] = a /\ replica[m][u[3]].delta # 0}
             O == IF P[m].delta # 0 THEN {a} ELSE {}
             Q == IF N[m].delta # 0 THEN {a} ELSE {}
  <2>1. replica' = [replica EXCEPT ![n] = ApplyPnDelta(replica[n], replica[m])]
        /\ known' = [known EXCEPT ![n] = known[n] \cup W]
    BY <1>8, <2>12 DEF ApplyDeltaFrom
  <2> HIDE DEF a
  <2>2. ApplyPnDelta(replica[n], replica[m]) = [pos |-> p, neg |-> q]
    BY <1>1 DEF ApplyPnDelta
  <2>3. /\ OwnCounter(p, n) /\ \A o \in Node \ {a} : p.counts[o] = P[n].counts[o]
        /\ p.counts[a] = IF P[m].delta # 0 THEN G!MaxOf(P[n].counts[a], P[m].counts[a]) ELSE P[n].counts[a]
    <3>1. OwnCounter(P[n], n) /\ OwnCounter(P[m], a)
      BY <1>1, <2>0
    <3>2. HasDelta(p, P[n], P[m], n, a)
      BY <2>0, <3>1, CounterTakesDelta
    <3>3. QED
      BY <3>2 DEF HasDelta
  <2>4. /\ OwnCounter(q, n) /\ \A o \in Node \ {a} : q.counts[o] = N[n].counts[o]
        /\ q.counts[a] = IF N[m].delta # 0 THEN G!MaxOf(N[n].counts[a], N[m].counts[a]) ELSE N[n].counts[a]
    <3>1. OwnCounter(N[n], n) /\ OwnCounter(N[m], a)
      BY <1>1, <2>0
    <3>2. HasDelta(q, N[n], N[m], n, a)
      BY <2>0, <3>1, CounterTakesDelta
    <3>3. QED
      BY <3>2 DEF HasDelta
  <2>5. ToIt(W, "pos") = MadeAt(ToIt(known[m], "pos"), O)
    <3>1. replica[m]["pos"] = P[m]
      BY <1>1
    <3>2. \A u \in known[m] : u[3] = "pos" => replica[m][u[3]] = P[m]
      BY <3>1
    <3>3. QED
      BY <3>2 DEF ToIt, MadeAt
  <2>6. ToIt(W, "neg") = MadeAt(ToIt(known[m], "neg"), Q)
    <3>1. replica[m]["neg"] = N[m]
      BY <1>1
    <3>2. \A u \in known[m] : u[3] = "neg" => replica[m][u[3]] = N[m]
      BY <3>1
    <3>3. QED
      BY <3>2 DEF ToIt, MadeAt
  <2> HIDE DEF p, q, W
  <2>7. OnlyAt(n, [pos |-> p, neg |-> q], known[n] \cup W)
    BY <2>1, <2>2, StepIsAt
  <2>13. q.node_id = p.node_id
    BY <2>3, <2>4 DEF OwnCounter
  <2>8. \A x \in Place \ {n} : P2[x] = P[x] /\ N2[x] = N[x]
    BY <1>2, <2>7, <2>13
  <2>9. P2[n] = p => TakesCounts(P2, P, n, m, O)
    BY <2>0, <2>3, <2>8 DEF TakesCounts
  <2>10. N2[n] = q => TakesCounts(N2, N, n, m, Q)
    BY <2>0, <2>4, <2>8 DEF TakesCounts
  <2> HIDE DEF O, Q
  <2>11. QED
    BY <1>6, <2>5, <2>6, <2>7, <2>9, <2>10, <2>13
<1>9. ASSUME NEW n \in Node, ResetDeltas(n) PROVE PnHolds(replica', known')
  <2> DEFINE p == G!ResetDelta(P[n])
             q == G!ResetDelta(N[n])
  <2>1. OnWire(replica[n]) = [pos |-> p, neg |-> q]
    BY <1>1 DEF OnWire, WirePn
  <2>2. OwnCounter(p, n) /\ p.counts = P[n].counts
    <3>1. OwnCounter(P[n], n)
      BY <1>1
    <3>2. QED
      BY <3>1, CounterResets
  <2>3. OwnCounter(q, n) /\ q.counts = N[n].counts
    <3>1. OwnCounter(N[n], n)
      BY <1>1
    <3>2. QED
      BY <3>1, CounterResets
  <2> HIDE DEF p, q
  <2>4. OnlyAt(n, [pos |-> p, neg |-> q], known[n])
    BY <1>9, <2>1, MergeIsAt
  <2>11. q.node_id = p.node_id
    BY <2>2, <2>3 DEF OwnCounter
  <2>5. known[n] = known[n] \cup {}
    OBVIOUS
  <2>6. \A w : ToIt({}, w) = MadeAt(ToIt(known[n], w), {})
    BY DEF ToIt, MadeAt
  <2>7. \A x \in Place \ {n} : P2[x] = P[x] /\ N2[x] = N[x]
    BY <1>2, <2>4, <2>11
  <2>8. P2[n] = p => TakesCounts(P2, P, n, n, {})
    BY <2>2, <2>7 DEF TakesCounts
  <2>9. N2[n] = q => TakesCounts(N2, N, n, n, {})
    BY <2>3, <2>7 DEF TakesCounts
  <2>10. QED
    BY <1>6, <2>4, <2>5, <2>6, <2>8, <2>9, <2>11
<1>10. ASSUME NEW n \in Node, NEW m \in Mail, SendTo(n, m) PROVE PnHolds(replica', known')
  <2>1. m \in Place /\ n \in Place
    BY Places
  <2>2. replica[n] = [pos |-> P[n], neg |-> N[n]] /\ N[n].node_id = P[n].node_id
    BY <1>1, <2>1 DEF IsPn
  <2>3. OnlyAt(m, [pos |-> P[n], neg |-> N[n]], known[n])
    BY <1>10, <2>1, <2>2, MergeIsAt
  <2>4. /\ \A x \in Place : IsPn(replica'[x])
        /\ P2[m] = P[n] /\ N2[m] = N[n]
        /\ \A x \in Place \ {m} : P2[x] = P[x] /\ N2[x] = N[x]
    BY <1>2, <2>1, <2>2, <2>3
  <2>5. known'[m] = known[n] /\ \A x \in Place \ {m} : known'[x] = known[x]
    BY <2>3 DEF OnlyAt
  <2>6. WayHolds(P2, known', "pos")
    BY <1>1, <2>4, <2>5, WayCopies
  <2>7. WayHolds(N2, known', "neg")
    BY <1>1, <2>4, <2>5, WayCopies
  <2>8. QED
    BY <1>3, <2>4, <2>6, <2>7
<1>11. QED
  BY <1>5, <1>7, <1>8, <1>9, <1>10, StepsAre
-----------------------------------------------------------------------------
(* Sheets from one step to the next *)

\* What a step may make of a sheet, z, and of the times heard of, N, at place n: a write
\* of a new time, the merge with another's, what another tells, what shows the same, or
\* a new start.
SheetGoes(S, T, z, N, n) ==
  \/ \E t \in Nat \ {0} :
       (\A x \in Place : t \notin T[x]) /\ SheetMoves(S[n], z, t) /\ N = T[n] \cup {t}
  \/ \E m \in Place : \E w : SheetShows(w, S[m]) /\ SheetJoins(z, S[n], w) /\ N = T[n] \cup T[m]
  \/ \E m \in Place : z = S[m] /\ N = T[m]
  \/ SheetShows(z, S[n]) /\ N = T[n]
  \/ /\ z \in RoverType /\ Of(z.status) = Blank /\ \A k \in Key : Spot(z.tasks, k) = Blank
     /\ N \subseteq Nat \ {0} /\ \A x \in Place : T[x] \cap N = {}

\* A step at one place that makes one of these of a sheet keeps all in order.
LEMMA SheetsGo ==
  ASSUME NEW S, NEW T, SheetsHold(S, T), NEW n \in Place,
         NEW Z, NEW U, \A x \in Place \ {n} : Z[x] = S[x] /\ U[x] = T[x],
         SheetGoes(S, T, Z[n], U[n], n)
  PROVE  SheetsHold(Z, U)
<1>1. CASE \E t \in Nat \ {0} : /\ \A x \in Place : t \notin T[x]
                                /\ SheetMoves(S[n], Z[n], t) /\ U[n] = T[n] \cup {t}
  BY <1>1, SheetsMove
<1>2. CASE \E m \in Place : \E w : /\ SheetShows(w, S[m]) /\ SheetJoins(Z[n], S[n], w)
                                   /\ U[n] = T[n] \cup T[m]
  BY <1>2, SheetsJoin
<1>3. CASE SheetShows(Z[n], S[n]) /\ U[n] = T[n]
  <2>1. ASSUME NEW x \in Place \ {n} PROVE SheetShows(Z[x], S[x])
    BY RoverShows DEF SheetsHold
  <2>2. \A x \in Place : SheetShows(Z[x], S[x]) /\ U[x] = T[x]
    BY <1>3, <2>1
  <2>3. QED
    BY <2>2, SheetsSame
<1>4. CASE /\ Z[n] \in RoverType /\ Of(Z[n].status) = Blank
           /\ \A k \in Key : Spot(Z[n].tasks, k) = Blank
           /\ U[n] \subseteq Nat \ {0} /\ \A x \in Place : T[x] \cap U[n] = {}
  <2>1. U[n] \in SUBSET (Nat \ {0})
    BY <1>4
  <2>2. QED
    BY <1>4, <2>1, SheetsStart
<1>5. CASE \E m \in Place : Z[n] = S[m] /\ U[n] = T[m]
  BY <1>5, SheetsCopy
<1>6. QED
  BY <1>1, <1>2, <1>3, <1>4, <1>5 DEF SheetGoes

\* What was not heard of is nowhere.
LEMMA SheetsNew ==
  ASSUME NEW S, NEW T, SheetsHold(S, T), NEW t \in Nat \ {0}, NEW n \in Node, t \notin T[n]
  PROVE  S[n].status.ts # t /\ \A k \in Key : Spot(S[n].tasks, k).ts # t
<1>1. Of(S[n].status).ts # t
  <2> DEFINE h == [x \in Place |-> Of(S[x].status)]
  <2>1. InOrder(h, T)
    BY DEF SheetsHold
  <2>2. h[n].ts # t
    <3> HIDE DEF h
    <3>1. QED
      BY <2>1 DEF InOrder
  <2>3. QED
    BY <2>2
<1>2. ASSUME NEW k \in Key PROVE Spot(S[n].tasks, k).ts # t
  <2> DEFINE h == [x \in Place |-> Spot(S[x].tasks, k)]
  <2>1. InOrder(h, T)
    BY DEF SheetsHold
  <2>2. h[n].ts # t
    <3> HIDE DEF h
    <3>1. QED
      BY <2>1 DEF InOrder
  <2>3. QED
    BY <2>2
<1>3. QED
  BY <1>1, <1>2 DEF Of

\* What a write of time t leaves of a sheet: the same, or its status, a task, or both anew.
Written(z, s, t) ==
  \E v \in Content : \E a \in {s.status, SetReg(s.status, v, t)} :
    \E m \in {s.tasks} \cup {SetKey(s.tasks, k, v, t) : k \in Key} : z = [status |-> a, tasks |-> m]

\* Writes of a new time are such steps,
LEMMA SheetWrites ==
  ASSUME NEW S, NEW T, SheetsHold(S, T), NEW n \in Node,
         NEW t \in Nat \ {0}, \A x \in Place : t \notin T[x],
         NEW z, Written(z, S[n], t), NEW N, N = T[n] \cup {t}
  PROVE  SheetGoes(S, T, z, N, n)
<1> DEFINE s == S[n]
<1>1. s \in RoverType /\ s.status.ts # t /\ \A k \in Key : Spot(s.tasks, k).ts # t
  BY SheetsNew DEF SheetsHold
<1>2. Written(z, s, t)
  OBVIOUS
<1>3. SheetMoves(s, z, t) => SheetGoes(S, T, z, N, n)
  BY DEF SheetGoes
<1> HIDE DEF s
<1>4. s = [status |-> s.status, tasks |-> s.tasks]
  BY <1>1 DEF RoverType
<1>5. PICK v \in Content : \E a \in {s.status, SetReg(s.status, v, t)} :
        \E m \in {s.tasks} \cup {SetKey(s.tasks, k, v, t) : k \in Key} : z = [status |-> a, tasks |-> m]
  BY <1>2 DEF Written
<1>6. /\ SheetMoves(s, s, t)
      /\ SheetMoves(s, [status |-> SetReg(s.status, v, t), tasks |-> s.tasks], t)
      /\ \A k \in Key :
           /\ SheetMoves(s, [status |-> s.status, tasks |-> SetKey(s.tasks, k, v, t)], t)
           /\ SheetMoves(s, [status |-> SetReg(s.status, v, t), tasks |-> SetKey(s.tasks, k, v, t)], t)
  BY <1>1, RoverMoves
<1>7. SheetMoves(s, z, t)
  BY <1>4, <1>5, <1>6
<1>8. QED
  BY <1>3, <1>7

\* ... and so are a merge with what came over the wire, and a reset of the deltas.
LEMMA SheetMerges ==
  ASSUME NEW S, NEW T, SheetsHold(S, T), NEW n \in Node, NEW m \in Place
  PROVE  /\ SheetGoes(S, T, MergeRover(S[n], WireRover(S[m])), T[n] \cup T[m], n)
         /\ SheetGoes(S, T, WireRover(S[n]), T[n], n) /\ SheetGoes(S, T, S[n], T[n], n)
<1>1. S[n] \in RoverType /\ S[m] \in RoverType
  BY DEF SheetsHold
<1>2. /\ SheetShows(WireRover(S[m]), S[m]) /\ SheetShows(WireRover(S[n]), S[n])
      /\ SheetShows(S[n], S[n])
  BY <1>1, RoverShows
<1>3. SheetJoins(MergeRover(S[n], WireRover(S[m])), S[n], WireRover(S[m]))
  BY <1>1, <1>2, RoverJoins DEF SheetShows
<1>4. QED
  BY <1>2, <1>3 DEF SheetGoes

\* Times heard of with others.
Times(kn) == [x \in Place |-> Stamps(kn[x])]

\* A change of a new time is that in the times, too.
LEMMA TimesMove ==
  ASSUME NEW n \in Node, NEW t, Unheard(t, known), NEW x, NEW w,
         OnlyAt(n, x, known[n] \cup {<<t, n, w>>})
  PROVE  /\ \A y \in Place : t \notin Times(known)[y]
         /\ \A y \in Place \ {n} : Times(known')[y] = Times(known)[y]
         /\ Times(known')[n] = Times(known)[n] \cup {t}
<1>1. /\ known'[n] = known[n] \cup {<<t, n, w>>}
      /\ \A y \in Place \ {n} : known'[y] = known[y]
  BY DEF OnlyAt
<1>2. Stamps(known[n] \cup {<<t, n, w>>}) = Stamps(known[n]) \cup {t}
  <2> DEFINE V == {<<t, n, w>>}
  <2>1. Stamps(V) = {t}
    BY StampOfOne
  <2>2. Stamps(known[n] \cup V) = Stamps(known[n]) \cup Stamps(V)
    <3> HIDE DEF V
    <3>1. QED
      BY StampsJoin
  <2>3. QED
    BY <2>1, <2>2
<1>3. \A y \in Place : t \notin Stamps(known[y])
  BY UnheardIsNew
<1>4. QED
  BY <1>1, <1>2, <1>3 DEF Times

\* A merge is that, too, and what tells of another or of nothing.
LEMMA TimesJoin ==
  ASSUME NEW n \in Place, NEW x
  PROVE  /\ \A m \in Place : OnlyAt(n, x, known[n] \cup known[m]) =>
              /\ \A y \in Place \ {n} : Times(known')[y] = Times(known)[y]
              /\ Times(known')[n] = Times(known)[n] \cup Times(known)[m]
         /\ \A m \in Place : OnlyAt(n, x, known[m]) =>
              /\ \A y \in Place \ {n} : Times(known')[y] = Times(known)[y]
              /\ Times(known')[n] = Times(known)[m]
<1>1. ASSUME NEW m \in Place, OnlyAt(n, x, known[n] \cup known[m])
      PROVE  /\ \A y \in Place \ {n} : Times(known')[y] = Times(known)[y]
             /\ Times(known')[n] = Times(known)[n] \cup Times(known)[m]
  <2>1. /\ known'[n] = known[n] \cup known[m]
        /\ \A y \in Place \ {n} : known'[y] = known[y]
    BY <1>1 DEF OnlyAt
  <2>2. Stamps(known[n] \cup known[m]) = Stamps(known[n]) \cup Stamps(known[m])
    BY StampsJoin
  <2>3. QED
    BY <2>1, <2>2 DEF Times
<1>2. ASSUME NEW m \in Place, OnlyAt(n, x, known[m])
      PROVE  /\ \A y \in Place \ {n} : Times(known')[y] = Times(known)[y]
             /\ Times(known')[n] = Times(known)[m]
  BY <1>2 DEF OnlyAt, Times
<1>3. QED
  BY <1>1, <1>2
-----------------------------------------------------------------------------
(* Rovers *)

RoversHold(rep, kn) == SheetsHold(rep, Times(kn))

\* What update_position() and the others make of a rover.
LEMMA RoverUpdated ==
  ASSUME Based, NEW s \in RoverType, NEW t \in Content, NEW x \in Updated(s, t)
  PROVE  Written(x, s, t)
<1>1. s = [status |-> s.status, tasks |-> s.tasks]
  BY DEF RoverType
<1> DEFINE a == s.status
           m == s.tasks
<1>2. s = [status |-> a, tasks |-> m] /\ s.status = a /\ s.tasks = m
  BY <1>1
<1>3. \/ x = [s EXCEPT !.status = SetReg(a, t, t)]
      \/ \E k \in Key : x = [s EXCEPT !.tasks = SetKey(m, k, t, t)]
  BY ReplicasAssumption DEF Updated, Based
<1> HIDE DEF a, m
<1>4. \A b : [s EXCEPT !.status = b] = [status |-> b, tasks |-> m]
  BY <1>2
<1>5. \A b : [s EXCEPT !.tasks = b] = [status |-> a, tasks |-> b]
  BY <1>2
<1>6. \/ x = [status |-> SetReg(a, t, t), tasks |-> m]
      \/ \E k \in Key : x = [status |-> a, tasks |-> SetKey(m, k, t, t)]
  BY <1>3, <1>4, <1>5
<1>7. QED
  BY <1>2, <1>6 DEF Written

\* Rovers stay in order by all their methods.
LEMMA RoversStep ==
  ASSUME Based, kind = "rover", RoversHold(replica, known), ReplicasNext
  PROVE  RoversHold(replica', known')
<1> DEFINE T == Times(known)
           U == Times(known')
<1>1. SheetsHold(replica, T) /\ \A x \in Place : replica[x] \in RoverType
  BY DEF RoversHold, SheetsHold
<1>2. ASSUME NEW n \in Place, NEW x, NEW W, OnlyAt(n, x, W), \A y \in Place \ {n} : U[y] = T[y],
             SheetGoes(replica, T, x, U[n], n)
      PROVE  RoversHold(replica', known')
  <2>1. replica'[n] = x /\ \A y \in Place \ {n} : replica'[y] = replica[y]
    BY <1>2 DEF OnlyAt
  <2> HIDE DEF T, U
  <2>2. SheetsHold(replica', U)
    BY <1>1, <1>2, <2>1, SheetsGo
  <2>3. QED
    BY <2>2 DEF U, RoversHold
<1>3. ASSUME NEW n \in Node, NEW t \in 1..MaxUpdates, UpdateOwn(n, t)
      PROVE  RoversHold(replica', known')
  <2>1. PICK x \in Updated(replica[n], t) : Sets(n, t, "all", x)
    BY <1>3 DEF UpdateOwn, Changes
  <2>2. /\ OnlyAt(n, x, known[n] \cup {<<t, n, "all">>}) /\ Unheard(t, known)
        /\ t \in Nat \ {0} /\ t \in Content
    BY <2>1, ChangeIsAt
  <2>3. /\ \A y \in Place : t \notin T[y]
        /\ \A y \in Place \ {n} : U[y] = T[y]
        /\ U[n] = T[n] \cup {t}
    BY <2>2, TimesMove
  <2>4. Written(x, replica[n], t)
    BY <1>1, <2>1, <2>2, RoverUpdated
  <2> HIDE DEF T, U
  <2>5. SheetGoes(replica, T, x, U[n], n)
    BY <1>1, <2>2, <2>3, <2>4, SheetWrites
  <2>6. QED
    BY <1>2, <2>2, <2>3, <2>5
<1>4. ASSUME NEW n \in Node, NEW m \in Place, MergeFrom(n, m) PROVE RoversHold(replica', known')
  <2>1. Merged(replica[n], OnWire(replica[m])) = MergeRover(replica[n], WireRover(replica[m]))
    BY DEF Merged, OnWire
  <2>2. OnlyAt(n, MergeRover(replica[n], WireRover(replica[m])), known[n] \cup known[m])
    BY <1>4, <2>1, MergeIsAt
  <2>3. (\A y \in Place \ {n} : U[y] = T[y]) /\ U[n] = T[n] \cup T[m]
    BY <2>2, TimesJoin
  <2> HIDE DEF T, U
  <2>4. SheetGoes(replica, T, MergeRover(replica[n], WireRover(replica[m])), U[n], n)
    BY <1>1, <2>3, SheetMerges
  <2>5. QED
    BY <1>2, <2>2, <2>3, <2>4
<1>5. ASSUME NEW n \in Node, NEW x, OnlyAt(n, x, known[n]), x \in {replica[n], WireRover(replica[n])}
      PROVE  RoversHold(replica', known')
  <2>1. (\A y \in Place \ {n} : U[y] = T[y]) /\ U[n] = T[n]
    BY <1>5, TimesJoin
  <2> HIDE DEF T, U
  <2>2. SheetGoes(replica, T, x, U[n], n)
    BY <1>1, <1>5, <2>1, SheetMerges
  <2>3. QED
    BY <1>2, <1>5, <2>1, <2>2
<1>6. ASSUME NEW n \in Node, NEW m \in Place, ApplyDeltaFrom(n, m) PROVE RoversHold(replica', known')
  <2>1. replica' = [replica EXCEPT ![n] = replica[n]] /\ known' = known
    BY <1>6 DEF ApplyDeltaFrom, ApplyRoverDelta
  <2>2. OnlyAt(n, replica[n], known[n])
    BY <2>1 DEF OnlyAt, Based
  <2>3. QED
    BY <1>5, <2>2
<1>7. ASSUME NEW n \in Node, ResetDeltas(n) PROVE RoversHold(replica', known')
  <2>1. OnWire(replica[n]) = WireRover(replica[n])
    BY DEF OnWire
  <2>2. OnlyAt(n, WireRover(replica[n]), known[n])
    BY <1>7, <2>1, MergeIsAt
  <2>3. QED
    BY <1>5, <2>2
<1>8. ASSUME NEW n \in Node, NEW m \in Mail, SendTo(n, m) PROVE RoversHold(replica', known')
  <2>1. m \in Place /\ n \in Place
    BY Places
  <2>2. OnlyAt(m, replica[n], known[n])
    BY <1>8, <2>1, MergeIsAt
  <2>3. (\A y \in Place \ {m} : U[y] = T[y]) /\ U[m] = T[n]
    BY <2>1, <2>2, TimesJoin
  <2> HIDE DEF T, U
  <2>4. SheetGoes(replica, T, replica[n], U[m], m)
    BY <2>1, <2>3 DEF SheetGoes
  <2>5. QED
    BY <1>2, <2>1, <2>2, <2>3, <2>4
<1>9. QED
  BY <1>3, <1>4, <1>6, <1>7, <1>8, StepsAre
-----------------------------------------------------------------------------
(* Maps, as the tasks of a sheet whose status nobody writes *)

MapSheet(n, m) == [status |-> NewReg(n, None), tasks |-> m]
MapSheets(rep) == [x \in Place |-> MapSheet(Someone, rep[x])]
MapsHold(rep, kn) == SheetsHold(MapSheets(rep), Times(kn))

\* The methods of a map, on such a sheet.
LEMMA MapSheetGoes ==
  ASSUME NEW n \in Node, NEW a \in MapType
  PROVE  /\ MapSheet(n, a) \in RoverType /\ Of(MapSheet(n, a).status) = Blank
         /\ MapSheet(n, a).tasks = a /\ MapSheet(n, a).status = NewReg(n, None)
<1>1. NewReg(n, None) \in LwwRegType /\ Of(NewReg(n, None)) = Blank
  BY RegisterShows
<1>2. QED
  BY <1>1 DEF MapSheet, RoverType

\* ... a delta, written at the receiver's time,
LEMMA MapSheetTakesDelta ==
  ASSUME NEW n \in Node, NEW a \in MapType, NEW t \in Nat \ {0}, \A j \in Key : Spot(a, j).ts # t,
         NEW b \in MapType
  PROVE  SheetMoves(MapSheet(n, a), MapSheet(n, ApplyMapDelta(a, MapDelta(b), t)), t)
<1> DEFINE z == ApplyMapDelta(a, MapDelta(b), t)
<1>1. b.dirty \subseteq Key /\ MapDelta(b) \in [b.dirty -> Content]
  <2>1. b.data \in [DOMAIN b.data -> WrittenReg] /\ DOMAIN b.data \subseteq Key /\ b.dirty \subseteq DOMAIN b.data
    BY MapForm
  <2>2. \A k \in b.dirty : b.data[k].value \in Content
    BY <2>1 DEF WrittenReg, LwwRegType
  <2>3. QED
    BY <2>1, <2>2 DEF MapDelta
<1>2. z \in MapType /\ \A j \in Key : RegMoves(Spot(a, j), Spot(z, j), t)
  BY <1>1, MapMovesByDelta
<1> HIDE DEF z
<1>3. /\ MapSheet(n, z) \in RoverType /\ MapSheet(n, z).tasks = z
      /\ MapSheet(n, a).tasks = a /\ MapSheet(n, z).status = MapSheet(n, a).status
  BY <1>2, MapSheetGoes
<1>4. QED
  BY <1>2, <1>3 DEF SheetMoves, RegMoves, z

\* ... and a merge with what came over the wire, and a reset.
LEMMA MapSheetJoins ==
  ASSUME NEW n \in Node, NEW a \in MapType, NEW m \in Node, NEW b \in MapType
  PROVE  /\ SheetShows(MapSheet(m, WireMap(b)), MapSheet(m, b))
         /\ SheetJoins(MapSheet(n, MergeMap(a, WireMap(b))), MapSheet(n, a), MapSheet(m, WireMap(b)))
<1> DEFINE w == WireMap(b)
           z == MergeMap(a, w)
<1>1. w \in MapType /\ \A k \in Key : Spot(w, k) = Spot(b, k)
  BY MapShows
<1> HIDE DEF w
<1>2. z \in MapType /\ \A k \in Key : RegJoins(Spot(z, k), Spot(a, k), Spot(w, k))
  BY <1>1, MapJoins
<1> HIDE DEF z
<1>3. /\ \A x \in MapType : /\ MapSheet(n, x) \in RoverType /\ Of(MapSheet(n, x).status) = Blank
                            /\ MapSheet(n, x).tasks = x
      /\ \A x \in MapType : /\ MapSheet(m, x) \in RoverType /\ Of(MapSheet(m, x).status) = Blank
                            /\ MapSheet(m, x).tasks = x
  BY MapSheetGoes
<1>4. RegJoins(Blank, Blank, Blank)
  BY DEF RegJoins, Blank
<1>5. SheetShows(MapSheet(m, w), MapSheet(m, b))
  BY <1>1, <1>3 DEF SheetShows
<1>6. SheetJoins(MapSheet(n, z), MapSheet(n, a), MapSheet(m, w))
  BY <1>1, <1>2, <1>3, <1>4 DEF SheetJoins
<1>7. QED
  BY <1>5, <1>6 DEF w, z

\* Maps stay in order by all their methods.
LEMMA MapsStep ==
  ASSUME Based, kind = "lwwmap", MapsHold(replica, known), ReplicasNext
  PROVE  MapsHold(replica', known')
<1> DEFINE T == Times(known)
           U == Times(known')
           S == MapSheets(replica)
           Z == MapSheets(replica')
<1>1. /\ SheetsHold(S, T)
      /\ \A x \in Place : S[x] = MapSheet(Someone, replica[x]) /\ replica[x] \in MapType
  <2>1. SheetsHold(S, T) /\ \A x \in Place : S[x] = MapSheet(Someone, replica[x])
    BY DEF MapsHold, MapSheets
  <2>2. \A x \in Place : S[x].tasks \in MapType
    <3> HIDE DEF S, T
    <3>1. QED
      BY <2>1 DEF SheetsHold, RoverType
  <2>3. \A x \in Place : S[x].tasks = replica[x]
    BY DEF MapSheets, MapSheet
  <2>4. QED
    BY <2>1, <2>2, <2>3
<1>2. ASSUME NEW n \in Place, NEW x, NEW W, OnlyAt(n, x, W), \A y \in Place \ {n} : U[y] = T[y],
             SheetGoes(S, T, MapSheet(Someone, x), U[n], n)
      PROVE  MapsHold(replica', known')
  <2>1. Z[n] = MapSheet(Someone, x) /\ \A y \in Place \ {n} : Z[y] = S[y]
    BY <1>2 DEF OnlyAt, MapSheets
  <2> HIDE DEF T, U, S, Z
  <2>2. SheetsHold(Z, U)
    BY <1>1, <1>2, <2>1, SheetsGo
  <2>3. QED
    BY <2>2 DEF Z, U, MapsHold
<1>3. ASSUME NEW n \in Node, NEW t \in 1..MaxUpdates, NEW w, NEW x, Sets(n, t, w, x)
      PROVE  /\ OnlyAt(n, x, known[n] \cup {<<t, n, w>>}) /\ t \in Nat \ {0} /\ t \in Content
             /\ \A y \in Place : t \notin T[y]
             /\ \A y \in Place \ {n} : U[y] = T[y]
             /\ U[n] = T[n] \cup {t}
  <2>1. /\ OnlyAt(n, x, known[n] \cup {<<t, n, w>>}) /\ Unheard(t, known)
        /\ t \in Nat \ {0} /\ t \in Content
    BY <1>3, ChangeIsAt
  <2>2. QED
    BY <2>1, TimesMove
<1> HIDE DEF T, U, S, Z
<1>4. ASSUME NEW n \in Node, NEW t \in 1..MaxUpdates, NEW k \in Key, NEW v \in Content,
             Sets(n, t, k, SetKey(replica[n], k, v, t))
      PROVE  MapsHold(replica', known')
  <2> DEFINE x == SetKey(replica[n], k, v, t)
  <2>1. /\ OnlyAt(n, x, known[n] \cup {<<t, n, k>>}) /\ t \in Nat \ {0}
        /\ \A y \in Place : t \notin T[y]
        /\ \A y \in Place \ {n} : U[y] = T[y]
        /\ U[n] = T[n] \cup {t}
    BY <1>3, <1>4
  <2>2. S[n].status = NewReg(Someone, None) /\ S[n].tasks = replica[n]
    BY <1>1, OriginIsNode, MapSheetGoes
  <2>3. MapSheet(Someone, x) = [status |-> S[n].status, tasks |-> SetKey(S[n].tasks, k, v, t)]
    BY <2>2 DEF MapSheet
  <2>4. Written(MapSheet(Someone, x), S[n], t)
    <3> HIDE DEF x
    <3>1. QED
      BY <2>3 DEF Written
  <2> HIDE DEF x
  <2>5. SheetGoes(S, T, MapSheet(Someone, x), U[n], n)
    BY <1>1, <2>1, <2>4, SheetWrites
  <2>6. QED
    BY <1>2, <2>1, <2>5
<1>5. ASSUME NEW n \in Node, NEW t \in 1..MaxUpdates, NEW k \in Key, SetInMap(n, t, k)
      PROVE  MapsHold(replica', known')
  <2>1. Sets(n, t, k, SetKey(replica[n], k, t, t))
    BY <1>5 DEF SetInMap, Changes
  <2>2. t \in Content
    BY <2>1, <1>3
  <2>3. QED
    BY <1>4, <2>1, <2>2
<1>6. ASSUME NEW n \in Node, NEW t \in 1..MaxUpdates, NEW k \in Key, DeleteInMap(n, t, k)
      PROVE  MapsHold(replica', known')
  <2>1. Sets(n, t, k, SetKey(replica[n], k, None, t))
    BY <1>6 DEF DeleteInMap, DeleteKey, Changes
  <2>2. None \in Content
    BY DEF Content
  <2>3. QED
    BY <1>4, <2>1, <2>2
<1>7. ASSUME NEW n \in Node, NEW m \in Place, NEW t \in 1..MaxUpdates, ApplyMapDeltaFrom(n, m, t)
      PROVE  MapsHold(replica', known')
  <2> DEFINE x == ApplyMapDelta(replica[n], MapDelta(replica[m]), t)
  <2>1. PICK k \in replica[m].dirty : Sets(n, t, k, x)
    BY <1>7 DEF ApplyMapDeltaFrom, Changes
  <2>2. /\ OnlyAt(n, x, known[n] \cup {<<t, n, k>>}) /\ t \in Nat \ {0}
        /\ \A y \in Place : t \notin T[y]
        /\ \A y \in Place \ {n} : U[y] = T[y]
        /\ U[n] = T[n] \cup {t}
    BY <1>3, <2>1
  <2>3. \A j \in Key : Spot(replica[n], j).ts # t
    <3>1. \A j \in Key : Spot(S[n].tasks, j).ts # t
      BY <1>1, <2>2, SheetsNew
    <3>2. S[n].tasks = replica[n]
      BY <1>1, OriginIsNode, MapSheetGoes
    <3>3. QED
      BY <3>1, <3>2
  <2>4. SheetMoves(MapSheet(Someone, replica[n]), MapSheet(Someone, x), t)
    BY <1>1, <2>2, <2>3, OriginIsNode, MapSheetTakesDelta
  <2> HIDE DEF x
  <2>5. SheetGoes(S, T, MapSheet(Someone, x), U[n], n)
    BY <1>1, <2>2, <2>4 DEF SheetGoes
  <2>6. QED
    BY <1>2, <2>2, <2>5
<1>8. ASSUME NEW n \in Node, NEW m \in Place, MergeFrom(n, m) PROVE MapsHold(replica', known')
  <2> DEFINE x == MergeMap(replica[n], WireMap(replica[m]))
             w == MapSheet(Someone, WireMap(replica[m]))
  <2>1. Merged(replica[n], OnWire(replica[m])) = x
    BY DEF Merged, OnWire
  <2>2. OnlyAt(n, x, known[n] \cup known[m])
    <3> HIDE DEF x
    <3>1. QED
      BY <1>8, <2>1, MergeIsAt
  <2>3. (\A y \in Place \ {n} : U[y] = T[y]) /\ U[n] = T[n] \cup T[m]
    BY <2>2, TimesJoin DEF T, U
  <2>4. SheetShows(w, S[m]) /\ SheetJoins(MapSheet(Someone, x), S[n], w)
    BY <1>1, OriginIsNode, MapSheetJoins
  <2> HIDE DEF x, w
  <2>5. SheetGoes(S, T, MapSheet(Someone, x), U[n], n)
    BY <2>3, <2>4 DEF SheetGoes
  <2>6. QED
    BY <1>2, <2>2, <2>3, <2>5
<1>9. ASSUME NEW n \in Node, ResetDeltas(n) PROVE MapsHold(replica', known')
  <2> DEFINE x == WireMap(replica[n])
  <2>1. OnWire(replica[n]) = x
    BY DEF OnWire
  <2>2. OnlyAt(n, x, known[n])
    <3> HIDE DEF x
    <3>1. QED
      BY <1>9, <2>1, MergeIsAt
  <2>3. (\A y \in Place \ {n} : U[y] = T[y]) /\ U[n] = T[n]
    BY <2>2, TimesJoin DEF T, U
  <2>4. SheetShows(MapSheet(Someone, x), S[n])
    BY <1>1, OriginIsNode, MapSheetJoins
  <2> HIDE DEF x
  <2>5. SheetGoes(S, T, MapSheet(Someone, x), U[n], n)
    BY <2>3, <2>4 DEF SheetGoes
  <2>6. QED
    BY <1>2, <2>2, <2>3, <2>5
<1>10. ASSUME NEW n \in Node, NEW m \in Place, ApplyDeltaFrom(n, m) PROVE FALSE
  BY <1>10 DEF ApplyDeltaFrom
<1>11. ASSUME NEW n \in Node, NEW m \in Mail, SendTo(n, m) PROVE MapsHold(replica', known')
  <2>1. m \in Place /\ n \in Place
    BY Places
  <2>2. OnlyAt(m, replica[n], known[n])
    BY <1>11, <2>1, MergeIsAt
  <2>3. (\A y \in Place \ {m} : U[y] = T[y]) /\ U[m] = T[n]
    BY <2>1, <2>2, TimesJoin DEF T, U
  <2>4. SheetGoes(S, T, MapSheet(Someone, replica[n]), U[m], m)
    BY <1>1, <2>1, <2>3 DEF SheetGoes
  <2>5. QED
    BY <1>2, <2>1, <2>2, <2>3, <2>4
<1>12. QED
  BY <1>5, <1>6, <1>7, <1>8, <1>9, <1>10, <1>11, StepsAre
-----------------------------------------------------------------------------
(* Missions: a sheet and a counter *)

IsMission(s) == s = [phase |-> s.phase, tasks |-> s.tasks, completed |-> s.completed]
MissionSheets(rep) == [x \in Place |-> [status |-> rep[x].phase, tasks |-> rep[x].tasks]]
Completed(rep) == [x \in Place |-> rep[x].completed]

MissionsHold(rep, kn) ==
  /\ \A x \in Place : IsMission(rep[x])
  /\ SheetsHold(MissionSheets(rep), Times(kn)) /\ CountersHold(Completed(rep), kn)

\* A mission with another field.
LEMMA MissionFields ==
  ASSUME NEW s, IsMission(s)
  PROVE  /\ \A p : [s EXCEPT !.phase = p] = [phase |-> p, tasks |-> s.tasks, completed |-> s.completed]
         /\ \A m : [s EXCEPT !.tasks = m] = [phase |-> s.phase, tasks |-> m, completed |-> s.completed]
         /\ \A c : [s EXCEPT !.completed = c] = [phase |-> s.phase, tasks |-> s.tasks, completed |-> c]
<1> DEFINE a == s.phase
           b == s.tasks
           d == s.completed
<1>1. s = [phase |-> a, tasks |-> b, completed |-> d]
  BY DEF IsMission
<1> HIDE DEF a, b, d
<1>2. ASSUME NEW p PROVE [s EXCEPT !.phase = p] = [phase |-> p, tasks |-> b, completed |-> d]
  BY <1>1
<1>3. ASSUME NEW m PROVE [s EXCEPT !.tasks = m] = [phase |-> a, tasks |-> m, completed |-> d]
  BY <1>1
<1>4. ASSUME NEW c PROVE [s EXCEPT !.completed = c] = [phase |-> a, tasks |-> b, completed |-> c]
  BY <1>1
<1>5. QED
  BY <1>2, <1>3, <1>4 DEF a, b, d

\* Where nothing was heard of, a sheet shows nothing and a counter has no counts.
LEMMA NothingHeard ==
  ASSUME NEW S, NEW T, SheetsHold(S, T), NEW C, NEW K, CountersHold(C, K),
         NEW n \in Node, T[n] = {}, K[n] = {}
  PROVE  /\ SheetShows(NewRover(n), S[n])
         /\ \A o \in Node : C[n].counts[o] = 0
<1>1. Of(S[n].status) = Blank
  <2> DEFINE h == [x \in Place |-> Of(S[x].status)]
  <2>1. InOrder(h, T)
    BY DEF SheetsHold
  <2>2. h[n] = Blank
    <3> HIDE DEF h
    <3>1. QED
      BY <2>1 DEF InOrder
  <2>3. QED
    BY <2>2
<1>2. ASSUME NEW k \in Key PROVE Spot(S[n].tasks, k) = Blank
  <2> DEFINE h == [x \in Place |-> Spot(S[x].tasks, k)]
  <2>1. InOrder(h, T)
    BY DEF SheetsHold
  <2>2. h[n] = Blank
    <3> HIDE DEF h
    <3>1. QED
      BY <2>1 DEF InOrder
  <2>3. QED
    BY <2>2
<1>3. SheetShows(NewRover(n), S[n])
  BY <1>1, <1>2, RoverShows DEF SheetShows
<1>4. ASSUME NEW o \in Node PROVE C[n].counts[o] = 0
  <2> DEFINE c == [x \in Place |-> C[x].counts[o]]
             B == [x \in Place |-> By(K[x], o)]
  <2>1. Chained(c, B, o) /\ B[n] = {}
    BY DEF CountersHold, By
  <2>2. c[n] = 0
    <3> HIDE DEF c, B
    <3>1. QED
      BY <2>1 DEF Chained
  <2>3. QED
    BY <2>2
<1>5. QED
  BY <1>3, <1>4

\* What was changed in place is gone when the task is set, if the set is not dropped.
LEMMA InPlaceIsSet ==
  ASSUME NEW m \in MapType, NEW k \in DOMAIN m.data, NEW v, NEW t, Accepts(m.data[k], t)
  PROVE  SetKey(InPlace(m, k, v), k, v, t) = SetKey(m, k, v, t)
<1> DEFINE r == m.data[k]
           q == [r EXCEPT !.value = v]
           f == [m.data EXCEPT ![k] = q]
           y == [node |-> m.node, data |-> f, dirty |-> m.dirty]
<1>1. /\ m = [node |-> m.node, data |-> m.data, dirty |-> m.dirty]
      /\ m.data \in [DOMAIN m.data -> WrittenReg] /\ r \in LwwRegType
  BY MapForm DEF MapType, WrittenReg
<1>2. InPlace(m, k, v) = y
  <2>1. InPlace(m, k, v) = [m EXCEPT !.data = f]
    BY DEF InPlace
  <2> HIDE DEF f
  <2> DEFINE x == [node |-> m.node, data |-> m.data, dirty |-> m.dirty]
  <2>2. [x EXCEPT !.data = f] = y
    OBVIOUS
  <2>3. QED
    BY <1>1, <2>1, <2>2
<1>3. SetReg(q, v, t) = SetReg(r, v, t)
  <2>1. /\ r = [node_id |-> r.node_id, value |-> r.value, ts |-> r.ts, delta_node |-> r.delta_node,
                delta_value |-> r.delta_value, delta_ts |-> r.delta_ts]
        /\ q = [node_id |-> r.node_id, value |-> v, ts |-> r.ts, delta_node |-> r.delta_node,
                delta_value |-> r.delta_value, delta_ts |-> r.delta_ts]
    BY <1>1 DEF LwwRegType
  <2>2. Accepts(q, t)
    BY <2>1 DEF Accepts
  <2>3. Accepts(r, t)
    OBVIOUS
  <2> HIDE DEF r, q
  <2> DEFINE Other(c) == [node_id |-> r.node_id, value |-> v, ts |-> t, delta_node |-> r.node_id,
                          delta_value |-> v, delta_ts |-> t]
  <2>4. SetReg(r, v, t) = Other(r)
    BY <2>1, <2>3 DEF SetReg
  <2>5. SetReg(q, v, t) = Other(r)
    BY <2>1, <2>2 DEF SetReg
  <2>6. QED
    BY <2>4, <2>5
<1>4. /\ f[k] = q /\ DOMAIN f = DOMAIN m.data
      /\ \A j \in DOMAIN m.data \ {k} : f[j] = m.data[j]
  BY <1>1
<1>5. Put(f, k, SetReg(q, v, t)) = Put(m.data, k, SetReg(r, v, t))
  <2> HIDE DEF f, q, r
  <2>1. QED
    BY <1>3, <1>4 DEF Put
<1>6. RegisterAt(y, k) = q /\ RegisterAt(m, k) = r
  <2>1. y.data = f /\ k \in DOMAIN f
    BY <1>4
  <2> HIDE DEF y, f, q
  <2>2. QED
    BY <1>4, <2>1 DEF RegisterAt
<1>7. /\ SetKey(y, k, v, t) = [node |-> m.node, data |-> Put(f, k, SetReg(q, v, t)), dirty |-> m.dirty \cup {k}]
      /\ SetKey(m, k, v, t) = [node |-> m.node, data |-> Put(m.data, k, SetReg(r, v, t)), dirty |-> m.dirty \cup {k}]
  <2>1. ASSUME NEW a, NEW b, NEW c, NEW w, NEW z, z = [node |-> a, data |-> b, dirty |-> c],
               RegisterAt(z, k) = w
        PROVE  SetKey(z, k, v, t) = [node |-> a, data |-> Put(b, k, SetReg(w, v, t)), dirty |-> c \cup {k}]
    <3> DEFINE g == Put(b, k, SetReg(w, v, t))
    <3>1. z.data = b /\ z.dirty = c
      BY <2>1
    <3>2. SetKey(z, k, v, t) = [[z EXCEPT !.data = g] EXCEPT !.dirty = c \cup {k}]
      BY <2>1, <3>1 DEF SetKey
    <3> HIDE DEF g
    <3>3. [z EXCEPT !.data = g] = [node |-> a, data |-> g, dirty |-> c]
      BY <2>1
    <3> DEFINE x == [node |-> a, data |-> g, dirty |-> c]
    <3>4. \A e : [x EXCEPT !.dirty = e] = [node |-> a, data |-> g, dirty |-> e]
      OBVIOUS
    <3>5. [z EXCEPT !.data = g] = x
      BY <3>3
    <3> HIDE DEF x
    <3>6. QED
      BY <3>2, <3>4, <3>5 DEF g
  <2> HIDE DEF f, q, r
  <2>2. y = [node |-> m.node, data |-> f, dirty |-> m.dirty]
    OBVIOUS
  <2> HIDE DEF y
  <2>3. QED
    BY <1>1, <1>6, <2>1, <2>2
<1> HIDE DEF y, f, q, r
<1>8. QED
  BY <1>2, <1>5, <1>7

\* Missions stay in order by all their methods, but for a write that is dropped after
\* its task was changed in place.
LEMMA MissionsStep ==
  ASSUME Based, kind = "mission", MissionsHold(replica, known), ReplicasNext, ~ bent'
  PROVE  MissionsHold(replica', known')
<1> DEFINE T == Times(known)
           U == Times(known')
           S == MissionSheets(replica)
           Z == MissionSheets(replica')
           C == Completed(replica)
           D == Completed(replica')
           Made(p, m, c) == [phase |-> p, tasks |-> m, completed |-> c]
           Sheet(p, m) == [status |-> p, tasks |-> m]
<1>1. /\ SheetsHold(S, T) /\ CountersHold(C, known)
      /\ \A x \in Node : OwnCounter(C[x], x)
      /\ \A x \in Place : /\ IsMission(replica[x])
                          /\ C[x].node_id \in Node /\ OwnCounter(C[x], C[x].node_id)
                          /\ S[x] = Sheet(replica[x].phase, replica[x].tasks)
                          /\ C[x] = replica[x].completed
                          /\ \A o \in Node : C[x].counts[o] \in Nat
  <2>1. /\ SheetsHold(S, T) /\ CountersHold(C, known)
        /\ \A x \in Place : /\ IsMission(replica[x])
                            /\ S[x] = Sheet(replica[x].phase, replica[x].tasks)
                            /\ C[x] = replica[x].completed
    BY DEF MissionsHold, MissionSheets, Completed
  <2>2. /\ \A x \in Place : C[x].node_id \in Node /\ OwnCounter(C[x], C[x].node_id)
        /\ \A x \in Node : OwnCounter(C[x], x)
    <3> HIDE DEF C
    <3>1. QED
      BY <2>1 DEF CountersHold, AllCounters
  <2>3. \A x \in Place : \A o \in Node : C[x].counts[o] \in Nat
    BY <2>2, CounterParts
  <2>4. QED
    BY <2>1, <2>2, <2>3
<1>2. ASSUME NEW n \in Place, NEW p, NEW m, NEW c, NEW W, OnlyAt(n, Made(p, m, c), W)
      PROVE  /\ \A x \in Place : IsMission(replica'[x])
             /\ Z[n] = Sheet(p, m) /\ D[n] = c
             /\ \A x \in Place \ {n} : Z[x] = S[x] /\ D[x] = C[x] /\ known'[x] = known[x]
             /\ known'[n] = W
  <2>1. /\ replica'[n] = Made(p, m, c) /\ known'[n] = W
        /\ \A x \in Place \ {n} : replica'[x] = replica[x] /\ known'[x] = known[x]
    BY <1>2 DEF OnlyAt
  <2>2. IsMission(replica'[n])
    BY <2>1 DEF IsMission
  <2>3. \A x \in Place : IsMission(replica'[x])
    BY <1>1, <2>1, <2>2
  <2>4. QED
    BY <2>1, <2>3 DEF MissionSheets, Completed
<1>3. ASSUME \A x \in Place : IsMission(replica'[x]), SheetsHold(Z, U), CountersHold(D, known')
      PROVE  MissionsHold(replica', known')
  BY <1>3 DEF MissionsHold
<1>4. ASSUME NEW n \in Node, NEW t \in 1..MaxUpdates, NEW w, NEW x, Sets(n, t, w, x)
      PROVE  /\ OnlyAt(n, x, known[n] \cup {<<t, n, w>>}) /\ t \in Nat \ {0} /\ t \in Content
             /\ \A y \in Place : t \notin T[y]
             /\ \A y \in Place \ {n} : U[y] = T[y]
             /\ U[n] = T[n] \cup {t}
             /\ \A y \in Place : <<t, n, w>> \notin known[y]
  <2>1. /\ OnlyAt(n, x, known[n] \cup {<<t, n, w>>}) /\ Unheard(t, known)
        /\ t \in Nat \ {0} /\ t \in Content
    BY <1>4, ChangeIsAt
  <2>2. \A y \in Place : <<t, n, w>> \notin known[y]
    BY <2>1, UnheardIsNew
  <2>3. QED
    BY <2>1, <2>2, TimesMove
<1> HIDE DEF T, U, S, Z, C, D
<1>5. ASSUME NEW n \in Node, NEW t \in 1..MaxUpdates, NEW p, NEW m, NEW c,
             Sets(n, t, "all", Made(p, m, c)), SheetMoves(S[n], Sheet(p, m), t),
             OwnCounter(c, n), c.counts[n] >= C[n].counts[n],
             \A o \in Node \ {n} : c.counts[o] = C[n].counts[o]
      PROVE  MissionsHold(replica', known')
  <2> DEFINE x == Made(p, m, c)
             u == <<t, n, "all">>
  <2>1. /\ OnlyAt(n, x, known[n] \cup {u}) /\ t \in Nat \ {0}
        /\ \A y \in Place : t \notin T[y]
        /\ \A y \in Place \ {n} : U[y] = T[y]
        /\ U[n] = T[n] \cup {t}
        /\ \A y \in Place : u \notin known[y]
    <3>1. Sets(n, t, "all", x)
      BY <1>5
    <3> HIDE DEF x
    <3>2. QED
      BY <1>4, <3>1
  <2>2. /\ \A y \in Place : IsMission(replica'[y])
        /\ Z[n] = Sheet(p, m) /\ D[n] = c
        /\ \A y \in Place \ {n} : Z[y] = S[y] /\ D[y] = C[y] /\ known'[y] = known[y]
        /\ known'[n] = known[n] \cup {u}
    BY <1>2, <2>1
  <2>3. u[2] = n
    OBVIOUS
  <2> HIDE DEF x, u, Sheet, Made
  <2>4. SheetGoes(S, T, Z[n], U[n], n)
    BY <1>5, <2>1, <2>2 DEF SheetGoes
  <2>5. SheetsHold(Z, U)
    <3>1. \A y \in Place \ {n} : Z[y] = S[y] /\ U[y] = T[y]
      BY <2>1, <2>2
    <3>2. QED
      BY <1>1, <2>4, <3>1, SheetsGo
  <2>6. Counted(D, C, known', known, n, u)
    BY <1>5, <2>1, <2>2, <2>3 DEF Counted
  <2>7. CountersHold(D, known')
    BY <1>1, <2>6, CountersGrow
  <2>8. QED
    BY <1>3, <2>2, <2>5, <2>7
<1>6. ASSUME NEW n \in Node, NEW t \in 1..MaxUpdates, NEW w, NEW x, Sets(n, t, w, x)
      PROVE  /\ t \in Nat \ {0} /\ t \in Content
             /\ S[n].status = replica[n].phase /\ S[n].tasks = replica[n].tasks /\ S[n] \in RoverType
             /\ S[n].status.ts # t /\ \A k \in Key : Spot(S[n].tasks, k).ts # t
             /\ \A o \in Node : C[n].counts[o] \in Nat
             /\ C[n] = replica[n].completed /\ OwnCounter(C[n], n) /\ IsMission(replica[n])
  <2>1. t \in Nat \ {0} /\ t \in Content /\ t \notin T[n]
    BY <1>4, <1>6
  <2>2. S[n] = Sheet(replica[n].phase, replica[n].tasks)
    BY <1>1
  <2>3. S[n].status = replica[n].phase /\ S[n].tasks = replica[n].tasks
    BY <2>2
  <2>4. S[n].status.ts # t /\ \A k \in Key : Spot(S[n].tasks, k).ts # t
    BY <1>1, <2>1, SheetsNew
  <2>5. S[n] \in RoverType
    BY <1>1 DEF SheetsHold
  <2>6. QED
    BY <1>1, <2>1, <2>3, <2>4, <2>5
<1>7. ASSUME NEW n \in Node, NEW t \in 1..MaxUpdates,
             Sets(n, t, "all", [replica[n] EXCEPT !.phase = SetReg(replica[n].phase, t, t)])
      PROVE  MissionsHold(replica', known')
  <2> DEFINE p == SetReg(replica[n].phase, t, t)
             m == replica[n].tasks
             c == replica[n].completed
  <2>1. Sets(n, t, "all", [replica[n] EXCEPT !.phase = p])
    BY <1>7
  <2>2. [replica[n] EXCEPT !.phase = p] = Made(p, m, c)
    BY <1>1, MissionFields
  <2>3. SheetMoves(S[n], Sheet(p, m), t)
    <3>1. SheetMoves(S[n], [status |-> SetReg(S[n].status, t, t), tasks |-> S[n].tasks], t)
      BY <1>6, <2>1, RoverMoves
    <3>2. QED
      BY <1>6, <2>1, <3>1
  <2>4. OwnCounter(c, n) /\ c.counts[n] >= C[n].counts[n] /\ \A o \in Node \ {n} : c.counts[o] = C[n].counts[o]
    BY <1>6, <2>1
  <2>5. Sets(n, t, "all", Made(p, m, c))
    BY <2>1, <2>2
  <2> HIDE DEF p, m, c, Made, Sheet
  <2>6. QED
    BY <1>5, <2>3, <2>4, <2>5
<1>8. ASSUME NEW n \in Node, NEW t \in 1..MaxUpdates, NEW k \in Key,
             Sets(n, t, "all", [replica[n] EXCEPT !.tasks = SetKey(replica[n].tasks, k, t, t)])
      PROVE  MissionsHold(replica', known')
  <2> DEFINE p == replica[n].phase
             m == SetKey(replica[n].tasks, k, t, t)
             c == replica[n].completed
  <2>1. Sets(n, t, "all", [replica[n] EXCEPT !.tasks = m])
    BY <1>8
  <2>2. [replica[n] EXCEPT !.tasks = m] = Made(p, m, c)
    BY <1>1, MissionFields
  <2>3. SheetMoves(S[n], Sheet(p, m), t)
    <3>1. SheetMoves(S[n], [status |-> S[n].status, tasks |-> SetKey(S[n].tasks, k, t, t)], t)
      BY <1>6, <2>1, RoverMoves
    <3>2. QED
      BY <1>6, <2>1, <3>1
  <2>4. OwnCounter(c, n) /\ c.counts[n] >= C[n].counts[n] /\ \A o \in Node \ {n} : c.counts[o] = C[n].counts[o]
    BY <1>6, <2>1
  <2>5. Sets(n, t, "all", Made(p, m, c))
    BY <2>1, <2>2
  <2> HIDE DEF p, m, c, Made, Sheet
  <2>6. QED
    BY <1>5, <2>3, <2>4, <2>5
<1>9. ASSUME NEW n \in Node, NEW t \in 1..MaxUpdates, NEW k \in Key, UpdateMission(n, t, k)
      PROVE  MissionsHold(replica', known')
  <2> DEFINE p == SetReg(replica[n].phase, t, t)
             m == SetKey(replica[n].tasks, k, t, t)
             c == replica[n].completed
             named == [replica[n] EXCEPT !.phase = p]
             both == [named EXCEPT !.tasks = SetKey(named.tasks, k, t, t)]
  <2>1. Sets(n, t, "all", named) \/ Sets(n, t, "all", both)
    BY <1>9 DEF UpdateMission, Changes
  <2>2. both = Made(p, m, c)
    <3> DEFINE y == Made(p, replica[n].tasks, c)
    <3>1. named = y
      BY <1>1, MissionFields
    <3>2. IsMission(y) /\ y.phase = p /\ y.completed = c /\ y.tasks = replica[n].tasks
      BY DEF IsMission
    <3>3. [y EXCEPT !.tasks = m] = Made(p, m, c)
      <4> HIDE DEF y, p, m, c
      <4>1. QED
        BY <3>2, MissionFields
    <3>4. both = [y EXCEPT !.tasks = m]
      <4> HIDE DEF y, p, named
      <4>1. QED
        BY <3>1, <3>2
    <3>5. QED
      BY <3>3, <3>4
  <2>3. ASSUME Sets(n, t, "all", both) PROVE MissionsHold(replica', known')
    <3>1. SheetMoves(S[n], Sheet(p, m), t)
      <4>1. SheetMoves(S[n], [status |-> SetReg(S[n].status, t, t), tasks |-> SetKey(S[n].tasks, k, t, t)], t)
        BY <1>6, <2>3, RoverMoves
      <4>2. QED
        BY <1>6, <2>3, <4>1
    <3>2. OwnCounter(c, n) /\ c.counts[n] >= C[n].counts[n] /\ \A o \in Node \ {n} : c.counts[o] = C[n].counts[o]
      BY <1>6, <2>3
    <3>3. Sets(n, t, "all", Made(p, m, c))
      BY <2>2, <2>3
    <3> HIDE DEF p, m, c, Made, Sheet, both
    <3>4. QED
      BY <1>5, <3>1, <3>2, <3>3
  <2>4. QED
    BY <1>7, <2>1, <2>3
<1>10. ASSUME NEW n \in Node, NEW t \in 1..MaxUpdates, CompleteObjective(n, t)
       PROVE  MissionsHold(replica', known')
  <2> DEFINE p == replica[n].phase
             m == replica[n].tasks
             c == G!Increment(replica[n].completed, 1)
  <2>1. Sets(n, t, "all", [replica[n] EXCEPT !.completed = c])
    BY <1>10 DEF CompleteObjective, Changes
  <2>2. [replica[n] EXCEPT !.completed = c] = Made(p, m, c)
    BY <1>1, MissionFields
  <2>3. SheetMoves(S[n], Sheet(p, m), t)
    <3>1. SheetMoves(S[n], S[n], t)
      BY <1>6, <2>1, RoverMoves
    <3>2. S[n] = Sheet(p, m)
      BY <1>1
    <3>3. QED
      BY <3>1, <3>2
  <2>4. OwnCounter(c, n) /\ c.counts[n] >= C[n].counts[n] /\ \A o \in Node \ {n} : c.counts[o] = C[n].counts[o]
    <3>1. OwnCounter(C[n], n) /\ C[n] = replica[n].completed
      BY <1>1
    <3>2. QED
      BY <3>1, CounterIncrements
  <2>5. Sets(n, t, "all", Made(p, m, c))
    BY <2>1, <2>2
  <2> HIDE DEF p, m, c, Made, Sheet
  <2>6. QED
    BY <1>5, <2>3, <2>4, <2>5
<1>11. ASSUME NEW n \in Node, NEW t \in 1..MaxUpdates, NEW k \in Key, CreateMission(n, t, k)
       PROVE  MissionsHold(replica', known')
  <2> DEFINE p == NewReg(n, None)
             m == SetKey(NewMap(n), k, t, t)
             c == G!NewGCounter(n)
  <2>1. known[n] = {} /\ Sets(n, t, "all", Created(n, t, k))
    BY <1>11 DEF CreateMission, Changes
  <2>2. Created(n, t, k) = Made(p, m, c)
    BY DEF Created, NewMission
  <2>3. T[n] = {}
    BY <2>1 DEF T, Times, Stamps
  <2>4. SheetShows(NewRover(n), S[n]) /\ \A o \in Node : C[n].counts[o] = 0
    BY <1>1, <2>1, <2>3, NothingHeard
  <2>5. SheetMoves(S[n], Sheet(p, m), t)
    <3> DEFINE s == NewRover(n)
    <3>1. s.status = NewReg(n, None) /\ s.tasks = NewMap(n)
      BY DEF NewRover
    <3>2. s \in RoverType /\ Of(s.status) = Blank /\ \A j \in Key : Spot(s.tasks, j) = Blank
      BY RoverShows
    <3>3. t \in Nat \ {0} /\ t \in Content
      BY <1>6, <2>1
    <3>4. s.status.ts # t /\ \A j \in Key : Spot(s.tasks, j).ts # t
      BY <3>2, <3>3 DEF Of, Blank
    <3>5. SheetMoves(s, [status |-> s.status, tasks |-> SetKey(s.tasks, k, t, t)], t)
      <4> HIDE DEF s
      <4>1. QED
        BY <3>2, <3>3, <3>4, RoverMoves
    <3>6. SheetMoves(s, Sheet(p, m), t)
      BY <3>1, <3>5
    <3> HIDE DEF s, p, m, Sheet
    <3>7. QED
      BY <2>4, <3>6 DEF SheetMoves, SheetShows, s
  <2>6. OwnCounter(c, n) /\ c.counts[n] >= C[n].counts[n] /\ \A o \in Node \ {n} : c.counts[o] = C[n].counts[o]
    <3>1. OwnCounter(c, n) /\ \A o \in Node : c.counts[o] = 0
      BY CounterNew
    <3> HIDE DEF c
    <3>2. QED
      BY <2>4, <3>1
  <2>7. Sets(n, t, "all", Made(p, m, c))
    BY <2>1, <2>2
  <2> HIDE DEF p, m, c, Made, Sheet
  <2>8. QED
    BY <1>5, <2>5, <2>6, <2>7
<1>12. ASSUME NEW n \in Node, NEW m \in Place, MergeFrom(n, m) PROVE MissionsHold(replica', known')
  <2> DEFINE p == MergeReg(replica[n].phase, ResetRegDelta(replica[m].phase))
             d == MergeMap(replica[n].tasks, WireMap(replica[m].tasks))
             c == G!Merge(C[n], G!ResetDelta(C[m]))
  <2>1. Merged(replica[n], OnWire(replica[m])) = Made(p, d, c)
    <3>1. Merged(replica[n], OnWire(replica[m])) = MergeMission(replica[n], WireMission(replica[m]))
      BY DEF Merged, OnWire
    <3>2. WireMission(replica[m]) =
            Made(ResetRegDelta(replica[m].phase), WireMap(replica[m].tasks), G!ResetDelta(C[m]))
      BY <1>1 DEF WireMission
    <3> DEFINE o == WireMission(replica[m])
    <3>3. /\ o.phase = ResetRegDelta(replica[m].phase) /\ o.tasks = WireMap(replica[m].tasks)
          /\ o.completed = G!ResetDelta(C[m])
      BY <3>2
    <3> HIDE DEF o
    <3>4. MergeMission(replica[n], o) = Made(p, d, c)
      BY <1>1, <3>3 DEF MergeMission
    <3>5. QED
      BY <3>1, <3>4 DEF o
  <2>2. OnlyAt(n, Made(p, d, c), known[n] \cup known[m])
    <3> HIDE DEF p, d, c, Made
    <3>1. QED
      BY <1>12, <2>1, MergeIsAt
  <2>3. (\A y \in Place \ {n} : U[y] = T[y]) /\ U[n] = T[n] \cup T[m]
    BY <2>2, TimesJoin DEF T, U
  <2>4. Sheet(p, d) = MergeRover(S[n], WireRover(S[m]))
    <3>1. /\ S[n].status = replica[n].phase /\ S[n].tasks = replica[n].tasks
          /\ S[m].status = replica[m].phase /\ S[m].tasks = replica[m].tasks
      BY DEF S, MissionSheets
    <3>2. /\ WireRover(S[m]).status = ResetRegDelta(replica[m].phase)
          /\ WireRover(S[m]).tasks = WireMap(replica[m].tasks)
      BY <3>1 DEF WireRover
    <3>3. QED
      BY <3>1, <3>2 DEF MergeRover
  <2>5. SheetGoes(S, T, Sheet(p, d), U[n], n)
    <3> DEFINE z == Sheet(p, d)
    <3>1. z = MergeRover(S[n], WireRover(S[m])) /\ U[n] = T[n] \cup T[m]
      BY <2>3, <2>4
    <3>2. SheetGoes(S, T, MergeRover(S[n], WireRover(S[m])), T[n] \cup T[m], n)
      BY <1>1, SheetMerges
    <3> HIDE DEF z
    <3>3. SheetGoes(S, T, z, U[n], n)
      BY <3>1, <3>2
    <3>4. QED
      BY <3>3 DEF z
  <2>6. IsMerge(c, C[n], C[m], n)
    <3>1. C[m].node_id \in Node /\ OwnCounter(C[n], n) /\ OwnCounter(C[m], C[m].node_id)
      BY <1>1
    <3>2. QED
      BY <3>1, CounterMerges
  <2> HIDE DEF c
  <2>7. /\ \A x \in Place : IsMission(replica'[x])
        /\ Z[n] = Sheet(p, d) /\ D[n] = c
        /\ \A x \in Place \ {n} : Z[x] = S[x] /\ D[x] = C[x] /\ known'[x] = known[x]
        /\ known'[n] = known[n] \cup known[m]
    <3> HIDE DEF p, d
    <3>1. QED
      BY <1>2, <2>2
  <2> HIDE DEF p, d, Sheet, Made
  <2>8. SheetsHold(Z, U)
    <3>1. \A y \in Place \ {n} : Z[y] = S[y] /\ U[y] = T[y]
      BY <2>3, <2>7
    <3>2. SheetGoes(S, T, Z[n], U[n], n)
      BY <2>5, <2>7
    <3>3. QED
      BY <1>1, <3>1, <3>2, SheetsGo
  <2>9. TakesCounts(D, C, n, m, Node)
    BY <2>6, <2>7 DEF TakesCounts, IsMerge
  <2>10. MadeAt(known[m], Node) = known[m]
    BY DEF Based, ChangeType, MadeAt
  <2>11. HearsOf(known', known, n, m, Node)
    BY <2>7, <2>10 DEF HearsOf
  <2>12. CountersHold(D, known')
    BY <1>1, <2>9, <2>11, CountersJoin
  <2>13. QED
    BY <1>3, <2>7, <2>8, <2>12
<1>13. ASSUME NEW n \in Node, NEW p, NEW d, NEW c, OnlyAt(n, Made(p, d, c), known[n]),
              SheetGoes(S, T, Sheet(p, d), T[n], n), OwnCounter(c, n), c.counts = C[n].counts
       PROVE  MissionsHold(replica', known')
  <2>1. (\A y \in Place \ {n} : U[y] = T[y]) /\ U[n] = T[n]
    BY <1>13, TimesJoin DEF T, U
  <2>2. /\ \A x \in Place : IsMission(replica'[x])
        /\ Z[n] = Sheet(p, d) /\ D[n] = c
        /\ \A x \in Place \ {n} : Z[x] = S[x] /\ D[x] = C[x] /\ known'[x] = known[x]
        /\ known'[n] = known[n]
    BY <1>2, <1>13
  <2> HIDE DEF Sheet, Made
  <2>3. SheetsHold(Z, U)
    BY <1>1, <1>13, <2>1, <2>2, SheetsGo
  <2>4. TakesCounts(D, C, n, n, {})
    BY <1>13, <2>2 DEF TakesCounts
  <2>5. MadeAt(known[n], {}) = {}
    BY DEF MadeAt
  <2>6. HearsOf(known', known, n, n, {})
    BY <2>2, <2>5 DEF HearsOf
  <2>7. CountersHold(D, known')
    <3> DEFINE O == {}
    <3>1. TakesCounts(D, C, n, n, O) /\ HearsOf(known', known, n, n, O)
      BY <2>4, <2>6
    <3> HIDE DEF O
    <3>2. QED
      BY <1>1, <3>1, CountersJoin
  <2>8. QED
    BY <1>3, <2>2, <2>3, <2>7
<1>14. ASSUME NEW n \in Node, ResetDeltas(n) PROVE MissionsHold(replica', known')
  <2> DEFINE p == ResetRegDelta(replica[n].phase)
             d == WireMap(replica[n].tasks)
             c == G!ResetDelta(C[n])
  <2>1. OnWire(replica[n]) = Made(p, d, c)
    BY <1>1 DEF OnWire, WireMission
  <2>2. OnlyAt(n, Made(p, d, c), known[n])
    <3> HIDE DEF p, d, c, Made
    <3>1. QED
      BY <1>14, <2>1, MergeIsAt
  <2>3. Sheet(p, d) = WireRover(S[n])
    <3>1. S[n].status = replica[n].phase /\ S[n].tasks = replica[n].tasks
      BY DEF S, MissionSheets
    <3>2. QED
      BY <3>1 DEF WireRover
  <2>4. OwnCounter(c, n) /\ c.counts = C[n].counts
    BY <1>1, CounterResets
  <2> HIDE DEF p, d, c, Made, Sheet
  <2>5. SheetGoes(S, T, Sheet(p, d), T[n], n)
    BY <1>1, <2>3, SheetMerges
  <2>6. QED
    BY <1>13, <2>2, <2>4, <2>5
<1>15. ASSUME NEW n \in Node, NEW m \in Place, ApplyDeltaFrom(n, m) PROVE MissionsHold(replica', known')
  <2> DEFINE p == replica[n].phase
             d == replica[n].tasks
             c == C[n]
  <2>1. replica' = [replica EXCEPT ![n] = replica[n]] /\ known' = known
    BY <1>15 DEF ApplyDeltaFrom, ApplyMissionDelta
  <2>2. replica[n] = Made(p, d, c)
    BY <1>1 DEF IsMission
  <2>3. OnlyAt(n, Made(p, d, c), known[n])
    <3> HIDE DEF p, d, c, Made
    <3>1. QED
      BY <2>1, <2>2 DEF OnlyAt, Based
  <2>4. Sheet(p, d) = S[n] /\ OwnCounter(c, n)
    BY <1>1
  <2>5. c.counts = C[n].counts
    OBVIOUS
  <2> HIDE DEF p, d, c, Made, Sheet
  <2>6. SheetGoes(S, T, Sheet(p, d), T[n], n)
    BY <1>1, <2>4, SheetMerges
  <2>7. QED
    BY <1>13, <2>3, <2>4, <2>5, <2>6
<1>16. ASSUME NEW n \in Node, NEW m \in Mail, SendTo(n, m) PROVE MissionsHold(replica', known')
  <2> DEFINE p == replica[n].phase
             d == replica[n].tasks
             c == replica[n].completed
  <2>1. m \in Place /\ n \in Place
    BY Places
  <2>2. replica[n] = Made(p, d, c) /\ Sheet(p, d) = S[n] /\ c = C[n]
    BY <1>1, <2>1 DEF IsMission
  <2>3. OnlyAt(m, Made(p, d, c), known[n])
    <3> HIDE DEF p, d, c, Made
    <3>1. QED
      BY <1>16, <2>1, <2>2, MergeIsAt
  <2>4. /\ \A x \in Place : IsMission(replica'[x])
        /\ Z[m] = Sheet(p, d) /\ D[m] = c
        /\ \A x \in Place \ {m} : Z[x] = S[x] /\ D[x] = C[x] /\ known'[x] = known[x]
        /\ known'[m] = known[n]
    <3> HIDE DEF p, d, c
    <3>1. QED
      BY <1>2, <2>1, <2>3
  <2>5. (\A y \in Place \ {m} : U[y] = T[y]) /\ U[m] = T[n]
    BY <2>1, <2>3, TimesJoin DEF T, U
  <2> HIDE DEF p, d, c, Made, Sheet
  <2>6. SheetsHold(Z, U)
    BY <1>1, <2>1, <2>2, <2>4, <2>5, SheetsCopy
  <2>7. CountersHold(D, known')
    BY <1>1, <2>2, <2>4, CountersCopy
  <2>8. QED
    BY <1>3, <2>4, <2>6, <2>7
<1>17. ASSUME NEW n \in Node, NEW t \in 1..MaxUpdates, NEW k \in Key, UpdateTaskStatus(n, t, k)
       PROVE  MissionsHold(replica', known')
  <2> DEFINE a == replica[n].tasks
             m == SetKey(InPlace(a, k, t), k, t, t)
  <2>1. Sets(n, t, "all", [replica[n] EXCEPT !.tasks = m]) /\ k \in DOMAIN a.data
    BY <1>17 DEF UpdateTaskStatus
  <2>2. Accepts(a.data[k], t)
    BY <1>17 DEF UpdateTaskStatus
  <2>3. a \in MapType
    <3>1. S[n].tasks = a /\ S[n] \in RoverType
      BY <1>6, <2>1
    <3>2. QED
      BY <3>1, SheetForm
  <2>4. m = SetKey(a, k, t, t)
    BY <2>1, <2>2, <2>3, InPlaceIsSet
  <2> HIDE DEF a
  <2>5. Sets(n, t, "all", [replica[n] EXCEPT !.tasks = SetKey(a, k, t, t)])
    <3> HIDE DEF m
    <3>1. QED
      BY <2>1, <2>4
  <2>6. QED
    BY <1>8, <2>5 DEF a
<1>18. ASSUME NEW n \in Node, NEW t \in 1..MaxUpdates
       PROVE  /\ SetPhase(n, t) => MissionsHold(replica', known')
              /\ \A k \in Key : SetMissionTask(n, t, k) => MissionsHold(replica', known')
  <2>1. SetPhase(n, t) => Sets(n, t, "all", [replica[n] EXCEPT !.phase = SetReg(replica[n].phase, t, t)])
    BY DEF SetPhase, Changes
  <2>2. \A k \in Key : SetMissionTask(n, t, k) =>
          Sets(n, t, "all", [replica[n] EXCEPT !.tasks = SetKey(replica[n].tasks, k, t, t)])
    BY DEF SetMissionTask, Changes
  <2>3. QED
    BY <1>7, <1>8, <2>1, <2>2
<1>19. QED
  BY <1>9, <1>10, <1>11, <1>12, <1>14, <1>15, <1>16, <1>17, <1>18, StepsAre
-----------------------------------------------------------------------------
(* Swarms: a sheet for each rover, and one for the leader *)

IsSwarm(s) ==
  /\ s = [rovers |-> s.rovers, leader |-> s.leader] /\ s.leader \in LwwRegType
  /\ DOMAIN s.rovers \subseteq Key /\ s.rovers \in [DOMAIN s.rovers -> RoverType]

LeaderSheet(s) == [status |-> s.leader, tasks |-> NewMap(Someone)]
LeaderSheets(rep) == [x \in Place |-> LeaderSheet(rep[x])]

\* The rover r of a swarm, a new one where there is none.
RoverOf(s, r) == IF r \in DOMAIN s.rovers THEN s.rovers[r] ELSE NewRover(Someone)
RoverSheets(rep, r) == [x \in Place |-> RoverOf(rep[x], r)]

\* The times of the changes to w that each has heard of.
TimesTo(kn, w) == [x \in Place |-> Stamps(ToIt(kn[x], w))]

SwarmsHold(rep, kn) ==
  /\ \A x \in Place : IsSwarm(rep[x])
  /\ \A x \in Place : \A r \in Key : r \in DOMAIN rep[x].rovers <=> TimesTo(kn, r)[x] # {}
  /\ SheetsHold(LeaderSheets(rep), TimesTo(kn, "all"))
  /\ \A r \in Key : SheetsHold(RoverSheets(rep, r), TimesTo(kn, r))

\* A swarm of its fields, with another field, and with another rover.
LEMMA SwarmFields ==
  ASSUME NEW s, IsSwarm(s)
  PROVE  /\ \A a : [s EXCEPT !.rovers = a] = [rovers |-> a, leader |-> s.leader]
         /\ \A a : [s EXCEPT !.leader = a] = [rovers |-> s.rovers, leader |-> a]
         /\ \A r, y : [s EXCEPT !.rovers[r] = y] = [s EXCEPT !.rovers = [s.rovers EXCEPT ![r] = y]]
<1> DEFINE a == s.rovers
           b == s.leader
<1>1. s = [rovers |-> a, leader |-> b] /\ s.rovers = a
  BY DEF IsSwarm
<1> HIDE DEF a, b
<1>2. ASSUME NEW c PROVE [s EXCEPT !.rovers = c] = [rovers |-> c, leader |-> b]
  BY <1>1
<1>3. ASSUME NEW c PROVE [s EXCEPT !.leader = c] = [rovers |-> a, leader |-> c]
  BY <1>1
<1>4. ASSUME NEW r, NEW y
      PROVE  [s EXCEPT !.rovers[r] = y] = [s EXCEPT !.rovers = [s.rovers EXCEPT ![r] = y]]
  OBVIOUS
<1>5. QED
  BY <1>2, <1>3, <1>4 DEF a, b

\* Swarms are made of a table of rovers and a register.
LEMMA SwarmMade ==
  ASSUME NEW a, DOMAIN a \subseteq Key, a \in [DOMAIN a -> RoverType], NEW b \in LwwRegType,
         NEW x, x = [rovers |-> a, leader |-> b]
  PROVE  IsSwarm(x) /\ x.rovers = a /\ x.leader = b
<1>1. x.rovers = a /\ x.leader = b
  OBVIOUS
<1>2. x = [rovers |-> x.rovers, leader |-> x.leader]
  BY <1>1
<1>3. QED
  BY <1>1, <1>2 DEF IsSwarm

\* Times that come together,
LEMMA TimesToJoin ==
  ASSUME NEW K, NEW L, NEW v
  PROVE  Stamps(ToIt(K \cup L, v)) = Stamps(ToIt(K, v)) \cup Stamps(ToIt(L, v))
<1> DEFINE A == ToIt(K, v)
           B == ToIt(L, v)
<1>1. ToIt(K \cup L, v) = A \cup B
  BY StampsJoin
<1> HIDE DEF A, B
<1>2. Stamps(A \cup B) = Stamps(A) \cup Stamps(B)
  BY StampsJoin
<1>3. Stamps(ToIt(K \cup L, v)) = Stamps(A \cup B)
  BY <1>1
<1>4. QED
  BY <1>2, <1>3 DEF A, B

\* ... what a change to w adds to them, where W is K with it,
Adds(W, K, t, n, w) == W = K \cup {<<t, n, w>>}

\* they have the time of that change too if it was to v,
LEMMA TimesToGrow ==
  ASSUME NEW K, NEW t, NEW n, NEW w, NEW v, NEW W, Adds(W, K, t, n, w)
  PROVE  Stamps(ToIt(W, v)) = IF v = w THEN Stamps(ToIt(K, v)) \cup {t} ELSE Stamps(ToIt(K, v))
<1> DEFINE V == {<<t, n, w>>}
<1>0. W = K \cup V
  BY DEF Adds
<1>1. Stamps(ToIt(K \cup V, v)) = Stamps(ToIt(K, v)) \cup Stamps(ToIt(V, v))
  <2> HIDE DEF V
  <2>1. QED
    BY TimesToJoin
<1>2. CASE v = w
  <2>1. ToIt(V, v) = V /\ Stamps(V) = {t}
    BY <1>2, StampOfOne
  <2>2. QED
    BY <1>0, <1>1, <1>2, <2>1
<1>3. CASE v # w
  <2>1. ToIt(V, v) = {}
    BY <1>3, StampOfOne
  <2>2. Stamps(ToIt(V, v)) = {}
    BY <2>1 DEF Stamps
  <2>3. QED
    BY <1>0, <1>1, <1>3, <2>2
<1>4. QED
  BY <1>2, <1>3

\* ... and what is left to forget of them, where W is K without those to w.
Forgets(W, K, w) == W = {u \in K : u[3] # w}

\* only the times of the changes to others remain.
LEMMA TimesToForget ==
  ASSUME NEW K, NEW w, NEW v, NEW W, Forgets(W, K, w)
  PROVE  Stamps(ToIt(W, v)) = IF v = w THEN {} ELSE Stamps(ToIt(K, v))
BY DEF Forgets, Stamps, ToIt

\* What of a swarm's object x at n is to be looked at, with what was heard of, W.
SwarmGoes(n, x, W) ==
  /\ IsSwarm(x)
  /\ \A r \in Key : r \in DOMAIN x.rovers <=> Stamps(ToIt(W, r)) # {}
  /\ SheetGoes(LeaderSheets(replica), TimesTo(known, "all"), LeaderSheet(x), Stamps(ToIt(W, "all")), n)
  /\ \A r \in Key :
       SheetGoes(RoverSheets(replica, r), TimesTo(known, r), RoverOf(x, r), Stamps(ToIt(W, r)), n)

\* It is enough.
LEMMA SwarmsGo ==
  ASSUME SwarmsHold(replica, known), NEW n \in Place, NEW x, NEW W, OnlyAt(n, x, W), SwarmGoes(n, x, W)
  PROVE  SwarmsHold(replica', known')
<1>1. /\ replica'[n] = x /\ known'[n] = W
      /\ \A y \in Place \ {n} : replica'[y] = replica[y] /\ known'[y] = known[y]
  BY DEF OnlyAt
<1>2. \A w : /\ TimesTo(known', w)[n] = Stamps(ToIt(W, w))
             /\ \A y \in Place \ {n} : TimesTo(known', w)[y] = TimesTo(known, w)[y]
  BY <1>1 DEF TimesTo
<1>3. \A y \in Place : IsSwarm(replica'[y])
  BY <1>1 DEF SwarmsHold, SwarmGoes
<1>4. ASSUME NEW y \in Place, NEW r \in Key
      PROVE  r \in DOMAIN replica'[y].rovers <=> TimesTo(known', r)[y] # {}
  <2>1. CASE y = n
    BY <1>1, <1>2, <2>1 DEF SwarmGoes
  <2>2. CASE y # n
    BY <1>1, <1>2, <2>2 DEF SwarmsHold
  <2>3. QED
    BY <2>1, <2>2
<1>5. SheetsHold(LeaderSheets(replica'), TimesTo(known', "all"))
  <2> DEFINE S == LeaderSheets(replica)
             Z == LeaderSheets(replica')
             T == TimesTo(known, "all")
             U == TimesTo(known', "all")
  <2>1. Z[n] = LeaderSheet(x) /\ \A y \in Place \ {n} : Z[y] = S[y]
    BY <1>1 DEF LeaderSheets
  <2>2. SheetsHold(S, T)
    BY DEF SwarmsHold
  <2>3. U[n] = Stamps(ToIt(W, "all")) /\ \A y \in Place \ {n} : U[y] = T[y]
    BY <1>2
  <2>4. SheetGoes(S, T, Z[n], U[n], n)
    BY <2>1, <2>3 DEF SwarmGoes
  <2> HIDE DEF S, Z, T, U
  <2>5. \A y \in Place \ {n} : Z[y] = S[y] /\ U[y] = T[y]
    BY <2>1, <2>3
  <2>6. SheetsHold(Z, U)
    BY <2>2, <2>4, <2>5, SheetsGo
  <2>7. QED
    BY <2>6 DEF Z, U
<1>6. ASSUME NEW r \in Key PROVE SheetsHold(RoverSheets(replica', r), TimesTo(known', r))
  <2> DEFINE S == RoverSheets(replica, r)
             Z == RoverSheets(replica', r)
             T == TimesTo(known, r)
             U == TimesTo(known', r)
  <2>1. Z[n] = RoverOf(x, r) /\ \A y \in Place \ {n} : Z[y] = S[y]
    BY <1>1 DEF RoverSheets
  <2>2. SheetsHold(S, T)
    BY DEF SwarmsHold
  <2>3. U[n] = Stamps(ToIt(W, r)) /\ \A y \in Place \ {n} : U[y] = T[y]
    BY <1>2
  <2>4. SheetGoes(S, T, Z[n], U[n], n)
    BY <2>1, <2>3 DEF SwarmGoes
  <2> HIDE DEF S, Z, T, U
  <2>5. \A y \in Place \ {n} : Z[y] = S[y] /\ U[y] = T[y]
    BY <2>1, <2>3
  <2>6. SheetsHold(Z, U)
    BY <2>2, <2>4, <2>5, SheetsGo
  <2>7. QED
    BY <2>6 DEF Z, U
<1>7. QED
  BY <1>3, <1>4, <1>5, <1>6 DEF SwarmsHold

\* What is known of a swarm at n.
LEMMA SwarmHere ==
  ASSUME SwarmsHold(replica, known), NEW n \in Place
  PROVE  /\ IsSwarm(replica[n])
         /\ \A w : TimesTo(known, w)[n] = Stamps(ToIt(known[n], w))
         /\ \A r \in Key : /\ r \in DOMAIN replica[n].rovers <=> Stamps(ToIt(known[n], r)) # {}
                           /\ RoverSheets(replica, r)[n] = RoverOf(replica[n], r)
                           /\ SheetsHold(RoverSheets(replica, r), TimesTo(known, r))
                           /\ RoverOf(replica[n], r) \in RoverType
         /\ LeaderSheets(replica)[n] = LeaderSheet(replica[n])
         /\ SheetsHold(LeaderSheets(replica), TimesTo(known, "all"))
<1>1. \A w : TimesTo(known, w)[n] = Stamps(ToIt(known[n], w))
  BY DEF TimesTo
<1>2. ASSUME NEW r \in Key
      PROVE  /\ RoverSheets(replica, r)[n] = RoverOf(replica[n], r)
             /\ SheetsHold(RoverSheets(replica, r), TimesTo(known, r))
             /\ RoverOf(replica[n], r) \in RoverType
  <2>1. RoverSheets(replica, r)[n] = RoverOf(replica[n], r)
    BY DEF RoverSheets
  <2>2. SheetsHold(RoverSheets(replica, r), TimesTo(known, r))
    BY DEF SwarmsHold
  <2>3. QED
    BY <2>1, <2>2 DEF SheetsHold
<1>3. LeaderSheets(replica)[n] = LeaderSheet(replica[n])
  BY DEF LeaderSheets
<1>4. \A r \in Key : r \in DOMAIN replica[n].rovers <=> Stamps(ToIt(known[n], r)) # {}
  BY <1>1 DEF SwarmsHold
<1>5. IsSwarm(replica[n]) /\ SheetsHold(LeaderSheets(replica), TimesTo(known, "all"))
  BY DEF SwarmsHold
<1>6. QED
  BY <1>1, <1>2, <1>3, <1>4, <1>5

\* A leader that is written, merged, or comes over the wire.
LEMMA LeaderGoes ==
  ASSUME SwarmsHold(replica, known), NEW n \in Node, NEW m \in Place,
         NEW x, NEW N
  PROVE  LET S == LeaderSheets(replica)
             T == TimesTo(known, "all") IN
           /\ x.leader = replica[n].leader /\ N = T[n] => SheetGoes(S, T, LeaderSheet(x), N, n)
           /\ x.leader = ResetRegDelta(replica[n].leader) /\ N = T[n] => SheetGoes(S, T, LeaderSheet(x), N, n)
           /\ x.leader = MergeReg(replica[n].leader, ResetRegDelta(replica[m].leader)) /\ N = T[n] \cup T[m]
                => SheetGoes(S, T, LeaderSheet(x), N, n)
<1> DEFINE S == LeaderSheets(replica)
           T == TimesTo(known, "all")
           a == replica[n].leader
           b == replica[m].leader
           w == [status |-> ResetRegDelta(b), tasks |-> NewMap(Someone)]
<1>1. /\ S[n] = LeaderSheet(replica[n]) /\ S[m] = LeaderSheet(replica[m])
      /\ a \in LwwRegType /\ b \in LwwRegType
  BY SwarmHere DEF IsSwarm
<1>2. /\ S[n].status = a /\ S[n].tasks = NewMap(Someone) /\ S[m].status = b /\ S[m].tasks = NewMap(Someone)
      /\ LeaderSheet(x) = [status |-> x.leader, tasks |-> NewMap(Someone)]
      /\ w.status = ResetRegDelta(b) /\ w.tasks = NewMap(Someone)
  BY <1>1 DEF LeaderSheet
<1>3. NewMap(Someone) \in MapType /\ \A k \in Key : Spot(NewMap(Someone), k) = Blank
  BY MapShows, OriginIsNode
<1>4. RegJoins(Blank, Blank, Blank)
  BY DEF RegJoins, Blank
<1>5. \A r \in LwwRegType : ResetRegDelta(r) \in LwwRegType /\ Of(ResetRegDelta(r)) = Of(r)
  BY RegisterShows
<1>6. \A c \in LwwRegType : [status |-> c, tasks |-> NewMap(Someone)] \in RoverType
  BY <1>3 DEF RoverType
<1>7. w \in RoverType
  BY <1>1, <1>3, <1>5 DEF RoverType
<1> DEFINE z == LeaderSheet(x)
<1>8. z = [status |-> x.leader, tasks |-> NewMap(Someone)] /\ z.status = x.leader /\ z.tasks = NewMap(Someone)
  BY <1>2
<1> HIDE DEF S, T, a, b, w, z
<1>9. ASSUME x.leader = a \/ x.leader = ResetRegDelta(a), N = T[n]
      PROVE  SheetGoes(S, T, z, N, n)
  <2>1. z \in RoverType /\ Of(z.status) = Of(a)
    BY <1>1, <1>5, <1>6, <1>8, <1>9
  <2>2. SheetShows(z, S[n])
    BY <1>2, <1>8, <2>1 DEF SheetShows
  <2>3. QED
    BY <1>9, <2>2 DEF SheetGoes
<1>10. ASSUME x.leader = MergeReg(a, ResetRegDelta(b)), N = T[n] \cup T[m]
       PROVE  SheetGoes(S, T, z, N, n)
  <2>1. /\ x.leader \in LwwRegType
        /\ RegJoins(Of(x.leader), Of(a), Of(ResetRegDelta(b)))
    BY <1>1, <1>5, <1>10, RegisterJoins
  <2>2. SheetShows(w, S[m])
    BY <1>1, <1>2, <1>3, <1>5, <1>7 DEF SheetShows
  <2>3. z \in RoverType
    BY <1>6, <1>8, <2>1
  <2>4. SheetJoins(z, S[n], w)
    BY <1>2, <1>3, <1>4, <1>8, <2>1, <2>3 DEF SheetJoins
  <2>5. QED
    BY <1>10, <2>2, <2>4 DEF SheetGoes
<1>11. QED
  BY <1>9, <1>10 DEF S, T, a, b, z

\* A rover that is merged, one that is only on the other side, and one that stays.
LEMMA RoverGoes ==
  ASSUME SwarmsHold(replica, known), NEW n \in Node, NEW m \in Place, NEW r \in Key, NEW z, NEW N
  PROVE  LET S == RoverSheets(replica, r)
             T == TimesTo(known, r) IN
           /\ z \in {S[n], WireRover(S[n])} /\ N = T[n] => SheetGoes(S, T, z, N, n)
           /\ z = MergeRover(S[n], WireRover(S[m])) /\ N = T[n] \cup T[m] => SheetGoes(S, T, z, N, n)
           /\ z = WireRover(S[m]) /\ S[n] = NewRover(Someone) /\ N = T[n] \cup T[m] => SheetGoes(S, T, z, N, n)
<1> DEFINE S == RoverSheets(replica, r)
           T == TimesTo(known, r)
<1>1. SheetsHold(S, T)
  BY SwarmHere
<1> HIDE DEF S, T
<1>2. /\ SheetGoes(S, T, MergeRover(S[n], WireRover(S[m])), T[n] \cup T[m], n)
      /\ SheetGoes(S, T, WireRover(S[n]), T[n], n) /\ SheetGoes(S, T, S[n], T[n], n)
  BY <1>1, SheetMerges
<1>3. ASSUME S[n] = NewRover(Someone) PROVE SheetGoes(S, T, WireRover(S[m]), T[n] \cup T[m], n)
  <2> DEFINE w == WireRover(S[m])
  <2>1. SheetShows(w, S[m])
    BY <1>1, RoverShows DEF SheetsHold
  <2> HIDE DEF w
  <2>2. /\ w \in RoverType /\ Of(w.status).ts \in Nat
        /\ \A k \in Key : Spot(w.tasks, k).ts \in Nat
    <3>1. w \in RoverType
      BY <2>1 DEF SheetShows
    <3>2. /\ Of(w.status) \in [ts : Nat, value : Content]
          /\ \A k \in Key : Spot(w.tasks, k) \in [ts : Nat, value : Content]
      BY <3>1, SheetForm
    <3>3. QED
      BY <3>1, <3>2
  <2>3. Of(S[n].status) = Blank /\ \A k \in Key : Spot(S[n].tasks, k) = Blank
    BY <1>3, RoverShows, OriginIsNode
  <2>4. \A a : a.ts \in Nat => RegJoins(a, Blank, a)
    BY DEF RegJoins, Blank
  <2>5. SheetJoins(w, S[n], w)
    BY <2>2, <2>3, <2>4 DEF SheetJoins
  <2>6. QED
    BY <2>1, <2>5 DEF SheetGoes, w
<1>4. QED
  BY <1>2, <1>3 DEF S, T

\* Changes to a swarm at a time of its own.
LEMMA SwarmChanges ==
  ASSUME Based, SwarmsHold(replica, known), NEW n \in Node, NEW t \in 1..MaxUpdates, Unheard(t, known)
  PROVE  /\ t \in Nat \ {0} /\ t \in Content
         /\ \A w : \A y \in Place : t \notin TimesTo(known, w)[y]
<1>1. t \in Nat \ {0} /\ t \in Content
  BY ReplicasAssumption DEF Content
<1>2. \A w : \A y \in Place : t \notin TimesTo(known, w)[y]
  BY UnheardIsNew DEF TimesTo
<1>3. QED
  BY <1>1, <1>2

\* A new leader,
LEMMA SwarmLeads ==
  ASSUME Based, SwarmsHold(replica, known), NEW n \in Node, NEW t \in 1..MaxUpdates, SetLeader(n, t)
  PROVE  SwarmsHold(replica', known')
<1> DEFINE s == replica[n]
           x == [s EXCEPT !.leader = SetReg(s.leader, t, t)]
           W == known[n] \cup {<<t, n, "all">>}
           S == LeaderSheets(replica)
           T == TimesTo(known, "all")
<1>1. Sets(n, t, "all", x)
  BY DEF SetLeader, Changes
<1>2. OnlyAt(n, x, W) /\ Unheard(t, known)
  <2> HIDE DEF x
  <2>1. QED
    BY <1>1, ChangeIsAt
<1>3. IsSwarm(s)
  BY SwarmHere
<1>4. x = [rovers |-> s.rovers, leader |-> SetReg(s.leader, t, t)]
  BY <1>3, SwarmFields
<1>5. /\ t \in Nat \ {0} /\ t \in Content
      /\ \A w : \A y \in Place : t \notin TimesTo(known, w)[y]
  BY <1>2, SwarmChanges
<1>6. SheetsHold(S, T) /\ S[n] = LeaderSheet(s)
  BY SwarmHere
<1>7. S[n].status = s.leader /\ S[n].tasks = NewMap(Someone)
  BY <1>6 DEF LeaderSheet
<1>8. s.leader \in LwwRegType /\ s.leader.ts # t
  <2>1. S[n].status.ts # t
    <3> HIDE DEF S, T
    <3>1. t \notin T[n]
      BY <1>5 DEF T
    <3>2. QED
      BY <1>5, <1>6, <3>1, SheetsNew
  <2>2. QED
    BY <1>3, <1>7, <2>1 DEF IsSwarm
<1>9. SetReg(s.leader, t, t) \in LwwRegType
  BY <1>5, <1>8, RegisterMoves DEF WrittenReg
<1>10. IsSwarm(x) /\ x.rovers = s.rovers /\ x.leader = SetReg(s.leader, t, t)
  <2> HIDE DEF x, s
  <2>1. QED
    BY <1>3, <1>4, <1>9, SwarmMade DEF IsSwarm
<1>11. /\ Stamps(ToIt(W, "all")) = T[n] \cup {t}
       /\ \A r \in Key : Stamps(ToIt(W, r)) = TimesTo(known, r)[n]
  <2>1. \A r \in Key : r # "all"
    BY ReplicasAssumption
  <2>2. \A v : Stamps(ToIt(W, v)) =
                  IF v = "all" THEN Stamps(ToIt(known[n], v)) \cup {t} ELSE Stamps(ToIt(known[n], v))
    <3>1. Adds(W, known[n], t, n, "all")
      BY DEF Adds
    <3> HIDE DEF W
    <3>2. QED
      BY <3>1, TimesToGrow
  <2>3. \A v : TimesTo(known, v)[n] = Stamps(ToIt(known[n], v))
    BY SwarmHere
  <2> HIDE DEF W
  <2>4. QED
    BY <2>1, <2>2, <2>3
<1>12. SheetGoes(S, T, LeaderSheet(x), Stamps(ToIt(W, "all")), n)
  <2>1. LeaderSheet(x) = [status |-> SetReg(S[n].status, t, t), tasks |-> S[n].tasks]
    BY <1>7, <1>10 DEF LeaderSheet
  <2>2. Written(LeaderSheet(x), S[n], t)
    <3> HIDE DEF x, s, S
    <3>1. QED
      BY <1>5, <2>1 DEF Written
  <2>3. \A y \in Place : t \notin T[y]
    BY <1>5
  <2> HIDE DEF x, s, S, T, W
  <2>4. QED
    BY <1>5, <1>6, <1>11, <2>2, <2>3, SheetWrites
<1>13. ASSUME NEW r \in Key
       PROVE  /\ r \in DOMAIN x.rovers <=> Stamps(ToIt(W, r)) # {}
              /\ SheetGoes(RoverSheets(replica, r), TimesTo(known, r), RoverOf(x, r), Stamps(ToIt(W, r)), n)
  <2>1. RoverOf(x, r) = RoverSheets(replica, r)[n]
    BY <1>10, SwarmHere DEF RoverOf
  <2>2. r \in DOMAIN x.rovers <=> Stamps(ToIt(W, r)) # {}
    BY <1>10, <1>11, SwarmHere
  <2>3. SheetGoes(RoverSheets(replica, r), TimesTo(known, r), RoverOf(x, r), Stamps(ToIt(W, r)), n)
    <3> HIDE DEF x, s, S, T, W
    <3>1. QED
      BY <1>11, <2>1, RoverGoes
  <2>4. QED
    BY <2>2, <2>3
<1>14. SwarmGoes(n, x, W)
  <2> HIDE DEF x, s, W
  <2>1. QED
    BY <1>10, <1>12, <1>13 DEF SwarmGoes, S, T
<1>15. QED
  <2> HIDE DEF x, s, W
  <2>1. QED
    BY <1>2, <1>14, SwarmsGo

\* ... a rover's change,
LEMMA SwarmUpdates ==
  ASSUME Based, SwarmsHold(replica, known), NEW n \in Node, NEW t \in 1..MaxUpdates, NEW r \in Key,
         UpdateRover(n, t, r)
  PROVE  SwarmsHold(replica', known')
<1> DEFINE s == replica[n]
<1>1. PICK y \in Updated(s.rovers[r], t) : Sets(n, t, r, [s EXCEPT !.rovers[r] = y])
  BY DEF UpdateRover, Changes
<1>2. r \in DOMAIN s.rovers
  BY DEF UpdateRover
<1> DEFINE a == [s.rovers EXCEPT ![r] = y]
           x == [s EXCEPT !.rovers[r] = y]
           W == known[n] \cup {<<t, n, r>>}
           S == RoverSheets(replica, r)
           T == TimesTo(known, r)
<1>3. OnlyAt(n, x, W) /\ Unheard(t, known)
  <2>1. Sets(n, t, r, x)
    BY <1>1
  <2> HIDE DEF x
  <2>2. QED
    BY <2>1, ChangeIsAt
<1>4. IsSwarm(s)
  BY SwarmHere
<1>5. x = [rovers |-> a, leader |-> s.leader]
  <2>1. x = [s EXCEPT !.rovers = a]
    OBVIOUS
  <2> HIDE DEF x, s, a
  <2>2. QED
    BY <1>4, <2>1, SwarmFields
<1>6. /\ t \in Nat \ {0} /\ t \in Content
      /\ \A w : \A j \in Place : t \notin TimesTo(known, w)[j]
  BY <1>3, SwarmChanges
<1>7. SheetsHold(S, T) /\ S[n] = s.rovers[r] /\ S[n] \in RoverType
  BY <1>2, SwarmHere DEF RoverOf
<1>8. Written(y, S[n], t)
  BY <1>1, <1>6, <1>7, RoverUpdated
<1>9. SheetGoes(S, T, y, T[n] \cup {t}, n)
  <2>1. \A j \in Place : t \notin T[j]
    BY <1>6
  <2> HIDE DEF S, T, x, W, a, s
  <2>2. QED
    BY <1>6, <1>7, <1>8, <2>1, SheetWrites
<1>10. y \in RoverType
  <2>1. S[n].status.ts # t /\ \A k \in Key : Spot(S[n].tasks, k).ts # t
    <3>1. t \notin T[n]
      BY <1>6
    <3> HIDE DEF S, T, x, W, a, s
    <3>2. QED
      BY <1>6, <1>7, <3>1, SheetsNew
  <2> HIDE DEF S, T, x, W, a, s
  <2>2. PICK v \in Content : \E b \in {S[n].status, SetReg(S[n].status, v, t)} :
          \E m \in {S[n].tasks} \cup {SetKey(S[n].tasks, k, v, t) : k \in Key} : y = [status |-> b, tasks |-> m]
    BY <1>8 DEF Written
  <2>3. SetReg(S[n].status, v, t) \in LwwRegType
    BY <1>6, <1>7, <2>1, RegisterMoves DEF WrittenReg, RoverType
  <2>4. \A k \in Key : SetKey(S[n].tasks, k, v, t) \in MapType
    BY <1>6, <1>7, <2>1, MapMoves DEF RoverType
  <2>5. QED
    BY <1>7, <2>2, <2>3, <2>4 DEF RoverType
<1>11. DOMAIN a = DOMAIN s.rovers /\ a[r] = y /\ \A v \in DOMAIN a \ {r} : a[v] = s.rovers[v]
  BY <1>2
<1>12. IsSwarm(x) /\ x.rovers = a /\ x.leader = s.leader
  <2>1. a \in [DOMAIN a -> RoverType] /\ DOMAIN a \subseteq Key
    BY <1>2, <1>4, <1>10 DEF IsSwarm
  <2>2. s.leader \in LwwRegType
    BY <1>4 DEF IsSwarm
  <2> HIDE DEF x, s, a
  <2>3. QED
    BY <1>5, <2>1, <2>2, SwarmMade
<1>13. /\ Stamps(ToIt(W, "all")) = TimesTo(known, "all")[n]
       /\ Stamps(ToIt(W, r)) = T[n] \cup {t}
       /\ \A v \in Key \ {r} : Stamps(ToIt(W, v)) = TimesTo(known, v)[n]
  <2>1. r # "all"
    BY ReplicasAssumption
  <2>2. \A v : Stamps(ToIt(W, v)) =
                  IF v = r THEN Stamps(ToIt(known[n], v)) \cup {t} ELSE Stamps(ToIt(known[n], v))
    <3>1. Adds(W, known[n], t, n, r)
      BY DEF Adds
    <3> HIDE DEF W
    <3>2. QED
      BY <3>1, TimesToGrow
  <2>3. \A v : TimesTo(known, v)[n] = Stamps(ToIt(known[n], v))
    BY SwarmHere
  <2> HIDE DEF W
  <2>4. QED
    BY <2>1, <2>2, <2>3
<1>14. SheetGoes(LeaderSheets(replica), TimesTo(known, "all"), LeaderSheet(x), Stamps(ToIt(W, "all")), n)
  <2>1. x.leader = replica[n].leader
    BY <1>12
  <2> HIDE DEF x, s, S, T, W
  <2>2. QED
    BY <1>13, <2>1, LeaderGoes
<1>15. ASSUME NEW v \in Key
       PROVE  /\ v \in DOMAIN x.rovers <=> Stamps(ToIt(W, v)) # {}
              /\ SheetGoes(RoverSheets(replica, v), TimesTo(known, v), RoverOf(x, v), Stamps(ToIt(W, v)), n)
  <2>1. CASE v = r
    <3>1. RoverOf(x, r) = y
      BY <1>2, <1>11, <1>12 DEF RoverOf
    <3>2. r \in DOMAIN x.rovers
      BY <1>2, <1>11, <1>12
    <3>3. Stamps(ToIt(W, r)) # {}
      BY <1>13
    <3> HIDE DEF x, s, a, W
    <3>4. QED
      BY <1>9, <1>13, <2>1, <3>1, <3>2, <3>3
  <2>2. CASE v # r
    <3>1. v \in DOMAIN x.rovers <=> v \in DOMAIN s.rovers
      BY <1>11, <1>12
    <3>2. v \in DOMAIN s.rovers => x.rovers[v] = s.rovers[v]
      BY <1>11, <1>12, <2>2
    <3>3. RoverOf(x, v) = RoverSheets(replica, v)[n]
      BY <3>1, <3>2, SwarmHere DEF RoverOf
    <3>4. Stamps(ToIt(W, v)) = TimesTo(known, v)[n]
      BY <1>13, <2>2
    <3>5. v \in DOMAIN x.rovers <=> Stamps(ToIt(W, v)) # {}
      BY <3>1, <3>4, SwarmHere
    <3> HIDE DEF x, s, S, T, W, a
    <3>6. SheetGoes(RoverSheets(replica, v), TimesTo(known, v), RoverOf(x, v), Stamps(ToIt(W, v)), n)
      BY <3>3, <3>4, RoverGoes
    <3>7. QED
      BY <3>5, <3>6
  <2>3. QED
    BY <2>1, <2>2
<1>16. SwarmGoes(n, x, W)
  <2> HIDE DEF x, s, W
  <2>1. QED
    BY <1>12, <1>14, <1>15 DEF SwarmGoes
<1>17. QED
  <2> HIDE DEF x, s, W
  <2>1. QED
    BY <1>3, <1>16, SwarmsGo

\* A rover of which nothing is known.
IsNewRover(y) ==
  y \in RoverType /\ Of(y.status) = Blank /\ \A k \in Key : Spot(y.tasks, k) = Blank

\* A new one is.
LEMMA RoversStart == \A n \in Node : IsNewRover(NewRover(n))
BY RoverShows DEF IsNewRover

\* ... one more rover, or one less: a change of the others' none.
LEMMA SwarmStarts ==
  ASSUME Based, SwarmsHold(replica, known), NEW n \in Node, NEW r \in Key, NEW a, NEW W, NEW N,
         N \subseteq Nat \ {0}, \A y \in Place : TimesTo(known, r)[y] \cap N = {},
         DOMAIN a \subseteq Key, a \in [DOMAIN a -> RoverType],
         IsNewRover(RoverOf([rovers |-> a, leader |-> replica[n].leader], r)),
         r \in DOMAIN a <=> N # {},
         \A v \in Key \ {r} : /\ v \in DOMAIN a <=> v \in DOMAIN replica[n].rovers
                              /\ v \in DOMAIN a => a[v] = replica[n].rovers[v],
         Stamps(ToIt(W, r)) = N, \A v : v # r => Stamps(ToIt(W, v)) = TimesTo(known, v)[n],
         OnlyAt(n, [rovers |-> a, leader |-> replica[n].leader], W)
  PROVE  SwarmsHold(replica', known')
<1> DEFINE x == [rovers |-> a, leader |-> replica[n].leader]
<1>1. IsSwarm(x) /\ x.rovers = a /\ x.leader = replica[n].leader
  <2>1. replica[n].leader \in LwwRegType
    BY SwarmHere DEF IsSwarm
  <2>2. QED
    BY <2>1, SwarmMade
<1>2. OnlyAt(n, x, W) /\ IsNewRover(RoverOf(x, r))
  OBVIOUS
<1> HIDE DEF x
<1>3. SheetGoes(LeaderSheets(replica), TimesTo(known, "all"), LeaderSheet(x), Stamps(ToIt(W, "all")), n)
  <2>1. "all" # r
    BY ReplicasAssumption
  <2>2. QED
    BY <1>1, <2>1, LeaderGoes
<1>4. ASSUME NEW v \in Key
      PROVE  /\ v \in DOMAIN x.rovers <=> Stamps(ToIt(W, v)) # {}
             /\ SheetGoes(RoverSheets(replica, v), TimesTo(known, v), RoverOf(x, v), Stamps(ToIt(W, v)), n)
  <2>1. CASE v = r
    <3>1. SheetGoes(RoverSheets(replica, r), TimesTo(known, r), RoverOf(x, r), N, n)
      BY <1>2 DEF SheetGoes, IsNewRover
    <3>2. QED
      BY <1>1, <2>1, <3>1
  <2>2. CASE v # r
    <3>1. Stamps(ToIt(W, v)) = TimesTo(known, v)[n]
      BY <2>2
    <3>2. RoverOf(x, v) = RoverSheets(replica, v)[n]
      BY <1>1, <2>2, SwarmHere DEF RoverOf
    <3>3. v \in DOMAIN x.rovers <=> Stamps(ToIt(W, v)) # {}
      <4>1. v \in DOMAIN replica[n].rovers <=> TimesTo(known, v)[n] # {}
        BY SwarmHere
      <4>2. QED
        BY <1>1, <2>2, <3>1, <4>1
    <3>4. SheetGoes(RoverSheets(replica, v), TimesTo(known, v), RoverOf(x, v), Stamps(ToIt(W, v)), n)
      BY <3>1, <3>2, RoverGoes
    <3>5. QED
      BY <3>3, <3>4
  <2>3. QED
    BY <2>1, <2>2
<1>5. SwarmGoes(n, x, W)
  BY <1>1, <1>3, <1>4 DEF SwarmGoes
<1>6. QED
  BY <1>2, <1>5, SwarmsGo

\* A rover that is added starts anew at its node,
LEMMA SwarmAdds ==
  ASSUME Based, SwarmsHold(replica, known), NEW n \in Node, NEW t \in 1..MaxUpdates, NEW r \in Key,
         AddRover(n, t, r)
  PROVE  SwarmsHold(replica', known')
<1> DEFINE s == replica[n]
           a == Put(s.rovers, r, NewRover(n))
           x == [rovers |-> a, leader |-> s.leader]
           K == {u \in known[n] : u[3] # r}
           W == K \cup {<<t, n, r>>}
           N == {t}
<1>1. IsSwarm(s)
  BY SwarmHere
<1>2. replica' = [replica EXCEPT ![n] = [s EXCEPT !.rovers = a]] /\ known' = [known EXCEPT ![n] = W]
  BY DEF AddRover
<1>3. [s EXCEPT !.rovers = a] = x
  <2> HIDE DEF a, s
  <2>1. QED
    BY <1>1, SwarmFields
<1>4. OnlyAt(n, x, W)
  <2> HIDE DEF x, W, a
  <2>1. QED
    BY <1>2, <1>3, StepIsAt
<1>5. Unheard(t, known)
  BY DEF AddRover, Used, Unheard
<1>6. /\ t \in Nat \ {0} /\ \A w : \A y \in Place : t \notin TimesTo(known, w)[y]
  BY <1>5, SwarmChanges
<1>7. N \subseteq Nat \ {0} /\ N # {} /\ \A y \in Place : TimesTo(known, r)[y] \cap N = {}
  BY <1>6
<1>8. /\ DOMAIN a = DOMAIN s.rovers \cup {r} /\ a[r] = NewRover(n)
      /\ \A v \in DOMAIN s.rovers \ {r} : a[v] = s.rovers[v]
  BY DEF Put
<1>9. a = [v \in DOMAIN a |-> a[v]]
  BY DEF Put
<1>10. DOMAIN a \subseteq Key /\ a \in [DOMAIN a -> RoverType]
  <2>1. NewRover(n) \in RoverType
    BY RoverShows
  <2>2. DOMAIN s.rovers \subseteq Key /\ s.rovers \in [DOMAIN s.rovers -> RoverType]
    BY <1>1 DEF IsSwarm
  <2> HIDE DEF a, s
  <2>3. \A v \in DOMAIN a : a[v] \in RoverType
    BY <1>8, <2>1, <2>2
  <2>4. QED
    BY <1>8, <1>9, <2>2, <2>3
<1>11. IsNewRover(RoverOf(x, r))
  <2>1. x.rovers = a
    OBVIOUS
  <2> HIDE DEF x, a
  <2>2. RoverOf(x, r) = NewRover(n)
    BY <1>8, <2>1 DEF RoverOf
  <2>3. QED
    BY <2>2, RoversStart
<1>12. Stamps(ToIt(W, r)) = N /\ \A v : v # r => Stamps(ToIt(W, v)) = TimesTo(known, v)[n]
  <2>1. \A v : Stamps(ToIt(W, v)) = IF v = r THEN Stamps(ToIt(K, v)) \cup {t} ELSE Stamps(ToIt(K, v))
    <3>1. Adds(W, K, t, n, r)
      BY DEF Adds
    <3> HIDE DEF K, W
    <3>2. QED
      BY <3>1, TimesToGrow
  <2>2. \A v : Stamps(ToIt(K, v)) = IF v = r THEN {} ELSE Stamps(ToIt(known[n], v))
    <3>1. Forgets(K, known[n], r)
      BY DEF Forgets
    <3> HIDE DEF K
    <3>2. QED
      BY <3>1, TimesToForget
  <2>3. \A v : TimesTo(known, v)[n] = Stamps(ToIt(known[n], v))
    BY SwarmHere
  <2> HIDE DEF W, K
  <2>4. QED
    BY <2>1, <2>2, <2>3
<1>13. \A v \in Key \ {r} : /\ v \in DOMAIN a <=> v \in DOMAIN s.rovers
                            /\ v \in DOMAIN a => a[v] = s.rovers[v]
  <2> HIDE DEF a, s
  <2>1. QED
    BY <1>8
<1>14. r \in DOMAIN a <=> N # {}
  <2> HIDE DEF a
  <2>1. QED
    BY <1>7, <1>8
<1>15. QED
  <2> HIDE DEF a, W, N, K
  <2>1. QED
    BY <1>4, <1>7, <1>10, <1>11, <1>12, <1>13, <1>14, SwarmStarts

\* ... and one that is removed is gone from there.
LEMMA SwarmRemoves ==
  ASSUME Based, SwarmsHold(replica, known), NEW n \in Node, NEW r \in Key, RemoveRover(n, r)
  PROVE  SwarmsHold(replica', known')
<1> DEFINE s == replica[n]
           a == Drop(s.rovers, r)
           x == [rovers |-> a, leader |-> s.leader]
           W == {u \in known[n] : u[3] # r}
           N == {}
<1>1. IsSwarm(s)
  BY SwarmHere
<1>2. replica' = [replica EXCEPT ![n] = [s EXCEPT !.rovers = a]] /\ known' = [known EXCEPT ![n] = W]
  BY DEF RemoveRover
<1>3. [s EXCEPT !.rovers = a] = x
  <2> HIDE DEF a, s
  <2>1. QED
    BY <1>1, SwarmFields
<1>4. OnlyAt(n, x, W)
  <2> HIDE DEF x, W, a
  <2>1. QED
    BY <1>2, <1>3, StepIsAt
<1>5. N \subseteq Nat \ {0} /\ N = {} /\ \A y \in Place : TimesTo(known, r)[y] \cap N = {}
  OBVIOUS
<1>6. /\ DOMAIN a = DOMAIN s.rovers \ {r}
      /\ \A v \in DOMAIN s.rovers \ {r} : a[v] = s.rovers[v]
  BY DEF Drop
<1>7. a = [v \in DOMAIN a |-> a[v]]
  BY DEF Drop
<1>8. DOMAIN a \subseteq Key /\ a \in [DOMAIN a -> RoverType]
  <2>1. DOMAIN s.rovers \subseteq Key /\ s.rovers \in [DOMAIN s.rovers -> RoverType]
    BY <1>1 DEF IsSwarm
  <2> HIDE DEF a, s
  <2>2. \A v \in DOMAIN a : a[v] \in RoverType
    BY <1>6, <2>1
  <2>3. QED
    BY <1>6, <1>7, <2>1, <2>2
<1>9. IsNewRover(RoverOf(x, r))
  <2>1. x.rovers = a
    OBVIOUS
  <2> HIDE DEF x, a
  <2>2. RoverOf(x, r) = NewRover(Someone)
    BY <1>6, <2>1 DEF RoverOf
  <2>3. QED
    BY <2>2, RoversStart, OriginIsNode
<1>10. Stamps(ToIt(W, r)) = N /\ \A v : v # r => Stamps(ToIt(W, v)) = TimesTo(known, v)[n]
  <2>1. \A v : Stamps(ToIt(W, v)) = IF v = r THEN {} ELSE Stamps(ToIt(known[n], v))
    <3>1. Forgets(W, known[n], r)
      BY DEF Forgets
    <3> HIDE DEF W
    <3>2. QED
      BY <3>1, TimesToForget
  <2>2. \A v : TimesTo(known, v)[n] = Stamps(ToIt(known[n], v))
    BY SwarmHere
  <2> HIDE DEF W
  <2>3. QED
    BY <2>1, <2>2
<1>11. \A v \in Key \ {r} : /\ v \in DOMAIN a <=> v \in DOMAIN s.rovers
                            /\ v \in DOMAIN a => a[v] = s.rovers[v]
  <2> HIDE DEF a, s
  <2>1. QED
    BY <1>6
<1>12. r \in DOMAIN a <=> N # {}
  <2> HIDE DEF a
  <2>1. QED
    BY <1>6
<1>13. QED
  <2> HIDE DEF a, W, N
  <2>1. QED
    BY <1>4, <1>5, <1>8, <1>9, <1>10, <1>11, <1>12, SwarmStarts

\* ... and a merge of two swarms.
LEMMA SwarmMerges ==
  ASSUME Based, kind = "swarm", SwarmsHold(replica, known), NEW n \in Node, NEW m \in Place, MergeFrom(n, m)
  PROVE  SwarmsHold(replica', known')
<1> DEFINE s == replica[n]
           o == replica[m]
           b == WireSwarm(o).rovers
           f == [k \in DOMAIN s.rovers \cup DOMAIN b |->
                   IF k \notin DOMAIN s.rovers THEN b[k]
                   ELSE IF k \notin DOMAIN b THEN s.rovers[k] ELSE MergeRover(s.rovers[k], b[k])]
           l == MergeReg(s.leader, ResetRegDelta(o.leader))
           x == [rovers |-> f, leader |-> l]
           W == known[n] \cup known[m]
<1>1. IsSwarm(s) /\ IsSwarm(o)
  BY SwarmHere
<1>2. /\ DOMAIN b = DOMAIN o.rovers /\ \A v \in DOMAIN o.rovers : b[v] = WireRover(o.rovers[v])
      /\ WireSwarm(o).leader = ResetRegDelta(o.leader)
  BY DEF WireSwarm
<1>3. Merged(replica[n], OnWire(replica[m])) = x
  BY <1>2 DEF Merged, OnWire, MergeSwarm, Union
<1>4. OnlyAt(n, x, W)
  <2> HIDE DEF x
  <2>1. QED
    BY <1>3, MergeIsAt
<1>5. /\ DOMAIN f = DOMAIN s.rovers \cup DOMAIN o.rovers
      /\ f = [v \in DOMAIN f |-> f[v]]
      /\ \A v \in DOMAIN f : f[v] = IF v \notin DOMAIN s.rovers THEN WireRover(o.rovers[v])
                                    ELSE IF v \notin DOMAIN o.rovers THEN s.rovers[v]
                                    ELSE MergeRover(s.rovers[v], WireRover(o.rovers[v]))
  <2> HIDE DEF b
  <2>1. QED
    BY <1>2
<1> HIDE DEF f, b
<1>6. /\ DOMAIN s.rovers \subseteq Key /\ s.rovers \in [DOMAIN s.rovers -> RoverType]
      /\ DOMAIN o.rovers \subseteq Key /\ o.rovers \in [DOMAIN o.rovers -> RoverType]
      /\ s.leader \in LwwRegType /\ o.leader \in LwwRegType
  BY <1>1 DEF IsSwarm
<1>7. DOMAIN f \subseteq Key /\ f \in [DOMAIN f -> RoverType]
  <2>1. \A c \in RoverType : WireRover(c) \in RoverType
    BY RoverShows DEF SheetShows
  <2>2. \A c, d \in RoverType : MergeRover(c, d) \in RoverType
    BY RoverJoins DEF SheetJoins
  <2> HIDE DEF s, o
  <2>3. \A v \in DOMAIN f : f[v] \in RoverType
    BY <1>5, <1>6, <2>1, <2>2
  <2>4. QED
    BY <1>5, <1>6, <2>3
<1>8. l \in LwwRegType
  BY <1>6, RegisterShows, RegisterJoins
<1>9. IsSwarm(x) /\ x.rovers = f /\ x.leader = l
  <2> HIDE DEF l
  <2>1. QED
    BY <1>7, <1>8, SwarmMade
<1>10. \A w : Stamps(ToIt(W, w)) = TimesTo(known, w)[n] \cup TimesTo(known, w)[m]
  BY TimesToJoin, SwarmHere
<1>11. SheetGoes(LeaderSheets(replica), TimesTo(known, "all"), LeaderSheet(x), Stamps(ToIt(W, "all")), n)
  <2> HIDE DEF x, W
  <2>1. QED
    BY <1>9, <1>10, LeaderGoes
<1>12. ASSUME NEW r \in Key
       PROVE  /\ r \in DOMAIN x.rovers <=> Stamps(ToIt(W, r)) # {}
              /\ SheetGoes(RoverSheets(replica, r), TimesTo(known, r), RoverOf(x, r), Stamps(ToIt(W, r)), n)
  <2> DEFINE S == RoverSheets(replica, r)
             T == TimesTo(known, r)
             z == RoverOf(x, r)
             N == Stamps(ToIt(W, r))
  <2>1. /\ r \in DOMAIN s.rovers <=> T[n] # {}
        /\ r \in DOMAIN o.rovers <=> T[m] # {}
        /\ S[n] = RoverOf(s, r) /\ S[m] = RoverOf(o, r) /\ N = T[n] \cup T[m]
    BY <1>10, SwarmHere
  <2>2. z = IF r \in DOMAIN f THEN f[r] ELSE NewRover(Someone)
    BY <1>9 DEF RoverOf
  <2>3. r \in DOMAIN x.rovers <=> N # {}
    <3> HIDE DEF x, S, T, z, N, s, o
    <3>1. QED
      BY <1>5, <1>9, <2>1
  <2>4. /\ r \in DOMAIN s.rovers => S[n] = s.rovers[r]
        /\ r \notin DOMAIN s.rovers => S[n] = NewRover(Someone)
        /\ r \in DOMAIN o.rovers => S[m] = o.rovers[r]
    BY <2>1 DEF RoverOf
  <2> HIDE DEF z, N, x, W, s, o
  <2>5. SheetGoes(S, T, z, N, n)
    <3>1. CASE r \in DOMAIN s.rovers /\ r \in DOMAIN o.rovers
      <4>1. z = MergeRover(S[n], WireRover(S[m])) /\ N = T[n] \cup T[m]
        <5> HIDE DEF S, T
        <5>1. QED
          BY <1>5, <2>1, <2>2, <2>4, <3>1
      <4>2. QED
        BY <4>1, RoverGoes
    <3>2. CASE r \notin DOMAIN s.rovers /\ r \in DOMAIN o.rovers
      <4>1. z = WireRover(S[m]) /\ S[n] = NewRover(Someone) /\ N = T[n] \cup T[m]
        <5> HIDE DEF S, T
        <5>1. QED
          BY <1>5, <2>1, <2>2, <2>4, <3>2
      <4>2. QED
        BY <4>1, RoverGoes
    <3>3. CASE r \notin DOMAIN o.rovers
      <4>1. z = S[n] /\ N = T[n]
        <5> HIDE DEF S, T
        <5>1. QED
          BY <1>5, <2>1, <2>2, <2>4, <3>3
      <4>2. QED
        BY <4>1, RoverGoes
    <3>4. QED
      BY <3>1, <3>2, <3>3
  <2>6. QED
    BY <2>3, <2>5 DEF z, N
<1>13. SwarmGoes(n, x, W)
  <2> HIDE DEF x, W
  <2>1. QED
    BY <1>9, <1>11, <1>12 DEF SwarmGoes
<1>14. QED
  <2> HIDE DEF x, W
  <2>1. QED
    BY <1>4, <1>13, SwarmsGo

\* What the deltas leave.
LEMMA SwarmResets ==
  ASSUME Based, kind = "swarm", SwarmsHold(replica, known), NEW n \in Node, NEW x, OnlyAt(n, x, known[n]),
         x \in {replica[n], WireSwarm(replica[n])}
  PROVE  SwarmsHold(replica', known')
<1> DEFINE s == replica[n]
           b == [r \in DOMAIN s.rovers |-> WireRover(s.rovers[r])]
<1>1. IsSwarm(s) /\ DOMAIN s.rovers \subseteq Key
      /\ s.rovers \in [DOMAIN s.rovers -> RoverType] /\ s.leader \in LwwRegType
  BY SwarmHere DEF IsSwarm
<1>2. /\ IsSwarm(x) /\ DOMAIN x.rovers = DOMAIN s.rovers
      /\ x.leader \in {s.leader, ResetRegDelta(s.leader)}
      /\ \A r \in DOMAIN s.rovers : x.rovers[r] \in {s.rovers[r], WireRover(s.rovers[r])}
  <2>1. CASE x = s
    BY <1>1, <2>1
  <2>2. CASE x = WireSwarm(s)
    <3>1. x = [rovers |-> b, leader |-> ResetRegDelta(s.leader)]
      BY <2>2 DEF WireSwarm
    <3>2. ResetRegDelta(s.leader) \in LwwRegType /\ \A c \in RoverType : WireRover(c) \in RoverType
      BY <1>1, RegisterShows, RoverShows DEF SheetShows
    <3>3. DOMAIN b = DOMAIN s.rovers /\ \A r \in DOMAIN s.rovers : b[r] = WireRover(s.rovers[r])
      OBVIOUS
    <3>4. b \in [DOMAIN b -> RoverType]
      BY <1>1, <3>2
    <3> HIDE DEF b, s
    <3>5. IsSwarm(x) /\ x.rovers = b /\ x.leader = ResetRegDelta(s.leader)
      BY <1>1, <3>1, <3>2, <3>3, <3>4, SwarmMade
    <3>6. QED
      BY <3>3, <3>5
  <2>3. QED
    BY <2>1, <2>2
<1>3. \A w : Stamps(ToIt(known[n], w)) = TimesTo(known, w)[n]
  BY SwarmHere
<1>4. SheetGoes(LeaderSheets(replica), TimesTo(known, "all"), LeaderSheet(x), Stamps(ToIt(known[n], "all")), n)
  BY <1>2, <1>3, LeaderGoes
<1>5. ASSUME NEW r \in Key
      PROVE  /\ r \in DOMAIN x.rovers <=> Stamps(ToIt(known[n], r)) # {}
             /\ SheetGoes(RoverSheets(replica, r), TimesTo(known, r), RoverOf(x, r), Stamps(ToIt(known[n], r)), n)
  <2> DEFINE S == RoverSheets(replica, r)
             T == TimesTo(known, r)
             z == RoverOf(x, r)
             N == Stamps(ToIt(known[n], r))
  <2>1. (r \in DOMAIN s.rovers <=> N # {}) /\ S[n] = RoverOf(s, r) /\ N = T[n]
    BY <1>3, SwarmHere
  <2>2. z \in {S[n], WireRover(S[n])}
    <3>1. CASE r \in DOMAIN s.rovers
      BY <1>2, <2>1, <3>1 DEF RoverOf
    <3>2. CASE r \notin DOMAIN s.rovers
      BY <1>2, <2>1, <3>2 DEF RoverOf
    <3>3. QED
      BY <3>1, <3>2
  <2>3. SheetGoes(S, T, z, N, n)
    <3> HIDE DEF z, N
    <3>1. QED
      BY <2>1, <2>2, RoverGoes
  <2>4. QED
    BY <1>2, <2>1, <2>3
<1>6. SwarmGoes(n, x, known[n])
  BY <1>2, <1>4, <1>5 DEF SwarmGoes
<1>7. QED
  BY <1>6, SwarmsGo

\* A swarm that is sent: a message tells what its sender has.
LEMMA SwarmIsSent ==
  ASSUME SwarmsHold(replica, known), NEW n \in Place, NEW m \in Place, OnlyAt(m, replica[n], known[n])
  PROVE  SwarmsHold(replica', known')
<1>1. \A w : Stamps(ToIt(known[n], w)) = TimesTo(known, w)[n]
  BY SwarmHere
<1>2. \A S, T, z, N : z = S[n] /\ N = T[n] => SheetGoes(S, T, z, N, m)
  BY DEF SheetGoes
<1>3. SheetGoes(LeaderSheets(replica), TimesTo(known, "all"), LeaderSheet(replica[n]),
                Stamps(ToIt(known[n], "all")), m)
  BY <1>1, <1>2, SwarmHere
<1>4. ASSUME NEW r \in Key
      PROVE  SheetGoes(RoverSheets(replica, r), TimesTo(known, r), RoverOf(replica[n], r),
                       Stamps(ToIt(known[n], r)), m)
  <2>1. RoverOf(replica[n], r) = RoverSheets(replica, r)[n]
    BY SwarmHere
  <2>2. QED
    BY <1>1, <1>2, <2>1
<1>5. SwarmGoes(m, replica[n], known[n])
  BY <1>3, <1>4, SwarmHere DEF SwarmGoes
<1>6. QED
  BY <1>5, SwarmsGo

\* Swarms stay in order by all their methods.
LEMMA SwarmsStep ==
  ASSUME Based, kind = "swarm", SwarmsHold(replica, known), ReplicasNext
  PROVE  SwarmsHold(replica', known')
<1>1. ASSUME NEW n \in Node, ResetDeltas(n) PROVE SwarmsHold(replica', known')
  <2>1. OnWire(replica[n]) = WireSwarm(replica[n])
    BY DEF OnWire
  <2>2. OnlyAt(n, WireSwarm(replica[n]), known[n])
    BY <1>1, <2>1, MergeIsAt
  <2>3. QED
    BY <2>2, SwarmResets
<1>2. ASSUME NEW n \in Node, NEW m \in Place, ApplyDeltaFrom(n, m) PROVE SwarmsHold(replica', known')
  <2>1. replica' = [replica EXCEPT ![n] = replica[n]] /\ known' = known
    BY <1>2 DEF ApplyDeltaFrom, ApplySwarmDelta
  <2>2. OnlyAt(n, replica[n], known[n])
    BY <2>1 DEF OnlyAt, Based
  <2>3. QED
    BY <2>2, SwarmResets
<1>3. ASSUME NEW n \in Node, NEW m \in Mail, SendTo(n, m) PROVE SwarmsHold(replica', known')
  BY <1>3, MergeIsAt, SwarmIsSent
<1>4. QED
  BY <1>1, <1>2, <1>3, SwarmMerges, SwarmLeads, SwarmUpdates, SwarmAdds, SwarmRemoves, StepsAre
-----------------------------------------------------------------------------
(* Replicas of any kind *)

ReplicasInv ==
  /\ Based
  /\ kind = "gset" => SetsHold(replica, known)
  /\ kind = "pncounter" => PnHolds(replica, known)
  /\ kind = "lwwmap" => MapsHold(replica, known)
  /\ kind = "rover" => RoversHold(replica, known)
  /\ kind = "mission" => bent \/ MissionsHold(replica, known)
  /\ kind = "swarm" => SwarmsHold(replica, known)

\* A step at one place leaves tables of objects and of changes,
LEMMA BasedGoes ==
  ASSUME Based, kind' = kind, bent' \in BOOLEAN, NEW n \in Place, NEW x, NEW W \in SUBSET ChangeType,
         replica' = [replica EXCEPT ![n] = x], known' = [known EXCEPT ![n] = W]
  PROVE  Based'
<1>1. replica' = [y \in Place |-> replica'[y]]
  BY DEF Based
<1>2. known' \in [Place -> SUBSET ChangeType]
  <2> HIDE DEF ChangeType
  <2>1. known \in [Place -> SUBSET ChangeType]
    BY DEF Based
  <2>2. QED
    BY <2>1
<1>3. kind' \in Kinds
  BY DEF Based
<1>4. QED
  BY <1>1, <1>2, <1>3 DEF Based

\* ... and so does a change,
LEMMA BasedByChange ==
  ASSUME Based, bent' \in BOOLEAN, NEW n \in Node, NEW t \in 1..MaxUpdates,
         NEW w \in Key \cup {"pos", "neg", "all"}, NEW x, Sets(n, t, w, x)
  PROVE  Based'
<1> DEFINE W == known[n] \cup {<<t, n, w>>}
<1>1. /\ kind' = kind /\ replica' = [replica EXCEPT ![n] = x] /\ known' = [known EXCEPT ![n] = W]
  BY DEF Sets
<1>2. W \in SUBSET ChangeType
  <2>1. <<t, n, w>> \in ChangeType
    BY DEF ChangeType
  <2>2. known[n] \in SUBSET ChangeType
    BY DEF Based
  <2>3. QED
    BY <2>1, <2>2
<1> HIDE DEF W
<1>3. QED
  BY <1>1, <1>2, BasedGoes

\* ... by a method at a key,
LEMMA BasedByMethod ==
  ASSUME Based, bent' \in BOOLEAN, NEW n \in Node, NEW t \in 1..MaxUpdates, NEW k \in Key
  PROVE  /\ Add(n, t, k) \/ SetInMap(n, t, k) \/ DeleteInMap(n, t, k) \/ CreateMission(n, t, k) => Based'
         /\ SetMissionTask(n, t, k) \/ UpdateTaskStatus(n, t, k) \/ UpdateMission(n, t, k)
              \/ UpdateRover(n, t, k) => Based'
<1>1. ASSUME NEW w \in Key \cup {"pos", "neg", "all"}, \E x : Sets(n, t, w, x) PROVE Based'
  BY <1>1, BasedByChange
<1>2. Add(n, t, k) \/ SetInMap(n, t, k) \/ DeleteInMap(n, t, k) => \E x : Sets(n, t, k, x)
  BY DEF Add, SetInMap, DeleteInMap, Changes
<1>3. CreateMission(n, t, k) \/ SetMissionTask(n, t, k) \/ UpdateTaskStatus(n, t, k) \/ UpdateMission(n, t, k)
        => \E x : Sets(n, t, "all", x)
  BY DEF CreateMission, SetMissionTask, UpdateTaskStatus, UpdateMission, Changes
<1>4. UpdateRover(n, t, k) => \E x : Sets(n, t, k, x)
  BY DEF UpdateRover, Changes
<1>5. QED
  BY <1>1, <1>2, <1>3, <1>4

\* ... a rover that comes or goes,
LEMMA BasedByRover ==
  ASSUME Based, bent' \in BOOLEAN, NEW n \in Node, NEW k \in Key
  PROVE  /\ \A t \in 1..MaxUpdates : AddRover(n, t, k) => Based'
         /\ RemoveRover(n, k) => Based'
<1>1. ASSUME NEW t \in 1..MaxUpdates, AddRover(n, t, k) PROVE Based'
  <2> DEFINE W == {u \in known[n] : u[3] # k} \cup {<<t, n, k>>}
             x == [replica[n] EXCEPT !.rovers = Put(@, k, NewRover(n))]
  <2>1. /\ kind' = kind /\ replica' = [replica EXCEPT ![n] = x]
        /\ known' = [known EXCEPT ![n] = W]
    BY <1>1 DEF AddRover
  <2>2. W \in SUBSET ChangeType
    <3>1. <<t, n, k>> \in ChangeType
      BY DEF ChangeType
    <3>2. known[n] \in SUBSET ChangeType
      BY DEF Based
    <3>3. QED
      BY <3>1, <3>2
  <2> HIDE DEF W, x
  <2>3. QED
    BY <2>1, <2>2, BasedGoes
<1>2. ASSUME RemoveRover(n, k) PROVE Based'
  <2> DEFINE W == {u \in known[n] : u[3] # k}
             x == [replica[n] EXCEPT !.rovers = Drop(@, k)]
  <2>1. /\ kind' = kind /\ replica' = [replica EXCEPT ![n] = x]
        /\ known' = [known EXCEPT ![n] = W]
    BY <1>2 DEF RemoveRover
  <2>2. W \in SUBSET ChangeType
    BY DEF Based
  <2> HIDE DEF W, x
  <2>3. QED
    BY <2>1, <2>2, BasedGoes
<1>3. QED
  BY <1>1, <1>2

\* ... a merge, a delta that is applied, a reset of the deltas, and a message.
LEMMA BasedByMerge ==
  ASSUME Based, bent' \in BOOLEAN, NEW n \in Node, NEW m \in Place
  PROVE  /\ MergeFrom(n, m) => Based'
         /\ SendTo(n, m) => Based'
         /\ ApplyDeltaFrom(n, m) => Based'
         /\ ResetDeltas(n) => Based'
<1>1. ASSUME kind' = kind, NEW x, replica' = [replica EXCEPT ![n] = x], NEW V, V \subseteq known[m],
             known' = [known EXCEPT ![n] = known[n] \cup V]
      PROVE  Based'
  <2> DEFINE W == known[n] \cup V
  <2>1. W \in SUBSET ChangeType /\ known' = [known EXCEPT ![n] = W]
    BY <1>1 DEF Based
  <2> HIDE DEF W
  <2>2. QED
    BY <1>1, <2>1, BasedGoes
<1>2. ASSUME kind' = kind, NEW x, replica' = [replica EXCEPT ![n] = x], known' = known
      PROVE  Based'
  <2>1. replica' = [y \in Place |-> replica'[y]]
    BY <1>2 DEF Based
  <2>2. QED
    BY <1>2, <2>1 DEF Based
<1>3. ASSUME MergeFrom(n, m) PROVE Based'
  <2> DEFINE x == Merged(replica[n], OnWire(replica[m]))
  <2>1. /\ kind' = kind /\ replica' = [replica EXCEPT ![n] = x]
        /\ known' = [known EXCEPT ![n] = known[n] \cup known[m]]
    BY <1>3 DEF MergeFrom
  <2> HIDE DEF x
  <2>2. QED
    BY <1>1, <2>1
<1>4. ASSUME ResetDeltas(n) PROVE Based'
  BY <1>2, <1>4 DEF ResetDeltas
<1>5. ASSUME ApplyDeltaFrom(n, m) PROVE Based'
  <2>1. kind' = kind /\ kind \in {"gset", "pncounter", "rover", "mission", "swarm"}
    BY <1>5, ReplicasAssumption DEF ApplyDeltaFrom, Based
  <2>2. CASE kind = "gset"
    <3> DEFINE x == ApplySetDelta(replica[n], replica[m])
               V == {u \in known[m] : u[3] \in replica[m].fresh}
    <3>1. /\ replica' = [replica EXCEPT ![n] = x]
          /\ known' = [known EXCEPT ![n] = known[n] \cup V] /\ V \subseteq known[m]
      BY <1>5, <2>2 DEF ApplyDeltaFrom
    <3> HIDE DEF x, V
    <3>2. QED
      BY <1>1, <2>1, <3>1
  <2>3. CASE kind = "pncounter"
    <3> DEFINE x == ApplyPnDelta(replica[n], replica[m])
               V == {u \in known[m] : u[2] = replica[m].pos.node_id /\ replica[m][u[3]].delta # 0}
    <3>1. /\ replica' = [replica EXCEPT ![n] = x]
          /\ known' = [known EXCEPT ![n] = known[n] \cup V] /\ V \subseteq known[m]
      BY <1>5, <2>3 DEF ApplyDeltaFrom
    <3> HIDE DEF x, V
    <3>2. QED
      BY <1>1, <2>1, <3>1
  <2>4. CASE kind \in {"rover", "mission", "swarm"}
    <3>1. replica' = [replica EXCEPT ![n] = replica[n]] /\ known' = known
      BY <1>5, <2>4 DEF ApplyDeltaFrom, ApplyRoverDelta, ApplyMissionDelta, ApplySwarmDelta
    <3>2. QED
      BY <1>2, <2>1, <3>1
  <2>5. QED
    BY <2>1, <2>2, <2>3, <2>4
<1>6. ASSUME SendTo(n, m) PROVE Based'
  <2>1. kind' = kind /\ replica' = [replica EXCEPT ![m] = replica[n]] /\ known' = [known EXCEPT ![m] = known[n]]
    BY <1>6 DEF SendTo
  <2>2. known[n] \in SUBSET ChangeType
    BY DEF Based
  <2>3. QED
    BY <2>1, <2>2, BasedGoes
<1>7. QED
  BY <1>3, <1>4, <1>5, <1>6

\* A map's delta is of its own keys.
LEMMA BasedByMapDelta ==
  ASSUME ReplicasInv, bent' \in BOOLEAN, NEW n \in Node, NEW m \in Place, NEW t \in 1..MaxUpdates,
         ApplyMapDeltaFrom(n, m, t)
  PROVE  Based'
<1>1. kind = "lwwmap" /\ MapsHold(replica, known) /\ Based
  BY DEF ReplicasInv, ApplyMapDeltaFrom
<1>2. replica[m].dirty \subseteq Key
  <2>1. MapSheets(replica)[m] = MapSheet(Someone, replica[m])
    BY DEF MapSheets
  <2>2. MapSheet(Someone, replica[m]).tasks \in MapType
    BY <1>1, <2>1 DEF MapsHold, SheetsHold, RoverType
  <2>3. replica[m] \in MapType
    BY <2>2 DEF MapSheet
  <2>4. QED
    BY <2>3 DEF MapType
<1>3. \E k \in Key : \E x : Sets(n, t, k, x)
  BY <1>2 DEF ApplyMapDeltaFrom, Changes
<1>4. QED
  BY <1>1, <1>3, BasedByChange

\* Every step leaves them so.
LEMMA BasedStep ==
  ASSUME ReplicasInv, ReplicasNext
  PROVE  Based'
<1>1. Based /\ bent' \in BOOLEAN
  BY StepsAre DEF ReplicasInv
<1>2. CASE \E n \in Node, m \in Place : MergeFrom(n, m) \/ ApplyDeltaFrom(n, m)
  BY <1>1, <1>2, BasedByMerge
<1>3. CASE \E n \in Node : ResetDeltas(n)
  BY <1>1, <1>3, BasedByMerge
<1>4. CASE \E n \in Node, k \in Key : RemoveRover(n, k)
  BY <1>1, <1>4, BasedByRover
<1>5. CASE \E n \in Node, t \in 1..MaxUpdates :
             \/ UpdateOwn(n, t) \/ CompleteObjective(n, t) \/ SetPhase(n, t) \/ SetLeader(n, t)
             \/ \E way \in {"pos", "neg"} : Count(n, t, way)
  <2>1. PICK n \in Node, t \in 1..MaxUpdates :
             \/ UpdateOwn(n, t) \/ CompleteObjective(n, t) \/ SetPhase(n, t) \/ SetLeader(n, t)
             \/ \E way \in {"pos", "neg"} : Count(n, t, way)
    BY <1>5
  <2>2. ASSUME NEW w \in Key \cup {"pos", "neg", "all"}, \E x : Sets(n, t, w, x) PROVE Based'
    BY <1>1, <2>2, BasedByChange
  <2>3. UpdateOwn(n, t) => \E x : Sets(n, t, "all", x)
    BY DEF UpdateOwn, Changes
  <2>4. CompleteObjective(n, t) \/ SetPhase(n, t) \/ SetLeader(n, t) => \E x : Sets(n, t, "all", x)
    BY DEF CompleteObjective, SetPhase, SetLeader, Changes
  <2>5. \A way : Count(n, t, way) => \E x : Sets(n, t, way, x)
    BY DEF Count, Changes
  <2>6. QED
    BY <2>1, <2>2, <2>3, <2>4, <2>5
<1>6. CASE \E n \in Node, t \in 1..MaxUpdates, m \in Place : ApplyMapDeltaFrom(n, m, t)
  BY <1>1, <1>6, BasedByMapDelta
<1>7. CASE \E n \in Node, t \in 1..MaxUpdates, k \in Key :
             \/ Add(n, t, k) \/ SetInMap(n, t, k) \/ DeleteInMap(n, t, k)
             \/ CreateMission(n, t, k) \/ SetMissionTask(n, t, k) \/ UpdateTaskStatus(n, t, k)
             \/ UpdateMission(n, t, k) \/ UpdateRover(n, t, k)
  BY <1>1, <1>7, BasedByMethod
<1>8. CASE \E n \in Node, t \in 1..MaxUpdates, k \in Key : AddRover(n, t, k)
  BY <1>1, <1>8, BasedByRover
<1>9. CASE \E n \in Node, m \in Mail : SendTo(n, m)
  BY <1>1, <1>9, BasedByMerge
<1>10. QED
  BY <1>1, <1>2, <1>3, <1>4, <1>5, <1>6, <1>7, <1>8, <1>9, StepsAre, Zenon

\* At first all replicas are new and have heard of nothing.
LEMMA ReplicasInitially ==
  ReplicasInit => ReplicasInv
<1> SUFFICES ASSUME ReplicasInit PROVE ReplicasInv
  OBVIOUS
<1>1. /\ kind \in Kinds /\ replica = [p \in Place |-> New(Origin(p))] /\ bent = FALSE
      /\ \A x \in Place : replica[x] = New(Origin(x)) /\ known[x] = {}
  BY DEF ReplicasInit, Origin
<1>2. Based
  <2>1. known \in [Place -> SUBSET ChangeType]
    <3> HIDE DEF ChangeType
    <3>1. QED
      BY DEF ReplicasInit
  <2>2. replica = [p \in Place |-> replica[p]]
    BY <1>1
  <2>3. QED
    BY <1>1, <2>1, <2>2 DEF Based
<1>3. /\ \A x \in Place : Times(known)[x] = {}
      /\ \A w : \A x \in Place : TimesTo(known, w)[x] = {} /\ ByWay(known, w)[x] = {}
  BY <1>1 DEF Times, TimesTo, ByWay, Stamps, ToIt
<1>4. ASSUME NEW o \in Node
      PROVE  /\ NewReg(o, None) \in LwwRegType /\ Of(NewReg(o, None)) = Blank
             /\ NewMap(o) \in MapType /\ \A k \in Key : Spot(NewMap(o), k) = Blank
             /\ \A i \in Node : /\ MapSheet(i, NewMap(o)) \in RoverType
                               /\ Of(MapSheet(i, NewMap(o)).status) = Blank
                               /\ MapSheet(i, NewMap(o)).tasks = NewMap(o)
  BY RegisterShows, MapShows, MapSheetGoes
<1>5. kind = "gset" => SetsHold(replica, known)
  <2> SUFFICES ASSUME kind = "gset", NEW x \in Place
               PROVE  /\ replica[x] \in [all : SUBSET Key, fresh : SUBSET Key]
                      /\ replica[x].fresh \subseteq replica[x].all
                      /\ replica[x].all = {u[3] : u \in known[x]}
    BY DEF SetsHold
  <2>1. replica[x] = [all |-> {}, fresh |-> {}] /\ known[x] = {}
    BY <1>1 DEF New, NewSet
  <2>2. {u[3] : u \in known[x]} = {}
    BY <2>1
  <2>3. QED
    BY <2>1, <2>2
<1>6. kind = "pncounter" => PnHolds(replica, known)
  <2> SUFFICES ASSUME kind = "pncounter" PROVE PnHolds(replica, known)
    OBVIOUS
  <2>1. \A x \in Place : replica[x] = NewPn(Origin(x))
    BY <1>1 DEF New
  <2>2. ASSUME NEW x \in Place
        PROVE  /\ IsPn(replica[x])
               /\ Poss(replica)[x] = G!NewGCounter(Origin(x)) /\ Negs(replica)[x] = G!NewGCounter(Origin(x))
    <3> DEFINE c == G!NewGCounter(Origin(x))
    <3>1. replica[x] = [pos |-> c, neg |-> c]
      BY <2>1 DEF NewPn
    <3> HIDE DEF c
    <3>2. replica[x].pos = c /\ replica[x].neg = c
      BY <3>1
    <3>3. IsPn(replica[x])
      BY <3>1, <3>2 DEF IsPn
    <3>4. QED
      BY <3>2, <3>3 DEF Poss, Negs, c
  <2>3. ASSUME NEW C, \A x \in Place : C[x] = G!NewGCounter(Origin(x)), NEW w PROVE WayHolds(C, known, w)
    BY <1>3, <2>3, CountersInitially DEF WayHolds
  <2>4. QED
    BY <2>2, <2>3 DEF PnHolds
<1>7. kind = "lwwmap" => MapsHold(replica, known)
  <2> SUFFICES ASSUME kind = "lwwmap" PROVE MapsHold(replica, known)
    OBVIOUS
  <2>1. \A x \in Place : MapSheets(replica)[x] = MapSheet(Someone, NewMap(Origin(x)))
    BY <1>1 DEF New, MapSheets
  <2>2. \A x \in Place : /\ MapSheets(replica)[x] \in RoverType
                         /\ Of(MapSheets(replica)[x].status) = Blank
                         /\ \A k \in Key : Spot(MapSheets(replica)[x].tasks, k) = Blank
    BY <1>4, <2>1, OriginIsNode
  <2>3. QED
    BY <1>3, <2>2, SheetsInitially DEF MapsHold
<1>8. kind = "rover" => RoversHold(replica, known)
  <2> SUFFICES ASSUME kind = "rover" PROVE RoversHold(replica, known)
    OBVIOUS
  <2>1. \A x \in Place : replica[x] = NewRover(Origin(x))
    BY <1>1 DEF New
  <2>2. \A x \in Place : /\ replica[x] \in RoverType /\ Of(replica[x].status) = Blank
                         /\ \A k \in Key : Spot(replica[x].tasks, k) = Blank
    BY <2>1, RoverShows, OriginIsNode
  <2>3. QED
    BY <1>3, <2>2, SheetsInitially DEF RoversHold
<1>9. kind = "mission" => MissionsHold(replica, known)
  <2> SUFFICES ASSUME kind = "mission" PROVE MissionsHold(replica, known)
    OBVIOUS
  <2>1. \A x \in Place : replica[x] = NewMission(Origin(x))
    BY <1>1 DEF New
  <2>2. ASSUME NEW x \in Place
        PROVE  /\ IsMission(replica[x])
               /\ MissionSheets(replica)[x] = MapSheet(Origin(x), NewMap(Origin(x)))
               /\ Completed(replica)[x] = G!NewGCounter(Origin(x))
    <3> DEFINE c == G!NewGCounter(Origin(x))
               p == NewReg(Origin(x), None)
               m == NewMap(Origin(x))
    <3>1. replica[x] = [phase |-> p, tasks |-> m, completed |-> c]
      BY <2>1 DEF NewMission
    <3>2. MapSheet(Origin(x), m) = [status |-> p, tasks |-> m]
      BY DEF MapSheet
    <3> HIDE DEF c, p, m
    <3>3. replica[x].phase = p /\ replica[x].tasks = m /\ replica[x].completed = c
      BY <3>1
    <3>4. IsMission(replica[x])
      BY <3>1, <3>3 DEF IsMission
    <3>5. MissionSheets(replica)[x] = MapSheet(Origin(x), m) /\ Completed(replica)[x] = c
      BY <3>2, <3>3 DEF MissionSheets, Completed
    <3>6. QED
      BY <3>4, <3>5 DEF c, m
  <2>3. CountersHold(Completed(replica), known)
    BY <1>1, <2>2, CountersInitially
  <2>4. SheetsHold(MissionSheets(replica), Times(known))
    <3>1. \A x \in Place : /\ MissionSheets(replica)[x] \in RoverType
                           /\ Of(MissionSheets(replica)[x].status) = Blank
                           /\ \A k \in Key : Spot(MissionSheets(replica)[x].tasks, k) = Blank
      BY <1>4, <2>2, OriginIsNode
    <3>2. QED
      BY <1>3, <3>1, SheetsInitially
  <2>5. QED
    BY <2>2, <2>3, <2>4 DEF MissionsHold
<1>10. kind = "swarm" => SwarmsHold(replica, known)
  <2> SUFFICES ASSUME kind = "swarm" PROVE SwarmsHold(replica, known)
    OBVIOUS
  <2>1. \A x \in Place : replica[x] = [rovers |-> NoKeys, leader |-> NewReg(Origin(x), None)]
    BY <1>1 DEF New, NewSwarm
  <2>2. NoKeys \in [DOMAIN NoKeys -> RoverType] /\ DOMAIN NoKeys = {}
    BY DEF NoKeys
  <2>3. \A x \in Place : replica[x].rovers = NoKeys /\ replica[x].leader = NewReg(Origin(x), None)
    <3> SUFFICES ASSUME NEW x \in Place PROVE replica[x].rovers = NoKeys /\ replica[x].leader = NewReg(Origin(x), None)
      OBVIOUS
    <3> DEFINE p == NewReg(Origin(x), None)
               f == NoKeys
    <3>1. replica[x] = [rovers |-> f, leader |-> p]
      BY <2>1
    <3> HIDE DEF p, f
    <3>2. replica[x].rovers = f /\ replica[x].leader = p
      BY <3>1
    <3>3. QED
      BY <3>2 DEF p, f
  <2>4. ASSUME NEW x \in Place PROVE IsSwarm(replica[x])
    <3>1. replica[x] = [rovers |-> replica[x].rovers, leader |-> replica[x].leader]
      BY <2>1, <2>3
    <3>2. DOMAIN replica[x].rovers \subseteq Key
      BY <2>2, <2>3
    <3>3. replica[x].rovers \in [DOMAIN replica[x].rovers -> RoverType]
      BY <2>2, <2>3
    <3>4. QED
      BY <1>4, <2>3, <3>1, <3>2, <3>3, OriginIsNode DEF IsSwarm
  <2>5. \A x \in Place : \A r \in Key : r \in DOMAIN replica[x].rovers <=> TimesTo(known, r)[x] # {}
    BY <1>3, <2>2, <2>3
  <2>6. SheetsHold(LeaderSheets(replica), TimesTo(known, "all"))
    <3>1. \A x \in Place : LeaderSheets(replica)[x] = MapSheet(Origin(x), NewMap(Someone))
      BY <2>3 DEF LeaderSheets, LeaderSheet, MapSheet
    <3>2. \A x \in Place : /\ LeaderSheets(replica)[x] \in RoverType
                           /\ Of(LeaderSheets(replica)[x].status) = Blank
                           /\ \A k \in Key : Spot(LeaderSheets(replica)[x].tasks, k) = Blank
      BY <1>4, <3>1, OriginIsNode
    <3>3. QED
      BY <1>3, <3>2, SheetsInitially
  <2>7. ASSUME NEW r \in Key PROVE SheetsHold(RoverSheets(replica, r), TimesTo(known, r))
    <3>1. \A x \in Place : RoverSheets(replica, r)[x] = NewRover(Someone)
      BY <2>2, <2>3 DEF RoverSheets, RoverOf
    <3>2. \A x \in Place : /\ RoverSheets(replica, r)[x] \in RoverType
                           /\ Of(RoverSheets(replica, r)[x].status) = Blank
                           /\ \A k \in Key : Spot(RoverSheets(replica, r)[x].tasks, k) = Blank
      BY <3>1, RoverShows, OriginIsNode
    <3>3. QED
      BY <1>3, <3>2, SheetsInitially
  <2>8. QED
    BY <2>4, <2>5, <2>6, <2>7 DEF SwarmsHold
<1>11. QED
  BY <1>2, <1>5, <1>6, <1>7, <1>8, <1>9, <1>10 DEF ReplicasInv

\* Every step keeps it, and one that changes nothing does.
LEMMA ReplicasKeep ==
  ReplicasInv /\ [ReplicasNext]_replicaVars => ReplicasInv'
<1>1. ASSUME ReplicasInv, ReplicasNext PROVE ReplicasInv'
  <2>1. Based' /\ kind' = kind /\ Based /\ bent' \in BOOLEAN /\ (bent => bent')
    BY <1>1, BasedStep, StepsAre DEF ReplicasInv
  <2>2. /\ kind = "gset" => SetsHold(replica', known')
        /\ kind = "pncounter" => PnHolds(replica', known')
        /\ kind = "lwwmap" => MapsHold(replica', known')
        /\ kind = "rover" => RoversHold(replica', known')
        /\ kind = "mission" => bent' \/ MissionsHold(replica', known')
        /\ kind = "swarm" => SwarmsHold(replica', known')
    BY <1>1, <2>1, SetsStep, PnStep, MapsStep, RoversStep, MissionsStep, SwarmsStep DEF ReplicasInv
  <2>3. QED
    BY <2>1, <2>2 DEF ReplicasInv
<1>2. ASSUME ReplicasInv, UNCHANGED replicaVars PROVE ReplicasInv'
  <2>1. kind' = kind /\ replica' = replica /\ known' = known /\ bent' = bent
    BY <1>2 DEF replicaVars
  <2>2. Based'
    BY <1>2, <2>1 DEF ReplicasInv, Based
  <2>3. QED
    BY <1>2, <2>1, <2>2 DEF ReplicasInv
<1>3. QED
  BY <1>1, <1>2

\* What was heard of decides what is shown: of a set, a counter and a map,
LEMMA PlainAgree ==
  ASSUME ReplicasInv, NEW n \in Place, NEW m \in Place, known[n] = known[m],
         kind \in {"gset", "pncounter", "lwwmap"}
  PROVE  Shown(replica[n]) = Shown(replica[m])
<1>1. CASE kind = "gset"
  BY <1>1 DEF ReplicasInv, SetsHold, Shown
<1>2. CASE kind = "pncounter"
  <2>1. PnHolds(replica, known)
    BY <1>2 DEF ReplicasInv
  <2>2. ASSUME NEW C, NEW w, WayHolds(C, known, w) PROVE C[n].counts = C[m].counts
    <3>1. CountersHold(C, ByWay(known, w)) /\ ByWay(known, w)[n] = ByWay(known, w)[m]
      BY <2>2 DEF WayHolds, ByWay
    <3>2. QED
      BY <3>1, CountersAgree
  <2>3. /\ Poss(replica)[n].counts = Poss(replica)[m].counts
        /\ Negs(replica)[n].counts = Negs(replica)[m].counts
    BY <2>1, <2>2 DEF PnHolds
  <2>4. replica[n].pos.counts = replica[m].pos.counts /\ replica[n].neg.counts = replica[m].neg.counts
    BY <2>3 DEF Poss, Negs
  <2>5. PnValue(replica[n]) = PnValue(replica[m])
    BY <2>4 DEF PnValue
  <2>6. QED
    BY <1>2, <2>5 DEF Shown
<1>3. CASE kind = "lwwmap"
  <2>1. SheetsHold(MapSheets(replica), Times(known)) /\ Times(known)[n] = Times(known)[m]
    BY <1>3 DEF ReplicasInv, MapsHold, Times
  <2>2. MapValue(MapSheets(replica)[n].tasks) = MapValue(MapSheets(replica)[m].tasks)
    BY <2>1, SheetsAgree
  <2>3. MapValue(replica[n]) = MapValue(replica[m])
    BY <2>2 DEF MapSheets, MapSheet
  <2>4. QED
    BY <1>3, <2>3 DEF Shown
<1>4. QED
  BY <1>1, <1>2, <1>3

\* ... and of what is put together from them.
LEMMA CompositesAgree ==
  ASSUME ReplicasInv, NEW n \in Place, NEW m \in Place, known[n] = known[m],
         kind \in {"rover", "mission", "swarm"}, ~ bent
  PROVE  Shown(replica[n]) = Shown(replica[m])
<1>1. /\ Times(known)[n] = Times(known)[m]
      /\ \A w : TimesTo(known, w)[n] = TimesTo(known, w)[m]
  BY DEF Times, TimesTo
<1>2. CASE kind = "rover"
  <2>1. SheetsHold(replica, Times(known))
    BY <1>2 DEF ReplicasInv, RoversHold
  <2>2. /\ replica[n].status.value = replica[m].status.value
        /\ MapValue(replica[n].tasks) = MapValue(replica[m].tasks)
    BY <1>1, <2>1, SheetsAgree
  <2>3. RoverValue(replica[n]) = RoverValue(replica[m])
    BY <2>2 DEF RoverValue
  <2>4. QED
    BY <1>2, <2>3 DEF Shown
<1>3. CASE kind = "mission"
  <2>1. SheetsHold(MissionSheets(replica), Times(known)) /\ CountersHold(Completed(replica), known)
    BY <1>3 DEF ReplicasInv, MissionsHold
  <2>2. /\ MissionSheets(replica)[n].status.value = MissionSheets(replica)[m].status.value
        /\ MapValue(MissionSheets(replica)[n].tasks) = MapValue(MissionSheets(replica)[m].tasks)
    BY <1>1, <2>1, SheetsAgree
  <2>3. Completed(replica)[n].counts = Completed(replica)[m].counts
    BY <2>1, CountersAgree
  <2>4. /\ replica[n].phase.value = replica[m].phase.value
        /\ MapValue(replica[n].tasks) = MapValue(replica[m].tasks)
    BY <2>2 DEF MissionSheets
  <2>5. replica[n].completed.counts = replica[m].completed.counts
    BY <2>3 DEF Completed
  <2>6. MissionValue(replica[n]) = MissionValue(replica[m])
    BY <2>4, <2>5 DEF MissionValue
  <2>7. QED
    BY <1>3, <2>6 DEF Shown
<1>4. CASE kind = "swarm"
  <2> DEFINE a == replica[n].rovers
             b == replica[m].rovers
  <2>1. SwarmsHold(replica, known)
    BY <1>4 DEF ReplicasInv
  <2>2. DOMAIN a = DOMAIN b /\ DOMAIN a \subseteq Key
    <3>1. DOMAIN a \subseteq Key /\ DOMAIN b \subseteq Key
      BY <2>1 DEF SwarmsHold, IsSwarm
    <3>2. \A r \in Key : r \in DOMAIN a <=> r \in DOMAIN b
      BY <1>1, <2>1 DEF SwarmsHold
    <3>3. QED
      BY <3>1, <3>2
  <2>3. replica[n].leader.value = replica[m].leader.value
    <3>1. LeaderSheets(replica)[n].status.value = LeaderSheets(replica)[m].status.value
      BY <1>1, <2>1, SheetsAgree DEF SwarmsHold
    <3>2. QED
      BY <3>1 DEF LeaderSheets, LeaderSheet
  <2>4. ASSUME NEW r \in DOMAIN a PROVE RoverValue(a[r]) = RoverValue(b[r])
    <3>1. /\ RoverSheets(replica, r)[n].status.value = RoverSheets(replica, r)[m].status.value
          /\ MapValue(RoverSheets(replica, r)[n].tasks) = MapValue(RoverSheets(replica, r)[m].tasks)
      BY <1>1, <2>1, <2>2, <2>4, SheetsAgree DEF SwarmsHold
    <3>2. RoverSheets(replica, r)[n] = a[r] /\ RoverSheets(replica, r)[m] = b[r]
      BY <2>2, <2>4 DEF RoverSheets, RoverOf
    <3>3. QED
      BY <3>1, <3>2 DEF RoverValue
  <2>5. [r \in DOMAIN a |-> RoverValue(a[r])] = [r \in DOMAIN b |-> RoverValue(b[r])]
    <3> HIDE DEF a, b
    <3>1. QED
      BY <2>2, <2>4
  <2>6. SwarmValue(replica[n]) = SwarmValue(replica[m])
    BY <2>3, <2>5 DEF SwarmValue
  <2>7. QED
    BY <1>4, <2>6 DEF Shown
<1>5. QED
  BY <1>2, <1>3, <1>4

\* Replicas.tla's types and what its objects promise, of every kind.
LEMMA ReplicasInvGives ==
  ReplicasInv => ReplicasTypeOK /\ ReplicasAgree
<1> SUFFICES ASSUME ReplicasInv PROVE ReplicasTypeOK /\ ReplicasAgree
  OBVIOUS
<1>1. ReplicasTypeOK
  <2>1. /\ kind \in Kinds /\ bent \in BOOLEAN
        /\ known \in [Place -> SUBSET ((1..MaxUpdates) \X Node \X (Key \cup {"pos", "neg", "all"}))]
    BY DEF ReplicasInv, Based, ChangeType
  <2>2. kind = "gset" => \A n \in Place : replica[n].fresh \subseteq replica[n].all
    BY DEF ReplicasInv, SetsHold
  <2>3. ASSUME kind = "lwwmap", NEW n \in Place PROVE replica[n].dirty \subseteq DOMAIN replica[n].data
    <3>1. MapSheets(replica)[n].tasks \in MapType
      BY <2>3 DEF ReplicasInv, MapsHold, SheetsHold, RoverType
    <3>2. replica[n] \in MapType
      BY <3>1 DEF MapSheets, MapSheet
    <3>3. QED
      BY <3>2 DEF MapType
  <2>4. QED
    BY <2>1, <2>2, <2>3 DEF ReplicasTypeOK
<1>2. ASSUME ~ bent, NEW n \in Place, NEW m \in Place, known[n] = known[m]
      PROVE  Shown(replica[n]) = Shown(replica[m])
  <2>1. kind \in {"gset", "pncounter", "lwwmap"} \/ kind \in {"rover", "mission", "swarm"}
    BY ReplicasAssumption DEF ReplicasInv, Based
  <2>2. QED
    BY <1>2, <2>1, PlainAgree, CompositesAgree
<1>3. bent \/ TheSameIsShown
  BY <1>2 DEF TheSameIsShown
<1>4. QED
  BY <1>1, <1>3 DEF ReplicasAgree

\* The replicas are of one of the kinds and have heard of changes there are; what waits
\* to be sent of a set or a map is in it (gset.py, lwwmap.py).
THEOREM ReplicasTypeCorrect == ReplicasSpec => []ReplicasTypeOK
<1>1. ReplicasInit => ReplicasInv
  BY ReplicasInitially
<1>2. ReplicasInv /\ [ReplicasNext]_replicaVars => ReplicasInv'
  BY ReplicasKeep
<1>3. ReplicasInv => ReplicasTypeOK
  BY ReplicasInvGives
<1>4. QED
  BY <1>1, <1>2, <1>3, PTL DEF ReplicasSpec

\* Replicas of any of the objects of crdt/ that have heard of the same changes show the
\* same, and so do the messages on their way: merges and deltas lose and double nothing,
\* whatever order they come in, late and again, as long as no task of a mission was
\* changed in place by a write that was dropped (mission_state.py).
THEOREM ReplicasDoAgree == ReplicasSpec => []ReplicasAgree
<1>1. ReplicasInit => ReplicasInv
  BY ReplicasInitially
<1>2. ReplicasInv /\ [ReplicasNext]_replicaVars => ReplicasInv'
  BY ReplicasKeep
<1>3. ReplicasInv => ReplicasAgree
  BY ReplicasInvGives
<1>4. QED
  BY <1>1, <1>2, <1>3, PTL DEF ReplicasSpec
=============================================================================
