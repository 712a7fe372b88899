--------------------------- MODULE SecurityProofs ---------------------------
(***************************************************************************)
(* Theorems of the services of security/, each on its own, and the types   *)
(* of all of them.                                                         *)
(***************************************************************************)
EXTENDS Security, FiniteSetTheorems, NaturalsInduction, WellFoundedInduction, TLAPS

-----------------------------------------------------------------------------
(* The rate limiter: what a look at a bucket would find (Level) does not   *)
(* depend on who has looked before.  It grows with the clock, falls by     *)
(* what is granted, and is not changed by anything else, the clean-up      *)
(* included.                                                               *)

\* Arithmetic: a bucket left alone for longer than MaxAge is full.
LEMMA OldIsFull ==
  ASSUME NEW c \in Nat, NEW t \in Nat, NEW e \in Nat, NEW r \in Nat, NEW m \in Nat,
         r * m >= c, e > m
  PROVE  Lesser(c, t + e * r) = c
<1>1. PICK d \in Nat : e = m + d
  <2>1. e - m \in Nat /\ e = m + (e - m)
    OBVIOUS
  <2> QED
    BY <2>1
<1>2. d * r \in Nat /\ r * m \in Nat
  OBVIOUS
<1>a. m * r = r * m
  OBVIOUS
<1>b. (m + d) * r = m * r + d * r
  OBVIOUS
<1>3. \A x, y \in Nat : x >= c => Lesser(c, t + (x + y)) = c
  BY DEF Lesser
<1>4. e * r = r * m + d * r
  BY <1>1, <1>a, <1>b
<1> QED
  BY <1>2, <1>3, <1>4

\* A request through the middleware is an excluded one or asks for a token.
LEMMA NextCases ==
  ASSUME [LimiterNext]_limiterVars
  PROVE  \/ Tick \/ CleanupStaleBuckets \/ UNCHANGED limiterVars
         \/ \E k \in Key :
              GetRemaining(k) \/ OpenWindow(k) \/ \E n \in Demand : TryAcquire(k, n)
<1>1. ASSUME NEW q \in Request, CheckRateLimit(q)
      PROVE  UNCHANGED limiterVars \/ \E k \in Key, n \in Demand : TryAcquire(k, n)
  <2>1. KeyOf(q) \in Key /\ 1 \in Demand
    BY LimiterAssumption
  <2> QED
    BY <1>1, <2>1 DEF CheckRateLimit
<1> QED
  BY <1>1 DEF LimiterNext

\* A look at a bucket finds a bucket, no fuller than it may be, and of now.
LEMMA CurrentIsABucket ==
  ASSUME LimiterTypeOK, NEW k \in Key
  PROVE  /\ Current(k) \in Bucket
         /\ Current(k).tokens <= Capacity[k] /\ Current(k).lastRefill = now
<1> USE LimiterAssumption DEF LimiterTypeOK
<1>1. Capacity[k] \in Nat /\ Rate[k] \in Nat
  OBVIOUS
<1>2. CASE k \in Held
  <2>1. buckets[k].tokens \in Nat /\ now - buckets[k].lastRefill \in Nat
    BY <1>2 DEF Bucket
  <2>2. (now - buckets[k].lastRefill) * Rate[k] \in Nat
    BY <1>1, <2>1
  <2>3. Lesser(Capacity[k], buckets[k].tokens + (now - buckets[k].lastRefill) * Rate[k])
          \in 0..Capacity[k]
    BY <1>1, <2>1, <2>2 DEF Lesser
  <2> QED
    BY <1>1, <1>2, <2>3 DEF Current, Refill, Bucket
<1>3. CASE k \notin Held
  BY <1>1, <1>3 DEF Current, Bucket
<1> QED
  BY <1>2, <1>3

\* Putting a bucket of now in its place keeps the buckets well typed.
LEMMA PutKeepsTypes ==
  ASSUME LimiterTypeOK, NEW k \in Key, NEW b \in Bucket, Put(k, b), now' = now,
         b.tokens <= Capacity[k], b.lastRefill = now
  PROVE  /\ Held' = Held \cup {k} /\ Held' \subseteq Key /\ buckets' \in [Held' -> Bucket]
         /\ \A j \in Held' : buckets'[j].tokens <= Capacity[j] /\ buckets'[j].lastRefill <= now'
         /\ buckets'[k] = b /\ \A j \in Held : j # k => buckets'[j] = buckets[j]
<1>1. Held' = Held \cup {k}
  BY DEF Put, Held
<1>2. buckets'[k] = b /\ \A j \in Held : j # k => buckets'[j] = buckets[j]
  BY DEF Put
<1>3. buckets' = [j \in Held' |-> buckets'[j]]
  BY <1>1 DEF Put
<1>4. \A j \in Held' : buckets'[j] \in Bucket
  BY <1>1, <1>2 DEF LimiterTypeOK
<1>5. \A j \in Held' : buckets'[j].tokens <= Capacity[j] /\ buckets'[j].lastRefill <= now'
  <2>1. now \in Nat
    BY DEF LimiterTypeOK
  <2> QED
    BY <1>1, <1>2, <2>1 DEF LimiterTypeOK
<1> QED
  BY <1>1, <1>2, <1>3, <1>4, <1>5 DEF LimiterTypeOK

\* What try_acquire() leaves of the bucket.
Rest(k, n) ==
  IF Current(k).tokens >= n THEN [Current(k) EXCEPT !.tokens = @ - n] ELSE Current(k)

LEMMA RestIsABucket ==
  ASSUME LimiterTypeOK, NEW k \in Key, NEW n \in Demand
  PROVE  /\ Rest(k, n) \in Bucket
         /\ Rest(k, n).tokens = IF Current(k).tokens >= n THEN Current(k).tokens - n
                                ELSE Current(k).tokens
         /\ Rest(k, n).tokens <= Capacity[k] /\ Rest(k, n).lastRefill = now
<1> DEFINE b == Current(k)
<1>1. b \in Bucket /\ b.tokens <= Capacity[k] /\ b.lastRefill = now
  BY CurrentIsABucket
<1>2. n \in Nat /\ Capacity[k] \in Nat
  BY LimiterAssumption
<1> HIDE DEF b
<1>3. CASE b.tokens >= n
  <2>1. [b EXCEPT !.tokens = @ - n] = [b EXCEPT !.tokens = b.tokens - n]
    OBVIOUS
  <2>2. b.tokens - n \in Nat
    BY <1>1, <1>2, <1>3 DEF Bucket
  <2>3. [b EXCEPT !.tokens = b.tokens - n] = [tokens |-> b.tokens - n, lastRefill |-> now]
    BY <1>1 DEF Bucket
  <2> QED
    BY <1>1, <1>2, <1>3, <2>1, <2>2, <2>3 DEF Rest, Bucket, b
<1>4. CASE ~(b.tokens >= n)
  BY <1>1, <1>4 DEF Rest, b
<1> QED
  BY <1>3, <1>4

LEMMA LimiterTypeInit == LimiterInit => LimiterTypeOK
<1> SUFFICES ASSUME LimiterInit PROVE LimiterTypeOK
  OBVIOUS
<1>1. Held = {}
  BY DEF LimiterInit, Held
<1>2. buckets \in [Held -> Bucket]
  BY <1>1 DEF LimiterInit
<1> QED
  BY <1>1, <1>2 DEF LimiterInit, LimiterTypeOK

LEMMA LimiterTypeStep == LimiterTypeOK /\ [LimiterNext]_limiterVars => LimiterTypeOK'
<1> SUFFICES ASSUME LimiterTypeOK, [LimiterNext]_limiterVars PROVE LimiterTypeOK'
  OBVIOUS
<1>a. ASSUME NEW k \in Key, NEW asked \in Nat, NEW told \in Nat, Answer(k, asked, told),
             now' = now
      PROVE  /\ answer' \in [key : Key, asked : Nat, told : Nat]
             /\ window' \in [key : Key, start : 0..now', granted : Nat]
  <2>1. answer' \in [key : Key, asked : Nat, told : Nat]
    BY <1>a DEF Answer
  <2>2. window.granted + told \in Nat
    BY DEF LimiterTypeOK
  <2>3. [window EXCEPT !.granted = @ + told] \in [key : Key, start : 0..now, granted : Nat]
    BY <2>2 DEF LimiterTypeOK
  <2> QED
    BY <1>a, <2>1, <2>3 DEF Answer, LimiterTypeOK
<1>1. CASE Tick
  <2>1. now \in Nat /\ now' = now + 1 /\ Held' = Held
    BY <1>1 DEF Tick, LimiterTypeOK, Held
  <2>2. window' \in [key : Key, start : 0..now', granted : Nat]
    BY <1>1, <2>1 DEF Tick, LimiterTypeOK
  <2>3. \A k \in Held : buckets[k].lastRefill \in Nat
    BY DEF LimiterTypeOK, Bucket
  <2>4. \A k \in Held' : buckets'[k].tokens <= Capacity[k] /\ buckets'[k].lastRefill <= now'
    BY <1>1, <2>1, <2>3 DEF Tick, LimiterTypeOK
  <2> QED
    BY <1>1, <2>1, <2>2, <2>4 DEF Tick, LimiterTypeOK
<1>2. CASE CleanupStaleBuckets
  <2>1. Held' = Held \ Stale
    BY <1>2 DEF CleanupStaleBuckets, Held
  <2>2. \A k \in Held' : buckets'[k] = buckets[k]
    BY <1>2, <2>1 DEF CleanupStaleBuckets
  <2>3. buckets' \in [Held' -> Bucket]
    BY <1>2, <2>1 DEF CleanupStaleBuckets, LimiterTypeOK
  <2> QED
    BY <1>2, <2>1, <2>2, <2>3 DEF CleanupStaleBuckets, LimiterTypeOK
<1>3. ASSUME NEW k \in Key, GetRemaining(k)
      PROVE  LimiterTypeOK'
  <2>1. Current(k) \in Bucket /\ Current(k).tokens <= Capacity[k] /\ Current(k).lastRefill = now
    BY CurrentIsABucket
  <2>2. now' = now /\ Current(k).tokens \in Nat
    BY <1>3, <2>1 DEF GetRemaining, Bucket
  <2>3. /\ answer' \in [key : Key, asked : Nat, told : Nat]
        /\ window' \in [key : Key, start : 0..now', granted : Nat]
    BY <1>3, <1>a, <2>2 DEF GetRemaining
  <2>4. CASE k \in Held
    <3>1. Put(k, Current(k))
      BY <1>3, <2>4 DEF GetRemaining
    <3> QED
      BY <2>1, <2>2, <2>3, <3>1, PutKeepsTypes DEF LimiterTypeOK
  <2>5. CASE k \notin Held
    <3>1. buckets' = buckets
      BY <1>3, <2>5 DEF GetRemaining
    <3> QED
      BY <2>2, <2>3, <3>1 DEF LimiterTypeOK, Held
  <2> QED
    BY <2>4, <2>5
<1>4. ASSUME NEW k \in Key, NEW n \in Demand, TryAcquire(k, n)
      PROVE  LimiterTypeOK'
  <2>1. now' = now /\ Put(k, Rest(k, n)) /\ n \in Nat
    BY <1>4, LimiterAssumption DEF TryAcquire, Rest
  <2>2. /\ answer' \in [key : Key, asked : Nat, told : Nat]
        /\ window' \in [key : Key, start : 0..now', granted : Nat]
    <3>1. CASE Current(k).tokens >= n
      BY <1>4, <1>a, <2>1, <3>1 DEF TryAcquire
    <3>2. CASE ~(Current(k).tokens >= n)
      BY <1>4, <1>a, <2>1, <3>2 DEF TryAcquire
    <3> QED
      BY <3>1, <3>2
  <2> QED
    BY <2>1, <2>2, RestIsABucket, PutKeepsTypes DEF LimiterTypeOK
<1>5. ASSUME NEW k \in Key, OpenWindow(k)
      PROVE  LimiterTypeOK'
  BY <1>5 DEF OpenWindow, LimiterTypeOK, Held
<1>6. CASE UNCHANGED limiterVars
  BY <1>6 DEF limiterVars, LimiterTypeOK, Held
<1> QED
  BY <1>1, <1>2, <1>3, <1>4, <1>5, <1>6, NextCases

\* No bucket of a key holds more than its capacity or was refilled in the future
\* (LimiterTypeOK), whatever the configurations.
THEOREM LimiterTypeCorrect == LimiterSpec => []LimiterTypeOK
<1> QED
  BY LimiterTypeInit, LimiterTypeStep, PTL DEF LimiterSpec
-----------------------------------------------------------------------------
(* How Level moves *)

LEMMA LevelTyped ==
  ASSUME LimiterTypeOK
  PROVE  Level \in [Key -> Nat] /\ \A k \in Key : Level[k] <= Capacity[k]
BY CurrentIsABucket DEF Level, Bucket

\* With the clock every bucket gains its rate, up to its capacity.
LEMMA LevelTicks ==
  ASSUME LimiterTypeOK, Tick
  PROVE  Level' = [k \in Key |-> Lesser(Capacity[k], Level[k] + Rate[k])]
<1>1. now \in Nat /\ now' = now + 1 /\ Held' = Held /\ buckets' = buckets
  BY DEF Tick, LimiterTypeOK, Held
<1>2. ASSUME NEW k \in Key
      PROVE  Current(k).tokens' = Lesser(Capacity[k], Level[k] + Rate[k])
  <2>0. Capacity[k] \in Nat /\ Rate[k] \in Nat
    BY LimiterAssumption
  <2>1. CASE k \in Held
    <3> DEFINE t == buckets[k].tokens
               e == now - buckets[k].lastRefill
    <3>1. t \in Nat /\ e \in Nat /\ now' - buckets'[k].lastRefill = e + 1
      BY <1>1, <2>1 DEF LimiterTypeOK, Bucket
    <3>2. Level[k] = Lesser(Capacity[k], t + e * Rate[k])
      BY <2>1 DEF Level, Current, Refill
    <3>3. Current(k).tokens' = Lesser(Capacity[k], t + (e + 1) * Rate[k])
      BY <1>1, <2>1, <3>1 DEF Current, Refill
    <3> HIDE DEF t, e
    <3> DEFINE c == Capacity[k]
               r == Rate[k]
    <3>4. c \in Nat /\ r \in Nat
      BY <2>0
    <3>5. Level[k] = Lesser(c, t + e * r) /\ Current(k).tokens' = Lesser(c, t + (e + 1) * r)
      BY <3>2, <3>3
    <3> HIDE DEF c, r
    <3> DEFINE x == Lesser(c, t + e * r)
               y == Lesser(c, t + (e + 1) * r)
    <3>6. y = Lesser(c, x + r)
      <4>1. e * r \in Nat /\ (e + 1) * r = e * r + r
        BY <3>1, <3>4
      <4>2. \A m \in Nat : Lesser(c, t + (m + r)) = Lesser(c, Lesser(c, t + m) + r)
        BY <3>1, <3>4 DEF Lesser
      <4> QED
        BY <4>1, <4>2
    <3>7. Level[k] = x /\ Current(k).tokens' = y
      BY <3>5
    <3> HIDE DEF x, y
    <3>8. Current(k).tokens' = Lesser(c, Level[k] + r)
      BY <3>6, <3>7
    <3> QED
      BY <3>8 DEF c, r
  <2>2. CASE k \notin Held
    BY <1>1, <2>0, <2>2 DEF Level, Current, Lesser
  <2> QED
    BY <2>1, <2>2
<1> QED
  BY <1>2 DEF Level

\* A bucket put in the place of k is what a look at k then finds.
LEMMA LevelPut ==
  ASSUME LimiterTypeOK, NEW k \in Key, NEW b \in Bucket, Put(k, b), now' = now,
         b.tokens <= Capacity[k], b.lastRefill = now
  PROVE  Level' = [Level EXCEPT ![k] = b.tokens]
<1>1. /\ Held' = Held \cup {k}
      /\ buckets'[k] = b /\ \A j \in Held : j # k => buckets'[j] = buckets[j]
  BY PutKeepsTypes
<1>2. Current(k).tokens' = b.tokens
  <2>1. now \in Nat /\ Rate[k] \in Nat /\ Capacity[k] \in Nat /\ b.tokens \in Nat
    BY LimiterAssumption DEF LimiterTypeOK, Bucket
  <2>2. (now' - buckets'[k].lastRefill) * Rate[k] = 0
    BY <1>1, <2>1
  <2>3. Current(k).tokens' = Lesser(Capacity[k], b.tokens + 0)
    BY <1>1, <2>2 DEF Current, Refill
  <2> QED
    BY <2>1, <2>3 DEF Lesser
<1>3. ASSUME NEW j \in Key, j # k
      PROVE  Current(j).tokens' = Level[j]
  BY <1>1, <1>3 DEF Current, Refill, Level
<1>4. Level' = [j \in Key |-> Current(j).tokens']
  BY DEF Level
<1>5. Level = [j \in Key |-> Level[j]]
  BY DEF Level
<1> QED
  BY <1>2, <1>3, <1>4, <1>5

\* Looking at a bucket, or throwing away a stale one, changes no level.
LEMMA LevelLooked ==
  ASSUME LimiterTypeOK, NEW k \in Key, GetRemaining(k)
  PROVE  Level' = Level
<1>1. Current(k) \in Bucket /\ Current(k).tokens <= Capacity[k] /\ Current(k).lastRefill = now
  BY CurrentIsABucket
<1>2. now' = now
  BY DEF GetRemaining
<1>3. CASE k \in Held
  <2>1. Level' = [Level EXCEPT ![k] = Current(k).tokens]
    BY <1>1, <1>2, <1>3, LevelPut DEF GetRemaining
  <2> QED
    BY <2>1 DEF Level
<1>4. CASE k \notin Held
  BY <1>2, <1>4 DEF GetRemaining, Level, Current, Refill, Held
<1> QED
  BY <1>3, <1>4

LEMMA LevelCleaned ==
  ASSUME LimiterTypeOK, CleanupStaleBuckets
  PROVE  Level' = Level
<1>1. now' = now /\ Held' = Held \ Stale /\ \A k \in Held' : buckets'[k] = buckets[k]
  BY DEF CleanupStaleBuckets, Held
<1>2. ASSUME NEW k \in Key
      PROVE  Current(k).tokens' = Current(k).tokens
  <2>1. CASE k \in Stale
    <3> DEFINE e == now - buckets[k].lastRefill
    <3>1. k \in Held /\ k \notin Held' /\ e > MaxAge
      BY <1>1, <2>1 DEF Stale
    <3>2. /\ buckets[k].tokens \in Nat /\ e \in Nat
          /\ Capacity[k] \in Nat /\ Rate[k] \in Nat /\ MaxAge \in Nat
          /\ Rate[k] * MaxAge >= Capacity[k]
      BY <3>1, LimiterAssumption DEF LimiterTypeOK, Bucket
    <3>3. Lesser(Capacity[k], buckets[k].tokens + e * Rate[k]) = Capacity[k]
      <4> DEFINE t == buckets[k].tokens
                 c == Capacity[k]
                 r == Rate[k]
      <4>1. t \in Nat /\ e \in Nat /\ c \in Nat /\ r \in Nat /\ r * MaxAge >= c /\ e > MaxAge
        BY <3>1, <3>2
      <4> HIDE DEF e, t, c, r
      <4>2. Lesser(c, t + e * r) = c
        BY <3>2, <4>1, OldIsFull
      <4> QED
        BY <4>2 DEF c, t, r
    <3> QED
      BY <3>1, <3>3 DEF Current, Refill
  <2>2. CASE k \notin Stale
    BY <1>1, <2>2 DEF Current, Refill
  <2> QED
    BY <2>1, <2>2
<1> QED
  BY <1>2 DEF Level

\* What try_acquire() grants is what the level falls by.
LEMMA LevelTaken ==
  ASSUME LimiterTypeOK, NEW k \in Key, NEW n \in Demand, TryAcquire(k, n)
  PROVE  /\ Level[k] >= n => /\ Level' = [Level EXCEPT ![k] = Level[k] - n]
                             /\ Answer(k, n, n)
         /\ ~(Level[k] >= n) => Level' = Level /\ Answer(k, n, 0)
<1>1. now' = now /\ Put(k, Rest(k, n))
  BY DEF TryAcquire, Rest
<1>2. Level' = [Level EXCEPT ![k] = Rest(k, n).tokens]
  BY <1>1, RestIsABucket, LevelPut
<1>3. Level[k] = Current(k).tokens /\ Level = [Level EXCEPT ![k] = Level[k]]
  BY DEF Level
<1>4. Rest(k, n).tokens = IF Level[k] >= n THEN Level[k] - n ELSE Level[k]
  BY <1>3, RestIsABucket
<1> QED
  BY <1>2, <1>3, <1>4 DEF TryAcquire
-----------------------------------------------------------------------------
(* The window *)

\* What was granted in the window and what is left for the taking.
WindowInv ==
  window.granted + Level[window.key]
    <= Capacity[window.key] + Rate[window.key] * (now - window.start)

\* Arithmetic: a tick widens the bound by a tick's worth.
LEMMA WindowTicks ==
  ASSUME NEW c \in Nat, NEW r \in Nat, NEW d \in Nat, NEW g \in Nat, NEW l \in Nat,
         g + l <= c + r * d
  PROVE  g + Lesser(c, l + r) <= c + r * (d + 1)
<1>1. r * (d + 1) = r * d + r /\ r * d \in Nat
  OBVIOUS
<1>2. \A x \in Nat : g + l <= c + x => g + Lesser(c, l + r) <= c + (x + r)
  BY DEF Lesser
<1> QED
  BY <1>1, <1>2

LEMMA WindowInit == LimiterInit => WindowInv
<1> SUFFICES ASSUME LimiterInit PROVE WindowInv
  OBVIOUS
<1>1. LimiterTypeOK
  BY LimiterTypeInit
<1>2. window.key \in Key /\ window.granted = 0 /\ window.start = 0 /\ now = 0
  BY DEF LimiterInit
<1>3. Level[window.key] \in Nat /\ Level[window.key] <= Capacity[window.key]
  BY <1>1, <1>2, LevelTyped
<1>4. Capacity[window.key] \in Nat /\ Rate[window.key] * (now - window.start) = 0
  BY <1>2, LimiterAssumption
<1> QED
  BY <1>2, <1>3, <1>4 DEF WindowInv

LEMMA WindowStep == LimiterTypeOK /\ WindowInv /\ [LimiterNext]_limiterVars => WindowInv'
<1> SUFFICES ASSUME LimiterTypeOK, WindowInv, [LimiterNext]_limiterVars PROVE WindowInv'
  OBVIOUS
<1> DEFINE w == window.key
           g == window.granted
           d == now - window.start
<1>0. /\ w \in Key /\ g \in Nat /\ d \in Nat /\ now \in Nat
      /\ Capacity[w] \in Nat /\ Rate[w] \in Nat
  BY LimiterAssumption DEF LimiterTypeOK
<1>t. LimiterTypeOK'
  BY LimiterTypeStep
<1>l. Level \in [Key -> Nat] /\ \A k \in Key : Level[k] <= Capacity[k]
  BY LevelTyped
<1>i. g + Level[w] <= Capacity[w] + Rate[w] * d
  BY DEF WindowInv
<1>1. CASE Tick
  <2>1. window' = window /\ now' - window'.start = d + 1
    BY <1>0, <1>1 DEF Tick, LimiterTypeOK
  <2>2. Level'[w] = Lesser(Capacity[w], Level[w] + Rate[w])
    BY <1>0, <1>1, LevelTicks
  <2>3. Level[w] \in Nat
    BY <1>0, <1>l
  <2> HIDE DEF w, g, d
  <2>4. g + Lesser(Capacity[w], Level[w] + Rate[w]) <= Capacity[w] + Rate[w] * (d + 1)
    BY <1>0, <1>i, <2>3, WindowTicks
  <2> QED
    BY <2>1, <2>2, <2>4 DEF WindowInv, w, g, d
<1>2. CASE CleanupStaleBuckets
  <2>1. Level' = Level /\ window' = window /\ now' = now
    BY <1>2, LevelCleaned DEF CleanupStaleBuckets
  <2> QED
    BY <2>1 DEF WindowInv
<1>3. ASSUME NEW k \in Key, GetRemaining(k)
      PROVE  WindowInv'
  <2>1. Level' = Level /\ window' = window /\ now' = now
    BY <1>3, LevelLooked DEF GetRemaining, Answer
  <2> QED
    BY <2>1 DEF WindowInv
<1>4. ASSUME NEW k \in Key, NEW n \in Demand, TryAcquire(k, n)
      PROVE  WindowInv'
  <2>0. n \in Nat /\ n # 0 /\ now' = now
    BY <1>4, LimiterAssumption DEF TryAcquire
  <2>1. CASE Level[k] >= n
    <3>1. Level' = [Level EXCEPT ![k] = Level[k] - n] /\ Answer(k, n, n)
      BY <1>4, <2>1, LevelTaken
    <3>2. CASE k = w
      <4>1. window' = [window EXCEPT !.granted = g + n]
        BY <2>0, <3>1, <3>2 DEF Answer
      <4>2. window'.key = w /\ window'.start = window.start /\ window'.granted = g + n
        BY <4>1 DEF LimiterTypeOK
      <4>3. Level'[w] = Level[w] - n
        BY <1>0, <1>l, <3>1, <3>2
      <4>4. Level[w] \in Nat
        BY <1>0, <1>l
      <4>5. g + n + (Level[w] - n) = g + Level[w]
        BY <1>0, <2>0, <4>4
      <4> QED
        BY <1>i, <2>0, <4>2, <4>3, <4>5 DEF WindowInv
    <3>3. CASE k # w
      <4>1. window' = window /\ Level'[w] = Level[w]
        BY <1>0, <1>l, <3>1, <3>3 DEF Answer
      <4> QED
        BY <1>i, <2>0, <4>1 DEF WindowInv
    <3> QED
      BY <3>2, <3>3
  <2>2. CASE ~(Level[k] >= n)
    <3>1. Level' = Level /\ Answer(k, n, 0)
      BY <1>4, <2>2, LevelTaken
    <3>2. window'.key = w /\ window'.start = window.start /\ window'.granted = g
      BY <1>0, <3>1 DEF Answer, LimiterTypeOK
    <3> QED
      BY <1>i, <2>0, <3>1, <3>2 DEF WindowInv
  <2> QED
    BY <2>1, <2>2
<1>5. ASSUME NEW k \in Key, OpenWindow(k)
      PROVE  WindowInv'
  <2>1. window' = [key |-> k, start |-> now, granted |-> 0] /\ now' = now
    BY <1>5 DEF OpenWindow
  <2>2. Level' = Level
    BY <1>5 DEF OpenWindow, Level, Current, Refill, Held
  <2>3. Rate[k] * (now - now) = 0 /\ Capacity[k] \in Nat /\ Level[k] \in Nat
    BY <1>0, <1>l, LimiterAssumption
  <2> QED
    BY <1>l, <2>1, <2>2, <2>3 DEF WindowInv
<1>6. CASE UNCHANGED limiterVars
  BY <1>6 DEF limiterVars, WindowInv, Level, Current, Refill, Held
<1> QED
  BY <1>1, <1>2, <1>3, <1>4, <1>5, <1>6, NextCases

\* In every window of time a key is granted at most its capacity and what it gains
\* in the window: for every configuration, key and sequence of calls.
THEOREM WindowBounded == LimiterSpec => []WindowBound
<1>1. LimiterTypeOK /\ WindowInv => WindowBound
  <2> SUFFICES ASSUME LimiterTypeOK, WindowInv PROVE WindowBound
    OBVIOUS
  <2>1. window.key \in Key /\ window.granted \in Nat /\ now - window.start \in Nat
    BY DEF LimiterTypeOK
  <2>2. Level[window.key] \in Nat /\ Capacity[window.key] \in Nat /\ Rate[window.key] \in Nat
    BY <2>1, LevelTyped, LimiterAssumption
  <2>3. Rate[window.key] * (now - window.start) \in Nat
    BY <2>1, <2>2
  <2> QED
    BY <2>1, <2>2, <2>3 DEF WindowInv, WindowBound
<1> QED
  BY <1>1, LimiterTypeInit, LimiterTypeStep, WindowInit, WindowStep, PTL DEF LimiterSpec
-----------------------------------------------------------------------------
(* The refinement *)

LEMMA RefinementInit == LimiterInit => Ideal!Init
<1> SUFFICES ASSUME LimiterInit PROVE Ideal!Init
  OBVIOUS
<1>1. Level = [k \in Key |-> Capacity[k]]
  BY DEF LimiterInit, Level, Current, Held
<1>2. Capacity = [k \in Key |-> Capacity[k]]
  BY LimiterAssumption
<1> QED
  BY <1>1, <1>2 DEF LimiterInit, Ideal!Init

LEMMA RefinementStep == LimiterTypeOK /\ [LimiterNext]_limiterVars => [Ideal!Next]_<<Level, answer>>
<1> SUFFICES ASSUME LimiterTypeOK, [LimiterNext]_limiterVars PROVE Ideal!Next \/ UNCHANGED <<Level, answer>>
  OBVIOUS
<1>1. CASE Tick
  <2>1. Ideal!Tick
    BY <1>1, LevelTicks DEF Ideal!Tick, Tick, Ideal!Lesser, Lesser
  <2> QED
    BY <2>1 DEF Ideal!Next
<1>2. CASE CleanupStaleBuckets
  BY <1>2, LevelCleaned DEF CleanupStaleBuckets
<1>3. ASSUME NEW k \in Key, GetRemaining(k)
      PROVE  Ideal!Next
  <2>1. Level' = Level /\ answer' = [key |-> k, asked |-> 0, told |-> Level[k]]
    BY <1>3, LevelLooked DEF GetRemaining, Answer, Level
  <2>2. Ideal!Tell(k)
    BY <2>1 DEF Ideal!Tell
  <2> QED
    BY <2>2 DEF Ideal!Next
<1>4. ASSUME NEW k \in Key, NEW n \in Demand, TryAcquire(k, n)
      PROVE  Ideal!Next
  <2>0. Level[k] \in Nat /\ n \in Nat
    BY LevelTyped, LimiterAssumption
  <2>1. CASE Level[k] >= n
    <3>1. Ideal!Grant(k, n)
      BY <1>4, <2>1, LevelTaken DEF Ideal!Grant, Answer
    <3> QED
      BY <3>1 DEF Ideal!Next
  <2>2. CASE ~(Level[k] >= n)
    <3>1. Level[k] < n
      BY <2>0, <2>2
    <3>2. Ideal!Refuse(k, n)
      BY <1>4, <2>2, <3>1, LevelTaken DEF Ideal!Refuse, Answer
    <3> QED
      BY <3>2 DEF Ideal!Next
  <2> QED
    BY <2>1, <2>2
<1>5. ASSUME NEW k \in Key, OpenWindow(k)
      PROVE  UNCHANGED <<Level, answer>>
  BY <1>5 DEF OpenWindow, Level, Current, Refill, Held
<1>6. CASE UNCHANGED limiterVars
  BY <1>6 DEF limiterVars, Level, Current, Refill, Held
<1> QED
  BY <1>1, <1>2, <1>3, <1>4, <1>5, <1>6, NextCases

\* The limiter is a set of buckets that are always there and always filling.
THEOREM LimiterImplementsBuckets == LimiterSpec => ImplementsTokenBucket
<1> QED
  BY RefinementInit, RefinementStep, LimiterTypeInit, LimiterTypeStep, PTL
     DEF LimiterSpec, ImplementsTokenBucket, Ideal!Spec

-----------------------------------------------------------------------------
(* The audit log: what is loaded *)

\* There is a first line that does not parse, or none: Readable is well defined.
LEMMA ReadableExists ==
  ASSUME AuditTypeOK
  PROVE  /\ Readable \in 0..Len(file)
         /\ \A i \in 1..Readable : file[i] # Junk
         /\ Readable < Len(file) => file[Readable + 1] = Junk
<1> DEFINE Good(n) == /\ \A i \in 1..n : file[i] # Junk
                      /\ n < Len(file) => file[n + 1] = Junk
           Bad == {n \in Nat : n < Len(file) /\ file[n + 1] = Junk}
<1>1. Len(file) \in Nat
  BY DEF AuditTypeOK
<1>2. \E n \in 0..Len(file) : Good(n)
  <2>1. CASE Bad = {}
    <3>1. ASSUME NEW i \in 1..Len(file) PROVE file[i] # Junk
      <4>1. i - 1 \in Nat /\ i - 1 < Len(file) /\ (i - 1) + 1 = i
        BY <1>1
      <4> QED
        BY <2>1, <4>1
    <3> QED
      BY <1>1, <3>1
  <2>2. CASE Bad # {}
    <3>1. PICK n \in Bad : \A m \in Bad : ~(<<m, n>> \in OpToRel(<, Nat))
      BY <2>2, NatLessThanWellFounded, WFMin
    <3>2. \A m \in Bad : ~(m < n)
      BY <3>1 DEF OpToRel
    <3>3. ASSUME NEW i \in 1..n PROVE file[i] # Junk
      <4>1. i - 1 \in Nat /\ i - 1 < n /\ i - 1 < Len(file) /\ (i - 1) + 1 = i
        BY <1>1
      <4> QED
        BY <3>2, <4>1
    <3> QED
      BY <1>1, <3>3
  <2> QED
    BY <2>1, <2>2
<1>3. Readable = CHOOSE n \in 0..Len(file) : Good(n)
  BY DEF Readable
<1> HIDE DEF Good
<1>4. Readable \in 0..Len(file) /\ Good(Readable)
  BY <1>2, <1>3
<1> QED
  BY <1>4 DEF Good

\* Loading gives the lines before the first that does not parse, in their order.
LEMMA LoadedIsThePrefix ==
  ASSUME AuditTypeOK
  PROVE  /\ Loaded \in Seq(Event) /\ Len(Loaded) = Readable
         /\ \A i \in 1..Readable : Loaded[i] = file[i] /\ file[i] # Junk
         /\ (\A i \in 1..Len(file) : file[i] # Junk) => Loaded = file
<1>1. /\ Readable \in 0..Len(file) /\ \A i \in 1..Readable : file[i] # Junk
      /\ Readable < Len(file) => file[Readable + 1] = Junk
  BY ReadableExists
<1>2. file \in Seq(Event \cup {Junk}) /\ Len(file) \in Nat
  BY DEF AuditTypeOK
<1>3. Len(Loaded) = Readable /\ \A i \in 1..Readable : Loaded[i] = file[i]
  BY <1>1, <1>2 DEF Loaded
<1>4. Loaded \in Seq(Event \cup {Junk})
  BY <1>1, <1>2 DEF Loaded
<1>5. \A i \in 1..Readable : Loaded[i] \in Event
  BY <1>1, <1>2, <1>3
<1>6. Loaded \in Seq(Event)
  BY <1>1, <1>3, <1>4, <1>5
<1>7. ASSUME \A i \in 1..Len(file) : file[i] # Junk PROVE Loaded = file
  <2>1. Readable = Len(file)
    BY <1>1, <1>2, <1>7
  <2> QED
    BY <1>2, <1>3, <1>4, <2>1
<1> QED
  BY <1>1, <1>3, <1>6, <1>7

LEMMA LastIsTyped ==
  ASSUME NEW evs \in Seq(Event)
  PROVE  LastOf(evs) \in Nat
<1>1. CASE evs = <<>>
  BY <1>1 DEF LastOf
<1>2. CASE evs # <<>>
  <2>1. evs[Len(evs)] \in Event
    BY <1>2
  <2> QED
    BY <1>2, <2>1 DEF LastOf, Event
<1> QED
  BY <1>1, <1>2

\* The newest n events of a sequence.
LEMMA NewestFacts ==
  ASSUME NEW S, NEW evs \in Seq(S), NEW n \in 0..Len(evs)
  PROVE  /\ Newest(evs, n) \in Seq(S) /\ Len(Newest(evs, n)) = n
         /\ \A i \in 1..n : Newest(evs, n)[i] = evs[Len(evs) - n + i]
<1>1. Len(evs) \in Nat
  OBVIOUS
<1> QED
  BY <1>1 DEF Newest

LEMMA IndexIsTyped ==
  ASSUME NEW evs
  PROVE  Index(evs) \in [Actor -> SUBSET (1..Len(evs))]
BY DEF Index

\* The event that log_event() makes of a call by a.
Fresh(a) == [no |-> logged + 1, actor |-> a, prev |-> lastHash]

LEMMA FreshIsAnEvent ==
  ASSUME AuditTypeOK, NEW a \in Actor
  PROVE  Fresh(a) \in Event /\ Fresh(a).no = logged + 1 /\ Fresh(a).actor = a
         /\ Fresh(a).prev = lastHash
BY DEF AuditTypeOK, Fresh, Event

\* The buffer after log_event(): the old one with the event, or its newest part.
LEMMA Remembered ==
  ASSUME AuditTypeOK, NEW e \in Event, Remember(e)
  PROVE  LET evs == Append(events, e) IN
         /\ evs \in Seq(Event) /\ Len(evs) = Len(events) + 1
         /\ \/ events' = evs /\ ~(Len(evs) > 2 * MaxBuffer)
            \/ Len(evs) > 2 * MaxBuffer /\ events' = Newest(evs, MaxBuffer)
               /\ MaxBuffer \in 0..Len(evs)
         /\ events' \in Seq(Event) /\ events' # <<>> /\ events'[Len(events')] = e
<1> DEFINE evs == Append(events, e)
<1>1. evs \in Seq(Event) /\ Len(evs) = Len(events) + 1 /\ evs[Len(evs)] = e /\ Len(events) \in Nat
  BY DEF AuditTypeOK
<1>2. MaxBuffer \in Nat /\ MaxBuffer # 0
  BY AuditAssumption
<1>3. CASE ~(Len(evs) > 2 * MaxBuffer)
  <2>1. events' = evs
    BY <1>3 DEF Remember
  <2> HIDE DEF evs
  <2> QED
    BY <1>1, <1>3, <2>1 DEF evs
<1>4. CASE Len(evs) > 2 * MaxBuffer
  <2>1. events' = Newest(evs, MaxBuffer)
    BY <1>4 DEF Remember
  <2> HIDE DEF evs
  <2>2. MaxBuffer \in 0..Len(evs)
    BY <1>1, <1>2, <1>4
  <2>3. /\ events' \in Seq(Event) /\ Len(events') = MaxBuffer
        /\ events'[MaxBuffer] = evs[Len(evs) - MaxBuffer + MaxBuffer]
    BY <1>1, <1>2, <2>1, <2>2, NewestFacts
  <2>4. Len(evs) - MaxBuffer + MaxBuffer = Len(evs) /\ events' # <<>>
    BY <1>1, <1>2, <2>3
  <2> QED
    BY <1>1, <1>4, <2>1, <2>2, <2>3, <2>4 DEF evs
<1> QED
  BY <1>3, <1>4
-----------------------------------------------------------------------------
(* Types and indexes *)

TypedAndIndexed == AuditTypeOK /\ IndexesAgree

LEMMA AuditTypedInit == AuditInit => TypedAndIndexed
<1> SUFFICES ASSUME AuditInit PROVE TypedAndIndexed
  OBVIOUS
<1>1. byActor = Index(events) /\ byActor \in [Actor -> SUBSET (1..Len(events))]
  BY IndexIsTyped DEF AuditInit
<1>2. events \in Seq(Event) /\ file \in Seq(Event \cup {Junk}) /\ seen \in Seq(Event)
  BY DEF AuditInit
<1> QED
  BY <1>1, <1>2 DEF AuditInit, AuditTypeOK, IndexesAgree, TypedAndIndexed

\* What a write may make of the file.
LEMMA Written ==
  ASSUME AuditTypeOK, NEW e \in Event, NEW outcome \in Outcome, Write(e, outcome),
         cut => file # <<>>
  PROVE  /\ file' \in Seq(Event \cup {Junk}) /\ cut' \in BOOLEAN /\ faults' \in Nat
         /\ missed' \in BOOLEAN /\ gap' \in BOOLEAN
         /\ cut' => file' # <<>>
         /\ \/ file' = file /\ outcome = "nothing"
            \/ file' = Append(file, Junk) /\ outcome # "nothing"
            \/ file' = Append(file, e) /\ outcome # "nothing" /\ ~cut
            \/ file' = [file EXCEPT ![Len(file)] = Junk] /\ cut /\ outcome # "nothing"
<1> DEFINE L == Event \cup {Junk}
<1>1. file \in Seq(L) /\ Len(file) \in Nat /\ Append(file, Junk) \in Seq(L)
      /\ Append(file, e) \in Seq(L)
  BY DEF AuditTypeOK
<1>2. /\ outcome = "nothing" => file' = file /\ cut' = cut
      /\ outcome = "part" => file' = AddLine(Junk) /\ cut' = TRUE
      /\ outcome = "whole" => file' = AddLine(e) /\ cut' = FALSE
      /\ outcome = "unended" => file' = AddLine(e) /\ cut' = TRUE
  BY DEF Write
<1>3. outcome \in {"whole", "unended", "part", "nothing"}
  BY DEF Outcome
<1>4. cut' \in BOOLEAN
  BY <1>2, <1>3 DEF AuditTypeOK
<1>5. faults' \in Nat /\ missed' \in BOOLEAN /\ gap' \in BOOLEAN
  BY DEF Write, AuditTypeOK
<1>6. ASSUME cut
      PROVE  LET g == [file EXCEPT ![Len(file)] = Junk] IN
             /\ g \in Seq(L) /\ g # <<>> /\ AddLine(e) = g /\ AddLine(Junk) = g
  <2>1. Len(file) \in 1..Len(file)
    BY <1>1, <1>6
  <2>2. /\ [file EXCEPT ![Len(file)] = Junk] \in Seq(L)
        /\ Len([file EXCEPT ![Len(file)] = Junk]) = Len(file)
    BY <1>1, <2>1
  <2> QED
    BY <1>6, <2>1, <2>2 DEF AddLine
<1>7. ASSUME ~cut
      PROVE  AddLine(e) = Append(file, e) /\ AddLine(Junk) = Append(file, Junk)
  BY <1>7 DEF AddLine
<1>8. Append(file, Junk) # <<>> /\ Append(file, e) # <<>>
  BY <1>1
<1>9. CASE cut
  <2> DEFINE g == [file EXCEPT ![Len(file)] = Junk]
  <2>1. g \in Seq(L) /\ g # <<>> /\ AddLine(e) = g /\ AddLine(Junk) = g
    BY <1>6, <1>9
  <2>2. CASE outcome = "nothing"
    BY <1>1, <1>2, <1>4, <1>5, <1>9, <2>2
  <2>3. CASE outcome # "nothing"
    <3>1. file' = g
      BY <1>2, <1>3, <2>1, <2>3
    <3> HIDE DEF g
    <3>2. file' \in Seq(L) /\ file' # <<>>
      BY <2>1, <3>1
    <3> QED
      BY <1>4, <1>5, <1>9, <2>3, <3>1, <3>2 DEF g
  <2> QED
    BY <2>2, <2>3
<1>10. CASE ~cut
  <2>1. AddLine(e) = Append(file, e) /\ AddLine(Junk) = Append(file, Junk)
    BY <1>7, <1>10
  <2>2. CASE outcome = "nothing"
    BY <1>1, <1>2, <1>4, <1>5, <1>10, <2>2
  <2>3. CASE outcome # "nothing"
    <3>1. file' = Append(file, Junk) \/ file' = Append(file, e)
      BY <1>2, <1>3, <2>1, <2>3
    <3>2. file' \in Seq(L) /\ file' # <<>>
      BY <1>1, <1>8, <3>1
    <3> QED
      BY <1>4, <1>5, <1>10, <2>3, <3>1, <3>2
  <2> QED
    BY <2>2, <2>3
<1> QED
  BY <1>9, <1>10

\* A file that ends without an end of line is not empty.
CutHasALine == cut => file # <<>>

LEMMA AuditTypedStep ==
  TypedAndIndexed /\ CutHasALine /\ [AuditNext]_auditVars => TypedAndIndexed' /\ CutHasALine'
<1> SUFFICES ASSUME TypedAndIndexed, CutHasALine, [AuditNext]_auditVars
             PROVE  TypedAndIndexed' /\ CutHasALine'
  OBVIOUS
<1>t. AuditTypeOK /\ byActor = Index(events)
  BY DEF TypedAndIndexed, IndexesAgree
<1>1. CASE Restart
  <2>1. Loaded \in Seq(Event)
    BY <1>t, LoadedIsThePrefix
  <2>2. events' \in Seq(Event) /\ seen' \in Seq(Event) /\ lastHash' \in Nat
    BY <1>1, <2>1, LastIsTyped DEF Restart
  <2>3. byActor' = Index(events') /\ byActor' \in [Actor -> SUBSET (1..Len(events'))]
    BY <1>1, IndexIsTyped DEF Restart
  <2> QED
    BY <1>1, <1>t, <2>2, <2>3
       DEF Restart, AuditTypeOK, TypedAndIndexed, IndexesAgree, CutHasALine
<1>2. ASSUME NEW a \in Actor, NEW outcome \in Outcome, LogEvent(a, outcome)
      PROVE  TypedAndIndexed' /\ CutHasALine'
  <2> DEFINE e == Fresh(a)
             evs == Append(events, e)
  <2>1. /\ e \in Event /\ e.actor = a /\ Write(e, outcome) /\ Remember(e)
        /\ logged' = e.no /\ lastHash' = e.no /\ seen' = Append(seen, e)
    BY <1>2, <1>t, FreshIsAnEvent DEF LogEvent, Fresh
  <2>2. e.no \in Nat
    BY <2>1 DEF Event
  <2> HIDE DEF e
  <2>3. /\ file' \in Seq(Event \cup {Junk}) /\ cut' \in BOOLEAN /\ faults' \in Nat
        /\ missed' \in BOOLEAN /\ gap' \in BOOLEAN /\ (cut' => file' # <<>>)
    BY <1>t, <2>1, Written DEF CutHasALine
  <2>4. events' \in Seq(Event) /\ evs \in Seq(Event) /\ Len(evs) = Len(events) + 1
    BY <1>t, <2>1, Remembered
  <2>5. byActor' = Index(events')
    <3>1. CASE Len(evs) > 2 * MaxBuffer
      BY <2>1, <3>1 DEF Remember
    <3>2. CASE ~(Len(evs) > 2 * MaxBuffer)
      <4>1. events' = evs /\ byActor' = [byActor EXCEPT ![a] = byActor[a] \cup {Len(evs)}]
        BY <2>1, <3>2 DEF Remember
      <4>2. /\ Len(events) \in Nat /\ evs[Len(evs)] = e
            /\ \A i \in 1..Len(events) : evs[i] = events[i]
        BY <1>t, <2>1 DEF AuditTypeOK
      <4> HIDE DEF evs
      <4>3. ASSUME NEW b \in Actor
            PROVE  byActor'[b] = {i \in 1..Len(evs) : evs[i].actor = b}
        <5>1. byActor[b] = {i \in 1..Len(events) : events[i].actor = b}
          BY <1>t DEF Index
        <5>2. 1..Len(evs) = 1..Len(events) \cup {Len(evs)} /\ Len(evs) \notin 1..Len(events)
          BY <2>4, <4>2
        <5>3. byActor \in [Actor -> SUBSET (1..Len(events))]
          BY <1>t DEF AuditTypeOK
        <5>4. CASE b = a
          <6>1. byActor'[b] = byActor[b] \cup {Len(evs)}
            BY <4>1, <5>3, <5>4
          <6> QED
            BY <2>1, <4>2, <5>1, <5>2, <5>4, <6>1
        <5>5. CASE b # a
          <6>1. byActor'[b] = byActor[b]
            BY <4>1, <5>3, <5>5
          <6> QED
            BY <2>1, <4>2, <5>1, <5>2, <5>5, <6>1
        <5> QED
          BY <5>4, <5>5
      <4>4. byActor' = [b \in Actor |-> byActor'[b]]
        BY <1>t, <4>1 DEF AuditTypeOK
      <4> QED
        BY <4>1, <4>3, <4>4 DEF Index
    <3> QED
      BY <3>1, <3>2
  <2>6. byActor' \in [Actor -> SUBSET (1..Len(events'))]
    BY <2>5, IndexIsTyped
  <2>7. seen' \in Seq(Event)
    BY <1>t, <2>1 DEF AuditTypeOK
  <2>8. logged' \in Nat /\ lastHash' \in Nat
    BY <2>1, <2>2
  <2>9. AuditTypeOK'
    BY <2>3, <2>4, <2>6, <2>7, <2>8 DEF AuditTypeOK
  <2> QED
    BY <2>3, <2>5, <2>9 DEF TypedAndIndexed, IndexesAgree, CutHasALine
<1>3. CASE UNCHANGED auditVars
  BY <1>3 DEF auditVars, TypedAndIndexed, AuditTypeOK, IndexesAgree, CutHasALine
<1> QED
  BY <1>1, <1>2, <1>3 DEF AuditNext

LEMMA CutInit == AuditInit => CutHasALine
BY DEF AuditInit, CutHasALine

\* The log is well typed, and no index points outside the buffer, in every reachable
\* state.
THEOREM AuditTypeCorrect == AuditSpec => []AuditTypeOK
<1>1. TypedAndIndexed => AuditTypeOK
  BY DEF TypedAndIndexed
<1> QED
  BY <1>1, AuditTypedInit, CutInit, AuditTypedStep, PTL DEF AuditSpec
-----------------------------------------------------------------------------
(* The buffer *)

\* A sequence is the end of another if it is so place by place.
LEMMA EndByPlaces ==
  ASSUME NEW S, NEW s \in Seq(S), NEW t \in Seq(S), Len(t) <= Len(s),
         \A i \in 1..Len(t) : t[i] = s[Len(s) - Len(t) + i]
  PROVE  t = Newest(s, Len(t))
<1>1. Len(t) \in 0..Len(s)
  OBVIOUS
<1>2. /\ Newest(s, Len(t)) \in Seq(S) /\ Len(Newest(s, Len(t))) = Len(t)
      /\ \A i \in 1..Len(t) : Newest(s, Len(t))[i] = s[Len(s) - Len(t) + i]
  BY <1>1, NewestFacts
<1> QED
  BY <1>2

\* The end of a sequence and a new element are the end of what that element extends.
LEMMA EndGrows ==
  ASSUME NEW S, NEW s \in Seq(S), NEW t \in Seq(S), NEW e \in S,
         Len(t) <= Len(s), t = Newest(s, Len(t))
  PROVE  /\ Len(Append(t, e)) <= Len(Append(s, e))
         /\ Append(t, e) = Newest(Append(s, e), Len(Append(t, e)))
<1> DEFINE u == Append(t, e)
           r == Append(s, e)
           n == Len(t)
           m == Len(s)
<1>1. /\ u \in Seq(S) /\ r \in Seq(S) /\ n \in Nat /\ m \in Nat
      /\ Len(u) = n + 1 /\ Len(r) = m + 1 /\ n <= m
  OBVIOUS
<1>2. \A i \in 1..n : t[i] = s[m - n + i]
  <2>1. n \in 0..m
    BY <1>1
  <2> QED
    BY <2>1, NewestFacts
<1>3. ASSUME NEW i \in 1..(n + 1)
      PROVE  u[i] = r[(m + 1) - (n + 1) + i]
  <2>1. CASE i = n + 1
    BY <1>1, <2>1
  <2>2. CASE i # n + 1
    <3>1. i \in 1..n /\ m - n + i \in 1..m /\ (m + 1) - (n + 1) + i = m - n + i
      BY <1>1, <2>2
    <3>2. u[i] = t[i] /\ r[m - n + i] = s[m - n + i]
      BY <1>1, <3>1
    <3> QED
      BY <1>2, <3>1, <3>2
  <2> QED
    BY <2>1, <2>2
<1>4. Len(u) <= Len(r)
  BY <1>1
<1> HIDE DEF u, r
<1>5. \A i \in 1..Len(u) : u[i] = r[Len(r) - Len(u) + i]
  BY <1>1, <1>3
<1>6. u = Newest(r, Len(u))
  BY <1>1, <1>4, <1>5, EndByPlaces
<1> QED
  BY <1>4, <1>6 DEF u, r

\* The end of an end is an end.
LEMMA EndOfEnd ==
  ASSUME NEW S, NEW s \in Seq(S), NEW t \in Seq(S), NEW k \in 0..Len(t),
         Len(t) <= Len(s), t = Newest(s, Len(t))
  PROVE  Newest(t, k) = Newest(s, k)
<1>1. Len(s) \in Nat /\ Len(t) \in 0..Len(s) /\ k \in 0..Len(s) /\ k \in Nat
  OBVIOUS
<1>2. /\ Newest(t, k) \in Seq(S) /\ Len(Newest(t, k)) = k
      /\ \A i \in 1..k : Newest(t, k)[i] = t[Len(t) - k + i]
  BY NewestFacts
<1>3. /\ Newest(s, k) \in Seq(S) /\ Len(Newest(s, k)) = k
      /\ \A i \in 1..k : Newest(s, k)[i] = s[Len(s) - k + i]
  BY <1>1, NewestFacts
<1>4. \A i \in 1..Len(t) : t[i] = s[Len(s) - Len(t) + i]
  BY <1>1, NewestFacts
<1>5. ASSUME NEW i \in 1..k
      PROVE  Newest(t, k)[i] = Newest(s, k)[i]
  <2>1. Len(t) - k + i \in 1..Len(t)
    BY <1>1
  <2>2. Len(s) - Len(t) + (Len(t) - k + i) = Len(s) - k + i
    BY <1>1
  <2> QED
    BY <1>2, <1>3, <1>4, <2>1, <2>2
<1> QED
  BY <1>2, <1>3, <1>5

\* With every write whole, the file holds each event logged, on a line of its own.
FileIsWhole ==
  faults = 0 => /\ ~cut /\ Len(file) = logged
                /\ \A i \in 1..Len(file) : file[i] # Junk

Recent == BufferIsRecent /\ FileIsWhole

LEMMA RecentInit == AuditInit => Recent
<1> SUFFICES ASSUME AuditInit PROVE Recent
  OBVIOUS
<1>1. events \in Seq(Event) /\ Len(events) = 0 /\ seen = events /\ Len(file) = 0
  BY DEF AuditInit
<1>2. events = Newest(seen, Len(events))
  <2>1. \A i \in 1..Len(events) : events[i] = seen[Len(seen) - Len(events) + i]
    BY <1>1
  <2>2. seen \in Seq(Event) /\ Len(events) <= Len(seen)
    BY <1>1
  <2> QED
    BY <1>1, <2>1, <2>2, EndByPlaces
<1>3. logged = 0 /\ ~cut
  BY DEF AuditInit
<1>4. BufferIsRecent
  BY <1>1, <1>2, <1>3 DEF BufferIsRecent
<1>5. FileIsWhole
  BY <1>1, <1>3 DEF FileIsWhole
<1> QED
  BY <1>4, <1>5 DEF Recent

LEMMA RecentStep ==
  TypedAndIndexed /\ CutHasALine /\ Recent /\ [AuditNext]_auditVars => Recent'
<1> SUFFICES ASSUME TypedAndIndexed, CutHasALine, Recent, [AuditNext]_auditVars
             PROVE  Recent'
  OBVIOUS
<1>t. AuditTypeOK
  BY DEF TypedAndIndexed
<1>1. CASE Restart
  <2>1. /\ Loaded \in Seq(Event) /\ events' = Loaded /\ seen' = Loaded
        /\ (\A i \in 1..Len(file) : file[i] # Junk) => Loaded = file
    BY <1>1, <1>t, LoadedIsThePrefix DEF Restart
  <2>2. Len(events') <= Len(seen') /\ events' = Newest(seen', Len(events'))
    <3>1. \A i \in 1..Len(Loaded) : Len(Loaded) - Len(Loaded) + i = i
      BY <2>1
    <3>2. Loaded = Newest(Loaded, Len(Loaded))
      BY <2>1, <3>1, EndByPlaces
    <3> QED
      BY <2>1, <3>2
  <2>3. faults' = 0 => Len(seen') = logged'
    BY <1>1, <2>1 DEF Restart, Recent, FileIsWhole
  <2>4. FileIsWhole'
    BY <1>1 DEF Restart, Recent, FileIsWhole
  <2>5. events' = seen'
    BY <2>1
  <2> QED
    BY <2>2, <2>3, <2>4, <2>5 DEF Recent, BufferIsRecent
<1>2. ASSUME NEW a \in Actor, NEW outcome \in Outcome, LogEvent(a, outcome)
      PROVE  Recent'
  <2> DEFINE e == Fresh(a)
             evs == Append(events, e)
  <2>1. /\ e \in Event /\ Write(e, outcome) /\ Remember(e)
        /\ logged' = logged + 1 /\ seen' = Append(seen, e)
    BY <1>2, <1>t, FreshIsAnEvent DEF LogEvent, Fresh
  <2>2. e \in Event /\ e # Junk
    BY <2>1, AuditAssumption
  <2> HIDE DEF e
  <2>3. /\ evs \in Seq(Event) /\ Len(evs) = Len(events) + 1
        /\ \/ events' = evs /\ ~(Len(evs) > 2 * MaxBuffer)
           \/ Len(evs) > 2 * MaxBuffer /\ events' = Newest(evs, MaxBuffer)
              /\ MaxBuffer \in 0..Len(evs)
    BY <1>t, <2>1, Remembered
  <2>4. /\ events \in Seq(Event) /\ seen \in Seq(Event) /\ seen' \in Seq(Event)
        /\ Len(events) \in Nat /\ Len(seen) \in Nat /\ Len(seen') = Len(seen) + 1
    BY <1>t, <2>1 DEF AuditTypeOK
  <2>5. Len(evs) <= Len(seen') /\ evs = Newest(seen', Len(evs))
    BY <2>1, <2>4, EndGrows DEF Recent, BufferIsRecent
  <2>m. MaxBuffer \in Nat
    BY AuditAssumption
  <2> HIDE DEF evs
  <2>6. /\ Len(events') <= Len(seen') /\ events' = Newest(seen', Len(events'))
        /\ Len(events') >= MaxBuffer \/ events' = seen'
    <3>1. CASE events' = evs
      <4>1. CASE Len(events) >= MaxBuffer
        BY <2>3, <2>4, <2>5, <2>m, <3>1, <4>1
      <4>2. CASE events = seen
        BY <2>1, <2>5, <3>1, <4>2 DEF evs
      <4> QED
        BY <4>1, <4>2 DEF Recent, BufferIsRecent
    <3>2. CASE events' = Newest(evs, MaxBuffer) /\ MaxBuffer \in 0..Len(evs)
      <4>1. Len(events') = MaxBuffer
        BY <2>3, <3>2, NewestFacts
      <4>2. events' = Newest(seen', MaxBuffer)
        BY <2>3, <2>4, <2>5, <3>2, EndOfEnd
      <4>3. MaxBuffer <= Len(seen') /\ MaxBuffer >= MaxBuffer
        BY <2>3, <2>4, <2>5, <2>m, <3>2
      <4> QED
        BY <4>1, <4>2, <4>3
    <3> QED
      BY <2>3, <3>1, <3>2
  <2>7. ASSUME faults' = 0
        PROVE  /\ Len(seen') = logged' /\ ~cut' /\ Len(file') = logged'
               /\ \A i \in 1..Len(file') : file'[i] # Junk
    <3>1. outcome = "whole" /\ faults = 0
      <4>1. faults \in Nat
        BY <1>t DEF AuditTypeOK
      <4>2. faults + 1 # 0
        BY <4>1
      <4> QED
        BY <2>1, <2>7, <4>2 DEF Write
    <3>2. ~cut /\ Len(file) = logged /\ Len(seen) = logged
          /\ \A i \in 1..Len(file) : file[i] # Junk
      BY <3>1 DEF Recent, FileIsWhole, BufferIsRecent
    <3>3. file' = Append(file, e) /\ ~cut'
      BY <2>1, <3>1, <3>2 DEF Write, AddLine
    <3>4. file \in Seq(Event \cup {Junk}) /\ Len(file) \in Nat /\ Len(file') = Len(file) + 1
      BY <1>t, <3>3 DEF AuditTypeOK
    <3>5. \A i \in 1..Len(file') : file'[i] # Junk
      <4>1. ASSUME NEW i \in 1..Len(file') PROVE file'[i] # Junk
        <5>1. CASE i = Len(file) + 1
          BY <2>2, <3>3, <3>4, <5>1
        <5>2. CASE i # Len(file) + 1
          <6>1. i \in 1..Len(file)
            BY <3>4, <5>2
          <6> QED
            BY <3>2, <3>3, <3>4, <6>1
        <5> QED
          BY <5>1, <5>2
      <4> QED
        BY <4>1
    <3> QED
      BY <2>1, <2>4, <3>2, <3>3, <3>4, <3>5
  <2> QED
    BY <2>6, <2>7 DEF Recent, BufferIsRecent, FileIsWhole
<1>3. CASE UNCHANGED auditVars
  BY <1>3 DEF auditVars, Recent, BufferIsRecent, FileIsWhole
<1> QED
  BY <1>1, <1>2, <1>3 DEF AuditNext

\* An index that is the buffer's and a buffer that is the end of what was seen make
\* queries find what they should.
LEMMA QueriesFindThem ==
  ASSUME AuditTypeOK, IndexesAgree, BufferIsRecent
  PROVE  QueriesFind
<1>1. /\ events \in Seq(Event) /\ seen \in Seq(Event)
      /\ Len(events) \in Nat /\ Len(seen) \in Nat /\ MaxBuffer \in Nat
  BY AuditAssumption DEF AuditTypeOK
<1>2. ASSUME NEW a \in Actor, NEW limit, NEW offset, NEW e \in QueryEvents(a, limit, offset)
      PROVE  e.actor = a
  BY <1>2 DEF QueryEvents, IndexesAgree, Index
<1>3. ASSUME NEW a \in Actor, NEW limit \in 1..Len(events),
             NEW i \in 1..Len(seen), i > Len(seen) - MaxBuffer, seen[i].actor = a
      PROVE  \E offset \in 0..Len(events) : seen[i] \in QueryEvents(a, limit, offset)
  <2>1. \E k \in 1..Len(events) : events[k] = seen[i]
    <3>1. CASE events = seen
      BY <3>1
    <3>2. CASE Len(events) >= MaxBuffer
      <4> DEFINE k == i - (Len(seen) - Len(events))
      <4>1. Len(events) <= Len(seen) /\ events = Newest(seen, Len(events))
        BY DEF BufferIsRecent
      <4>2. k \in 1..Len(events) /\ Len(seen) - Len(events) + k = i
        BY <1>1, <1>3, <3>2, <4>1
      <4>3. Len(events) \in 0..Len(seen)
        BY <1>1, <4>1
      <4>4. \A j \in 1..Len(events) :
              Newest(seen, Len(events))[j] = seen[Len(seen) - Len(events) + j]
        BY <1>1, <4>3, NewestFacts
      <4> HIDE DEF k
      <4> QED
        BY <4>1, <4>2, <4>4
    <3> QED
      BY <3>1, <3>2 DEF BufferIsRecent
  <2>2. PICK k \in byActor[a] : events[k] = seen[i]
    BY <1>3, <2>1 DEF IndexesAgree, Index
  <2> DEFINE N == {j \in byActor[a] : j > k}
             n == Cardinality(N)
  <2>3. N \subseteq 1..Len(events)
    BY DEF IndexesAgree, Index
  <2> DEFINE l == Len(events)
  <2>4. IsFiniteSet(1..l) /\ Cardinality(1..l) = l
    <3>1. l \in Nat
      BY <1>1
    <3> HIDE DEF l
    <3>2. IsFiniteSet(1..l) /\ Cardinality(1..l) = IF 1 > l THEN 0 ELSE l - 1 + 1
      BY <3>1, FS_Interval
    <3> QED
      BY <3>1, <3>2
  <2>5. n \in Nat /\ n <= Len(events)
    <3> HIDE DEF N
    <3> QED
      BY <2>3, <2>4, FS_Subset, FS_CardinalityType
  <2>6. n \in 0..Len(events) /\ n \in n..(n + limit - 1)
    BY <1>1, <2>5
  <2>7. events[k] \in QueryEvents(a, limit, n)
    BY <2>6 DEF QueryEvents
  <2> HIDE DEF n, N
  <2> QED
    BY <2>2, <2>6, <2>7
<1> QED
  BY <1>2, <1>3 DEF QueriesFind

\* The buffer holds the newest events, at least max_buffer_size of them if there are so
\* many, a log whose writes never failed is whole after every restart, and the index of
\* the actors is that of the buffer: for every buffer size.
THEOREM NothingRecentIsForgotten == AuditSpec => []MemoryIsTrue
<1>1. TypedAndIndexed /\ Recent => MemoryIsTrue
  BY QueriesFindThem DEF TypedAndIndexed, Recent, MemoryIsTrue
<1> QED
  BY <1>1, AuditTypedInit, CutInit, AuditTypedStep, RecentInit, RecentStep, PTL DEF AuditSpec
-----------------------------------------------------------------------------
(* The chain *)

NoJunk == \A j \in 1..Len(file) : file[j] # Junk

\* The lines a start would load are chained, and if this run has written all it has
\* logged, the next event continues their chain.
FileIsChained ==
  /\ \A i \in 2..Len(file) :
       (\A j \in 1..i : file[j] # Junk) => file[i].prev = file[i - 1].no
  /\ ~missed /\ NoJunk => LastOf(file) = lastHash

ChainInv ==
  /\ lastHash = LastOf(events)
  /\ gap \/ (Chained(events) /\ FileIsChained)

LEMMA ChainInit == AuditInit => ChainInv
<1> SUFFICES ASSUME AuditInit PROVE ChainInv
  OBVIOUS
<1>1. Len(events) = 0 /\ Len(file) = 0 /\ events = <<>> /\ file = <<>> /\ lastHash = 0
  BY DEF AuditInit
<1> QED
  BY <1>1 DEF ChainInv, Chained, FileIsChained, LastOf

\* An event put behind the last one of a chain continues it.
LEMMA ChainGrows ==
  ASSUME NEW evs \in Seq(Event), Chained(evs), NEW e \in Event, e.prev = LastOf(evs)
  PROVE  Chained(Append(evs, e))
<1> DEFINE n == Len(evs)
           u == Append(evs, e)
<1>1. n \in Nat /\ Len(u) = n + 1 /\ u[n + 1] = e /\ \A i \in 1..n : u[i] = evs[i]
  OBVIOUS
<1> HIDE DEF u
<1>2. ASSUME NEW i \in 2..(n + 1)
      PROVE  u[i].prev = u[i - 1].no
  <2>1. CASE i = n + 1
    <3>1. evs # <<>> /\ n \in 1..n /\ i - 1 = n
      BY <1>1, <2>1
    <3> QED
      BY <1>1, <2>1, <3>1 DEF LastOf
  <2>2. CASE i # n + 1
    <3>1. i \in 2..n /\ i \in 1..n /\ i - 1 \in 1..n
      BY <1>1, <2>2
    <3> QED
      BY <1>1, <3>1 DEF Chained
  <2> QED
    BY <2>1, <2>2
<1>3. Chained(u)
  BY <1>1, <1>2 DEF Chained
<1> QED
  BY <1>3 DEF u

\* The end of a chain is a chain.
LEMMA ChainEnd ==
  ASSUME NEW evs \in Seq(Event), Chained(evs), NEW k \in 0..Len(evs)
  PROVE  Chained(Newest(evs, k))
<1>1. Len(evs) \in Nat /\ k \in Nat /\ k <= Len(evs)
  OBVIOUS
<1>2. /\ Len(Newest(evs, k)) = k
      /\ \A i \in 1..k : Newest(evs, k)[i] = evs[Len(evs) - k + i]
  BY NewestFacts
<1>3. ASSUME NEW i \in 2..k
      PROVE  Newest(evs, k)[i].prev = Newest(evs, k)[i - 1].no
  <2>1. i \in 1..k /\ i - 1 \in 1..k /\ Len(evs) - k + i \in 2..Len(evs)
    BY <1>1
  <2>2. Len(evs) - k + (i - 1) = (Len(evs) - k + i) - 1
    BY <1>1
  <2>3. evs[Len(evs) - k + i].prev = evs[(Len(evs) - k + i) - 1].no
    BY <2>1 DEF Chained
  <2> QED
    BY <1>2, <2>1, <2>2, <2>3
<1> QED
  BY <1>2, <1>3 DEF Chained

LEMMA ChainStep ==
  TypedAndIndexed /\ CutHasALine /\ ChainInv /\ [AuditNext]_auditVars => ChainInv'
<1> SUFFICES ASSUME TypedAndIndexed, CutHasALine, ChainInv, [AuditNext]_auditVars
             PROVE  ChainInv'
  OBVIOUS
<1>t. AuditTypeOK
  BY DEF TypedAndIndexed
<1>f. file \in Seq(Event \cup {Junk}) /\ Len(file) \in Nat
  BY <1>t DEF AuditTypeOK
<1>1. CASE Restart
  <2>1. /\ Loaded \in Seq(Event) /\ Len(Loaded) = Readable
        /\ \A i \in 1..Readable : Loaded[i] = file[i] /\ file[i] # Junk
        /\ (\A i \in 1..Len(file) : file[i] # Junk) => Loaded = file
        /\ Readable \in 0..Len(file)
    BY <1>t, LoadedIsThePrefix, ReadableExists
  <2>2. /\ events' = Loaded /\ lastHash' = LastOf(Loaded) /\ file' = file
        /\ gap' = gap
    BY <1>1 DEF Restart
  <2>3. ASSUME FileIsChained
        PROVE  Chained(Loaded) /\ FileIsChained'
    <3>1. ASSUME NEW i \in 2..Readable
          PROVE  Loaded[i].prev = Loaded[i - 1].no
      <4>1. i \in 2..Len(file) /\ i \in 1..Readable /\ i - 1 \in 1..Readable
        BY <1>f, <2>1
      <4>2. \A j \in 1..i : file[j] # Junk
        BY <2>1, <4>1
      <4> QED
        BY <2>1, <2>3, <4>1, <4>2 DEF FileIsChained
    <3>2. Chained(Loaded)
      BY <2>1, <3>1 DEF Chained
    <3>3. NoJunk' => LastOf(file') = lastHash'
      BY <2>1, <2>2 DEF NoJunk
    <3>4. \A i \in 2..Len(file') :
            (\A j \in 1..i : file'[j] # Junk) => file'[i].prev = file'[i - 1].no
      BY <2>2, <2>3 DEF FileIsChained
    <3> QED
      BY <3>2, <3>3, <3>4 DEF FileIsChained
  <2> QED
    BY <2>2, <2>3 DEF ChainInv
<1>2. ASSUME NEW a \in Actor, NEW outcome \in Outcome, LogEvent(a, outcome)
      PROVE  ChainInv'
  <2> DEFINE e == Fresh(a)
             evs == Append(events, e)
  <2>1. /\ e \in Event /\ e.prev = lastHash /\ Write(e, outcome) /\ Remember(e)
        /\ lastHash' = e.no
    BY <1>2, <1>t, FreshIsAnEvent DEF LogEvent, Fresh
  <2>2. e # Junk
    BY <2>1, AuditAssumption
  <2> HIDE DEF e
  <2>3. /\ evs \in Seq(Event)
        /\ \/ events' = evs
           \/ events' = Newest(evs, MaxBuffer) /\ MaxBuffer \in 0..Len(evs)
        /\ events' # <<>> /\ events'[Len(events')] = e
    BY <1>t, <2>1, Remembered
  <2>4. lastHash' = LastOf(events')
    BY <2>1, <2>3 DEF LastOf
  <2>5. ASSUME ~gap'
        PROVE  ~gap /\ (outcome # "nothing" => ~missed)
    BY <2>1, <2>5 DEF Write
  <2>6. ASSUME ~gap'
        PROVE  Chained(events')
    <3>1. Chained(events) /\ events \in Seq(Event) /\ e.prev = LastOf(events)
      BY <1>t, <2>1, <2>5, <2>6 DEF ChainInv, AuditTypeOK
    <3>2. Chained(evs)
      BY <2>1, <3>1, ChainGrows
    <3> HIDE DEF evs
    <3> QED
      BY <2>3, <3>2, ChainEnd
  <2>7. ASSUME ~gap'
        PROVE  FileIsChained'
    <3>0. FileIsChained /\ (outcome # "nothing" => ~missed)
      BY <2>5, <2>7 DEF ChainInv
    <3> DEFINE n == Len(file)
    <3>1. CASE file' = file /\ outcome = "nothing"
      <4>1. missed' = TRUE
        BY <2>1, <3>1 DEF Write
      <4> QED
        BY <3>0, <3>1, <4>1 DEF FileIsChained
    <3>2. CASE file' = Append(file, Junk)
      <4>1. /\ Len(file') = n + 1 /\ file'[n + 1] = Junk
            /\ \A i \in 1..n : file'[i] = file[i]
        BY <1>f, <3>2
      <4>2. ~NoJunk'
        BY <1>f, <4>1 DEF NoJunk
      <4>3. ASSUME NEW i \in 2..(n + 1), \A j \in 1..i : file'[j] # Junk
            PROVE  file'[i].prev = file'[i - 1].no
        <5>1. i # n + 1
          BY <1>f, <4>1, <4>3
        <5>2. i \in 2..n /\ i \in 1..n /\ i - 1 \in 1..n /\ \A j \in 1..i : j \in 1..n
          BY <1>f, <5>1
        <5> QED
          BY <3>0, <4>1, <4>3, <5>2 DEF FileIsChained
      <4> QED
        BY <4>1, <4>2, <4>3 DEF FileIsChained
    <3>3. CASE file' = Append(file, e) /\ outcome # "nothing"
      <4>1. /\ Len(file') = n + 1 /\ file'[n + 1] = e
            /\ \A i \in 1..n : file'[i] = file[i]
        BY <1>f, <3>3
      <4>2. LastOf(file') = lastHash'
        <5>1. file' # <<>>
          BY <1>f, <4>1
        <5> QED
          BY <2>1, <4>1, <5>1 DEF LastOf
      <4>3. ASSUME NEW i \in 2..(n + 1), \A j \in 1..i : file'[j] # Junk
            PROVE  file'[i].prev = file'[i - 1].no
        <5>1. CASE i = n + 1
          <6>1. n \in 1..n /\ i - 1 = n /\ file # <<>>
            BY <1>f, <5>1
          <6>2. \A j \in 1..n : j \in 1..i
            BY <1>f, <5>1
          <6>3. NoJunk
            BY <4>1, <4>3, <6>2 DEF NoJunk
          <6>4. file[n].no = lastHash
            BY <3>0, <3>3, <6>1, <6>3 DEF FileIsChained, LastOf
          <6> QED
            BY <2>1, <4>1, <5>1, <6>1, <6>4
        <5>2. CASE i # n + 1
          <6>1. i \in 2..n /\ i \in 1..n /\ i - 1 \in 1..n /\ \A j \in 1..i : j \in 1..n
            BY <1>f, <5>2
          <6> QED
            BY <3>0, <4>1, <4>3, <6>1 DEF FileIsChained
        <5> QED
          BY <5>1, <5>2
      <4> QED
        BY <4>1, <4>2, <4>3 DEF FileIsChained
    <3>4. CASE file' = [file EXCEPT ![n] = Junk] /\ cut
      <4>1. n \in 1..n
        BY <1>f, <3>4 DEF CutHasALine
      <4>2. /\ Len(file') = n /\ file'[n] = Junk
            /\ \A i \in 1..n : i # n => file'[i] = file[i]
        BY <1>f, <3>4, <4>1
      <4>3. ~NoJunk'
        BY <4>1, <4>2 DEF NoJunk
      <4>4. ASSUME NEW i \in 2..n, \A j \in 1..i : file'[j] # Junk
            PROVE  file'[i].prev = file'[i - 1].no
        <5>1. i # n
          BY <1>f, <4>2, <4>4
        <5>2. /\ i \in 1..n /\ i - 1 \in 1..n /\ i - 1 # n
              /\ \A j \in 1..i : j \in 1..n /\ j # n
          BY <1>f, <5>1
        <5> QED
          BY <3>0, <4>2, <4>4, <5>1, <5>2 DEF FileIsChained
      <4> QED
        BY <4>2, <4>3, <4>4 DEF FileIsChained
    <3> QED
      BY <1>t, <2>1, <3>1, <3>2, <3>3, <3>4, Written DEF CutHasALine
  <2> QED
    BY <2>4, <2>6, <2>7 DEF ChainInv
<1>3. CASE UNCHANGED auditVars
  BY <1>3 DEF auditVars, ChainInv, Chained, FileIsChained, NoJunk, LastOf
<1> QED
  BY <1>1, <1>2, <1>3 DEF AuditNext

\* The chain verifies unless an event was written behind a missed one: whatever lines
\* were torn, whenever the process ended, for every buffer size.
THEOREM ChainHolds == AuditSpec => []NoFalseAlarm
<1>1. ChainInv => NoFalseAlarm
  BY DEF ChainInv, NoFalseAlarm
<1> QED
  BY <1>1, AuditTypedInit, CutInit, AuditTypedStep, ChainInit, ChainStep, PTL DEF AuditSpec

-----------------------------------------------------------------------------
(* Sessions *)

\* Every token runs out with its user's session at the latest, and no token lives longer
\* than one handed out now.
SessionInv ==
  /\ clock \in Nat /\ until \in [User -> Nat]
  /\ \A t \in tokens : /\ t.sub \in User /\ t.exp \in Nat
                       /\ t.exp <= until[t.sub] /\ t.exp <= clock + RefreshTtl

\* What Issue hands out is the user's own, and lives no longer than a refresh token.
LEMMA IssuedTokens ==
  ASSUME NEW u \in User, NEW r, clock \in Nat, Issue(u, r), NEW t \in tokens'
  PROVE  t \in tokens \/ (t.sub = u /\ t.exp \in Nat /\ t.exp <= clock + RefreshTtl)
<1>1. CASE t = AccessToken(u, r)
  BY <1>1, AccessAssumption DEF AccessToken
<1>2. CASE t = RefreshToken(u)
  BY <1>2, AccessAssumption DEF RefreshToken
<1>3. QED
  BY <1>1, <1>2 DEF Issue

\* Every step keeps it: who issues tokens extends the session of the same user.
LEMMA SessionStep ==
  ASSUME SessionInv, [AccessNext]_accessVars PROVE SessionInv'
<1> USE DEF SessionInv
<1>1. ASSUME NEW u \in User, Login(u) PROVE SessionInv'
  <2>1. /\ clock' = clock /\ clock + RefreshTtl \in Nat
        /\ until' = [until EXCEPT ![u] = clock + RefreshTtl]
    BY <1>1, AccessAssumption DEF Login
  <2>2. ASSUME NEW t \in tokens'
        PROVE  t \in tokens \/ (t.sub = u /\ t.exp \in Nat /\ t.exp <= clock + RefreshTtl)
    BY <1>1, <2>2, IssuedTokens DEF Login
  <2>3. QED
    BY <2>1, <2>2, AccessAssumption
<1>2. ASSUME NEW t0 \in tokens, Refresh(t0) PROVE SessionInv'
  <2>1. /\ clock' = clock /\ clock + RefreshTtl \in Nat /\ t0.sub \in User
        /\ until' = [until EXCEPT ![t0.sub] = clock + RefreshTtl]
    BY <1>2, AccessAssumption DEF Refresh, Refreshable, Valid
  <2>2. ASSUME NEW t \in tokens'
        PROVE  t \in tokens \/ (t.sub = t0.sub /\ t.exp \in Nat /\ t.exp <= clock + RefreshTtl)
    BY <1>2, <2>1, <2>2, IssuedTokens DEF Refresh
  <2>3. QED
    BY <2>1, <2>2, AccessAssumption
<1>3. CASE ClockTick
  BY <1>3, AccessAssumption DEF ClockTick
<1>4. ASSUME UNCHANGED <<clock, tokens, until>> PROVE SessionInv'
  BY <1>4
<1>5. CASE UNCHANGED accessVars
  BY <1>4, <1>5 DEF accessVars
<1>6. QED
  BY <1>1, <1>2, <1>3, <1>4, <1>5
     DEF AccessNext, AssignRole, AddPermission, RemovePermission, GenerateKey, RevokeKey,
         GetCurrentUser

\* At the start there are no tokens.
LEMMA SessionInit == AccessInit => SessionInv
BY DEF AccessInit, SessionInv

\* Only a request changes who the caller is, and only a valid token makes one by a token.
LEMMA CallerIsValid ==
  ASSUME SessionInv, [AccessNext]_accessVars, caller' # caller,
         caller'.by \in {"access", "refresh"}
  PROVE  clock < until[caller'.user]
<1>1. PICK bearer \in Credentials(tokens), key \in Credentials(KeyId) : GetCurrentUser(bearer, key)
  BY DEF AccessNext, accessVars, Login, Refresh, AssignRole, AddPermission, RemovePermission,
         GenerateKey, RevokeKey, ClockTick
<1>2. caller' = Authenticated(bearer, key)
  BY <1>1 DEF GetCurrentUser
<1>3. PICK t \in bearer : Valid(t)
  BY <1>2 DEF Authenticated, KeyIdentity, Nobody
<1>4. bearer = {t} /\ t \in tokens /\ clock < t.exp
  BY <1>1, <1>3 DEF Credentials, Valid
<1>5. caller'.user = t.sub
  BY <1>2, <1>3, <1>4 DEF Authenticated, TokenIdentity
<1>6. QED
  BY <1>4, <1>5 DEF SessionInv

\* A session ends, for every life of the tokens in which an access token does not outlive
\* a refresh token.
THEOREM SessionsDoEnd == AccessSpec => SessionsEnd
<1>1. SessionInv /\ [AccessNext]_accessVars => SessionInv'
  BY SessionStep
<1>2. SessionInv /\ [AccessNext]_accessVars
        => [caller' # caller /\ caller'.by \in {"access", "refresh"}
              => clock < until[caller'.user]]_accessVars
  BY CallerIsValid
<1>3. QED
  BY <1>1, <1>2, SessionInit, PTL DEF AccessSpec, SessionsEnd

-----------------------------------------------------------------------------
(* Certificates *)

\* What the index and the history know, they know of rovers.
StoreInv ==
  /\ byRover = [r \in DOMAIN byRover |-> byRover[r]] /\ DOMAIN byRover \subseteq Holder
  /\ newest = [r \in Holder |-> newest[r]]
  /\ StoreAgrees

\* At the start the store is empty.
LEMMA StoreInit == CertInit => StoreInv
BY DEF CertInit, StoreInv, StoreAgrees, GetByRoverId

\* Whom a certificate is added for.
LEMMA AddedForRovers ==
  ASSUME NEW n, NEW given \in {{}} \cup {{r} : r \in Holder}
  PROVE  ActualRoverId(n, given) \subseteq Holder
BY CertificatesAssumption DEF ActualRoverId, ExtractRoverId

\* A certificate that is added is in the table and is its rover's newest.
LEMMA AddKeepsStore ==
  ASSUME StoreInv, NEW n \in Serial, n # 0, NEW given \in {{}} \cup {{r} : r \in Holder},
         NEW written \in BOOLEAN, AddCertificate(n, given, written)
  PROVE  StoreInv'
<1> DEFINE who == ActualRoverId(n, given)
<1>1. who \subseteq Holder
  BY AddedForRovers
<1>2. /\ table' = table \cup {n}
      /\ byRover' = [r \in DOMAIN byRover \cup who |-> IF r \in who THEN n ELSE byRover[r]]
      /\ newest' = [r \in Holder |-> IF r \in who THEN n ELSE newest[r]]
  BY DEF AddCertificate
<1> HIDE DEF who
<1>3. /\ DOMAIN byRover' = DOMAIN byRover \cup who
      /\ \A r \in DOMAIN byRover' : byRover'[r] = IF r \in who THEN n ELSE byRover[r]
      /\ \A r \in Holder : newest'[r] = IF r \in who THEN n ELSE newest[r]
  BY <1>2
<1>4. DOMAIN byRover' \subseteq Holder
  BY <1>1, <1>3 DEF StoreInv
<1>5. \A r \in Holder : GetByRoverId(r)' \subseteq table'
  BY <1>2, <1>3 DEF StoreInv, StoreAgrees, GetByRoverId
<1>6. \A r \in Holder : newest'[r] # 0 => GetByRoverId(r)' = {newest'[r]}
  BY <1>3 DEF StoreInv, StoreAgrees, GetByRoverId
<1>7. table' \subseteq certFiles' \cup unsaved'
  BY <1>2 DEF AddCertificate, StoreInv, StoreAgrees
<1>8. QED
  BY <1>2, <1>3, <1>4, <1>5, <1>6, <1>7 DEF StoreInv, StoreAgrees

\* Index and history let go of a certificate with the table.
LEMMA RemoveKeepsStore ==
  ASSUME StoreInv, NEW n, RemoveCertificate(n) PROVE StoreInv'
<1>1. /\ table' = table \ {n} /\ certFiles' = certFiles /\ unsaved' = unsaved
      /\ byRover' = [r \in {s \in DOMAIN byRover : byRover[s] # n} |-> byRover[r]]
      /\ newest' = [r \in Holder |-> IF newest[r] = n THEN 0 ELSE newest[r]]
  BY DEF RemoveCertificate
<1>2. /\ DOMAIN byRover' = {s \in DOMAIN byRover : byRover[s] # n}
      /\ \A r \in DOMAIN byRover' : byRover'[r] = byRover[r]
      /\ \A r \in Holder : newest'[r] = IF newest[r] = n THEN 0 ELSE newest[r]
  BY <1>1
<1>3. \A r \in Holder : GetByRoverId(r)' \subseteq table'
  BY <1>1, <1>2 DEF StoreInv, StoreAgrees, GetByRoverId
<1>4. \A r \in Holder : newest'[r] # 0 => GetByRoverId(r)' = {newest'[r]}
  BY <1>2 DEF StoreInv, StoreAgrees, GetByRoverId
<1>5. QED
  BY <1>1, <1>2, <1>3, <1>4 DEF StoreInv, StoreAgrees

\* What is loaded are the files, and the index points among them.
LEMMA RestartKeepsStore ==
  ASSUME StoreInv, CertRestart PROVE StoreInv'
<1>1. PICK found \in [{r \in Prefixed : \E n \in certFiles : owner[n] = r} -> certFiles] :
        byRover' = found
  BY DEF CertRestart, LoadFromDisk
<1>2. /\ table' = certFiles /\ certFiles' = certFiles /\ newest' = [r \in Holder |-> 0]
  BY DEF CertRestart, LoadFromDisk
<1>3. DOMAIN byRover' \subseteq Holder /\ \A r \in DOMAIN byRover' : byRover'[r] \in certFiles
  BY <1>1, CertificatesAssumption
<1>4. QED
  BY <1>1, <1>2, <1>3 DEF StoreInv, StoreAgrees, GetByRoverId

\* The serial numbers are those of certificates that were made: none is None.
SerialsCount == 0 \notin Serial

\* Certificates are only ever made at serial numbers from 1 on.
LEMMA SerialsStep ==
  ASSUME SerialsCount, [CertNext]_certVars PROVE SerialsCount'
<1>1. ASSUME NEW name, Make(name) PROVE SerialsCount'
  BY <1>1 DEF Make, SerialsCount, Serial
<1>2. ASSUME owner' = owner PROVE SerialsCount'
  BY <1>2 DEF SerialsCount, Serial
<1>3. QED
  BY <1>1, <1>2
     DEF CertNext, certVars, WriteKey, CreateRoverCertificate, CreateCaCertificate, WriteCert,
         GetCertificateInfo, CreateServerContext, CreateClientContext, RemoveCertificate,
         AddCertificate, CertRestart

\* Every step of the service keeps the store in agreement.
LEMMA StoreStep ==
  ASSUME StoreInv, SerialsCount, [CertNext]_certVars PROVE StoreInv'
<1>1. ASSUME NEW n \in Serial, NEW given \in {{}} \cup {{r} : r \in Holder},
             NEW written \in BOOLEAN, AddCertificate(n, given, written)
      PROVE  StoreInv'
  BY <1>1, AddKeepsStore DEF SerialsCount
<1>2. ASSUME NEW n \in Serial, RemoveCertificate(n) PROVE StoreInv'
  BY <1>2, RemoveKeepsStore
<1>3. CASE CertRestart
  BY <1>3, RestartKeepsStore
<1>4. ASSUME UNCHANGED storeVars PROVE StoreInv'
  BY <1>4 DEF storeVars, StoreInv, StoreAgrees, GetByRoverId
<1>5. QED
  BY <1>1, <1>2, <1>3, <1>4
     DEF CertNext, certVars, storeVars, WriteKey, CreateCaCertificate, WriteCert,
         GetCertificateInfo, CreateServerContext, CreateClientContext

\* Table, index and files of the certificate store agree, for every fleet and however
\* often certificates are replaced, removed, fail to be written and are loaded again.
THEOREM StoreDoesAgree == CertSpec => []StoreAgrees
<1>1. CertInit => StoreInv /\ SerialsCount
  BY StoreInit DEF CertInit, SerialsCount, Serial
<1>2. StoreInv /\ SerialsCount /\ [CertNext]_certVars => (StoreInv /\ SerialsCount)'
  BY StoreStep, SerialsStep
<1>3. StoreInv => StoreAgrees
  BY DEF StoreInv
<1>4. QED
  BY <1>1, <1>2, <1>3, PTL DEF CertSpec

-----------------------------------------------------------------------------
(* Types of sessions, users and keys *)

\* The keys' numbers are 1, 2, ... and the rest is typed.
AccessInv == AccessTypeOK /\ \E n \in Nat : KeyId = 1..n

\* What the roles may do, and the demo users' roles.
LEMMA RolesAreTyped ==
  /\ \A r \in Role : RolePermissions[r] \in SUBSET Permission
  /\ \A u \in Account : u \in User /\ DemoRole[u] \in Role
<1>1. \A r \in Role : RolePermissions[r] \in SUBSET Permission
  BY DEF Role, RolePermissions, Permission
<1>2. \A u \in Account : u \in User /\ DemoRole[u] \in Role
  BY DEF Account, DemoRole, Role
<1>3. QED
  BY <1>1, <1>2

\* A table of users with one more entry.
LEMMA AssignIsTyped ==
  ASSUME NEW S, NEW f, DOMAIN f \subseteq User, f \in [DOMAIN f -> S], NEW u \in User, NEW x \in S
  PROVE  /\ DOMAIN Assign(f, u, x) \subseteq User
         /\ Assign(f, u, x) \in [DOMAIN Assign(f, u, x) -> S]
BY DEF Assign

\* Tokens handed out are tokens.
LEMMA IssueIsTyped ==
  ASSUME AccessTypeOK, NEW u \in User, NEW r \in Role, Issue(u, r)
  PROVE  tokens' \subseteq Token
<1>1. clock + AccessTtl \in Nat /\ clock + RefreshTtl \in Nat
  BY AccessAssumption DEF AccessTypeOK
<1>2. AccessToken(u, r) \in Token
  BY <1>1 DEF AccessToken, Token
<1>3. RefreshToken(u) \in Token
  BY <1>1 DEF RefreshToken, Token
<1>4. QED
  BY <1>2, <1>3 DEF Issue, AccessTypeOK

\* Whoever is let in has a role and the permissions that go with it.
LEMMA CallerIsTyped ==
  ASSUME AccessTypeOK, NEW bearer \in Credentials(tokens), NEW key \in Credentials(KeyId)
  PROVE  Authenticated(bearer, key) \in Identity \cup {Nobody}
<1>1. ASSUME NEW t \in tokens PROVE TokenIdentity(t) \in Identity
  <2>1. t.sub \in User /\ t.type \in {"access", "refresh"}
    BY <1>1 DEF AccessTypeOK, Token
  <2> DEFINE r == IF t.role \in Role THEN t.role ELSE "observer"
  <2>2. r \in Role
    BY DEF Role
  <2>3. RolePermissions[r] \in SUBSET Permission
    BY <2>2, RolesAreTyped
  <2>4. TokenIdentity(t) = [user |-> t.sub, role |-> r, permissions |-> RolePermissions[r],
                            by |-> t.type]
    BY DEF TokenIdentity
  <2> HIDE DEF r
  <2>5. QED
    BY <2>1, <2>2, <2>3, <2>4 DEF Identity
<1>2. ASSUME NEW k \in KeyId PROVE KeyIdentity(k) \in Identity
  <2> DEFINE u == keys[k].user
  <2>1. u \in User
    BY <1>2 DEF AccessTypeOK
  <2>2. GetRole(u) \in Role
    BY DEF GetRole, Role, AccessTypeOK
  <2>3. GetUserPermissions(u) \in SUBSET Permission
    BY DEF GetUserPermissions, AccessTypeOK
  <2>4. KeyIdentity(k) = [user |-> u, role |-> GetRole(u), permissions |-> GetUserPermissions(u),
                          by |-> "key"]
    BY DEF KeyIdentity
  <2> HIDE DEF u
  <2>5. QED
    BY <2>1, <2>2, <2>3, <2>4 DEF Identity
<1>3. CASE \E t \in bearer : Valid(t)
  <2>1. (CHOOSE t \in bearer : TRUE) \in tokens
    BY <1>3 DEF Credentials
  <2>2. QED
    BY <1>1, <1>3, <2>1 DEF Authenticated
<1>4. CASE ~(\E t \in bearer : Valid(t)) /\ \E k \in key : KeyOpens(k)
  <2>1. (CHOOSE k \in key : TRUE) \in KeyId
    BY <1>4 DEF Credentials
  <2>2. QED
    BY <1>2, <1>4, <2>1 DEF Authenticated
<1>5. QED
  BY <1>3, <1>4 DEF Authenticated

\* At the start there are no tokens, no keys and no roles.
LEMMA AccessTypeInit == AccessInit => AccessInv
<1> SUFFICES ASSUME AccessInit PROVE AccessInv
  OBVIOUS
<1>1. KeyId = 1..0 /\ Cardinality(KeyId) = 0
  BY FS_EmptySet DEF AccessInit, KeyId
<1>2. QED
  BY <1>1 DEF AccessInit, AccessInv, AccessTypeOK, KeyId

\* Every step keeps the types.
LEMMA AccessTypeStep ==
  ASSUME AccessInv, [AccessNext]_accessVars PROVE AccessInv'
<1> USE DEF AccessInv
<1>1. ASSUME NEW u \in User, Login(u) PROVE AccessInv'
  <2>1. /\ DemoRole[u] \in Role /\ Issue(u, DemoRole[u]) /\ clock + RefreshTtl \in Nat
    BY <1>1, RolesAreTyped, AccessAssumption DEF Login, AccessTypeOK
  <2>2. tokens' \subseteq Token
    BY <2>1, IssueIsTyped
  <2>3. QED
    BY <1>1, <2>1, <2>2 DEF Login, AccessTypeOK, KeyId
<1>2. ASSUME NEW t \in tokens, Refresh(t) PROVE AccessInv'
  <2>1. t.sub \in User /\ clock + RefreshTtl \in Nat
    BY AccessAssumption DEF AccessTypeOK, Token
  <2>2. GetRole(t.sub) \in Role
    BY DEF GetRole, Role, AccessTypeOK
  <2>3. tokens' \subseteq Token
    BY <1>2, <2>1, <2>2, IssueIsTyped DEF Refresh
  <2>4. until' \in [User -> Nat]
    BY <1>2, <2>1 DEF Refresh, AccessTypeOK
  <2>5. QED
    BY <1>2, <2>3, <2>4 DEF Refresh, AccessTypeOK, KeyId
<1>3. ASSUME NEW u \in User, NEW r \in Role, AssignRole(u, r) PROVE AccessInv'
  <2>1. DOMAIN userRole' \subseteq User /\ userRole' \in [DOMAIN userRole' -> Role]
    BY <1>3, AssignIsTyped DEF AssignRole, AccessTypeOK
  <2>2. RolePermissions[r] \in SUBSET Permission
    BY RolesAreTyped
  <2>3. /\ DOMAIN userPermissions' \subseteq User
        /\ userPermissions' \in [DOMAIN userPermissions' -> SUBSET Permission]
    BY <1>3, <2>2, AssignIsTyped DEF AssignRole, AccessTypeOK
  <2>4. QED
    BY <1>3, <2>1, <2>3 DEF AssignRole, AccessTypeOK, KeyId
<1>4. ASSUME NEW u \in User, NEW p \in Permission, AddPermission(u, p) PROVE AccessInv'
  <2>1. GetUserPermissions(u) \cup {p} \in SUBSET Permission
    BY DEF GetUserPermissions, AccessTypeOK
  <2>2. /\ DOMAIN userPermissions' \subseteq User
        /\ userPermissions' \in [DOMAIN userPermissions' -> SUBSET Permission]
    BY <1>4, <2>1, AssignIsTyped DEF AddPermission, AccessTypeOK
  <2>3. QED
    BY <1>4, <2>2 DEF AddPermission, AccessTypeOK, KeyId
<1>5. ASSUME NEW u \in User, NEW p \in Permission, RemovePermission(u, p) PROVE AccessInv'
  <2>1. userPermissions[u] \ {p} \in SUBSET Permission
    BY <1>5 DEF RemovePermission, AccessTypeOK
  <2>2. /\ DOMAIN userPermissions' = DOMAIN userPermissions
        /\ userPermissions' \in [DOMAIN userPermissions' -> SUBSET Permission]
    BY <1>5, <2>1 DEF RemovePermission, AccessTypeOK
  <2>3. QED
    BY <1>5, <2>2 DEF RemovePermission, AccessTypeOK, KeyId
<1>6. ASSUME NEW u \in User, GenerateKey(u) PROVE AccessInv'
  <2>1. PICK n \in Nat : KeyId = 1..n
    OBVIOUS
  <2>2. Cardinality(KeyId) = n
    BY <2>1, FS_Interval
  <2>3. keys' = [i \in 1..(n + 1) |-> IF i = n + 1 THEN [user |-> u, active |-> TRUE] ELSE keys[i]]
    BY <1>6, <2>2 DEF GenerateKey
  <2>4. keys' \in [1..(n + 1) -> [user : User, active : BOOLEAN]] /\ KeyId' = 1..(n + 1)
    BY <2>1, <2>3 DEF AccessTypeOK, KeyId
  <2>5. n + 1 \in Nat /\ Cardinality(KeyId') = n + 1
    BY <2>1, <2>4, FS_Interval
  <2>6. QED
    BY <1>6, <2>4, <2>5 DEF GenerateKey, AccessTypeOK
<1>7. ASSUME NEW k \in KeyId, RevokeKey(k) PROVE AccessInv'
  <2>1. keys' \in [KeyId -> [user : User, active : BOOLEAN]] /\ KeyId' = KeyId
    BY <1>7 DEF RevokeKey, AccessTypeOK, KeyId
  <2>2. QED
    BY <1>7, <2>1 DEF RevokeKey, AccessTypeOK
<1>8. ASSUME NEW bearer \in Credentials(tokens), NEW key \in Credentials(KeyId),
             GetCurrentUser(bearer, key)
      PROVE  AccessInv'
  <2>1. caller' \in Identity \cup {Nobody}
    BY <1>8, CallerIsTyped DEF GetCurrentUser
  <2>2. QED
    BY <1>8, <2>1 DEF GetCurrentUser, AccessTypeOK, KeyId
<1>9. CASE ClockTick
  BY <1>9 DEF ClockTick, AccessTypeOK, KeyId
<1>10. CASE UNCHANGED accessVars
  BY <1>10 DEF accessVars, AccessTypeOK, KeyId
<1>11. QED
  BY <1>1, <1>2, <1>3, <1>4, <1>5, <1>6, <1>7, <1>8, <1>9, <1>10 DEF AccessNext

-----------------------------------------------------------------------------
(* Types of the certificates *)

\* The serial numbers are 1, 2, ..., and the rest is typed.
CertInv == CertTypeOK /\ \E n \in Nat : Serial = 1..n

\* One more certificate: those there were stay what they are.
LEMMA MakeIsTyped ==
  ASSUME CertInv, NEW name \in Holder \cup {Authority}, Make(name)
  PROVE  /\ Serial \subseteq Serial' /\ NewSerial \in Serial'
         /\ Serial' = 1..Cardinality(Serial') /\ owner' \in [Serial' -> Holder \cup {Authority}]
         /\ \E n \in Nat : Serial' = 1..n
<1>1. PICK n \in Nat : Serial = 1..n
  BY DEF CertInv
<1>2. NewSerial = n + 1
  <2>1. Cardinality(Serial) = n
    BY <1>1, FS_Interval
  <2>2. QED
    BY <2>1 DEF NewSerial
<1>3. owner' = [i \in 1..(n + 1) |-> IF i = n + 1 THEN name ELSE owner[i]]
  BY <1>2 DEF Make
<1>4. Serial' = 1..(n + 1) /\ owner' \in [1..(n + 1) -> Holder \cup {Authority}]
  BY <1>1, <1>3 DEF Serial, CertInv, CertTypeOK
<1>5. n + 1 \in Nat /\ Cardinality(Serial') = n + 1
  BY <1>1, <1>4, FS_Interval
<1>6. QED
  BY <1>1, <1>2, <1>4, <1>5

\* At the start nothing was made.
LEMMA CertTypeInit == CertInit => CertInv
<1> SUFFICES ASSUME CertInit PROVE CertInv
  OBVIOUS
<1>1. Serial = 1..0 /\ Cardinality(Serial) = 0
  BY FS_EmptySet DEF CertInit, Serial
<1>2. owner \in [Serial -> Holder \cup {Authority}]
  BY DEF CertInit, Serial
<1>3. QED
  BY <1>1, <1>2 DEF CertInit, CertInv, CertTypeOK, NotMade

\* Every step keeps the types.
LEMMA CertTypeStep ==
  ASSUME CertInv, [CertNext]_certVars PROVE CertInv'
<1> USE DEF CertInv
<1>1. ASSUME NEW r \in Holder, WriteKey(r) PROVE CertInv'
  <2>1. Make(r) /\ UNCHANGED <<managerVars, storeVars>>
    BY <1>1 DEF WriteKey, CreateRoverCertificate
  <2>2. pair' \in [key : Serial' \cup {0}, cert : Serial' \cup {0}]
    BY <1>1, <2>1, MakeIsTyped DEF WriteKey, CertTypeOK
  <2>3. QED
    BY <2>1, <2>2, MakeIsTyped DEF CertTypeOK, managerVars, storeVars
<1>2. CASE CreateCaCertificate
  <2>1. Make(Authority) /\ pair' = pair /\ UNCHANGED <<managerVars, storeVars>>
    BY <1>2 DEF CreateCaCertificate
  <2>2. QED
    BY <2>1, MakeIsTyped DEF CertTypeOK, managerVars, storeVars
<1>3. CASE WriteCert
  BY <1>3 DEF WriteCert, CertTypeOK, managerVars, storeVars, Serial
<1>4. CASE GetCertificateInfo
  BY <1>4 DEF GetCertificateInfo, CertTypeOK, storeVars, Serial
<1>5. CASE CreateServerContext
  BY <1>5 DEF CreateServerContext, CertTypeOK, storeVars, Serial
<1>6. ASSUME NEW mtls \in BOOLEAN, CreateClientContext(mtls) PROVE CertInv'
  BY <1>6 DEF CreateClientContext, CertTypeOK, storeVars, Serial
<1>7. ASSUME NEW n \in Serial, RemoveCertificate(n) PROVE CertInv'
  BY <1>7 DEF RemoveCertificate, CertTypeOK, managerVars, Serial
<1>8. ASSUME NEW n \in Serial, NEW given \in {{}} \cup {{r} : r \in Holder},
             NEW written \in BOOLEAN, AddCertificate(n, given, written)
      PROVE  CertInv'
  <2> DEFINE who == ActualRoverId(n, given)
  <2>1. who \subseteq Holder
    BY CertificatesAssumption DEF ActualRoverId, ExtractRoverId
  <2>2. /\ table' = table \cup {n} /\ owner' = owner /\ pair' = pair /\ UNCHANGED managerVars
        /\ byRover' = [r \in DOMAIN byRover \cup who |-> IF r \in who THEN n ELSE byRover[r]]
        /\ newest' = [r \in Holder |-> IF r \in who THEN n ELSE newest[r]]
        /\ certFiles' \in {certFiles \cup {n}, certFiles \ {n}}
        /\ unsaved' \in {unsaved \cup {n}, unsaved \ {n}}
        /\ failures' \in {failures, failures + 1}
    BY <1>8 DEF AddCertificate
  <2> HIDE DEF who
  <2>3. /\ DOMAIN byRover' \subseteq Holder /\ byRover' \in [DOMAIN byRover' -> Serial]
        /\ newest' \in [Holder -> Serial \cup {0}]
    BY <2>1, <2>2 DEF CertTypeOK
  <2>4. certFiles' \subseteq Serial /\ unsaved' \subseteq Serial /\ failures' \in Nat
    BY <2>2 DEF CertTypeOK
  <2>5. QED
    BY <2>2, <2>3, <2>4 DEF CertTypeOK, managerVars, Serial
<1>9. CASE CertRestart
  <2>1. PICK found \in [{r \in Prefixed : \E n \in certFiles : owner[n] = r} -> certFiles] :
          byRover' = found
    BY <1>9 DEF CertRestart, LoadFromDisk
  <2>2. DOMAIN byRover' \subseteq Holder /\ byRover' \in [DOMAIN byRover' -> Serial]
    BY <2>1, CertificatesAssumption DEF CertTypeOK
  <2>3. QED
    BY <1>9, <2>2 DEF CertRestart, LoadFromDisk, CertTypeOK, Serial, NotMade
<1>10. CASE UNCHANGED certVars
  BY <1>10 DEF certVars, CertTypeOK, Serial
<1>11. QED
  BY <1>1, <1>2, <1>3, <1>4, <1>5, <1>6, <1>7, <1>8, <1>9, <1>10 DEF CertNext

-----------------------------------------------------------------------------
(* The types of all four *)

\* A behaviour of Security is one of each service: one moves, the others stand still.
LEMMA EachServiceAlone == Spec => LimiterSpec /\ AuditSpec /\ AccessSpec /\ CertSpec
<1>1. Init => LimiterInit /\ AuditInit /\ AccessInit /\ CertInit
  BY DEF Init
<1>2. [Next]_securityVars => [LimiterNext]_limiterVars
  BY DEF Next, securityVars, limiterVars
<1>3. [Next]_securityVars => [AuditNext]_auditVars
  BY DEF Next, securityVars, auditVars
<1>4. [Next]_securityVars => [AccessNext]_accessVars
  BY DEF Next, securityVars, accessVars
<1>5. [Next]_securityVars => [CertNext]_certVars
  BY DEF Next, securityVars, certVars
<1>6. QED
  BY <1>1, <1>2, <1>3, <1>4, <1>5, PTL DEF Spec, LimiterSpec, AuditSpec, AccessSpec, CertSpec

\* Whichever service is followed, all are well typed in every state, for any keys, users,
\* rovers and sizes.
THEOREM SecurityTypeCorrect == Spec => []TypeOK
<1>1. AccessSpec => []AccessTypeOK
  <2>1. AccessInv => AccessTypeOK
    BY DEF AccessInv
  <2>2. QED
    BY AccessTypeInit, AccessTypeStep, <2>1, PTL DEF AccessSpec
<1>2. CertSpec => []CertTypeOK
  <2>1. CertInv => CertTypeOK
    BY DEF CertInv
  <2>2. QED
    BY CertTypeInit, CertTypeStep, <2>1, PTL DEF CertSpec
<1>3. LimiterTypeOK /\ AuditTypeOK /\ AccessTypeOK /\ CertTypeOK <=> TypeOK
  BY DEF TypeOK
<1>4. QED
  BY EachServiceAlone, LimiterTypeCorrect, AuditTypeCorrect, <1>1, <1>2, <1>3, PTL
=============================================================================
