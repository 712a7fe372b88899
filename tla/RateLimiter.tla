---------------------------- MODULE RateLimiter ----------------------------
(***************************************************************************)
(* security/rate_limiter.py: token buckets made on demand, refilled only   *)
(* when somebody looks at them, and thrown away when nobody has for long.  *)
(* The clock only moves forward (time.monotonic).  A key is an endpoint,   *)
(* or none, with an identifier, and has one configuration: the middleware  *)
(* names the endpoints before the first request.                           *)
(***************************************************************************)
EXTENDS Integers, Sequences

CONSTANTS Key,
          Demand,      \* the numbers of tokens a request may ask for
          Capacity,    \* requests_per_window * burst_multiplier, by key
          Rate,        \* tokens a bucket gains in a tick, by key
          MaxAge,      \* max_age_seconds, in ticks
          Request,     \* path, method and identifier by scope of what is limited
          Rules,       \* the middleware's rules, in order: endpoint, the paths it
                       \* matches, methods, scope
          DefaultScope, ExcludePaths,
          MaxTime      \* bound on the clock

\* _match_rule(): the first rule that matches.
Matches(i, q) == q.method \in Rules[i].methods /\ q.path \in Rules[i].paths
MatchRule(q) == {i \in DOMAIN Rules : Matches(i, q) /\ \A j \in 1..(i - 1) : ~Matches(j, q)}

\* The bucket of a request: its rule's endpoint, if any, with its identifier in the
\* scope of the rule.
KeyOf(q) ==
  IF MatchRule(q) = {} THEN <<"", q.id[DefaultScope]>>
  ELSE LET rule == Rules[CHOOSE i \in MatchRule(q) : TRUE]
       IN  <<rule.endpoint, q.id[rule.scope]>>

\* A bucket old enough to be thrown away has had the time to fill up: 3600 s
\* against a window of 60 s, where nothing else is configured.
ASSUME LimiterAssumption ==
  /\ Demand \subseteq Nat \ {0}
  /\ Capacity \in [Key -> Nat] /\ Rate \in [Key -> Nat]
  /\ MaxAge \in Nat /\ MaxTime \in Nat
  /\ \A k \in Key : Rate[k] * MaxAge >= Capacity[k]
  /\ 1 \in Demand /\ \A q \in Request : KeyOf(q) \in Key

VARIABLES now,
          buckets,    \* the buckets there are: tokens and last refill, by key
          answer,     \* the last thing a key was told
          window      \* history: what a key was granted since some moment

limiterVars == <<now, buckets, answer, window>>

Lesser(a, b) == IF a <= b THEN a ELSE b

Bucket == [tokens : Nat, lastRefill : Nat]

Held == DOMAIN buckets

LimiterTypeOK ==
  /\ now \in Nat
  /\ Held \subseteq Key /\ buckets \in [Held -> Bucket]
  /\ \A k \in Held : buckets[k].tokens <= Capacity[k] /\ buckets[k].lastRefill <= now
  /\ answer \in [key : Key, asked : Nat, told : Nat]
  /\ window \in [key : Key, start : 0..now, granted : Nat]

LimiterInit ==
  /\ now = 0
  /\ buckets = [k \in {} |-> [tokens |-> 0, lastRefill |-> 0]]
  /\ answer \in [key : Key, asked : {0}, told : {0}]
  /\ window \in [key : Key, start : {0}, granted : {0}]

\* Mutant: the refill knows no limit.
RefillOver(b, k) ==
  [tokens |-> b.tokens + (now - b.lastRefill) * Rate[k], lastRefill |-> now]

Refill(b, k) ==
  [tokens |-> Lesser(Capacity[k], b.tokens + (now - b.lastRefill) * Rate[k]),
   lastRefill |-> now]

\* The bucket of k as a look at it leaves it.
Current(k) ==
  IF k \in Held THEN Refill(buckets[k], k)
  ELSE [tokens |-> Capacity[k], lastRefill |-> now]

Put(k, b) == buckets' = [j \in Held \cup {k} |-> IF j = k THEN b ELSE buckets[j]]

Tick ==
  /\ now < MaxTime /\ now' = now + 1
  /\ UNCHANGED <<buckets, answer, window>>

\* What k is told; what it is granted counts if k is the one looked at.
Answer(k, asked, told) ==
  /\ answer' = [key |-> k, asked |-> asked, told |-> told]
  /\ window' = IF k = window.key /\ asked # 0
               THEN [window EXCEPT !.granted = @ + told] ELSE window

\* Mutant: any token will do.
TryAcquireAny(k, n) ==
  LET b == Current(k)
      ok == b.tokens > 0
  IN
  /\ Put(k, IF ok THEN [b EXCEPT !.tokens = @ - Lesser(n, @)] ELSE b)
  /\ Answer(k, n, IF ok THEN n ELSE 0)
  /\ UNCHANGED now

\* try_acquire(): the bucket is made if need be, refilled, and asked; acquire() raises
\* for a refusal.
TryAcquire(k, n) ==
  LET b == Current(k)
      ok == b.tokens >= n
  IN
  /\ Put(k, IF ok THEN [b EXCEPT !.tokens = @ - n] ELSE b)
  /\ Answer(k, n, IF ok THEN n ELSE 0)
  /\ UNCHANGED now

\* get_remaining(), get_reset_time(), and the headers, which are both: a bucket is
\* refilled, not made.
GetRemaining(k) ==
  /\ IF k \in Held THEN Put(k, Current(k)) ELSE UNCHANGED buckets
  /\ Answer(k, 0, Current(k).tokens)
  /\ UNCHANGED now

\* check_rate_limit() of the middleware: one token, unless the path is excluded.
CheckRateLimit(q) ==
  IF q.path \in ExcludePaths THEN UNCHANGED limiterVars ELSE TryAcquire(KeyOf(q), 1)

\* Mutant: buckets go that are not stale.
StaleEarly == {k \in Held : now - buckets[k].lastRefill > 0}

Stale == {k \in Held : now - buckets[k].lastRefill > MaxAge}

CleanupStaleBuckets ==
  /\ buckets' = [k \in Held \ Stale |-> buckets[k]]
  /\ UNCHANGED <<now, answer, window>>

\* History: look at what k is granted from now on.
OpenWindow(k) ==
  /\ window' = [key |-> k, start |-> now, granted |-> 0]
  /\ UNCHANGED <<now, buckets, answer>>

LimiterNext ==
  \/ Tick \/ CleanupStaleBuckets \/ \E q \in Request : CheckRateLimit(q)
  \/ \E k \in Key :
       GetRemaining(k) \/ OpenWindow(k) \/ \E n \in Demand : TryAcquire(k, n)

LimiterSpec == LimiterInit /\ [][LimiterNext]_limiterVars
-----------------------------------------------------------------------------
(* Properties *)

\* In no window of time is a key granted more than a full bucket and what it
\* gains in that time, whatever was refilled, refused, or thrown away meanwhile.
WindowBound ==
  window.granted <= Capacity[window.key] + Rate[window.key] * (now - window.start)

Level == [k \in Key |-> Current(k).tokens]

Ideal == INSTANCE TokenBucket WITH level <- Level

\* Lazy refills and the clean-up cannot be told from buckets that are always
\* there and always filling: no request is refused or granted otherwise, and
\* get_remaining() tells what try_acquire() would find.
ImplementsTokenBucket == Ideal!Spec
=============================================================================
