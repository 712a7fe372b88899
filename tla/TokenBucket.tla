---------------------------- MODULE TokenBucket ----------------------------
(***************************************************************************)
(* What a rate limiter promises: each key owns a bucket that gains Rate    *)
(* tokens with every tick, up to Capacity.  A request for n tokens takes   *)
(* them if they are there and takes nothing if they are not.               *)
(***************************************************************************)
EXTENDS Integers

CONSTANTS Key, Demand, Capacity, Rate

VARIABLES level,    \* the tokens of each key
          answer    \* the last thing a key was told

Lesser(a, b) == IF a <= b THEN a ELSE b

Init ==
  /\ level = Capacity
  /\ answer \in [key : Key, asked : {0}, told : {0}]

Tick ==
  /\ level' = [k \in Key |-> Lesser(Capacity[k], level[k] + Rate[k])]
  /\ UNCHANGED answer

Grant(k, n) ==
  /\ level[k] >= n
  /\ level' = [level EXCEPT ![k] = @ - n]
  /\ answer' = [key |-> k, asked |-> n, told |-> n]

Refuse(k, n) ==
  /\ level[k] < n
  /\ answer' = [key |-> k, asked |-> n, told |-> 0]
  /\ UNCHANGED level

\* How much is left is told without taking anything.
Tell(k) ==
  /\ answer' = [key |-> k, asked |-> 0, told |-> level[k]]
  /\ UNCHANGED level

Next ==
  \/ Tick
  \/ \E k \in Key : Tell(k) \/ \E n \in Demand : Grant(k, n) \/ Refuse(k, n)

Spec == Init /\ [][Next]_<<level, answer>>
=============================================================================
