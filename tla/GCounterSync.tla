---------------------------- MODULE GCounterSync ----------------------------
(***************************************************************************)
(* Replicas of one GCounter, one on each node, whose users exchange full   *)
(* states (to_binary, from_binary, merge) and deltas (delta, apply_delta,  *)
(* reset_delta).  When they do is theirs to say: no code of the repository *)
(* merges what it receives.  channel holds all that was ever encoded: a    *)
(* message may be delivered late, out of order, many times or never.  The  *)
(* counter lives in memory only, so a restart forgets it.                  *)
(***************************************************************************)
EXTENDS GCounter

CONSTANTS MaxCount,     \* bound on the increments one node makes
          MaxRestarts   \* bound on the restarts of the whole swarm

ASSUME BoundsAssumption == MaxCount \in Nat /\ MaxRestarts \in Nat

VARIABLES counter,   \* counter[n]: the GCounter object of node n
          done,      \* done[n]: history, the increments n has really made
          channel,   \* every state and delta sent so far
          restarts

vars == <<counter, done, channel, restarts>>

StateMsg == [kind : {"state"}, counts : CountMap]
DeltaMsg == [kind : {"delta"}, source : Node, total : Nat]

TypeOK ==
  /\ counter \in [Node -> GCounterType]
  /\ \A n \in Node : counter[n].node_id = n
  /\ done \in [Node -> Nat]
  /\ channel \subseteq (StateMsg \cup DeltaMsg)
  /\ restarts \in Nat

Init ==
  /\ counter = [n \in Node |-> NewGCounter(n)]
  /\ done = [n \in Node |-> 0]
  /\ channel = {}
  /\ restarts = 0

Count(n, amount) ==
  /\ done[n] + amount <= MaxCount
  /\ counter' = [counter EXCEPT ![n] = Increment(counter[n], amount)]
  /\ done' = [done EXCEPT ![n] = @ + amount]
  /\ UNCHANGED <<channel, restarts>>

\* to_binary(); the delta tracker is not part of the encoding.
SendState(n) ==
  /\ channel' = channel \cup {[kind |-> "state", counts |-> counter[n].counts]}
  /\ UNCHANGED <<counter, done, restarts>>

\* delta() and reset_delta(): the tracker is reset once it is sent.
SendDelta(n) ==
  /\ counter[n].delta > 0
  /\ channel' = channel \cup {DeltaOf(counter[n])}
  /\ counter' = [counter EXCEPT ![n] = ResetDelta(counter[n])]
  /\ UNCHANGED <<done, restarts>>

\* from_binary() and merge(): the receiver replaces its object by the result.
ReceiveState(n, msg) ==
  /\ msg.kind = "state"
  /\ counter' = [counter EXCEPT ![n] = Merge(counter[n], msg)]
  /\ UNCHANGED <<done, channel, restarts>>

ReceiveDelta(n, msg) ==
  /\ msg.kind = "delta"
  /\ counter' = [counter EXCEPT ![n] = ApplyDelta(counter[n], msg)]
  /\ UNCHANGED <<done, channel, restarts>>

Restart(n) ==
  /\ restarts < MaxRestarts
  /\ counter' = [counter EXCEPT ![n] = NewGCounter(n)]
  /\ restarts' = restarts + 1
  /\ UNCHANGED <<done, channel>>

Next ==
  \/ \E n \in Node, amount \in 1..MaxCount : Count(n, amount)
  \/ \E n \in Node : SendState(n) \/ SendDelta(n) \/ Restart(n)
  \/ \E n \in Node, msg \in channel : ReceiveState(n, msg) \/ ReceiveDelta(n, msg)

Spec == Init /\ [][Next]_vars
-----------------------------------------------------------------------------
(* Properties *)

\* No replica, no pending delta and no message ever claims more increments of
\* a node than that node made, whatever is duplicated, reordered, lost or
\* forgotten: the max of merge and the absolute totals of delta() never count
\* an increment twice.
NeverOvercounts ==
  /\ \A n, m \in Node : counter[n].counts[m] <= done[m]
  /\ \A n \in Node : counter[n].delta <= done[n]
  /\ \A msg \in channel :
       IF msg.kind = "state" THEN \A m \in Node : msg.counts[m] <= done[m]
                             ELSE msg.total <= done[msg.source]

\* As long as nobody restarted a node's own entry is exact.
OwnCountExact ==
  restarts = 0 => \A n \in Node : counter[n].counts[n] = done[n]

\* What a replica counts, owes to others or has sent is what was done, whatever came
\* late or twice: no more of anybody, and of its own node all of it.
CountsAreTrue == NeverOvercounts /\ OwnCountExact

\* The replicas implement the abstract grow-only counter: what they report is
\* their counts, what is true is the increments made.
Knowledge == INSTANCE GrowOnlyKnowledge
               WITH truth <- done, known <- [n \in Node |-> counter[n].counts]

\* Every step of the replicas and of the channel is a step of the abstract
\* counter (learning, growing, forgetting) or invisible to it.
ImplementsKnowledge == Knowledge!KSpec
=============================================================================
