----------------------------- MODULE LwwRegSync -----------------------------
(***************************************************************************)
(* Replicas of one LwwReg, one on each node (position, status, battery ... *)
(* of a RoverState), written under wall clocks, whose users exchange       *)
(* states and deltas.  When they do is theirs to say: no code of the       *)
(* repository merges what it receives.  channel holds all that was ever    *)
(* encoded; a message may be delivered late, out of order, many times or   *)
(* never.                                                                  *)
(***************************************************************************)
EXTENDS LwwReg

CONSTANTS MaxTime,       \* bound on the clock readings
          MaxRestarts,   \* bound on the restarts of the whole swarm
          DistinctTimes  \* TRUE: no two writes read the same time

ASSUME SyncAssumption ==
  MaxTime \in Nat /\ MaxRestarts \in Nat /\ DistinctTimes \in BOOLEAN

VARIABLES reg,       \* reg[n]: the register object of node n
          written,   \* history: the writes some node accepted from its user
          channel,   \* every state and delta sent so far
          restarts

vars == <<reg, written, channel, restarts>>

Message == [kind : {"state", "delta"}, node_id : Node, value : Content, ts : Nat]

TypeOK ==
  /\ reg \in [Node -> LwwRegType]
  /\ written \subseteq [value : Value, ts : Nat]
  /\ channel \subseteq Message
  /\ restarts \in Nat

Init ==
  /\ \E start \in [Node -> Starts] : reg = [n \in Node |-> NewReg(n, start[n])]
  /\ written = {}
  /\ channel = {}
  /\ restarts = 0

\* A user of node n writes v when n's clock reads t: clocks of different nodes
\* are not synchronised, so any reading may come at any moment.
Write(n, v, t) ==
  /\ DistinctTimes => \A w \in written : w.ts # t
  /\ reg' = [reg EXCEPT ![n] = SetReg(reg[n], v, t)]
  /\ written' = IF Accepts(reg[n], t)
                THEN written \cup {[value |-> v, ts |-> t]} ELSE written
  /\ UNCHANGED <<channel, restarts>>

\* to_binary().
SendState(n) ==
  /\ channel' = channel \cup {StateOf(reg[n])}
  /\ UNCHANGED <<reg, written, restarts>>

\* delta() and reset_delta(); nothing keeps an empty delta back.
SendDelta(n) ==
  /\ channel' = channel \cup {RegDeltaOf(reg[n])}
  /\ reg' = [reg EXCEPT ![n] = ResetRegDelta(reg[n])]
  /\ UNCHANGED <<written, restarts>>

\* from_binary() and merge(): the receiver replaces its object by the result.
ReceiveState(n, msg) ==
  /\ msg.kind = "state"
  /\ reg' = [reg EXCEPT ![n] = MergeReg(reg[n], msg)]
  /\ UNCHANGED <<written, channel, restarts>>

ReceiveDelta(n, msg) ==
  /\ msg.kind = "delta"
  /\ reg' = [reg EXCEPT ![n] = ApplyRegDelta(reg[n], msg)]
  /\ UNCHANGED <<written, channel, restarts>>

\* The register lives in memory only.
Restart(n) ==
  /\ restarts < MaxRestarts
  /\ \E v \in Starts : reg' = [reg EXCEPT ![n] = NewReg(n, v)]
  /\ restarts' = restarts + 1
  /\ UNCHANGED <<written, channel>>

Next ==
  \/ \E n \in Node, v \in Value, t \in 1..MaxTime : Write(n, v, t)
  \/ \E n \in Node : SendState(n) \/ SendDelta(n) \/ Restart(n)
  \/ \E n \in Node, msg \in channel : ReceiveState(n, msg) \/ ReceiveDelta(n, msg)

Spec == Init /\ [][Next]_vars
-----------------------------------------------------------------------------
(* Properties *)

\* Everything that carries a value and the time it was written at.
Copies == {[value |-> reg[n].value, ts |-> reg[n].ts] : n \in Node}
     \cup {[value |-> reg[n].delta_value, ts |-> reg[n].delta_ts] : n \in Node}
     \cup {[value |-> msg.value, ts |-> msg.ts] : msg \in channel}

\* A value and its timestamp never part: whatever replica, pending delta or
\* message carries them, they are one accepted write, or at time 0 what a register
\* starts with or nothing.
CopiesAreWrites ==
  \A c \in Copies : c \in written \/ (c.ts = 0 /\ c.value \in Starts \cup {None})

\* With distinct times, equal timestamps of writes mean equal values everywhere:
\* two replicas that saw the same newest write cannot differ.
Agreement ==
  DistinctTimes => \A c, d \in Copies : c.ts = d.ts /\ c.ts > 0 => c.value = d.value

\* Whatever came late, twice or to a replica that had forgotten: nowhere is there a
\* value with another write's time.
TimesGoWithValues == CopiesAreWrites /\ Agreement

StepForward ==
  DistinctTimes => \A n \in Node : \/ reg'[n].value = reg[n].value
                                  \/ reg'[n].ts > reg[n].ts
                                  \/ (reg'[n].ts = 0 /\ reg[n].ts = 0)
                                  \/ restarts' > restarts

\* "the most recent write wins" (crdt/lwwreg.py): with distinct times a replica
\* that shows a write changes its value only for one of a later time, except by
\* restarting.  Before the first write it may change too: an empty delta takes the
\* place of the value a register was made with.
ValueMovesForward == [][StepForward]_vars

\* "For identical timestamps, the highest node_id (lexicographic) wins"
\* (crdt/lwwreg.py): the node id must tell tied writes apart, or no merge can
\* settle them.  It does not: after a merge a node writes under the name of the
\* node whose value it took over.
TiesAreSettled ==
  \A n, m \in Node :
    reg[n].ts > 0 /\ reg[n].ts = reg[m].ts /\ reg[n].node_id = reg[m].node_id
      => reg[n].value = reg[m].value
=============================================================================
