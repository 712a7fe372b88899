------------------------------- MODULE LwwReg -------------------------------
(***************************************************************************)
(* The last-writer-wins register of crdt/lwwreg.py: the object as a record *)
(* and its methods as operators.  Node ids are compared as strings in the  *)
(* code; any total order will do, so a node is a number here.  Timestamps  *)
(* are numbers, 0 that of a register never written: it has the value it    *)
(* was made with (a rover's are "offline", 100.0, "general" and 0.0), or    *)
(* None.  The vector clock is carried but never read and is left out.      *)
(***************************************************************************)
EXTENDS Integers

CONSTANTS Node, Value, None,
          Starts    \* the values registers are made with

ASSUME NodesAreOrdered == Node \subseteq Nat
ASSUME NoneIsNoValue == None \notin Value

Content == Value \cup Starts \cup {None}

LwwRegType == [node_id : Node, value : Content, ts : Nat,
               delta_node : Node, delta_value : Content, delta_ts : Nat]

NewReg(n, v) == [node_id |-> n, value |-> v, ts |-> 0,
                 delta_node |-> n, delta_value |-> None, delta_ts |-> 0]

\* The comparison all methods share: later, or a tie and the higher node.
Later(t1, n1, t2, n2) == t1 > t2 \/ (t1 = t2 /\ n1 > n2)

\* The guard of set: ties are compared with the writer of the last delta, not
\* with the writer of the value.
Accepts(r, t) == Later(t, r.node_id, r.ts, r.delta_node)

\* Mutant: the guard of set is gone, an older timestamp is stored too.
SetRegAlways(r, v, t) == [r EXCEPT !.value = v, !.ts = t, !.delta_value = v,
                                   !.delta_ts = t, !.delta_node = r.node_id]

\* set: a write that does not come later is dropped without a word.
SetReg(r, v, t) ==
  IF Accepts(r, t)
  THEN [r EXCEPT !.value = v, !.ts = t,
                 !.delta_value = v, !.delta_ts = t, !.delta_node = r.node_id]
  ELSE r

\* Mutant: the timestamp stays behind.
MergeRegKeepTime(r, other) ==
  LET base == [r EXCEPT !.delta_node = r.node_id, !.delta_value = None, !.delta_ts = 0]
  IN IF Later(other.ts, other.node_id, r.ts, r.node_id)
     THEN [base EXCEPT !.value = other.value, !.node_id = other.node_id] ELSE base

\* merge builds a new register with an empty delta; when the other side wins it
\* takes the other's node_id too, and a later set is made under that name.
MergeReg(r, other) ==
  LET base == [r EXCEPT !.delta_node = r.node_id, !.delta_value = None, !.delta_ts = 0]
  IN IF Later(other.ts, other.node_id, r.ts, r.node_id)
     THEN [base EXCEPT !.value = other.value, !.ts = other.ts, !.node_id = other.node_id]
     ELSE base

\* apply_delta: the receiver also takes over the node id of the source.
ApplyRegDelta(r, d) ==
  IF Later(d.ts, d.node_id, r.ts, r.node_id)
  THEN [r EXCEPT !.value = d.value, !.ts = d.ts, !.node_id = d.node_id]
  ELSE r

\* to_binary / from_binary: what a state message carries.
StateOf(r) == [kind |-> "state", node_id |-> r.node_id, value |-> r.value, ts |-> r.ts]

\* delta(): the last write accepted here, or an empty one (None at time 0).
RegDeltaOf(r) == [kind |-> "delta", node_id |-> r.delta_node,
                  value |-> r.delta_value, ts |-> r.delta_ts]

\* Mutant: an empty delta is marked by the time -1.
ResetRegDeltaUnset(r) == [r EXCEPT !.delta_value = None, !.delta_ts = -1]

ResetRegDelta(r) == [r EXCEPT !.delta_value = None, !.delta_ts = 0]
=============================================================================
