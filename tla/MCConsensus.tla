----------------------------- MODULE MCConsensus -----------------------------
(* Three nodes, whose names are interchangeable. *)
EXTENDS Consensus, TLC

Symmetry == Permutations(Node)

\* A node that has sent nothing and was sent nothing it took notice of.
Idle(n) ==
  /\ ~running[n] /\ term[n] = 0 /\ votedFor[n] = None
  /\ \A m \in channel : \/ m.type = "grant" /\ m.voter # n
                        \/ m.type = "vote_request" /\ m.candidate # n
                        \/ m.type = "heartbeat" /\ m.leader # n

\* With restarts, or more than one late vote, one node stays out.
Small == \/ restarts' = 0 /\ late' <= 1
         \/ \E n \in Node : Idle(n)'
=============================================================================
