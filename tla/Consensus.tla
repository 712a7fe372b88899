------------------------------ MODULE Consensus ------------------------------
(***************************************************************************)
(* The leader election of swarm/consensus.py: one ConsensusModule per      *)
(* node, and the messages its step() returns for publication.  Timers are  *)
(* left out: an election timeout may have run out at any call of step().   *)
(* channel holds all that was ever sent; a message may be delivered late,  *)
(* out of order, many times or never.  commit_index and last_applied are   *)
(* never written by the code and are left out.                             *)
(***************************************************************************)
EXTENDS Integers, FiniteSets

CONSTANTS Node,
          None,             \* no vote, no leader
          MaxTerm,          \* bound on the terms
          MaxRestarts,      \* bound on the restarts of the whole swarm
          MaxLate           \* bound on the votes counted in a later term than
                            \* the one they were granted for

ASSUME ConsensusAssumption ==
  /\ None \notin Node /\ IsFiniteSet(Node)
  /\ MaxTerm \in Nat /\ MaxRestarts \in Nat /\ MaxLate \in Nat

VARIABLES term, votedFor, leader, role, votes, running,   \* per node
          elected,   \* history: who became leader, in which term, by which votes
          channel, restarts, late

nodeVars == <<term, votedFor, leader, role, votes, running>>
vars == <<nodeVars, elected, channel, restarts, late>>

Role == {"FOLLOWER", "CANDIDATE", "LEADER"}
Term == Nat

VoteRequest == [type : {"vote_request"}, candidate : Node, term : Term]
Heartbeat == [type : {"heartbeat"}, leader : Node, term : Term]
\* handle_vote_response is given the voter only: the term is history.
Grant == [type : {"grant"}, candidate : Node, voter : Node, term : Term]

TypeOK ==
  /\ term \in [Node -> Term]
  /\ votedFor \in [Node -> Node \cup {None}]
  /\ leader \in [Node -> Node \cup {None}]
  /\ role \in [Node -> Role]
  /\ votes \in [Node -> SUBSET Node]
  /\ running \in [Node -> BOOLEAN]
  /\ elected \subseteq [node : Node, term : Term, votes : SUBSET Node]
  /\ channel \subseteq VoteRequest \cup Heartbeat \cup Grant
  /\ restarts \in Nat /\ late \in Nat

Init ==
  /\ term = [n \in Node |-> 0]
  /\ votedFor = [n \in Node |-> None]
  /\ leader = [n \in Node |-> None]
  /\ role = [n \in Node |-> "FOLLOWER"]
  /\ votes = [n \in Node |-> {}]
  /\ running = [n \in Node |-> FALSE]
  /\ elected = {}
  /\ channel = {}
  /\ restarts = 0 /\ late = 0

Start(n) ==
  /\ ~running[n]
  /\ running' = [running EXCEPT ![n] = TRUE]
  /\ UNCHANGED <<term, votedFor, leader, role, votes, elected, channel, restarts, late>>

\* Mutant: no role is left.
StopNoRole(n) ==
  /\ running[n]
  /\ running' = [running EXCEPT ![n] = FALSE]
  /\ role' = [role EXCEPT ![n] = None]
  /\ UNCHANGED <<term, votedFor, leader, votes, elected, channel, restarts, late>>

\* stop() also gives up the role; term, vote and leader stay.
Stop(n) ==
  /\ running[n]
  /\ running' = [running EXCEPT ![n] = FALSE]
  /\ role' = [role EXCEPT ![n] = "FOLLOWER"]
  /\ UNCHANGED <<term, votedFor, leader, votes, elected, channel, restarts, late>>

\* step() of a leader.
SendHeartbeat(n) ==
  /\ running[n] /\ role[n] = "LEADER"
  /\ channel' = channel \cup {[type |-> "heartbeat", leader |-> n, term |-> term[n]]}
  /\ UNCHANGED <<nodeVars, elected, restarts, late>>

\* step() of a follower or candidate whose election timeout has run out.
StartElection(n) ==
  /\ running[n] /\ role[n] # "LEADER" /\ term[n] < MaxTerm
  /\ term' = [term EXCEPT ![n] = @ + 1]
  /\ role' = [role EXCEPT ![n] = "CANDIDATE"]
  /\ votedFor' = [votedFor EXCEPT ![n] = n]
  /\ votes' = [votes EXCEPT ![n] = {n}]
  /\ channel' = channel \cup
       {[type |-> "vote_request", candidate |-> n, term |-> term[n] + 1]}
  /\ UNCHANGED <<leader, running, elected, restarts, late>>

\* Mutant: the term of the heartbeat is not taken over.
ReceiveHeartbeatKeepTerm(n, msg) ==
  /\ msg.type = "heartbeat" /\ msg.leader # n
  /\ msg.term >= term[n]
  /\ leader' = [leader EXCEPT ![n] = msg.leader]
  /\ role' = [role EXCEPT ![n] = "FOLLOWER"]
  /\ UNCHANGED <<term, votedFor, votes, running, elected, channel, restarts, late>>

\* receive_heartbeat: the vote stays, even into a later term; an older heartbeat
\* is refused.  The handlers do not look at running.
ReceiveHeartbeat(n, msg) ==
  /\ msg.type = "heartbeat" /\ msg.leader # n
  /\ msg.term >= term[n]
  /\ term' = [term EXCEPT ![n] = msg.term]
  /\ leader' = [leader EXCEPT ![n] = msg.leader]
  /\ role' = [role EXCEPT ![n] = "FOLLOWER"]
  /\ UNCHANGED <<votedFor, votes, running, elected, channel, restarts, late>>

\* Mutant: a request of an older term finds no vote either.
VoteAtOther(n, t) == IF t # term[n] THEN None ELSE votedFor[n]

\* The vote and the role a request finds: both are reset by a later term.
VoteAt(n, t) == IF t > term[n] THEN None ELSE votedFor[n]
RoleAt(n, t) == IF t > term[n] THEN "FOLLOWER" ELSE role[n]
TermAt(n, t) == IF t > term[n] THEN t ELSE term[n]

\* Mutant: a vote already given is not looked at.
GrantsAlways(n, candidate, t) == TRUE

\* The vote is granted to the one voted for already, or to the first to ask,
\* whether or not the request is of an older term.
Grants(n, candidate, t) == VoteAt(n, t) \in {None, candidate}

HandleVoteRequest(n, msg) ==
  /\ msg.type = "vote_request" /\ msg.candidate # n
  /\ term' = [term EXCEPT ![n] = TermAt(n, msg.term)]
  /\ role' = [role EXCEPT ![n] = RoleAt(n, msg.term)]
  /\ IF Grants(n, msg.candidate, msg.term)
     THEN /\ votedFor' = [votedFor EXCEPT ![n] = msg.candidate]
          /\ channel' = channel \cup {[type |-> "grant", candidate |-> msg.candidate,
                                       voter |-> n, term |-> msg.term]}
     ELSE /\ votedFor' = [votedFor EXCEPT ![n] = VoteAt(n, msg.term)]
          /\ UNCHANGED channel
  /\ UNCHANGED <<leader, votes, running, elected, restarts, late>>

\* "majority": more than one vote, whatever the size of the swarm.
IsMajority(voters) == Cardinality(voters) > 1

HandleVoteResponse(n, msg) ==
  /\ msg.type = "grant" /\ msg.candidate = n
  /\ late' = late + (IF msg.term = term[n] THEN 0 ELSE 1) /\ late' <= MaxLate
  /\ votes' = [votes EXCEPT ![n] = @ \cup {msg.voter}]
  /\ IF role[n] = "CANDIDATE" /\ IsMajority(votes'[n])
     THEN /\ role' = [role EXCEPT ![n] = "LEADER"]
          /\ leader' = [leader EXCEPT ![n] = n]
          /\ elected' = elected \cup {[node |-> n, term |-> term[n], votes |-> votes'[n]]}
     ELSE UNCHANGED <<role, leader, elected>>
  /\ UNCHANGED <<term, votedFor, running, channel, restarts>>

\* The process dies and comes back: nothing of RaftState is stored.
Restart(n) ==
  /\ restarts < MaxRestarts
  /\ restarts' = restarts + 1
  /\ term' = [term EXCEPT ![n] = 0]
  /\ votedFor' = [votedFor EXCEPT ![n] = None]
  /\ leader' = [leader EXCEPT ![n] = None]
  /\ role' = [role EXCEPT ![n] = "FOLLOWER"]
  /\ votes' = [votes EXCEPT ![n] = {}]
  /\ running' = [running EXCEPT ![n] = FALSE]
  /\ UNCHANGED <<elected, channel, late>>

Next ==
  \/ \E n \in Node : Start(n) \/ Stop(n) \/ SendHeartbeat(n) \/ StartElection(n) \/ Restart(n)
  \/ \E n \in Node, msg \in channel :
       ReceiveHeartbeat(n, msg) \/ HandleVoteRequest(n, msg) \/ HandleVoteResponse(n, msg)

Spec == Init /\ [][Next]_vars
-----------------------------------------------------------------------------
(* Properties *)

\* A candidate or leader has voted for itself in its term and for nobody else,
\* and a leader has the vote of another node: no stray message, stale heartbeat
\* or restart leaves a node leading without them.
LeaderHasVotes ==
  \A n \in Node :
    /\ role[n] # "FOLLOWER" => votedFor[n] = n /\ n \in votes[n]
    /\ role[n] = "LEADER" => /\ Cardinality(votes[n]) > 1
                            /\ \E e \in elected : e.node = n /\ e.term = term[n]

\* Who a node takes for its leader did win an election, in no later term than
\* the node's own: leader_id is kept through later terms, yet never invented.
LeaderWasElected ==
  \A n \in Node :
    leader[n] # None => \E e \in elected : e.node = leader[n] /\ e.term <= term[n]

\* Who leads, or is followed, has been elected, whatever was restarted or came late.
LeadersWereElected == LeaderHasVotes /\ LeaderWasElected

StepSticks ==
  restarts' = restarts =>
    \A n \in Node : /\ term'[n] >= term[n]
                    /\ term'[n] = term[n] /\ votedFor[n] # None => votedFor'[n] = votedFor[n]

\* Terms never go back and, within a term, a vote once given is never given to
\* another, whatever requests and heartbeats come in which order (restarts set
\* aside: the vote is not stored).
VotesStick == [][StepSticks]_vars

Winners(t) == {e.node : e \in {f \in elected : f.term = t}}

\* As long as nobody restarted and votes counted in their own term, a term has at most
\* half as many winners as the swarm has nodes: one in a swarm of up to three.  Two
\* votes are all the code asks for, whatever the size of the swarm.
OneLeaderInThree ==
  restarts = 0 /\ late = 0 =>
    \A e \in elected : 2 * Cardinality(Winners(e.term)) <= Cardinality(Node)

\* The votes cast: those granted, and a candidate's own.
Cast(v, c, t) ==
  \/ [type |-> "grant", candidate |-> c, voter |-> v, term |-> t] \in channel
  \/ v = c /\ [type |-> "vote_request", candidate |-> c, term |-> t] \in channel

\* A vote counts for c in t while c stands in t, and for good once c has won.
Counted(v, c, t) ==
  \/ term[c] = t /\ role[c] # "FOLLOWER" /\ v \in votes[c]
  \/ \E e \in elected : e.node = c /\ e.term = t /\ v \in e.votes

\* handle_vote_request also grants requests of older terms, so a node may well
\* vote for two candidates of one term; but then one of the two has gone on to a
\* later term without counting the vote.
NoVoteCountsTwice ==
  restarts = 0 /\ late = 0 =>
    \A v, c, d \in Node : \A t \in {m.term : m \in channel} :
      Cast(v, c, t) /\ Cast(v, d, t) /\ c # d =>
        \/ term[c] > t /\ ~Counted(v, c, t)
        \/ term[d] > t /\ ~Counted(v, d, t)

\* While votes count in their own term and nobody restarts, the votes that made a leader
\* are counted for no other of its term, so that three nodes elect only one.
ElectionSafety == OneLeaderInThree /\ NoVoteCountsTwice

\* "no split-brain" (docs/ARCHITECTURE.md): two leaders never share a term.
NoSplitBrain ==
  \A n, m \in Node : role[n] = "LEADER" /\ role[m] = "LEADER" /\ term[n] = term[m] => n = m
=============================================================================
