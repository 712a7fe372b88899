--------------------------- MODULE ConsensusProofs ---------------------------
(***************************************************************************)
(* Theorems about the leader election, for every finite set of nodes and   *)
(* every bound on terms, restarts and late votes.                          *)
(***************************************************************************)
EXTENDS Consensus, FiniteSetTheorems, TLAPS

Msg == VoteRequest \cup Heartbeat \cup Grant

\* What a message of each type carries.
LEMMA MsgFields ==
  ASSUME NEW msg \in Msg
  PROVE  /\ msg.term \in Nat
         /\ msg.type = "heartbeat" => msg.leader \in Node
         /\ msg.type = "vote_request" => msg.candidate \in Node
         /\ msg.type = "grant" => msg.candidate \in Node /\ msg.voter \in Node
BY DEF Msg, VoteRequest, Heartbeat, Grant, Term

\* Every action keeps the state well typed.
LEMMA TypeStep == TypeOK /\ [Next]_vars => TypeOK'
<1> SUFFICES ASSUME TypeOK, [Next]_vars PROVE TypeOK'
  OBVIOUS
<1> USE ConsensusAssumption DEF TypeOK
<1>1. ASSUME NEW n \in Node, Start(n) PROVE TypeOK'
  BY <1>1 DEF Start
<1>2. ASSUME NEW n \in Node, Stop(n) PROVE TypeOK'
  BY <1>2 DEF Stop, Role
<1>3. ASSUME NEW n \in Node, SendHeartbeat(n) PROVE TypeOK'
  <2>1. [type |-> "heartbeat", leader |-> n, term |-> term[n]] \in Heartbeat
    BY DEF Heartbeat
  <2>2. QED
    BY <1>3, <2>1 DEF SendHeartbeat, nodeVars
<1>4. ASSUME NEW n \in Node, StartElection(n) PROVE TypeOK'
  <2>1. term[n] + 1 \in Term
    BY DEF Term
  <2>2. [type |-> "vote_request", candidate |-> n, term |-> term[n] + 1] \in VoteRequest
    BY <2>1 DEF VoteRequest
  <2>3. QED
    BY <1>4, <2>1, <2>2 DEF StartElection, Role
<1>5. ASSUME NEW n \in Node, Restart(n) PROVE TypeOK'
  BY <1>5 DEF Restart, Role, Term
<1>6. ASSUME NEW n \in Node, NEW msg \in channel, ReceiveHeartbeat(n, msg) PROVE TypeOK'
  <2>1. msg.term \in Term /\ msg.leader \in Node
    BY <1>6, MsgFields DEF ReceiveHeartbeat, Msg, Term
  <2>2. QED
    BY <1>6, <2>1 DEF ReceiveHeartbeat, Role
<1>7. ASSUME NEW n \in Node, NEW msg \in channel, HandleVoteRequest(n, msg) PROVE TypeOK'
  <2>1. msg.term \in Term /\ msg.candidate \in Node
    BY <1>7, MsgFields DEF HandleVoteRequest, Msg, Term
  <2>2. /\ TermAt(n, msg.term) \in Term /\ RoleAt(n, msg.term) \in Role
        /\ VoteAt(n, msg.term) \in Node \cup {None}
    BY <2>1 DEF TermAt, RoleAt, VoteAt, Role
  <2>3. [type |-> "grant", candidate |-> msg.candidate, voter |-> n, term |-> msg.term] \in Grant
    BY <2>1 DEF Grant
  <2>4. QED
    BY <1>7, <2>1, <2>2, <2>3 DEF HandleVoteRequest
<1>8. ASSUME NEW n \in Node, NEW msg \in channel, HandleVoteResponse(n, msg) PROVE TypeOK'
  <2>1. msg.voter \in Node
    BY <1>8, MsgFields DEF HandleVoteResponse, Msg
  <2>2. votes' \in [Node -> SUBSET Node]
    BY <1>8, <2>1 DEF HandleVoteResponse
  <2>3. [node |-> n, term |-> term[n], votes |-> votes'[n]]
          \in [node : Node, term : Term, votes : SUBSET Node]
    BY <2>2
  <2>4. QED
    BY <1>8, <2>2, <2>3 DEF HandleVoteResponse, Role
<1>9. CASE UNCHANGED vars
  BY <1>9 DEF vars, nodeVars
<1>10. QED
  BY <1>1, <1>2, <1>3, <1>4, <1>5, <1>6, <1>7, <1>8, <1>9 DEF Next

\* Every reachable state is well typed.
THEOREM TypeCorrect == Spec => []TypeOK
<1>1. Init => TypeOK
  BY ConsensusAssumption DEF Init, TypeOK, Role, Term
<1>2. QED
  BY <1>1, TypeStep, PTL DEF Spec
-----------------------------------------------------------------------------
(* Who stands and who leads *)

VotesAreFinite == \A n \in Node : IsFiniteSet(votes[n])

\* A majority needs two votes in the election as well as at the end.
WinnersHadVotes ==
  \A e \in elected : e.votes \in SUBSET Node /\ Cardinality(e.votes) > 1

HeartbeatsFromWinners ==
  \A msg \in channel : msg.type = "heartbeat" =>
    \E e \in elected : e.node = msg.leader /\ e.term = msg.term

Standing == /\ VotesAreFinite /\ WinnersHadVotes /\ HeartbeatsFromWinners
            /\ LeaderHasVotes /\ LeaderWasElected

\* One more vote keeps a set of votes finite and never makes it smaller.
LEMMA OneMoreVote ==
  ASSUME NEW S, IsFiniteSet(S), NEW v
  PROVE  /\ IsFiniteSet(S \cup {v})
         /\ Cardinality(S) > 1 => Cardinality(S \cup {v}) > 1
<1>1. Cardinality(S) \in Nat
  BY FS_CardinalityType
<1>2. /\ IsFiniteSet(S \cup {v})
      /\ Cardinality(S \cup {v}) = IF v \in S THEN Cardinality(S) ELSE Cardinality(S) + 1
  BY FS_AddElement
<1>3. QED
  BY <1>1, <1>2

\* Every action keeps Standing.
LEMMA StandingStep == TypeOK /\ TypeOK' /\ Standing /\ [Next]_vars => Standing'
<1> SUFFICES ASSUME TypeOK, TypeOK', Standing, [Next]_vars PROVE Standing'
  OBVIOUS
<1> USE ConsensusAssumption
<1>0. /\ VotesAreFinite /\ WinnersHadVotes /\ HeartbeatsFromWinners
      /\ LeaderHasVotes /\ LeaderWasElected
      /\ term \in [Node -> Nat] /\ role \in [Node -> Role] /\ votes \in [Node -> SUBSET Node]
      /\ votedFor \in [Node -> Node \cup {None}] /\ leader \in [Node -> Node \cup {None}]
      /\ channel \subseteq Msg
      /\ \A e \in elected : e.term \in Nat
      /\ term' \in [Node -> Nat]
  BY DEF Standing, TypeOK, Term, Msg
<1>1. ASSUME NEW n \in Node, Start(n) PROVE Standing'
  BY <1>0, <1>1 DEF Start, Standing, VotesAreFinite, WinnersHadVotes,
                     HeartbeatsFromWinners, LeaderHasVotes, LeaderWasElected
<1>2. ASSUME NEW n \in Node, Stop(n) PROVE Standing'
  BY <1>0, <1>2 DEF Stop, Standing, VotesAreFinite, WinnersHadVotes,
                     HeartbeatsFromWinners, LeaderHasVotes, LeaderWasElected
<1>3. ASSUME NEW n \in Node, SendHeartbeat(n) PROVE Standing'
  <2>1. HeartbeatsFromWinners'
    <3>1. \E e \in elected : e.node = n /\ e.term = term[n]
      BY <1>0, <1>3 DEF SendHeartbeat, LeaderHasVotes
    <3>2. QED
      BY <1>0, <1>3, <3>1 DEF SendHeartbeat, HeartbeatsFromWinners
  <2>2. QED
    BY <1>0, <1>3, <2>1 DEF SendHeartbeat, nodeVars, Standing, VotesAreFinite, WinnersHadVotes,
                     LeaderHasVotes, LeaderWasElected
<1>4. ASSUME NEW n \in Node, StartElection(n) PROVE Standing'
  <2>1. IsFiniteSet({n})
    BY FS_Singleton
  <2>2. VotesAreFinite' /\ WinnersHadVotes' /\ LeaderHasVotes'
    BY <1>0, <1>4, <2>1 DEF StartElection, VotesAreFinite, WinnersHadVotes, LeaderHasVotes
  <2>3. HeartbeatsFromWinners'
    BY <1>0, <1>4 DEF StartElection, HeartbeatsFromWinners
  <2>4. LeaderWasElected'
    BY <1>0, <1>4 DEF StartElection, LeaderWasElected
  <2>5. QED
    BY <2>2, <2>3, <2>4 DEF Standing
<1>5. ASSUME NEW n \in Node, Restart(n) PROVE Standing'
  <2>1. IsFiniteSet({})
    BY FS_EmptySet
  <2>2. VotesAreFinite' /\ LeaderHasVotes'
    BY <1>0, <1>5, <2>1 DEF Restart, VotesAreFinite, LeaderHasVotes
  <2>3. WinnersHadVotes' /\ HeartbeatsFromWinners' /\ LeaderWasElected'
    BY <1>0, <1>5 DEF Restart, WinnersHadVotes, HeartbeatsFromWinners, LeaderWasElected
  <2>4. QED
    BY <2>2, <2>3 DEF Standing
<1>6. ASSUME NEW n \in Node, NEW msg \in channel, ReceiveHeartbeat(n, msg) PROVE Standing'
  <2>1. msg.term \in Nat
    BY <1>0, MsgFields
  <2>2. \E e \in elected : e.node = msg.leader /\ e.term = msg.term
    BY <1>0, <1>6 DEF ReceiveHeartbeat, HeartbeatsFromWinners
  <2>3. VotesAreFinite' /\ WinnersHadVotes' /\ HeartbeatsFromWinners' /\ LeaderHasVotes'
    BY <1>0, <1>6 DEF ReceiveHeartbeat, VotesAreFinite, WinnersHadVotes,
                       HeartbeatsFromWinners, LeaderHasVotes
  <2>4. LeaderWasElected'
    BY <1>0, <1>6, <2>1, <2>2 DEF ReceiveHeartbeat, LeaderWasElected
  <2>5. QED
    BY <2>3, <2>4 DEF Standing
<1>7. ASSUME NEW n \in Node, NEW msg \in channel, HandleVoteRequest(n, msg) PROVE Standing'
  <2> DEFINE grant == [type |-> "grant", candidate |-> msg.candidate,
                       voter |-> n, term |-> msg.term]
  <2>1. msg.term \in Nat /\ msg.candidate # n
    BY <1>0, <1>7, MsgFields DEF HandleVoteRequest
  <2>2. channel' = channel \/ channel' = channel \cup {grant}
    BY <1>7 DEF HandleVoteRequest
  <2>3. VotesAreFinite' /\ WinnersHadVotes' /\ HeartbeatsFromWinners'
    BY <1>0, <1>7, <2>2 DEF HandleVoteRequest, VotesAreFinite, WinnersHadVotes,
                             HeartbeatsFromWinners
  <2>4. LeaderHasVotes'
    BY <1>0, <1>7, <2>1 DEF HandleVoteRequest, TermAt, RoleAt, VoteAt, Grants, LeaderHasVotes
  <2>5. LeaderWasElected'
    BY <1>0, <1>7, <2>1 DEF HandleVoteRequest, TermAt, LeaderWasElected
  <2>6. QED
    BY <2>3, <2>4, <2>5 DEF Standing
<1>8. ASSUME NEW n \in Node, NEW msg \in channel, HandleVoteResponse(n, msg) PROVE Standing'
  <2> DEFINE win == [node |-> n, term |-> term[n], votes |-> votes'[n]]
  <2>1. /\ votes'[n] = votes[n] \cup {msg.voter}
        /\ votes' = [votes EXCEPT ![n] = votes[n] \cup {msg.voter}]
        /\ votes'[n] \in SUBSET Node
    BY <1>0, <1>8, MsgFields DEF HandleVoteResponse
  <2>2. /\ IsFiniteSet(votes'[n])
        /\ Cardinality(votes[n]) > 1 => Cardinality(votes'[n]) > 1
    BY <1>0, <2>1, OneMoreVote DEF VotesAreFinite
  <2>3. VotesAreFinite'
    BY <1>0, <2>1, <2>2 DEF VotesAreFinite
  <2>4. CASE role[n] = "CANDIDATE" /\ IsMajority(votes'[n])
    <3>1. /\ role' = [role EXCEPT ![n] = "LEADER"] /\ leader' = [leader EXCEPT ![n] = n]
          /\ elected' = elected \cup {win}
          /\ UNCHANGED <<term, votedFor, channel>>
          /\ Cardinality(votes'[n]) > 1
      BY <1>8, <2>4 DEF HandleVoteResponse, IsMajority
    <3>0. win.node = n /\ win.term = term[n] /\ win.votes = votes'[n]
      OBVIOUS
    <3> HIDE DEF win
    <3>2. WinnersHadVotes' /\ HeartbeatsFromWinners'
      BY <1>0, <2>1, <3>0, <3>1 DEF WinnersHadVotes, HeartbeatsFromWinners
    <3>3. LeaderHasVotes'
      BY <1>0, <2>1, <2>4, <3>0, <3>1 DEF LeaderHasVotes
    <3>4. LeaderWasElected'
      BY <1>0, <3>0, <3>1 DEF LeaderWasElected
    <3>5. QED
      BY <2>3, <3>2, <3>3, <3>4 DEF Standing
  <2>5. CASE ~(role[n] = "CANDIDATE" /\ IsMajority(votes'[n]))
    <3>1. UNCHANGED <<role, leader, elected, term, votedFor, channel>>
      BY <1>8, <2>5 DEF HandleVoteResponse
    <3>2. WinnersHadVotes' /\ HeartbeatsFromWinners' /\ LeaderWasElected'
      BY <1>0, <3>1 DEF WinnersHadVotes, HeartbeatsFromWinners, LeaderWasElected
    <3>3. LeaderHasVotes'
      BY <1>0, <2>1, <2>2, <3>1 DEF LeaderHasVotes
    <3>4. QED
      BY <2>3, <3>2, <3>3 DEF Standing
  <2>6. QED
    BY <2>4, <2>5
<1>9. CASE UNCHANGED vars
  BY <1>0, <1>9 DEF vars, nodeVars, Standing, VotesAreFinite, WinnersHadVotes,
                     HeartbeatsFromWinners, LeaderHasVotes, LeaderWasElected
<1>10. QED
  BY <1>1, <1>2, <1>3, <1>4, <1>5, <1>6, <1>7, <1>8, <1>9 DEF Next

\* A leader has voted for itself and has another's vote, and nobody follows a
\* node that never won: LeaderHasVotes and LeaderWasElected always hold.
THEOREM LeadersAreElected == Spec => []LeadersWereElected
<1>1. Init => Standing
  <2>1. IsFiniteSet({})
    BY FS_EmptySet
  <2>2. QED
    BY <2>1, ConsensusAssumption DEF Init, Standing, VotesAreFinite, WinnersHadVotes,
         HeartbeatsFromWinners, LeaderHasVotes, LeaderWasElected
<1>2. Standing => LeadersWereElected
  BY DEF Standing, LeadersWereElected
<1>3. QED
  BY <1>1, <1>2, StandingStep, TypeCorrect, PTL DEF Spec
-----------------------------------------------------------------------------
(* Terms and votes *)

\* No action lowers a term or moves a vote within a term, restarts set aside.
LEMMA SticksStep == TypeOK /\ TypeOK' /\ Standing /\ [Next]_vars => StepSticks
<1> SUFFICES ASSUME TypeOK, TypeOK', Standing, [Next]_vars, restarts' = restarts,
                    NEW m \in Node
             PROVE  /\ term'[m] >= term[m]
                    /\ term'[m] = term[m] /\ votedFor[m] # None => votedFor'[m] = votedFor[m]
  BY DEF StepSticks
<1>0. /\ term \in [Node -> Nat] /\ channel \subseteq Msg /\ restarts \in Nat
      /\ votedFor \in [Node -> Node \cup {None}]
  BY DEF TypeOK, Term, Msg
<1>1. ASSUME NEW n \in Node, Start(n) \/ Stop(n) \/ SendHeartbeat(n)
      PROVE  UNCHANGED <<term, votedFor>>
  BY <1>1 DEF Start, Stop, SendHeartbeat, nodeVars
<1>2. ASSUME NEW n \in Node, StartElection(n)
      PROVE  /\ term'[m] >= term[m]
             /\ term'[m] = term[m] => votedFor'[m] = votedFor[m]
  BY <1>0, <1>2 DEF StartElection
<1>3. ASSUME NEW n \in Node, Restart(n) PROVE FALSE
  BY <1>0, <1>3 DEF Restart
<1>4. ASSUME NEW n \in Node, NEW msg \in channel, ReceiveHeartbeat(n, msg)
      PROVE  term'[m] >= term[m] /\ votedFor'[m] = votedFor[m]
  BY <1>0, <1>4, MsgFields DEF ReceiveHeartbeat
<1>5. ASSUME NEW n \in Node, NEW msg \in channel, HandleVoteRequest(n, msg)
      PROVE  /\ term'[m] >= term[m]
             /\ term'[m] = term[m] /\ votedFor[m] # None => votedFor'[m] = votedFor[m]
  <2>1. msg.term \in Nat
    BY <1>0, MsgFields
  <2>2. QED
    BY <1>0, <1>5, <2>1 DEF HandleVoteRequest, TermAt, VoteAt, Grants
<1>6. ASSUME NEW n \in Node, NEW msg \in channel, HandleVoteResponse(n, msg)
      PROVE  UNCHANGED <<term, votedFor>>
  BY <1>6 DEF HandleVoteResponse
<1>7. CASE UNCHANGED vars
  BY <1>0, <1>7 DEF vars, nodeVars
<1>8. QED
  BY <1>0, <1>1, <1>2, <1>3, <1>4, <1>5, <1>6, <1>7 DEF Next

\* No step but a restart lowers a term or moves a vote within one.
THEOREM VotesDoStick == Spec => VotesStick
<1>1. Init => Standing
  <2>1. IsFiniteSet({})
    BY FS_EmptySet
  <2>2. QED
    BY <2>1, ConsensusAssumption DEF Init, Standing, VotesAreFinite, WinnersHadVotes,
         HeartbeatsFromWinners, LeaderHasVotes, LeaderWasElected
<1>2. TypeOK /\ TypeOK' /\ Standing /\ [Next]_vars => [StepSticks]_vars
  BY SticksStep
<1>3. QED
  BY <1>1, <1>2, StandingStep, TypeCorrect, PTL DEF Spec, VotesStick
-----------------------------------------------------------------------------
(* How many can win a term *)

\* No restart yet, and no vote counted in a later term than its own.
Steady == restarts = 0 /\ late = 0

\* Nobody was asked to vote in a term its candidate has not reached, ...
RequestsOfReachedTerms ==
  \A msg \in channel : msg.type = "vote_request" => msg.term <= term[msg.candidate]

\* ... or has cast a vote in a term it has not reached itself, ...
CastsAreRemembered ==
  \A v, c \in Node, t \in Nat : Cast(v, c, t) => t <= term[v] /\ votedFor[v] # None

\* ... and the one it voted for last has gone on to a later term than any in
\* which it voted for another.
LastVoteIsLater ==
  \A v, c, d \in Node, t \in Nat :
    votedFor[v] = c /\ Cast(v, d, t) /\ d # c => t < term[c]

CountsAreCast ==
  \A v, c \in Node, t \in Nat : Counted(v, c, t) => Cast(v, c, t)

\* NoVoteCountsTwice, for all terms and without its precondition.
NoneCountsTwice ==
  \A v, c, d \in Node, t \in Nat :
    Cast(v, c, t) /\ Cast(v, d, t) /\ c # d =>
      \/ term[c] > t /\ ~Counted(v, c, t)
      \/ term[d] > t /\ ~Counted(v, d, t)

Balloting == /\ RequestsOfReachedTerms /\ CastsAreRemembered /\ LastVoteIsLater
             /\ CountsAreCast /\ NoneCountsTwice

Typed ==
  /\ term \in [Node -> Nat] /\ role \in [Node -> Role] /\ votes \in [Node -> SUBSET Node]
  /\ votedFor \in [Node -> Node \cup {None}]
  /\ channel \subseteq Msg
  /\ \A e \in elected : e.node \in Node /\ e.term \in Nat /\ e.votes \in SUBSET Node

LEMMA TypesMore == TypeOK => Typed
BY DEF TypeOK, Typed, Term, Msg

\* What every action but StartElection and HandleVoteRequest does to a ballot: no
\* vote is cast or moved, no term lowered, and what counts now and did not
\* before is a vote cast in the candidate's present term.
Quiet ==
  /\ UNCHANGED votedFor
  /\ \A c \in Node : term[c] <= term'[c]
  /\ \A msg \in channel' : msg.type \in {"vote_request", "grant"} => msg \in channel
  /\ channel \subseteq channel'
  /\ \A v, c \in Node, t \in Nat :
       Counted(v, c, t)' /\ ~Counted(v, c, t) => Cast(v, c, t) /\ term[c] = t

LEMMA QuietKeepsBallots ==
  ASSUME Typed, Typed', Balloting, Quiet
  PROVE  Balloting'
<1>1. ASSUME NEW v \in Node, NEW c \in Node, NEW t \in Nat
      PROVE  Cast(v, c, t)' <=> Cast(v, c, t)
  BY DEF Quiet, Cast
<1>2. /\ votedFor' = votedFor /\ \A c \in Node : term[c] <= term'[c]
      /\ \A c \in Node : term[c] \in Nat /\ term'[c] \in Nat
  BY DEF Quiet, Typed
<1>3. RequestsOfReachedTerms'
  <2> SUFFICES ASSUME NEW msg \in channel', msg.type = "vote_request"
               PROVE  msg.term <= term'[msg.candidate]
    BY DEF RequestsOfReachedTerms
  <2>1. msg \in channel /\ msg.candidate \in Node /\ msg.term \in Nat
    BY MsgFields DEF Quiet, Typed
  <2>2. QED
    BY <1>2, <2>1 DEF Balloting, RequestsOfReachedTerms
<1>4. CastsAreRemembered'
  BY <1>1, <1>2 DEF Balloting, CastsAreRemembered
<1>5. LastVoteIsLater'
  BY <1>1, <1>2 DEF Balloting, LastVoteIsLater
<1>6. CountsAreCast'
  BY <1>1 DEF Balloting, CountsAreCast, Quiet
<1>7. NoneCountsTwice'
  <2> SUFFICES ASSUME NEW v \in Node, NEW c \in Node, NEW d \in Node, NEW t \in Nat,
                      Cast(v, c, t), Cast(v, d, t), c # d
               PROVE  \/ term'[c] > t /\ ~Counted(v, c, t)'
                      \/ term'[d] > t /\ ~Counted(v, d, t)'
    BY <1>1 DEF NoneCountsTwice
  <2>1. ASSUME NEW x \in Node, term[x] > t, ~Counted(v, x, t)
        PROVE  term'[x] > t /\ ~Counted(v, x, t)'
    BY <1>2, <2>1 DEF Quiet
  <2>2. QED
    BY <2>1 DEF Balloting, NoneCountsTwice
<1>8. QED
  BY <1>3, <1>4, <1>5, <1>6, <1>7 DEF Balloting

\* What an action but StartElection, HandleVoteRequest and HandleVoteResponse
\* leaves alone makes it Quiet.
LEMMA NothingCast ==
  ASSUME Typed, Typed', UNCHANGED <<votedFor, votes, elected>>, channel \subseteq channel',
         \A msg \in channel' : msg.type \in {"vote_request", "grant"} => msg \in channel,
         \A c \in Node : \/ term'[c] = term[c] /\ role'[c] \in {role[c], "FOLLOWER"}
                         \/ term'[c] >= term[c] /\ role'[c] = "FOLLOWER"
  PROVE  Quiet
<1>1. \A c \in Node : term[c] <= term'[c]
  BY DEF Typed
<1>2. ASSUME NEW v \in Node, NEW c \in Node, NEW t \in Nat, Counted(v, c, t)'
      PROVE  Counted(v, c, t)
  BY <1>2 DEF Counted
<1>3. QED
  BY <1>1, <1>2 DEF Quiet

\* A timely response counts a vote cast in the candidate's present term.
LEMMA ResponseIsQuiet ==
  ASSUME Typed, Typed', late \in Nat, late' = 0, NEW n \in Node, NEW msg \in channel,
         HandleVoteResponse(n, msg)
  PROVE  Quiet
<1> DEFINE win == [node |-> n, term |-> term[n], votes |-> votes'[n]]
<1>1. msg.voter \in Node /\ msg \in Grant /\ msg.term = term[n] /\ msg.candidate = n
  BY DEF HandleVoteResponse, Typed, Msg, VoteRequest, Heartbeat, Grant
<1>2. msg = [type |-> "grant", candidate |-> n, voter |-> msg.voter, term |-> term[n]]
  BY <1>1 DEF Grant
<1>3. Cast(msg.voter, n, term[n])
  BY <1>2 DEF Cast
<1>4. /\ UNCHANGED <<term, votedFor, channel>>
      /\ votes' = [votes EXCEPT ![n] = votes[n] \cup {msg.voter}]
  BY DEF HandleVoteResponse
<1>5. \/ UNCHANGED <<role, elected>>
      \/ /\ role[n] = "CANDIDATE" /\ role' = [role EXCEPT ![n] = "LEADER"]
         /\ elected' = elected \cup {win}
  BY DEF HandleVoteResponse
<1>6. win.node = n /\ win.term = term[n] /\ win.votes = votes'[n]
  OBVIOUS
<1> HIDE DEF win
<1>7. ASSUME NEW v \in Node, NEW c \in Node, NEW t \in Nat,
             Counted(v, c, t)', ~Counted(v, c, t)
      PROVE  c = n /\ t = term[n] /\ v = msg.voter
  <2>1. CASE UNCHANGED <<role, elected>>
    BY <1>4, <1>7, <2>1 DEF Counted, Typed
  <2>2. CASE /\ role[n] = "CANDIDATE" /\ role' = [role EXCEPT ![n] = "LEADER"]
             /\ elected' = elected \cup {win}
    BY <1>4, <1>6, <1>7, <2>2 DEF Counted, Typed
  <2>3. QED
    BY <1>5, <2>1, <2>2
<1>8. QED
  BY <1>3, <1>4, <1>7 DEF Quiet, Typed

\* Node n casts its vote for c in term t: the one it already has, its first,
\* or in a term it has not seen; only the last can count at once.
Ballot(n, c, t) ==
  /\ votedFor' = [votedFor EXCEPT ![n] = c]
  /\ \A x \in Node : term[x] <= term'[x]
  /\ t <= term'[n] /\ t <= term'[c]
  /\ votedFor[n] \in {None, c} \/ t > term[n]
  /\ \A msg \in channel' : msg.type = "vote_request" =>
       msg \in channel \/ (msg.candidate = c /\ msg.term = t)
  /\ \A v, x \in Node, s \in Nat :
       /\ Cast(v, x, s)' <=> Cast(v, x, s) \/ (v = n /\ x = c /\ s = t)
       /\ Counted(v, x, s)' => Counted(v, x, s) \/ (v = n /\ x = c /\ s = t /\ t > term[n])

LEMMA BallotKeepsBallots ==
  ASSUME Typed, Typed', Balloting, NEW n \in Node, NEW c \in Node, NEW t \in Nat,
         Ballot(n, c, t)
  PROVE  Balloting'
<1> USE ConsensusAssumption
<1>1. /\ votedFor' = [votedFor EXCEPT ![n] = c]
      /\ votedFor \in [Node -> Node \cup {None}]
      /\ \A x \in Node : term[x] <= term'[x] /\ term[x] \in Nat /\ term'[x] \in Nat
      /\ t <= term'[n] /\ t <= term'[c]
      /\ votedFor[n] \in {None, c} \/ t > term[n]
  BY DEF Ballot, Typed
<1>2. ASSUME NEW v \in Node, NEW x \in Node, NEW s \in Nat
      PROVE  /\ Cast(v, x, s)' <=> Cast(v, x, s) \/ (v = n /\ x = c /\ s = t)
             /\ Cast(v, x, s) => s <= term[v] /\ votedFor[v] # None
             /\ Counted(v, x, s) => Cast(v, x, s)
             /\ Counted(v, x, s)' =>
                  Counted(v, x, s) \/ (v = n /\ x = c /\ s = t /\ t > term[n])
  BY DEF Ballot, Balloting, CastsAreRemembered, CountsAreCast
<1>3. RequestsOfReachedTerms'
  <2> SUFFICES ASSUME NEW msg \in channel', msg.type = "vote_request"
               PROVE  msg.term <= term'[msg.candidate]
    BY DEF RequestsOfReachedTerms
  <2>1. CASE msg.candidate = c /\ msg.term = t
    BY <1>1, <2>1
  <2>2. CASE msg \in channel
    <3>1. msg.candidate \in Node /\ msg.term \in Nat
      BY <2>2, MsgFields DEF Typed
    <3>2. QED
      BY <1>1, <2>2, <3>1 DEF Balloting, RequestsOfReachedTerms
  <2>3. QED
    BY <2>1, <2>2 DEF Ballot
<1>4. CastsAreRemembered'
  <2> SUFFICES ASSUME NEW v \in Node, NEW x \in Node, NEW s \in Nat, Cast(v, x, s)'
               PROVE  s <= term'[v] /\ votedFor'[v] # None
    BY DEF CastsAreRemembered
  <2>1. CASE Cast(v, x, s)
    BY <1>1, <1>2, <2>1
  <2>2. CASE v = n /\ x = c /\ s = t
    BY <1>1, <2>2
  <2>3. QED
    BY <1>2, <2>1, <2>2
<1>5. LastVoteIsLater'
  <2> SUFFICES ASSUME NEW v \in Node, NEW x \in Node, NEW d \in Node, NEW s \in Nat,
                      votedFor'[v] = x, Cast(v, d, s)', d # x
               PROVE  s < term'[x]
    BY DEF LastVoteIsLater
  <2>1. Cast(v, d, s)
    BY <1>1, <1>2
  <2>2. CASE votedFor[v] = x
    BY <1>1, <2>1, <2>2 DEF Balloting, LastVoteIsLater
  <2>3. CASE votedFor[v] # x
    <3>1. v = n /\ x = c /\ t > term[n]
      BY <1>1, <1>2, <2>1, <2>3
    <3>2. s <= term[n]
      BY <1>2, <2>1, <3>1
    <3>3. QED
      BY <1>1, <3>1, <3>2
  <2>4. QED
    BY <2>2, <2>3
<1>6. CountsAreCast'
  BY <1>2 DEF CountsAreCast
<1>7. NoneCountsTwice'
  <2>1. ASSUME NEW v \in Node, NEW x \in Node, NEW y \in Node, NEW s \in Nat,
               Cast(v, x, s), Cast(v, y, s)', x # y
        PROVE  \/ term'[x] > s /\ ~Counted(v, x, s)'
               \/ term'[y] > s /\ ~Counted(v, y, s)'
    <3>1. CASE Cast(v, y, s)
      <4>1. \/ term[x] > s /\ ~Counted(v, x, s)
            \/ term[y] > s /\ ~Counted(v, y, s)
        BY <2>1, <3>1 DEF Balloting, NoneCountsTwice
      <4>2. s <= term[v]
        BY <1>2, <2>1
      <4>3. (Counted(v, x, s)' => Counted(v, x, s)) /\ (Counted(v, y, s)' => Counted(v, y, s))
        BY <1>1, <1>2, <4>2
      <4>4. QED
        BY <1>1, <4>1, <4>3
    <3>2. CASE ~Cast(v, y, s)
      <4>1. v = n /\ y = c /\ s = t /\ s <= term[v] /\ votedFor[v] # None
        BY <1>2, <2>1, <3>2
      <4>2. votedFor[v] = y
        BY <1>1, <4>1
      <4>3. s < term[y]
        BY <2>1, <4>2 DEF Balloting, LastVoteIsLater
      <4>4. ~Counted(v, y, s)'
        BY <1>1, <1>2, <3>2, <4>1
      <4>5. QED
        BY <1>1, <4>3, <4>4
    <3>3. QED
      BY <3>1, <3>2
  <2>2. ASSUME NEW v \in Node, NEW x \in Node, NEW y \in Node, NEW s \in Nat,
               Cast(v, x, s)', Cast(v, y, s)', x # y
        PROVE  Cast(v, x, s) \/ Cast(v, y, s)
    BY <1>2, <2>2
  <2>3. QED
    BY <2>1, <2>2 DEF NoneCountsTwice
<1>8. QED
  BY <1>3, <1>4, <1>5, <1>6, <1>7 DEF Balloting

\* Standing for election casts the candidate's own vote.
LEMMA StandingCasts ==
  ASSUME Typed, Typed', NEW n \in Node, StartElection(n)
  PROVE  Ballot(n, n, term[n] + 1)
<1> DEFINE request == [type |-> "vote_request", candidate |-> n, term |-> term[n] + 1]
<1>1. /\ term' = [term EXCEPT ![n] = term[n] + 1]
      /\ role' = [role EXCEPT ![n] = "CANDIDATE"]
      /\ votedFor' = [votedFor EXCEPT ![n] = n] /\ votes' = [votes EXCEPT ![n] = {n}]
      /\ channel' = channel \cup {request} /\ UNCHANGED elected
  BY DEF StartElection
<1>2. \A x \in Node : term[x] \in Nat /\ term[x] <= term'[x]
  BY <1>1 DEF Typed
<1>3. ASSUME NEW v \in Node, NEW x \in Node, NEW s \in Nat
      PROVE  /\ Cast(v, x, s)' <=> Cast(v, x, s) \/ (v = n /\ x = n /\ s = term[n] + 1)
             /\ Counted(v, x, s)' => Counted(v, x, s) \/ (v = n /\ x = n /\ s = term[n] + 1)
  <2>1. Cast(v, x, s)' <=> Cast(v, x, s) \/ (v = n /\ x = n /\ s = term[n] + 1)
    BY <1>1 DEF Cast
  <2>2. Counted(v, x, s)' => Counted(v, x, s) \/ (v = n /\ x = n /\ s = term[n] + 1)
    <3>1. CASE x = n
      BY <1>1, <3>1 DEF Counted, Typed
    <3>2. CASE x # n
      BY <1>1, <3>2 DEF Counted, Typed
    <3>3. QED
      BY <3>1, <3>2
  <2>3. QED
    BY <2>1, <2>2
<1>4. /\ term[n] \in Nat /\ term[n] + 1 > term[n] /\ term'[n] = term[n] + 1
      /\ request.candidate = n /\ request.term = term[n] + 1
  BY <1>1 DEF Typed
<1> HIDE DEF request
<1>5. \A msg \in channel' : msg.type = "vote_request" =>
        msg \in channel \/ (msg.candidate = n /\ msg.term = term[n] + 1)
  BY <1>1, <1>4
<1>6. \A x \in Node : term[x] <= term'[x]
  BY <1>2
<1>7. QED
  BY <1>1, <1>3, <1>4, <1>5, <1>6 DEF Ballot

\* A request is answered with a vote, or nothing is cast.
LEMMA RequestCasts ==
  ASSUME Typed, Typed', Balloting, NEW n \in Node, NEW msg \in channel,
         HandleVoteRequest(n, msg)
  PROVE  Quiet \/ Ballot(n, msg.candidate, msg.term)
<1> USE ConsensusAssumption
<1> DEFINE c == msg.candidate
           t == msg.term
           grant == [type |-> "grant", candidate |-> c, voter |-> n, term |-> t]
<1>1. /\ c \in Node /\ t \in Nat /\ c # n /\ t <= term[c]
      /\ msg.type = "vote_request"
  BY MsgFields DEF HandleVoteRequest, Typed, Balloting, RequestsOfReachedTerms
<1>2. /\ term' = [term EXCEPT ![n] = TermAt(n, t)] /\ role' = [role EXCEPT ![n] = RoleAt(n, t)]
      /\ UNCHANGED <<votes, elected>>
  BY DEF HandleVoteRequest
<1>3. \A x \in Node : \/ term'[x] = term[x] /\ role'[x] \in {role[x], "FOLLOWER"}
                      \/ term'[x] >= term[x] /\ role'[x] = "FOLLOWER"
  BY <1>1, <1>2 DEF TermAt, RoleAt, Typed
<1>4. CASE Grants(n, c, t)
  <2>1. votedFor' = [votedFor EXCEPT ![n] = c] /\ channel' = channel \cup {grant}
    BY <1>4 DEF HandleVoteRequest
  <2>2. \A x \in Node : term[x] <= term'[x]
    BY <1>3 DEF Typed
  <2>3. t <= term'[n] /\ t <= term'[c]
    BY <1>1, <1>2 DEF TermAt, Typed
  <2>4. votedFor[n] \in {None, c} \/ t > term[n]
    BY <1>4 DEF Grants, VoteAt
  <2>5. ASSUME NEW v \in Node, NEW x \in Node, NEW s \in Nat
        PROVE  Cast(v, x, s)' <=> Cast(v, x, s) \/ (v = n /\ x = c /\ s = t)
    <3> DEFINE g == [type |-> "grant", candidate |-> x, voter |-> v, term |-> s]
               r == [type |-> "vote_request", candidate |-> x, term |-> s]
    <3>1. g = grant <=> v = n /\ x = c /\ s = t
      <4>1. /\ g.candidate = x /\ g.voter = v /\ g.term = s
            /\ grant.candidate = c /\ grant.voter = n /\ grant.term = t
        OBVIOUS
      <4>2. QED
        BY <4>1
    <3>2. r # grant
      <4>1. r.type = "vote_request" /\ grant.type = "grant"
        OBVIOUS
      <4>2. QED
        BY <4>1
    <3>3. Cast(v, x, s) <=> g \in channel \/ (v = x /\ r \in channel)
      BY DEF Cast
    <3>4. Cast(v, x, s)' <=> g \in channel' \/ (v = x /\ r \in channel')
      BY DEF Cast
    <3> HIDE DEF g, r, grant
    <3>5. QED
      BY <2>1, <3>1, <3>2, <3>3, <3>4
  <2>6. ASSUME NEW v \in Node, NEW x \in Node, NEW s \in Nat, Counted(v, x, s)'
        PROVE  Counted(v, x, s)
    BY <1>2, <1>3, <2>6 DEF Counted
  <2>7. \A m \in channel' : m.type = "vote_request" => m \in channel
    BY <2>1
  <2>8. QED
    BY <2>1, <2>2, <2>3, <2>4, <2>5, <2>6, <2>7 DEF Ballot
<1>5. CASE ~Grants(n, c, t)
  <2>1. votedFor' = [votedFor EXCEPT ![n] = VoteAt(n, t)] /\ UNCHANGED channel
    BY <1>5 DEF HandleVoteRequest
  <2>2. VoteAt(n, t) = votedFor[n]
    BY <1>5 DEF Grants, VoteAt
  <2>3. votedFor' = votedFor
    BY <2>1, <2>2 DEF Typed
  <2>4. Quiet
    BY <1>2, <1>3, <2>1, <2>3, NothingCast
  <2>5. QED
    BY <2>4
<1>6. QED
  BY <1>4, <1>5

\* While the swarm is Steady, every action keeps the ballots in order.
LEMMA BallotingStep ==
  TypeOK /\ TypeOK' /\ (Steady => Balloting) /\ [Next]_vars => (Steady => Balloting)'
<1> SUFFICES ASSUME TypeOK, TypeOK', Steady => Balloting, [Next]_vars, Steady'
             PROVE  Balloting'
  OBVIOUS
<1>0. /\ Typed /\ Typed' /\ restarts \in Nat /\ late \in Nat
      /\ restarts' = 0 /\ late' = 0
  BY TypesMore DEF TypeOK, Typed, Term, Msg, Steady
<1>a. Steady
  BY <1>0 DEF Next, vars, nodeVars, Steady, Start, Stop, SendHeartbeat, StartElection, Restart,
              ReceiveHeartbeat, HandleVoteRequest, HandleVoteResponse
<1>b. Balloting
  BY <1>a
<1>1. ASSUME NEW n \in Node, Start(n) \/ Stop(n) \/ SendHeartbeat(n) PROVE Quiet
  <2>1. CASE Start(n)
    BY <1>0, <2>1, NothingCast DEF Start
  <2>2. CASE Stop(n)
    BY <1>0, <2>2, NothingCast DEF Stop, Typed
  <2>3. CASE SendHeartbeat(n)
    BY <1>0, <2>3, NothingCast DEF SendHeartbeat, nodeVars
  <2>4. QED
    BY <1>1, <2>1, <2>2, <2>3
<1>2. ASSUME NEW n \in Node, StartElection(n) PROVE Balloting'
  <2>1. term[n] + 1 \in Nat
    BY <1>0 DEF Typed
  <2>2. QED
    BY <1>0, <1>b, <1>2, <2>1, StandingCasts, BallotKeepsBallots
<1>3. ASSUME NEW n \in Node, Restart(n) PROVE FALSE
  BY <1>0, <1>3 DEF Restart
<1>4. ASSUME NEW n \in Node, NEW msg \in channel, ReceiveHeartbeat(n, msg) PROVE Quiet
  <2>1. msg.term \in Nat
    BY <1>0, MsgFields DEF Typed
  <2>2. \A c \in Node : \/ term'[c] = term[c] /\ role'[c] \in {role[c], "FOLLOWER"}
                        \/ term'[c] >= term[c] /\ role'[c] = "FOLLOWER"
    BY <1>0, <1>4, <2>1 DEF ReceiveHeartbeat, Typed
  <2>3. QED
    BY <1>0, <1>4, <2>2, NothingCast DEF ReceiveHeartbeat
<1>5. ASSUME NEW n \in Node, NEW msg \in channel, HandleVoteRequest(n, msg) PROVE Balloting'
  <2>1. msg.candidate \in Node /\ msg.term \in Nat
    BY <1>0, <1>5, MsgFields DEF HandleVoteRequest, Typed
  <2>2. QED
    BY <1>0, <1>b, <1>5, <2>1, RequestCasts, QuietKeepsBallots, BallotKeepsBallots
<1>6. ASSUME NEW n \in Node, NEW msg \in channel, HandleVoteResponse(n, msg) PROVE Quiet
  BY <1>0, <1>6, ResponseIsQuiet
<1>7. ASSUME UNCHANGED vars PROVE Quiet
  BY <1>0, <1>7, NothingCast DEF vars, nodeVars
<1>8. CASE Quiet
  BY <1>0, <1>b, <1>8, QuietKeepsBallots
<1>9. QED
  BY <1>1, <1>2, <1>3, <1>4, <1>5, <1>6, <1>7, <1>8 DEF Next, vars, nodeVars

LEMMA NoBallotsAtFirst == Init => Balloting
BY DEF Init, Balloting, RequestsOfReachedTerms, CastsAreRemembered, LastVoteIsLater,
       CountsAreCast, NoneCountsTwice, Cast, Counted

\* No vote counts for two candidates of a term, as long as no node restarted and
\* no vote was counted in a later term than its own.
THEOREM VotesCountOnce == Spec => []NoVoteCountsTwice
<1>1. TypeOK /\ (Steady => Balloting) => NoVoteCountsTwice
  <2> SUFFICES ASSUME TypeOK, Steady => Balloting PROVE NoVoteCountsTwice
    OBVIOUS
  <2>1. \A t \in {m.term : m \in channel} : t \in Nat
    BY TypesMore, MsgFields DEF Typed
  <2>2. QED
    BY <2>1 DEF Steady, Balloting, NoneCountsTwice, NoVoteCountsTwice
<1>2. QED
  BY <1>1, NoBallotsAtFirst, BallotingStep, TypeCorrect, PTL DEF Spec

\* A set of more than one element has two.
LEMMA TwoOfThem ==
  ASSUME NEW S, IsFiniteSet(S), Cardinality(S) > 1
  PROVE  \E a, b \in S : a # b
<1>1. PICK a : a \in S
  <2>1. S # {}
    BY FS_EmptySet
  <2> QED
    BY <2>1
<1>2. ASSUME S \subseteq {a} PROVE FALSE
  <2>1. IsFiniteSet({a}) /\ Cardinality({a}) = 1
    BY FS_Singleton
  <2>2. Cardinality(S) <= Cardinality({a})
    BY <1>2, <2>1, FS_Subset
  <2>3. Cardinality(S) \in Nat
    BY FS_CardinalityType
  <2> QED
    BY <2>1, <2>2, <2>3
<1> QED
  BY <1>1, <1>2

\* If each of W has two voters of its own, there are twice as many nodes as W has.
LEMMA TwoVotersEach ==
  ASSUME NEW W, IsFiniteSet(W), NEW first \in [W -> Node], NEW second \in [W -> Node],
         \A w, x \in W : first[w] # second[x] /\ (w # x => first[w] # first[x])
                                             /\ (w # x => second[w] # second[x])
  PROVE  2 * Cardinality(W) <= Cardinality(Node)
<1> DEFINE P == W \X {1, 2}
           f == [p \in P |-> IF p[2] = 1 THEN first[p[1]] ELSE second[p[1]]]
<1>1. f \in [P -> Node]
  OBVIOUS
<1>2. ASSUME NEW p \in P, NEW q \in P, f[p] = f[q] PROVE p = q
  <2>1. /\ p = <<p[1], p[2]>> /\ q = <<q[1], q[2]>>
        /\ p[1] \in W /\ q[1] \in W /\ p[2] \in {1, 2} /\ q[2] \in {1, 2}
    OBVIOUS
  <2>2. p[1] = q[1] /\ p[2] = q[2]
    BY <1>2, <2>1
  <2> QED
    BY <2>1, <2>2
<1>3. f \in Injection(P, Node)
  BY <1>1, <1>2 DEF Injection, IsInjective
<1>4. Cardinality(P) <= Cardinality(Node)
  <2> HIDE DEF P, f
  <2> QED
    BY <1>3, FS_Injection, ConsensusAssumption
<1>5. IsFiniteSet({1, 2}) /\ Cardinality({1, 2}) = 2
  <2>1. 1 # 2
    OBVIOUS
  <2>2. IsFiniteSet({1}) /\ Cardinality({1}) = 1
    BY FS_Singleton
  <2>3. {1, 2} = {1} \cup {2} /\ 2 \notin {1}
    OBVIOUS
  <2>4. IsFiniteSet({1} \cup {2}) /\ Cardinality({1} \cup {2}) = Cardinality({1}) + 1
    BY <2>2, <2>3, FS_AddElement
  <2> QED
    BY <2>2, <2>3, <2>4
<1> DEFINE Two == {1, 2}
<1>6. IsFiniteSet(Two) /\ Cardinality(Two) = 2 /\ P = W \X Two
  BY <1>5
<1> HIDE DEF Two, f, P
<1>7. Cardinality(P) = Cardinality(W) * Cardinality(Two)
  BY <1>6, FS_Product
<1>8. Cardinality(W) \in Nat
  BY FS_CardinalityType
<1> QED
  BY <1>4, <1>6, <1>7, <1>8

\* The winners of a term had two votes each, and no vote twice.
LEMMA FewWinners ==
  ASSUME TypeOK, Standing, Balloting, NEW t \in Nat
  PROVE  2 * Cardinality(Winners(t)) <= Cardinality(Node)
<1> DEFINE W == Winners(t)
           Ballots(w, S) == \E e \in elected : e.node = w /\ e.term = t /\ e.votes = S
<1>1. W \subseteq Node /\ \A w \in W : \E S \in SUBSET Node : Ballots(w, S)
  BY TypesMore DEF Winners, TypeOK
<1>2. ASSUME NEW w \in W PROVE \E a, b \in Node : a # b /\ Counted(a, w, t) /\ Counted(b, w, t)
  <2>1. PICK e \in elected : e.node = w /\ e.term = t
    BY DEF Winners
  <2>2. e.votes \in SUBSET Node /\ Cardinality(e.votes) > 1
    BY DEF Standing, WinnersHadVotes
  <2>3. IsFiniteSet(e.votes)
    BY <2>2, FS_Subset, ConsensusAssumption
  <2>4. PICK a, b \in e.votes : a # b
    BY <2>2, <2>3, TwoOfThem
  <2> QED
    BY <2>1, <2>2, <2>4 DEF Counted
<1>3. ASSUME NEW w \in W, NEW x \in W, NEW v \in Node, Counted(v, w, t), Counted(v, x, t)
      PROVE  w = x
  <2>1. w \in Node /\ x \in Node
    BY <1>1
  <2>2. Cast(v, w, t) /\ Cast(v, x, t)
    BY <1>3, <2>1 DEF Balloting, CountsAreCast
  <2> QED
    BY <1>3, <2>1, <2>2 DEF Balloting, NoneCountsTwice
<1>4. \E first, second \in [W -> Node] : \A w \in W :
        first[w] # second[w] /\ Counted(first[w], w, t) /\ Counted(second[w], w, t)
  <2> DEFINE Both(w, a, b) == a # b /\ Counted(a, w, t) /\ Counted(b, w, t)
             first == [w \in W |-> CHOOSE a \in Node : \E b \in Node : Both(w, a, b)]
             second == [w \in W |-> CHOOSE b \in Node : Both(w, first[w], b)]
  <2>1. ASSUME NEW w \in W
        PROVE  first[w] \in Node /\ \E b \in Node : Both(w, first[w], b)
    <3>1. \E a \in Node : \E b \in Node : Both(w, a, b)
      BY <1>2
    <3> HIDE DEF Both, W
    <3> QED
      BY <3>1
  <2>2. ASSUME NEW w \in W
        PROVE  second[w] \in Node /\ Both(w, first[w], second[w])
    <3>1. \E b \in Node : Both(w, first[w], b)
      BY <2>1
    <3> HIDE DEF Both, W, first
    <3> QED
      BY <3>1
  <2>3. first \in [W -> Node] /\ second \in [W -> Node]
    <3> HIDE DEF Both, W
    <3> QED
      BY <2>1, <2>2
  <2> QED
    BY <2>2, <2>3
<1>5. PICK first \in [W -> Node], second \in [W -> Node] : \A w \in W :
        first[w] # second[w] /\ Counted(first[w], w, t) /\ Counted(second[w], w, t)
  BY <1>4
<1> HIDE DEF W
<1>6. \A w, x \in W : first[w] # second[x] /\ (w # x => first[w] # first[x])
                                         /\ (w # x => second[w] # second[x])
  BY <1>3, <1>5
<1>7. IsFiniteSet(W)
  BY <1>1, FS_Subset, ConsensusAssumption
<1>8. 2 * Cardinality(W) <= Cardinality(Node)
  BY <1>5, <1>6, <1>7, TwoVotersEach
<1> QED
  BY <1>8 DEF W

\* As long as no node restarted and votes were counted in their own term, a term has at
\* most half as many winners as there are nodes, and no vote counts for two of them: a
\* swarm of three has one leader, whatever came late, twice or out of order; for four
\* nodes the code's majority of two promises no more than two leaders.
THEOREM LeadersAreFew == Spec => []ElectionSafety
<1>1. TypeOK /\ Standing /\ (Steady => Balloting) => OneLeaderInThree
  <2> SUFFICES ASSUME TypeOK, Standing, Balloting, NEW e \in elected
               PROVE  2 * Cardinality(Winners(e.term)) <= Cardinality(Node)
    BY DEF OneLeaderInThree, Steady
  <2>1. e.term \in Nat
    BY DEF TypeOK, Term
  <2> QED
    BY <2>1, FewWinners
<1>2. Init => Standing
  <2>1. IsFiniteSet({})
    BY FS_EmptySet
  <2>2. QED
    BY <2>1, ConsensusAssumption DEF Init, Standing, VotesAreFinite, WinnersHadVotes,
         HeartbeatsFromWinners, LeaderHasVotes, LeaderWasElected
<1>3. QED
  BY <1>1, <1>2, NoBallotsAtFirst, BallotingStep, StandingStep, TypeCorrect, VotesCountOnce,
     PTL DEF Spec, ElectionSafety
=============================================================================
