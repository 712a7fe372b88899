------------------------- MODULE CoordinationProofs -------------------------
(***************************************************************************)
(* Theorems of the parts around the swarm, each on its own, and the types  *)
(* of all of them.                                                         *)
(***************************************************************************)
EXTENDS Coordination, ReplicasProofs, SequenceTheorems

-----------------------------------------------------------------------------
(* A sequence without one of its elements *)

\* Where the elements of a sequence are when one has been taken out.
LEMMA OneTakenOut ==
  ASSUME NEW S, NEW s \in Seq(S), NEW i \in 1..Len(s)
  PROVE  /\ RemoveAt(s, i) \in Seq(S) /\ Len(RemoveAt(s, i)) = Len(s) - 1
         /\ \A j \in 1..(i - 1) : RemoveAt(s, i)[j] = s[j]
         /\ \A j \in i..(Len(s) - 1) : RemoveAt(s, i)[j] = s[j + 1]
<1> DEFINE front == SubSeq(s, 1, i - 1)
           back == SubSeq(s, i + 1, Len(s))
<1>1. Len(s) \in Nat /\ i \in Nat /\ 1 <= i /\ i <= Len(s) /\ \A j \in 1..Len(s) : s[j] \in S
  OBVIOUS
<1>2. /\ front \in Seq(S) /\ Len(front) = i - 1
      /\ \A j \in 1..(i - 1) : front[j] = s[j]
  <2>1. /\ 1 \in Int /\ i - 1 \in Int /\ \A j \in 1..(i - 1) : s[j] \in S
    BY <1>1
  <2>2. /\ front \in Seq(S)
        /\ Len(front) = IF 1 <= i - 1 THEN (i - 1) - 1 + 1 ELSE 0
        /\ \A j \in 1..((i - 1) - 1 + 1) : front[j] = s[1 + j - 1]
    BY <2>1, SubSeqProperties
  <2>3. QED
    BY <1>1, <2>2
<1>3. /\ back \in Seq(S) /\ Len(back) = Len(s) - i
      /\ \A j \in 1..(Len(s) - i) : back[j] = s[i + j]
  <2>1. /\ i + 1 \in Int /\ Len(s) \in Int /\ \A j \in (i + 1)..Len(s) : s[j] \in S
    BY <1>1
  <2>2. /\ back \in Seq(S)
        /\ Len(back) = IF i + 1 <= Len(s) THEN Len(s) - (i + 1) + 1 ELSE 0
        /\ \A j \in 1..(Len(s) - (i + 1) + 1) : back[j] = s[(i + 1) + j - 1]
    BY <2>1, SubSeqProperties
  <2> HIDE DEF back
  <2>3. Len(back) = Len(s) - i /\ Len(s) - (i + 1) + 1 = Len(s) - i
    BY <1>1, <2>2
  <2>4. ASSUME NEW j \in 1..(Len(s) - i) PROVE back[j] = s[i + j]
    <3>1. (i + 1) + j - 1 = i + j
      BY <1>1
    <3>2. QED
      BY <2>2, <2>3, <3>1
  <2>5. QED
    BY <2>2, <2>3, <2>4
<1>4. RemoveAt(s, i) = front \o back
  BY DEF RemoveAt
<1> HIDE DEF front, back
<1> DEFINE rest == front \o back
<1>5. /\ rest \in Seq(S) /\ Len(rest) = Len(front) + Len(back)
      /\ \A j \in 1..(Len(front) + Len(back)) :
           rest[j] = IF j <= Len(front) THEN front[j] ELSE back[j - Len(front)]
  BY <1>2, <1>3, ConcatProperties
<1> HIDE DEF rest
<1>6. Len(rest) = Len(s) - 1
  BY <1>1, <1>2, <1>3, <1>5
<1>7. ASSUME NEW j \in 1..(i - 1) PROVE rest[j] = s[j]
  <2>1. j \in 1..(Len(front) + Len(back)) /\ j <= Len(front)
    BY <1>1, <1>2, <1>3
  <2>2. QED
    BY <1>2, <1>5, <2>1
<1>8. ASSUME NEW j \in i..(Len(s) - 1) PROVE rest[j] = s[j + 1]
  <2>1. /\ j \in 1..(Len(front) + Len(back)) /\ ~(j <= Len(front))
        /\ j - Len(front) \in 1..(Len(s) - i) /\ i + (j - Len(front)) = j + 1
    BY <1>1, <1>2, <1>3
  <2>2. rest[j] = back[j - Len(front)]
    BY <1>5, <2>1
  <2>3. QED
    BY <1>3, <2>1, <2>2
<1>9. QED
  BY <1>4, <1>5, <1>6, <1>7, <1>8 DEF rest

-----------------------------------------------------------------------------
(* Rovers that stop *)

\* The loops are there between connect() and the gathering of stop(), and at no other time.
LoopsInv ==
  /\ phase = [r \in Rover |-> phase[r]]
  /\ loops = [r \in Rover |-> loops[r]]
  /\ \A r \in Rover :
       phase[r] \in {"new", "connecting", "closing", "stopped", "broken"} => loops[r] = NoLoops

\* Every step keeps it: connect() makes the loops, gathering ends them.
LEMMA LoopsStep ==
  ASSUME LoopsInv, [FieldNext]_fieldVars PROVE LoopsInv'
<1> USE DEF LoopsInv
<1>1. ASSUME NEW r \in Rover, StartRover(r) PROVE LoopsInv'
  BY <1>1 DEF StartRover, Moves
<1>2. ASSUME NEW r \in Rover, Connect(r) PROVE LoopsInv'
  BY <1>2 DEF Connect, Moves, Set
<1>3. ASSUME NEW r \in Rover, Subscribe(r) PROVE LoopsInv'
  BY <1>3 DEF Subscribe, Moves
<1>4. ASSUME NEW r \in Rover, StopRover(r) PROVE LoopsInv'
  BY <1>4 DEF StopRover, Moves
<1>5. ASSUME NEW r \in Rover, Gather(r) PROVE LoopsInv'
  BY <1>5 DEF Gather, Moves, Set
<1>6. ASSUME NEW r \in Rover, NEW fails \in BOOLEAN, Disconnect(r, fails) PROVE LoopsInv'
  BY <1>6 DEF Disconnect, Moves
<1>7. ASSUME NEW r \in Rover, NEW l \in Loop, BeginPublish(r, l) PROVE LoopsInv'
  BY <1>7 DEF BeginPublish
<1>8. ASSUME NEW r \in Rover, NEW l \in Loop, EndPublish(r, l) PROVE LoopsInv'
  <2>1. loops[r] # NoLoops
    BY <1>8 DEF EndPublish, NoLoops
  <2>2. QED
    BY <1>8, <2>1 DEF EndPublish
<1>9. ASSUME UNCHANGED <<phase, loops>> PROVE LoopsInv'
  BY <1>9
<1>10. QED
  BY <1>1, <1>2, <1>3, <1>4, <1>5, <1>6, <1>7, <1>8, <1>9
     DEF FieldNext, fieldVars, StationStarts, StopStation, StationStops, StationSubscribes,
         BroadcastCommand, BrokerSubscribes, OnDisconnect, SendRoverCommand, OnCommand, Publish,
         BrokerDrops

\* What the broker holds and whom it knows.
BrokerTyped ==
  broker \in [held : SUBSET (Rover \X Kind), commands : SUBSET Rover, rovers : SUBSET Kind]

\* Every step leaves the broker with messages and subscriptions of rovers.
LEMMA BrokerStep ==
  ASSUME BrokerTyped, [FieldNext]_fieldVars PROVE BrokerTyped'
<1> USE DEF BrokerTyped
<1>1. ASSUME NEW r \in Rover, BrokerSubscribes(r) PROVE BrokerTyped'
  BY <1>1 DEF BrokerSubscribes
<1>2. ASSUME NEW r \in Rover, NEW fails \in BOOLEAN, Disconnect(r, fails) PROVE BrokerTyped'
  BY <1>2 DEF Disconnect
<1>3. ASSUME NEW r \in Rover, NEW l \in Loop, Publish(r, l) PROVE BrokerTyped'
  BY <1>3, FieldAssumption DEF Publish, KindOf, Kind
<1>4. ASSUME NEW r \in Rover, SendRoverCommand(r) PROVE BrokerTyped'
  BY <1>4 DEF SendRoverCommand, Kind
<1>5. ASSUME NEW reached \in SUBSET Rover, BroadcastCommand(reached) PROVE BrokerTyped'
  BY <1>5 DEF BroadcastCommand, Kind
<1>6. ASSUME NEW r \in Rover, NEW k \in Kind, BrokerDrops(r, k) PROVE BrokerTyped'
  BY <1>6 DEF BrokerDrops
<1>7. ASSUME NEW i \in 1..3, StationSubscribes(i) PROVE BrokerTyped'
  BY <1>7 DEF StationSubscribes, StationTopics, Kind
<1>8. CASE StationStops
  BY <1>8 DEF StationStops
<1>9. ASSUME UNCHANGED broker PROVE BrokerTyped'
  BY <1>9
<1>10. QED
  BY <1>1, <1>2, <1>3, <1>4, <1>5, <1>6, <1>7, <1>8, <1>9
     DEF FieldNext, fieldVars, StationStarts, StopStation, StartRover, Connect, Subscribe,
         StopRover, Gather, OnDisconnect, BeginPublish, EndPublish, OnCommand

\* What is new at the broker is a command, or said by a loop that is publishing.
LEMMA WhoSpeaks ==
  ASSUME [FieldNext]_fieldVars, NEW r \in Rover, NEW k \in Kind \ {"command"},
         <<r, k>> \in broker'.held, <<r, k>> \notin broker.held, BrokerTyped
  PROVE  \E l \in Loop : loops[r][l] = "publishing"
<1> USE DEF BrokerTyped
<1>1. ASSUME NEW q \in Rover, NEW l \in Loop, Publish(q, l) PROVE loops[r][l] = "publishing"
  BY <1>1 DEF Publish
<1>2. ASSUME NEW reached, BroadcastCommand(reached) PROVE FALSE
  BY <1>2 DEF BroadcastCommand
<1>3. ASSUME NEW q \in Rover, SendRoverCommand(q) PROVE FALSE
  BY <1>3 DEF SendRoverCommand
<1>4. ASSUME broker'.held \subseteq broker.held PROVE FALSE
  BY <1>4
<1>5. QED
  BY <1>1, <1>2, <1>3, <1>4
     DEF FieldNext, fieldVars, StationStarts, StopStation, StationStops, StationSubscribes,
         StartRover, Connect, Subscribe, BrokerSubscribes, StopRover, Gather, Disconnect,
         OnDisconnect, BeginPublish, EndPublish, OnCommand, BrokerDrops

\* What no step of a rover whose stop() has come to the broker does.
SaysNoMore ==
  \A r \in Rover :
    phase[r] \in {"closing", "stopped", "broken"} =>
      /\ \A k \in Kind \ {"command"} :
           <<r, k>> \in broker'.held => <<r, k>> \in broker.held
      /\ phase'[r] \in {"stopped", "broken"} => loops'[r] = NoLoops

\* A rover without loops does not speak, and gets none when it has stopped.
LEMMA StoppedAreSilent ==
  ASSUME LoopsInv, BrokerTyped, [FieldNext]_fieldVars PROVE SaysNoMore
<1> SUFFICES ASSUME NEW r \in Rover, phase[r] \in {"closing", "stopped", "broken"}
    PROVE  /\ \A k \in Kind \ {"command"} :
                <<r, k>> \in broker'.held => <<r, k>> \in broker.held
           /\ phase'[r] \in {"stopped", "broken"} => loops'[r] = NoLoops
  BY DEF SaysNoMore
<1>1. \A l \in Loop : loops[r][l] # "publishing"
  BY DEF LoopsInv, NoLoops
<1>2. LoopsInv'
  BY LoopsStep
<1>3. QED
  BY <1>1, <1>2, WhoSpeaks DEF LoopsInv

\* A rover that was stopped is silent, for any number of rovers and whatever the broker
\* and the library do.
THEOREM StopsAreClean == FieldSpec => StopIsClean
<1>1. FieldInit => LoopsInv /\ BrokerTyped
  BY DEF FieldInit, LoopsInv, BrokerTyped, NoLoops
<1>2. LoopsInv /\ BrokerTyped /\ [FieldNext]_fieldVars => LoopsInv' /\ BrokerTyped'
  BY LoopsStep, BrokerStep
<1>3. LoopsInv /\ BrokerTyped /\ [FieldNext]_fieldVars => [SaysNoMore]_fieldVars
  BY StoppedAreSilent
<1>4. StopIsClean <=> [][SaysNoMore]_fieldVars
  BY PTL DEF StopIsClean, SaysNoMore
<1>5. QED
  BY <1>1, <1>2, <1>3, <1>4, PTL DEF FieldSpec

\* A loop's place in a rover's table of loops.
LEMMA OneLoopMoves ==
  ASSUME FieldTypeOK, NEW r \in Rover, NEW l \in Loop, NEW to \in {"gone", "asleep", "publishing"},
         loops' = [loops EXCEPT ![r][l] = to]
  PROVE  loops' \in [Rover -> [Loop -> {"gone", "asleep", "publishing"}]]
<1> DEFINE mine == [loops[r] EXCEPT ![l] = to]
<1>1. mine \in [Loop -> {"gone", "asleep", "publishing"}]
  BY DEF FieldTypeOK
<1>2. loops' = [loops EXCEPT ![r] = mine]
  OBVIOUS
<1> HIDE DEF mine
<1>3. QED
  BY <1>1, <1>2 DEF FieldTypeOK

\* Every step keeps the types.
LEMMA FieldTypeStep ==
  ASSUME FieldTypeOK, [FieldNext]_fieldVars PROVE FieldTypeOK'
<1>1. BrokerTyped'
  BY BrokerStep DEF FieldTypeOK, BrokerTyped
<1>2. /\ connected' \in [Rover -> BOOLEAN] /\ handlers' \in [Rover -> BOOLEAN]
      /\ status' \in [Rover -> {"online", "offline"}]
  <2>1. connected' \in [Rover -> BOOLEAN]
    <3>1. ASSUME NEW r \in Rover, NEW on \in BOOLEAN, connected' = Set(connected, r, on)
          PROVE  connected' \in [Rover -> BOOLEAN]
      BY <3>1 DEF Set, FieldTypeOK
    <3>2. ASSUME NEW r \in Rover, NEW fails \in BOOLEAN, Disconnect(r, fails)
          PROVE  connected' \in [Rover -> BOOLEAN]
      <4>1. (fails /\ connected[r]) \in BOOLEAN
        OBVIOUS
      <4>2. QED
        BY <3>1, <3>2, <4>1 DEF Disconnect
    <3>3. CASE UNCHANGED connected
      BY <3>3 DEF FieldTypeOK
    <3>4. QED
      BY <3>1, <3>2, <3>3
         DEF FieldNext, fieldVars, StationStarts, StopStation, StationStops, StationSubscribes,
             BroadcastCommand, StartRover, Connect, ConnectClient, Subscribe, BrokerSubscribes,
             StopRover, Gather, OnDisconnect, SendRoverCommand, OnCommand, BeginPublish, Publish,
             EndPublish, BrokerDrops
  <2>2. handlers' \in [Rover -> BOOLEAN]
    BY DEF FieldTypeOK, FieldNext, fieldVars, StationStarts, StopStation, StationStops,
           StationSubscribes, BroadcastCommand, StartRover, Connect, Subscribe, BrokerSubscribes,
           StopRover, Gather, Disconnect, OnDisconnect, SendRoverCommand, OnCommand, BeginPublish,
           Publish, EndPublish, BrokerDrops, Set
  <2>3. status' \in [Rover -> {"online", "offline"}]
    BY DEF FieldTypeOK, FieldNext, fieldVars, StationStarts, StopStation, StationStops,
           StationSubscribes, BroadcastCommand, StartRover, Connect, Subscribe, BrokerSubscribes,
           StopRover, Gather, Disconnect, OnDisconnect, SendRoverCommand, OnCommand, HandleCommand,
           BeginPublish, Publish, EndPublish, BrokerDrops, Set
  <2>4. QED
    BY <2>1, <2>2, <2>3
<1>3. phase' \in [Rover -> Phase] /\ station' \in Phase
  <2>1. ASSUME NEW r \in Rover, NEW from, NEW to \in Phase, Moves(r, from, to)
        PROVE  phase' \in [Rover -> Phase]
    BY <2>1 DEF Moves, FieldTypeOK
  <2>2. /\ "connecting" \in Phase /\ "subscribing" \in Phase /\ "up" \in Phase
        /\ "cancelling" \in Phase /\ "closing" \in Phase /\ "stopped" \in Phase
        /\ "broken" \in Phase
    BY DEF Phase
  <2>3. ASSUME NEW r \in Rover, NEW fails \in BOOLEAN, Disconnect(r, fails)
        PROVE  phase' \in [Rover -> Phase]
    BY <2>1, <2>2, <2>3 DEF Disconnect
  <2>4. ASSUME NEW r \in Rover,
               StartRover(r) \/ Connect(r) \/ Subscribe(r) \/ StopRover(r) \/ Gather(r)
        PROVE  phase' \in [Rover -> Phase]
    BY <2>1, <2>2, <2>4 DEF StartRover, Connect, Subscribe, StopRover, Gather
  <2>5. ASSUME UNCHANGED phase PROVE phase' \in [Rover -> Phase]
    BY <2>5 DEF FieldTypeOK
  <2>6. phase' \in [Rover -> Phase]
    BY <2>3, <2>4, <2>5
       DEF FieldNext, fieldVars, StationStarts, StopStation, StationStops, StationSubscribes,
           BroadcastCommand, BrokerSubscribes, OnDisconnect, SendRoverCommand, OnCommand,
           BeginPublish, Publish, EndPublish, BrokerDrops
  <2>7. station' \in Phase
    BY DEF FieldTypeOK, FieldNext, fieldVars, StationStarts, StopStation, StationStops,
           StationSubscribes, BroadcastCommand, StartRover, Connect, Subscribe, BrokerSubscribes,
           StopRover, Gather, Disconnect, OnDisconnect, SendRoverCommand, OnCommand, BeginPublish,
           Publish, EndPublish, BrokerDrops, Phase
  <2>8. QED
    BY <2>6, <2>7
<1>4. loops' \in [Rover -> [Loop -> {"gone", "asleep", "publishing"}]]
  <2>1. ASSUME NEW r \in Rover, Connect(r) \/ Gather(r)
        PROVE  loops' \in [Rover -> [Loop -> {"gone", "asleep", "publishing"}]]
    BY <2>1 DEF Connect, Gather, Set, NoLoops, FieldTypeOK
  <2>2. ASSUME NEW r \in Rover, NEW l \in Loop, BeginPublish(r, l) \/ EndPublish(r, l)
        PROVE  loops' \in [Rover -> [Loop -> {"gone", "asleep", "publishing"}]]
    BY <2>2, OneLoopMoves DEF BeginPublish, EndPublish
  <2>3. CASE UNCHANGED loops
    BY <2>3 DEF FieldTypeOK
  <2>4. QED
    BY <2>1, <2>2, <2>3
       DEF FieldNext, fieldVars, StationStarts, StopStation, StationStops, StationSubscribes,
           BroadcastCommand, StartRover, Subscribe, BrokerSubscribes, StopRover, Disconnect,
           OnDisconnect, SendRoverCommand, OnCommand, Publish, BrokerDrops
<1>5. QED
  BY <1>1, <1>2, <1>3, <1>4 DEF FieldTypeOK, BrokerTyped

\* At the start nothing is up.
LEMMA FieldTypeInit == FieldInit => FieldTypeOK
BY DEF FieldInit, FieldTypeOK, Phase

-----------------------------------------------------------------------------
(* The browsers' channel *)

\* What a handler notes of its broadcast.
Cast == [size : Nat, first : SUBSET Socket, sent : SUBSET Socket, dead : SUBSET Socket]

\* A broadcast notes as gone only browsers that came and are gone: none of them returns,
\* as a socket is used once.
ServedInv ==
  /\ socketPc = [c \in Socket \cup AlertSocket |-> socketPc[c]]
  /\ cast = [c \in Socket |-> cast[c]]
  /\ \A c \in Socket : cast[c] \in Cast
  /\ swarmTable \subseteq Socket /\ IsFiniteSet(swarmTable)
  /\ \A c \in Socket : \A d \in cast[c].dead :
       d \in Socket /\ d \notin present /\ socketPc[d] # "away"
  /\ SetIsServed

\* A handler that sends nothing has noted nobody.
LEMMA NoCastIsCast == NoCast \in Cast /\ NoCast.dead = {}
BY DEF NoCast, Cast

\* A handler that ends takes its socket, and no other, from the set.
LEMMA EndServes ==
  ASSUME ServedInv, NEW c \in Socket, End(c) PROVE ServedInv'
BY NoCastIsCast, FS_RemoveElement DEF ServedInv, SetIsServed, End

\* Every step of a handler on /ws/swarm keeps it.
LEMMA HandlerServes ==
  ASSUME ServedInv, NEW c \in Socket, Handler(c) PROVE ServedInv'
<1> USE DEF ServedInv, SetIsServed, Go
<1>1. CASE BeginBroadcast(c)
  <2> DEFINE new == [NoCast EXCEPT !.size = Cardinality(swarmTable), !.first = swarmTable]
  <2>1. cast' = [cast EXCEPT ![c] = new]
    BY <1>1 DEF BeginBroadcast
  <2>2. new \in Cast /\ new.dead = {}
    BY FS_CardinalityType DEF NoCast, Cast
  <2> HIDE DEF new
  <2>3. /\ cast' = [b \in Socket |-> cast'[b]]
        /\ \A b \in Socket : cast'[b] \in Cast /\ cast'[b].dead \subseteq cast[b].dead
        /\ UNCHANGED <<present, swarmTable>>
        /\ socketPc' = [socketPc EXCEPT ![c] = "sending"] /\ socketPc[c] = "receiving"
    BY <1>1, <2>1, <2>2 DEF BeginBroadcast
  <2>4. QED
    BY <2>1, <2>3
<1>2. CASE ReceiveFails(c) \/ BroadcastBreaks(c)
  BY <1>2, EndServes DEF ReceiveFails, BroadcastBreaks
<1>3. CASE EndBroadcast(c)
  <2>1. IsFiniteSet(swarmTable')
    BY <1>3, FS_Subset DEF EndBroadcast
  <2>2. QED
    BY <1>3, <2>1, NoCastIsCast DEF EndBroadcast
<1>4. CASE WakeUp(c)
  BY <1>4 DEF WakeUp
<1>5. ASSUME NEW d \in Socket, Send(c, d) PROVE ServedInv'
  <2>1. PICK dead \in {{}, {d} \ present} :
          cast' = [cast EXCEPT ![c].sent = @ \cup {d}, ![c].dead = @ \cup dead]
    BY <1>5 DEF Send
  <2>2. /\ d \in swarmTable /\ socketPc[d] # "away"
        /\ UNCHANGED <<socketPc, present, swarmTable>>
    BY <1>5 DEF Send
  <2>3. /\ cast' = [b \in Socket |-> cast'[b]]
        /\ \A b \in Socket : cast'[b] \in Cast
        /\ \A b \in Socket : cast'[b].dead \subseteq cast[b].dead \cup ({d} \ present)
    <3> DEFINE told == [cast EXCEPT ![c].sent = @ \cup {d}]
    <3>1. d \in Socket /\ dead \subseteq Socket /\ dead \subseteq {d} \ present
      BY <2>2
    <3>2. told \in [Socket -> Cast]
      BY <3>1 DEF Cast
    <3>3. told[c].dead = cast[c].dead
      BY <3>1 DEF Cast
    <3>4. \A b \in Socket : b # c => told[b] = cast[b]
      OBVIOUS
    <3>5. cast' = [told EXCEPT ![c].dead = told[c].dead \cup dead]
      BY <2>1
    <3> HIDE DEF told
    <3> DEFINE gone == told[c].dead \cup dead
    <3>6. gone \in SUBSET Socket
      BY <3>1, <3>2 DEF Cast
    <3> HIDE DEF gone
    <3>7. cast' = [told EXCEPT ![c].dead = gone]
      BY <3>5 DEF gone
    <3>8. cast' \in [Socket -> Cast]
      <4>1. [told[c] EXCEPT !.dead = gone] \in Cast
        <5>1. told[c] \in Cast
          BY <3>2
        <5>2. QED
          BY <3>6, <5>1 DEF Cast
      <4>2. cast' = [told EXCEPT ![c] = [told[c] EXCEPT !.dead = gone]]
        BY <3>7
      <4>3. QED
        BY <3>2, <4>1, <4>2
    <3>9. cast'[c].dead = gone
      BY <3>2, <3>7 DEF Cast
    <3>10. \A b \in Socket : b # c => cast'[b] = cast[b]
      BY <3>2, <3>4, <3>7
    <3>11. QED
      BY <3>1, <3>3, <3>8, <3>9, <3>10 DEF gone
  <2>4. ASSUME NEW b \in Socket, NEW q \in cast'[b].dead
        PROVE  q \in Socket /\ q \notin present' /\ socketPc'[q] # "away"
    <3>1. q \in cast[b].dead \cup ({d} \ present)
      BY <2>3, <2>4
    <3>2. QED
      BY <2>2, <3>1
  <2>5. SetIsServed' /\ swarmTable' \subseteq Socket
    BY <2>2
  <2>6. QED
    BY <2>2, <2>3, <2>4, <2>5
<1>6. QED
  BY <1>1, <1>2, <1>3, <1>4, <1>5 DEF Handler

\* So does a browser that comes or goes, and the other channel touches none of it.
LEMMA ServedStep ==
  ASSUME ServedInv, [ChannelNext]_channelVars PROVE ServedInv'
<1> USE DEF ServedInv, SetIsServed, Go
<1>1. ASSUME NEW c \in Socket, Handler(c) PROVE ServedInv'
  BY <1>1, HandlerServes
<1>2. ASSUME NEW c \in Socket, ConnectSwarm(c) PROVE ServedInv'
  BY <1>2, FS_AddElement DEF ConnectSwarm
<1>3. ASSUME NEW c \in Socket \cup AlertSocket, Leave(c) PROVE ServedInv'
  BY <1>3 DEF Leave
<1>4. ASSUME NEW c \in AlertSocket, ConnectAlerts(c) \/ ReceiveAlert(c) \/ WakeUp(c)
      PROVE  ServedInv'
  <2>1. c \notin Socket
    BY ChannelsAssumption
  <2>2. /\ \A d \in Socket : socketPc'[d] = socketPc[d]
        /\ socketPc' = [d \in Socket \cup AlertSocket |-> socketPc'[d]]
    BY <1>4, <2>1 DEF ConnectAlerts, ReceiveAlert, WakeUp
  <2>3. present' \ {c} = present \ {c} /\ UNCHANGED <<swarmTable, cast>>
    BY <1>4 DEF ConnectAlerts, ReceiveAlert, WakeUp
  <2>4. QED
    BY <2>1, <2>2, <2>3
<1>5. CASE UNCHANGED channelVars
  BY <1>5 DEF channelVars
<1>6. QED
  BY <1>1, <1>2, <1>3, <1>4, <1>5 DEF ChannelNext, SwarmChannelNext, AlertChannelNext

\* However many browsers and broadcasts there are, nobody who is connected is dropped for
\* what another's broadcast found, and nobody is in the set without a handler.
THEOREM EveryoneIsServed == ChannelSpec => []SetIsServed
<1>1. ChannelInit => ServedInv
  BY NoCastIsCast, FS_EmptySet DEF ChannelInit, ServedInv, SetIsServed
<1>2. ServedInv /\ [ChannelNext]_channelVars => ServedInv'
  BY ServedStep
<1>3. ServedInv => SetIsServed
  BY DEF ServedInv
<1>4. QED
  BY <1>1, <1>2, <1>3, PTL DEF ChannelSpec

\* Every step keeps the types.
LEMMA ChannelTypeStep ==
  ASSUME ServedInv, ChannelTypeOK, [ChannelNext]_channelVars PROVE ChannelTypeOK'
<1>1. ServedInv'
  BY ServedStep
<1>2. swarmTable' \subseteq Socket /\ cast' \in [Socket -> Cast]
  BY <1>1 DEF ServedInv
<1>3. /\ socketPc' \in [Socket \cup AlertSocket -> Handling]
      /\ present' \subseteq Socket \cup AlertSocket /\ alertTable' \subseteq AlertSocket
  BY DEF ChannelTypeOK, ChannelNext, SwarmChannelNext, AlertChannelNext, Handler, channelVars,
         BeginBroadcast, ReceiveFails, EndBroadcast, BroadcastBreaks, WakeUp, Send, ConnectSwarm,
         Leave, ConnectAlerts, ReceiveAlert, End, Go, Handling
<1>4. QED
  BY <1>2, <1>3 DEF ChannelTypeOK, Cast

\* At the start nobody is there.
LEMMA ChannelTypeInit == ChannelInit => ChannelTypeOK
BY DEF ChannelInit, ChannelTypeOK, Handling, NoCast

-----------------------------------------------------------------------------
(* Peers *)

\* A record of the table that the loop has not left active for too long.
Timely ==
  {e \in [id : Peer, active : BOOLEAN, age : 0..OldAge] :
     watching => (e.active => e.age <= StaleAfter + slept)}

PeersInv ==
  /\ peers \in Seq(Timely) /\ Len(peers) <= MaxPeers
  /\ slept \in 0..Interval /\ watching \in BOOLEAN

\* Refreshing a peer keeps the length of the table and makes nobody late.
LEMMA RefreshedAreTimely ==
  ASSUME NEW t \in Seq(Timely), NEW p \in Peer, slept \in 0..Interval
  PROVE  Refreshed(p, t) \in Seq(Timely) /\ Len(Refreshed(p, t)) = Len(t)
<1>1. Fresh(p) \in Timely
  BY PeersAssumption DEF Fresh, Timely, OldAge
<1>2. DOMAIN t = 1..Len(t) /\ Len(t) \in Nat /\ \A i \in 1..Len(t) : t[i] \in Timely
  OBVIOUS
<1> DEFINE new == Refreshed(p, t)
<1>3. new = [i \in 1..Len(t) |-> new[i]] /\ \A i \in 1..Len(t) : new[i] \in Timely
  BY <1>1, <1>2 DEF Refreshed
<1> HIDE DEF new
<1>4. new \in [1..Len(t) -> Timely]
  BY <1>3
<1>5. new \in Seq(Timely) /\ Len(new) = Len(t)
  BY <1>2, <1>4
<1>6. QED
  BY <1>5 DEF new

\* Registering keeps the table within its bound: a full one loses its oldest first.
LEMMA RegisterIsTimely ==
  ASSUME PeersInv, NEW p \in Peer, Register(p), slept' = slept, watching' = watching
  PROVE  PeersInv'
<1> DEFINE kept == IF Len(peers) >= MaxPeers THEN Tail(peers) ELSE peers
<1>1. Fresh(p) \in Timely
  BY PeersAssumption DEF Fresh, Timely, OldAge, PeersInv
<1>2. kept \in Seq(Timely) /\ Len(kept) < MaxPeers
  <2>1. CASE Len(peers) >= MaxPeers
    <3>1. peers # <<>>
      BY <2>1, PeersAssumption DEF PeersInv
    <3>2. Tail(peers) \in Seq(Timely) /\ Len(Tail(peers)) = Len(peers) - 1
      BY <3>1, HeadTailProperties DEF PeersInv
    <3>3. QED
      BY <2>1, <3>2, PeersAssumption DEF PeersInv
  <2>2. CASE ~(Len(peers) >= MaxPeers)
    BY <2>2, PeersAssumption DEF PeersInv
  <2>3. QED
    BY <2>1, <2>2
<1>3. peers' = IF Connected(p, kept) THEN Refreshed(p, kept) ELSE Append(kept, Fresh(p))
  BY DEF Register
<1> HIDE DEF kept
<1>4. /\ Refreshed(p, kept) \in Seq(Timely) /\ Len(Refreshed(p, kept)) = Len(kept)
      /\ Append(kept, Fresh(p)) \in Seq(Timely) /\ Len(Append(kept, Fresh(p))) = Len(kept) + 1
  BY <1>1, <1>2, RefreshedAreTimely, AppendProperties DEF PeersInv
<1>5. peers' \in Seq(Timely) /\ Len(peers') <= MaxPeers
  BY <1>2, <1>3, <1>4, PeersAssumption
<1>6. Timely' = Timely
  BY DEF Timely, OldAge
<1>7. QED
  BY <1>5, <1>6 DEF PeersInv

\* Removing a peer leaves the records of the others as they are.
LEMMA RemoveIsTimely ==
  ASSUME PeersInv, NEW p \in Peer, RemovePeer(p) PROVE PeersInv'
<1> DEFINE i == CHOOSE i \in DOMAIN peers : peers[i].id = p
<1>1. i \in 1..Len(peers) /\ Len(peers) \in Nat
  BY DEF RemovePeer, Connected, PeersInv
<1>2. peers' = RemoveAt(peers, i)
  BY DEF RemovePeer, Without
<1> HIDE DEF i
<1>3. peers' \in Seq(Timely) /\ Len(peers') = Len(peers) - 1
  BY <1>1, <1>2, OneTakenOut DEF PeersInv
<1>4. Timely' = Timely /\ slept' = slept /\ watching' = watching
  BY DEF RemovePeer, Timely, OldAge
<1>5. QED
  BY <1>1, <1>3, <1>4, PeersAssumption DEF PeersInv

\* After a look nobody active is older than the timeout.
LEMMA LookIsTimely ==
  ASSUME PeersInv, Monitor PROVE PeersInv'
<1>1. Len(peers) \in Nat /\ DOMAIN peers = 1..Len(peers)
      /\ \A i \in 1..Len(peers) : peers[i] \in Timely
  BY DEF PeersInv
<1>2. slept' = 0 /\ watching' = TRUE /\ peers' = Look
  BY DEF Monitor
<1>3. \A i \in 1..Len(peers) :
        [peers[i] EXCEPT !.active = @ /\ peers[i].age <= StaleAfter] \in Timely'
  <2> SUFFICES ASSUME NEW i \in 1..Len(peers)
      PROVE  [peers[i] EXCEPT !.active = @ /\ peers[i].age <= StaleAfter] \in Timely'
    OBVIOUS
  <2> DEFINE on == peers[i].active /\ peers[i].age <= StaleAfter
  <2>1. peers[i] \in [id : Peer, active : BOOLEAN, age : 0..OldAge]
    BY <1>1 DEF Timely
  <2>2. on \in BOOLEAN /\ (on => peers[i].age <= StaleAfter + 0)
    BY <2>1, PeersAssumption DEF OldAge
  <2> DEFINE e == [peers[i] EXCEPT !.active = on]
  <2>3. e \in [id : Peer, active : BOOLEAN, age : 0..OldAge] /\ e.active = on /\ e.age = peers[i].age
    BY <2>1, <2>2
  <2>4. OldAge' = OldAge
    BY DEF OldAge
  <2>5. e \in Timely'
    BY <1>2, <2>2, <2>3, <2>4 DEF Timely
  <2>6. QED
    BY <2>5
<1>4. peers' \in [1..Len(peers) -> Timely']
  BY <1>1, <1>2, <1>3 DEF Look
<1>5. peers' \in Seq(Timely') /\ Len(peers') = Len(peers)
  BY <1>1, <1>4
<1>6. QED
  BY <1>2, <1>5, PeersAssumption DEF PeersInv

\* A tick adds the same to all ages and to the time since the last look.
LEMMA TickIsTimely ==
  ASSUME PeersInv, PeersTick PROVE PeersInv'
<1>1. Len(peers) \in Nat /\ DOMAIN peers = 1..Len(peers)
      /\ \A i \in 1..Len(peers) : peers[i] \in Timely
  BY DEF PeersInv
<1>2. /\ watching' = watching /\ slept' \in 0..Interval
      /\ watching => slept' = slept + 1
  BY PeersAssumption DEF PeersTick, PeersInv
<1>3. ASSUME NEW i \in 1..Len(peers)
      PROVE  [peers[i] EXCEPT !.age = IF @ < OldAge THEN @ + 1 ELSE @] \in Timely'
  <2>1. /\ peers[i] \in [id : Peer, active : BOOLEAN, age : 0..OldAge]
        /\ watching => (peers[i].active => peers[i].age <= StaleAfter + slept)
    BY <1>1 DEF Timely
  <2>2. slept \in 0..Interval /\ OldAge \in Nat /\ peers[i].age \in 0..OldAge
    BY <2>1, PeersAssumption DEF PeersInv, OldAge
  <2>3. (IF peers[i].age < OldAge THEN peers[i].age + 1 ELSE peers[i].age) \in 0..OldAge
    BY <2>2
  <2>4. watching' => (peers[i].active =>
          (IF peers[i].age < OldAge THEN peers[i].age + 1 ELSE peers[i].age)
            <= StaleAfter + slept')
    BY <1>2, <2>1, <2>2, PeersAssumption
  <2>5. OldAge' = OldAge
    BY DEF OldAge
  <2>6. QED
    BY <2>1, <2>3, <2>4, <2>5 DEF Timely
<1>4. peers' \in [1..Len(peers) -> Timely']
  BY <1>1, <1>3 DEF PeersTick
<1>5. peers' \in Seq(Timely') /\ Len(peers') = Len(peers)
  BY <1>1, <1>4
<1>6. QED
  BY <1>2, <1>5 DEF PeersInv

\* A heartbeat refreshes, registers or does nothing.
LEMMA HeartbeatIsTimely ==
  ASSUME PeersInv, NEW p \in Peer, NEW address \in BOOLEAN, HandleHeartbeat(p, address)
  PROVE  PeersInv'
<1>1. slept' = slept /\ watching' = watching
  BY DEF HandleHeartbeat
<1>2. Timely' = Timely
  BY <1>1 DEF Timely, OldAge
<1>3. CASE peers' = Refreshed(p, peers)
  BY <1>1, <1>2, <1>3, RefreshedAreTimely DEF PeersInv
<1>4. CASE Register(p)
  BY <1>1, <1>4, RegisterIsTimely
<1>5. CASE peers' = peers
  BY <1>1, <1>2, <1>5 DEF PeersInv
<1>6. QED
  BY <1>3, <1>4, <1>5 DEF HandleHeartbeat

\* Every step keeps the table bounded and timely.
LEMMA PeersStep ==
  ASSUME PeersInv, [PeersNext]_peerVars PROVE PeersInv'
<1>1. CASE Monitor
  BY <1>1, LookIsTimely
<1>2. CASE StopMonitor
  <2>1. peers' = <<>> /\ slept' = 0 /\ watching' = FALSE
    BY <1>2 DEF StopMonitor
  <2>2. <<>> \in Seq(Timely') /\ Len(<<>>) = 0
    OBVIOUS
  <2>3. peers' \in Seq(Timely') /\ Len(peers') = 0
    BY <2>1, <2>2
  <2>4. Len(peers') <= MaxPeers /\ slept' \in 0..Interval
    BY <2>1, <2>3, PeersAssumption
  <2>5. watching' \in BOOLEAN
    BY <2>1
  <2>6. QED
    BY <2>3, <2>4, <2>5 DEF PeersInv
<1>3. CASE PeersTick
  BY <1>3, TickIsTimely
<1>4. ASSUME NEW p \in Peer, RegisterPeer(p) PROVE PeersInv'
  BY <1>4, RegisterIsTimely DEF RegisterPeer
<1>5. ASSUME NEW p \in Peer, RemovePeer(p) PROVE PeersInv'
  BY <1>5, RemoveIsTimely
<1>6. ASSUME NEW p \in Peer, NEW address \in BOOLEAN, HandleHeartbeat(p, address)
      PROVE  PeersInv'
  BY <1>6, HeartbeatIsTimely
<1>7. CASE UNCHANGED peerVars
  BY <1>7 DEF peerVars, PeersInv, Timely, OldAge
<1>8. QED
  BY <1>1, <1>2, <1>3, <1>4, <1>5, <1>6, <1>7 DEF PeersNext

\* No peer has two records.
Once(t) == \A i, j \in DOMAIN t : t[i].id = t[j].id => i = j

\* They start so.
LEMMA PeersInitially == PeersInit => PeersInv /\ Once(peers)
<1> SUFFICES ASSUME PeersInit PROVE PeersInv /\ Once(peers)
  OBVIOUS
<1>1. <<>> \in Seq(Timely) /\ Len(<<>>) = 0
  OBVIOUS
<1>2. peers \in Seq(Timely) /\ Len(peers) = 0
  BY <1>1 DEF PeersInit
<1>3. Len(peers) <= MaxPeers
  BY <1>2, PeersAssumption
<1>4. slept \in 0..Interval
  BY PeersAssumption DEF PeersInit
<1>5. watching \in BOOLEAN
  BY DEF PeersInit
<1>6. QED
  BY <1>2, <1>3, <1>4, <1>5 DEF PeersInv, Once

\* For every size of the table, timeout and interval of the loop: the table is bounded,
\* and while the loop runs nobody passes for active after the timeout and one round.
THEOREM NobodyStaysActive == PeersSpec => []NobodyIsForgotten
<1>1. PeersInv /\ [PeersNext]_peerVars => PeersInv'
  BY PeersStep
<1>2. PeersInv => NobodyIsForgotten
  BY PeersAssumption DEF PeersInv, NobodyIsForgotten, Timely
<1>3. QED
  BY PeersInitially, <1>1, <1>2, PTL DEF PeersSpec

\* A peer that is refreshed stays where it is.
LEMMA RefreshedOnce ==
  ASSUME NEW t, Once(t), NEW p PROVE Once(Refreshed(p, t))
BY DEF Once, Refreshed, Fresh

\* A table that has lost a peer, or gained one that was not in it, has nobody twice.
LEMMA RegisterOnce ==
  ASSUME PeersInv, Once(peers), NEW p \in Peer, Register(p) PROVE Once(peers)'
<1> DEFINE kept == IF Len(peers) >= MaxPeers THEN Tail(peers) ELSE peers
<1>1. /\ peers \in Seq(Timely) /\ Len(peers) \in Nat /\ DOMAIN peers = 1..Len(peers)
  BY DEF PeersInv
<1>2. kept \in Seq(Timely) /\ Once(kept)
  <2>1. CASE Len(peers) >= MaxPeers
    <3>1. peers # <<>>
      BY <2>1, PeersAssumption DEF PeersInv
    <3>2. /\ Tail(peers) \in Seq(Timely) /\ Len(Tail(peers)) = Len(peers) - 1
          /\ \A i \in 1..(Len(peers) - 1) : Tail(peers)[i] = peers[i + 1]
      BY <1>1, <3>1, HeadTailProperties
    <3>3. DOMAIN Tail(peers) = 1..(Len(peers) - 1)
      BY <3>2
    <3>4. Once(Tail(peers))
      BY <1>1, <3>2, <3>3 DEF Once
    <3>5. QED
      BY <2>1, <3>2, <3>4
  <2>2. CASE ~(Len(peers) >= MaxPeers)
    BY <1>1, <2>2
  <2>3. QED
    BY <2>1, <2>2
<1>3. peers' = IF Connected(p, kept) THEN Refreshed(p, kept) ELSE Append(kept, Fresh(p))
  BY DEF Register
<1> HIDE DEF kept
<1>4. CASE Connected(p, kept)
  BY <1>2, <1>3, <1>4, RefreshedOnce
<1>5. CASE ~Connected(p, kept)
  <2> DEFINE more == Append(kept, Fresh(p))
  <2>1. Fresh(p) \in Timely /\ Fresh(p).id = p
    BY PeersAssumption DEF Fresh, Timely, OldAge, PeersInv
  <2>2. /\ more \in Seq(Timely) /\ Len(more) = Len(kept) + 1
        /\ \A i \in 1..Len(kept) : more[i] = kept[i]
        /\ more[Len(kept) + 1] = Fresh(p)
    BY <1>2, <2>1, AppendProperties
  <2> HIDE DEF more
  <2>3. DOMAIN kept = 1..Len(kept) /\ Len(kept) \in Nat /\ DOMAIN more = 1..(Len(kept) + 1)
    BY <1>2, <2>2
  <2>4. \A i \in 1..(Len(kept) + 1) : i \in 1..Len(kept) \/ i = Len(kept) + 1
    BY <2>3
  <2>5. \A i \in 1..Len(kept) : kept[i].id # p
    BY <1>5, <2>3 DEF Connected
  <2>6. Once(more)
    BY <1>2, <2>1, <2>2, <2>3, <2>4, <2>5 DEF Once
  <2>7. QED
    BY <1>3, <1>5, <2>6 DEF more, Once
<1>6. QED
  BY <1>4, <1>5

\* Every step leaves each peer with one record at most.
LEMMA PeersOnce ==
  ASSUME PeersInv, Once(peers), [PeersNext]_peerVars PROVE Once(peers)'
<1> USE DEF Once
<1>1. ASSUME NEW p \in Peer, RemovePeer(p) PROVE Once(peers)'
  <2> DEFINE i == CHOOSE i \in DOMAIN peers : peers[i].id = p
  <2>1. /\ i \in 1..Len(peers) /\ Len(peers) \in Nat /\ peers \in Seq(Timely)
        /\ DOMAIN peers = 1..Len(peers)
    BY <1>1 DEF RemovePeer, Connected, PeersInv
  <2>2. peers' = RemoveAt(peers, i)
    BY <1>1 DEF RemovePeer, Without
  <2> HIDE DEF i
  <2>3. /\ peers' \in Seq(Timely) /\ Len(peers') = Len(peers) - 1
        /\ \A j \in 1..(i - 1) : peers'[j] = peers[j]
        /\ \A j \in i..(Len(peers) - 1) : peers'[j] = peers[j + 1]
    BY <2>1, <2>2, OneTakenOut
  <2>4. DOMAIN peers' = 1..(Len(peers) - 1)
    BY <2>3
  <2>5. \A j \in 1..(Len(peers) - 1) :
          peers'[j] = peers[IF j < i THEN j ELSE j + 1]
    BY <2>1, <2>3
  <2>6. QED
    BY <2>1, <2>4, <2>5
<1>2. ASSUME NEW p \in Peer, Register(p) PROVE Once(peers)'
  BY <1>2, RegisterOnce
<1>3. ASSUME NEW p \in Peer, peers' = Refreshed(p, peers) PROVE Once(peers)'
  BY <1>3, RefreshedOnce
<1>4. CASE Monitor
  BY <1>4 DEF Monitor, Look, PeersInv, Timely
<1>5. CASE StopMonitor
  BY <1>5 DEF StopMonitor
<1>6. CASE PeersTick
  BY <1>6 DEF PeersTick, PeersInv, Timely
<1>7. CASE UNCHANGED peers
  BY <1>7
<1>8. QED
  BY <1>1, <1>2, <1>3, <1>4, <1>5, <1>6, <1>7
     DEF PeersNext, peerVars, RegisterPeer, HandleHeartbeat

\* The table is typed, and no peer is in it twice.
LEMMA PeersTyped == PeersInv /\ Once(peers) => PeersTypeOK
<1> SUFFICES ASSUME PeersInv, Once(peers) PROVE PeersTypeOK
  OBVIOUS
<1>1. Timely \subseteq [id : Peer, active : BOOLEAN, age : 0..OldAge]
  BY DEF Timely
<1>2. peers \in Seq([id : Peer, active : BOOLEAN, age : 0..OldAge])
  BY <1>1, SeqMonotonic DEF PeersInv
<1>3. QED
  BY <1>2 DEF PeersInv, PeersTypeOK, Once

-----------------------------------------------------------------------------
(* Tasks *)

\* Tasks and assignments, as the engine has them at once.
TaskState == [tasks : Seq(Task), given : [TaskId -> Agent \cup {Nobody}]]
Now == [tasks |-> tasks, given |-> assignments]

\* A state the allocation of what s had waiting, failed or whatever may lead to: the same
\* tasks, of which those that somebody had are as they were.
SameTasks(s, z) ==
  /\ z \in TaskState /\ Len(z.tasks) = Len(s.tasks)
  /\ \A i \in 1..Len(s.tasks) :
       /\ z.tasks[i].id = s.tasks[i].id
       /\ s.tasks[i].status = "assigned" =>
            z.tasks[i] = s.tasks[i] /\ z.given[s.tasks[i].id] = s.given[s.tasks[i].id]
       /\ s.tasks[i].status # "assigned" /\ z.tasks[i].status = "assigned" =>
            z.given[s.tasks[i].id] = z.tasks[i].assigned_to /\ z.given[s.tasks[i].id] # Nobody

DifferentIds(ts) == \A i, j \in DOMAIN ts : ts[i].id = ts[j].id => i = j

\* Whose turn it is, is one of the rovers.
LEMMA SomeoneTakes ==
  ASSUME NEW ts \in Seq(Task), NEW i \in 1..Len(ts), NEW rovers \in Seq(Agent), rovers # <<>>
  PROVE  Taker(ts, i, rovers) \in Agent
<1> DEFINE before == With(ts, "pending") \cap 1..(i - 1)
           n == Cardinality(before)
<1>1. IsFiniteSet(1..(i - 1))
  BY FS_Interval
<1>2. n \in Nat
  BY <1>1, FS_Subset, FS_CardinalityType
<1> HIDE DEF n
<1>3. Len(rovers) \in Nat \ {0} /\ \A k \in 1..Len(rovers) : rovers[k] \in Agent
  BY EmptySeq
<1>4. n % Len(rovers) \in 0..(Len(rovers) - 1)
  BY <1>2, <1>3
<1>5. 1 + (n % Len(rovers)) \in 1..Len(rovers)
  BY <1>3, <1>4
<1>6. QED
  BY <1>3, <1>5 DEF Taker, n

\* Team has sequences of rovers.
LEMMA TeamsAreOfAgents ==
  ASSUME NEW rovers \in Team PROVE rovers \in Seq(Agent) /\ IsInjective(rovers)
<1>1. PICK n \in 0..Cardinality(Agent) : rovers \in [1..n -> Agent]
  BY DEF Team
<1>2. n \in Nat
  BY <1>1
<1>3. QED
  BY <1>1, <1>2 DEF Team

\* Allocating gives what is pending, and nothing else.
LEMMA GivenIsTyped ==
  ASSUME NEW z \in TaskState, DifferentIds(z.tasks), NEW rovers \in Seq(Agent), rovers # <<>>
  PROVE  LET g == Given(z, rovers) IN
         /\ g \in TaskState /\ Len(g.tasks) = Len(z.tasks)
         /\ \A i \in 1..Len(z.tasks) :
              IF z.tasks[i].status = "pending"
              THEN /\ g.tasks[i] = Give(z.tasks[i], Taker(z.tasks, i, rovers))
                   /\ g.tasks[i].id = z.tasks[i].id /\ g.tasks[i].status = "assigned"
                   /\ g.tasks[i].assigned_to = Taker(z.tasks, i, rovers)
                   /\ Taker(z.tasks, i, rovers) \in Agent
                   /\ g.given[z.tasks[i].id] = Taker(z.tasks, i, rovers)
              ELSE g.tasks[i] = z.tasks[i] /\ g.given[z.tasks[i].id] = z.given[z.tasks[i].id]
<1> DEFINE pending == With(z.tasks, "pending")
           take == [i \in 1..Len(z.tasks) |-> Taker(z.tasks, i, rovers)]
           g == Given(z, rovers)
<1>1. /\ z.tasks \in Seq(Task) /\ Len(z.tasks) \in Nat /\ DOMAIN z.tasks = 1..Len(z.tasks)
      /\ \A i \in 1..Len(z.tasks) : z.tasks[i] \in Task
      /\ z.given \in [TaskId -> Agent \cup {Nobody}]
  BY DEF TaskState
<1>2. \A i \in 1..Len(z.tasks) : take[i] = Taker(z.tasks, i, rovers) /\ take[i] \in Agent
  BY <1>1, SomeoneTakes
<1>3. \A i \in 1..Len(z.tasks) : (i \in pending) = (z.tasks[i].status = "pending")
  BY <1>1 DEF With
<1>4. pending \subseteq 1..Len(z.tasks)
  BY <1>1 DEF With
<1>5. /\ g.tasks = [i \in 1..Len(z.tasks) |->
                      IF i \in pending THEN Give(z.tasks[i], take[i]) ELSE z.tasks[i]]
      /\ g.given = [t \in TaskId |->
                      IF \E i \in pending : z.tasks[i].id = t
                      THEN Taker(z.tasks, CHOOSE i \in pending : z.tasks[i].id = t, rovers)
                      ELSE z.given[t]]
      /\ g = [tasks |-> g.tasks, given |-> g.given]
  BY <1>1 DEF Given
<1> HIDE DEF g, take, pending
<1>6. \A i \in 1..Len(z.tasks) :
        /\ Give(z.tasks[i], take[i]) \in Task
        /\ Give(z.tasks[i], take[i]).id = z.tasks[i].id
        /\ Give(z.tasks[i], take[i]).status = "assigned"
        /\ Give(z.tasks[i], take[i]).assigned_to = take[i]
  BY <1>1, <1>2 DEF Give, Task, Status
<1>7. g.tasks \in Seq(Task) /\ Len(g.tasks) = Len(z.tasks)
  <2>1. g.tasks \in [1..Len(z.tasks) -> Task]
    BY <1>1, <1>5, <1>6
  <2>2. QED
    BY <1>1, <2>1
<1>8. ASSUME NEW i \in pending PROVE g.given[z.tasks[i].id] = take[i]
  <2>1. z.tasks[i].id \in TaskId /\ i \in 1..Len(z.tasks)
    BY <1>1, <1>4 DEF Task
  <2>2. (CHOOSE j \in pending : z.tasks[j].id = z.tasks[i].id) = i
    BY <1>1, <1>4, <1>8 DEF DifferentIds
  <2>3. g.given[z.tasks[i].id] =
          Taker(z.tasks, CHOOSE j \in pending : z.tasks[j].id = z.tasks[i].id, rovers)
    BY <1>5, <1>8, <2>1
  <2>4. QED
    BY <1>2, <2>1, <2>2, <2>3
<1>9. ASSUME NEW i \in 1..Len(z.tasks), i \notin pending PROVE g.given[z.tasks[i].id] = z.given[z.tasks[i].id]
  <2>1. z.tasks[i].id \in TaskId
    BY <1>1 DEF Task
  <2>2. ~\E j \in pending : z.tasks[j].id = z.tasks[i].id
    BY <1>1, <1>4, <1>9 DEF DifferentIds
  <2>3. QED
    BY <1>5, <2>1, <2>2
<1>10. g.given \in [TaskId -> Agent \cup {Nobody}]
  <2>1. ASSUME NEW t \in TaskId PROVE g.given[t] \in Agent \cup {Nobody}
    <3>1. CASE \E i \in pending : z.tasks[i].id = t
      BY <1>2, <1>4, <1>8, <3>1
    <3>2. CASE ~\E i \in pending : z.tasks[i].id = t
      <4>1. g.given[t] = z.given[t]
        BY <1>5, <3>2
      <4>2. QED
        BY <1>1, <4>1
    <3>3. QED
      BY <3>1, <3>2
  <2>2. DOMAIN g.given = TaskId /\ g.given = [t \in TaskId |-> g.given[t]]
    BY <1>5
  <2>3. QED
    BY <2>1, <2>2
<1>11. g \in TaskState
  BY <1>5, <1>7, <1>10 DEF TaskState
<1>12. ASSUME NEW i \in 1..Len(z.tasks)
       PROVE  IF z.tasks[i].status = "pending"
              THEN /\ g.tasks[i] = Give(z.tasks[i], Taker(z.tasks, i, rovers))
                   /\ g.tasks[i].id = z.tasks[i].id /\ g.tasks[i].status = "assigned"
                   /\ g.tasks[i].assigned_to = Taker(z.tasks, i, rovers)
                   /\ Taker(z.tasks, i, rovers) \in Agent
                   /\ g.given[z.tasks[i].id] = Taker(z.tasks, i, rovers)
              ELSE g.tasks[i] = z.tasks[i] /\ g.given[z.tasks[i].id] = z.given[z.tasks[i].id]
  <2>1. CASE i \in pending
    <3>1. g.tasks[i] = Give(z.tasks[i], take[i])
      BY <1>5, <2>1
    <3>2. QED
      BY <1>2, <1>3, <1>6, <1>8, <2>1, <3>1
  <2>2. CASE i \notin pending
    BY <1>3, <1>5, <1>9, <2>2
  <2>3. QED
    BY <2>1, <2>2
<1>13. QED
  BY <1>7, <1>11, <1>12 DEF g

\* Allocating keeps what somebody had.
LEMMA AllocatedKeeps ==
  ASSUME NEW s \in TaskState, DifferentIds(s.tasks), NEW z, SameTasks(s, z),
         NEW rovers \in Seq(Agent)
  PROVE  SameTasks(s, Allocated(z, rovers))
<1>1. CASE rovers = <<>>
  BY <1>1 DEF Allocated
<1>2. CASE rovers # <<>>
  <2> DEFINE g == Given(z, rovers)
  <2>1. Allocated(z, rovers) = g
    BY <1>2 DEF Allocated
  <2>2. z \in TaskState /\ Len(z.tasks) = Len(s.tasks) /\ \A i \in 1..Len(s.tasks) : z.tasks[i].id = s.tasks[i].id
    BY DEF SameTasks
  <2>3. DifferentIds(z.tasks)
    <3>1. DOMAIN z.tasks = 1..Len(z.tasks) /\ DOMAIN s.tasks = 1..Len(s.tasks)
      BY <2>2 DEF TaskState
    <3>2. QED
      BY <2>2, <3>1 DEF DifferentIds
  <2>4. /\ g \in TaskState /\ Len(g.tasks) = Len(z.tasks)
        /\ \A i \in 1..Len(z.tasks) :
             IF z.tasks[i].status = "pending"
             THEN /\ g.tasks[i] = Give(z.tasks[i], Taker(z.tasks, i, rovers))
                  /\ g.tasks[i].id = z.tasks[i].id /\ g.tasks[i].status = "assigned"
                  /\ g.tasks[i].assigned_to = Taker(z.tasks, i, rovers)
                  /\ Taker(z.tasks, i, rovers) \in Agent
                  /\ g.given[z.tasks[i].id] = Taker(z.tasks, i, rovers)
             ELSE g.tasks[i] = z.tasks[i] /\ g.given[z.tasks[i].id] = z.given[z.tasks[i].id]
    BY <1>2, <2>2, <2>3, GivenIsTyped
  <2> HIDE DEF g
  <2>5. ASSUME NEW i \in 1..Len(s.tasks)
        PROVE  /\ g.tasks[i].id = s.tasks[i].id
               /\ s.tasks[i].status = "assigned" =>
                    g.tasks[i] = s.tasks[i] /\ g.given[s.tasks[i].id] = s.given[s.tasks[i].id]
               /\ s.tasks[i].status # "assigned" /\ g.tasks[i].status = "assigned" =>
                    g.given[s.tasks[i].id] = g.tasks[i].assigned_to /\ g.given[s.tasks[i].id] # Nobody
    <3>1. CASE z.tasks[i].status = "pending"
      <4>1. /\ g.tasks[i].id = z.tasks[i].id /\ g.tasks[i].assigned_to \in Agent
            /\ g.given[z.tasks[i].id] = g.tasks[i].assigned_to
        BY <2>2, <2>4, <3>1
      <4>2. s.tasks[i].status # "assigned"
        BY <3>1 DEF SameTasks
      <4>3. QED
        BY <2>2, <4>1, <4>2, TasksAssumption
    <3>2. CASE z.tasks[i].status # "pending"
      <4>1. g.tasks[i] = z.tasks[i] /\ g.given[z.tasks[i].id] = z.given[z.tasks[i].id]
        BY <2>2, <2>4, <3>2
      <4>2. z.tasks[i].id = s.tasks[i].id
        BY DEF SameTasks
      <4>3. QED
        BY <4>1, <4>2 DEF SameTasks
    <3>3. QED
      BY <3>1, <3>2
  <2>6. SameTasks(s, g)
    BY <2>2, <2>4, <2>5 DEF SameTasks
  <2>7. QED
    BY <2>1, <2>6
<1>3. QED
  BY <1>1, <1>2

\* A failed task that is made pending is nobody's.
LEMMA RetriedKeeps ==
  ASSUME NEW s \in TaskState, NEW z, SameTasks(s, z), NEW i \in With(s.tasks, "failed")
  PROVE  SameTasks(s, [z EXCEPT !.tasks[i].status = "pending"])
<1> DEFINE task == [z.tasks[i] EXCEPT !.status = "pending"]
           ts == [z.tasks EXCEPT ![i] = task]
           y == [z EXCEPT !.tasks = ts]
<1>1. /\ z \in TaskState /\ Len(z.tasks) = Len(s.tasks) /\ i \in 1..Len(s.tasks)
      /\ s.tasks[i].status = "failed" /\ z.tasks[i].id = s.tasks[i].id
  BY DEF SameTasks, With, TaskState
<1>2. z.tasks \in Seq(Task) /\ z.tasks[i] \in Task /\ Len(s.tasks) \in Nat
  BY <1>1 DEF TaskState
<1>3. task \in Task /\ task.status = "pending" /\ task.id = z.tasks[i].id
  BY <1>2 DEF Task, Status
<1>4. [z EXCEPT !.tasks[i].status = "pending"] = y
  OBVIOUS
<1> HIDE DEF task
<1>5. ts \in Seq(Task) /\ Len(ts) = Len(z.tasks) /\ ts[i] = task
      /\ \A j \in 1..Len(z.tasks) : j # i => ts[j] = z.tasks[j]
  BY <1>1, <1>2, <1>3
<1> HIDE DEF ts
<1>6. y \in TaskState /\ y.tasks = ts /\ y.given = z.given
  BY <1>1, <1>5 DEF TaskState
<1> HIDE DEF y
<1>7. SameTasks(s, y)
  BY <1>1, <1>3, <1>5, <1>6 DEF SameTasks
<1>8. QED
  BY <1>4, <1>7

\* Of the numbers with a property there is a least.
LEMMA LeastOne ==
  ASSUME NEW T \in SUBSET Nat, T # {}
  PROVE  \E n \in T : \A m \in T : ~(m < n)
<1>1. PICK n \in T : \A m \in T : ~ (<<m, n>> \in OpToRel(<, Nat))
  BY NatLessThanWellFounded, WFMin
<1>2. QED
  BY <1>1 DEF OpToRel

\* What is done by a failed task after the other, each of which is as the last one left it.
Retry(s, y, i, rovers) ==
  IF i \in With(s.tasks, "failed")
  THEN Allocated([y EXCEPT !.tasks[i].status = "pending"], rovers)
  ELSE y
Retries(s, f, n, rovers) ==
  f = [i \in 0..n |-> IF i = 0 THEN s ELSE Retry(s, f[i - 1], i, rovers)]

\* There is such a run of any length.
LEMMA RetriesExist ==
  ASSUME NEW s, NEW rovers, NEW n \in Nat
  PROVE  \E f : Retries(s, f, n, rovers)
<1> DEFINE T == {m \in Nat : ~\E f : Retries(s, f, m, rovers)}
<1> SUFFICES ASSUME T # {} PROVE FALSE
  OBVIOUS
<1>1. PICK m \in T : \A k \in T : ~(k < m)
  BY LeastOne
<1>2. m \in Nat /\ ~\E f : Retries(s, f, m, rovers)
  OBVIOUS
<1>3. m # 0
  <2>1. Retries(s, [i \in 0..0 |-> s], 0, rovers)
    BY DEF Retries
  <2>2. QED
    BY <1>2, <2>1
<1>4. m - 1 \in Nat /\ m - 1 \notin T
  BY <1>1, <1>2, <1>3
<1>5. PICK f : Retries(s, f, m - 1, rovers)
  BY <1>4
<1> DEFINE g == [i \in 0..m |-> IF i = m THEN Retry(s, f[m - 1], m, rovers) ELSE f[i]]
<1>6. Retries(s, g, m, rovers)
  <2>1. ASSUME NEW i \in 0..m PROVE g[i] = IF i = 0 THEN s ELSE Retry(s, g[i - 1], i, rovers)
    <3>1. CASE i = m
      <4>1. m - 1 \in 0..m /\ m - 1 # m
        BY <1>2, <1>3
      <4>2. g[m - 1] = f[m - 1]
        BY <4>1
      <4>3. QED
        BY <1>3, <3>1, <4>2
    <3>2. CASE i # m
      <4>1. i \in 0..(m - 1) /\ (i # 0 => i - 1 \in 0..m /\ i - 1 # m)
        BY <1>2, <3>2
      <4>2. f[i] = IF i = 0 THEN s ELSE Retry(s, f[i - 1], i, rovers)
        BY <1>5, <4>1 DEF Retries
      <4>3. g[i] = f[i] /\ (i # 0 => g[i - 1] = f[i - 1])
        BY <3>2, <4>1
      <4>4. QED
        BY <4>2, <4>3
    <3>3. QED
      BY <3>1, <3>2
  <2>2. g = [i \in 0..m |-> g[i]]
    OBVIOUS
  <2> HIDE DEF g
  <2>3. QED
    BY <2>1, <2>2 DEF Retries
<1>7. QED
  BY <1>2, <1>6

\* Giving the failed ones again, one after the other, keeps what somebody had.
LEMMA ReallocatedKeeps ==
  ASSUME NEW s \in TaskState, DifferentIds(s.tasks), NEW rovers \in Seq(Agent)
  PROVE  SameTasks(s, Reallocated(s, rovers))
<1> DEFINE n == Len(s.tasks)
           done == CHOOSE f : Retries(s, f, n, rovers)
<1>1. n \in Nat
  BY DEF TaskState
<1>2. Retries(s, done, n, rovers)
  BY <1>1, RetriesExist
<1>3. Reallocated(s, rovers) = done[n]
  BY DEF Reallocated, Retries, Retry
<1> HIDE DEF done
<1>4. /\ done[0] = s
      /\ \A i \in 1..n : done[i] = Retry(s, done[i - 1], i, rovers)
  <2> HIDE DEF n
  <2>1. \A i \in 0..n : done[i] = IF i = 0 THEN s ELSE Retry(s, done[i - 1], i, rovers)
    BY <1>2 DEF Retries
  <2>2. 0 \in 0..n /\ \A i \in 1..n : i \in 0..n /\ i # 0
    BY <1>1
  <2>3. QED
    BY <2>1, <2>2
<1> DEFINE T == {i \in 0..n : ~SameTasks(s, done[i])}
<1>5. T = {}
  <2> SUFFICES ASSUME T # {} PROVE FALSE
    OBVIOUS
  <2>1. PICK m \in T : \A k \in T : ~(k < m)
    <3>1. T \in SUBSET Nat
      BY <1>1
    <3> HIDE DEF T
    <3>2. QED
      BY <3>1, LeastOne
  <2>2. SameTasks(s, s)
    BY DEF SameTasks
  <2>3. m \in 1..n /\ m - 1 \in 0..n /\ m - 1 \notin T
    BY <1>1, <1>4, <2>1, <2>2
  <2>4. SameTasks(s, done[m - 1])
    BY <2>3
  <2>5. SameTasks(s, Retry(s, done[m - 1], m, rovers))
    <3>1. CASE m \in With(s.tasks, "failed")
      <4> DEFINE y == [done[m - 1] EXCEPT !.tasks[m].status = "pending"]
      <4>1. SameTasks(s, y)
        BY <2>4, <3>1, RetriedKeeps
      <4> HIDE DEF y
      <4>2. SameTasks(s, Allocated(y, rovers))
        BY <4>1, AllocatedKeeps
      <4>3. QED
        BY <3>1, <4>2 DEF Retry, y
    <3>2. CASE m \notin With(s.tasks, "failed")
      BY <2>4, <3>2 DEF Retry
    <3>3. QED
      BY <3>1, <3>2
  <2>6. QED
    BY <1>4, <2>1, <2>3, <2>5
<1>6. n \in 0..n
  BY <1>1
<1>7. QED
  BY <1>3, <1>5, <1>6

\* The engine's notes and the tasks, and what keeps them together.
TasksInv == TasksTypeOK /\ OwnersAgree

\* Where allocation leads, the notes name who has a task that was nobody's.
LEMMA BecomeKeeps ==
  ASSUME TasksInv, NEW z, SameTasks(Now, z), Become(z)
  PROVE  TasksInv'
<1>1. /\ tasks' = z.tasks /\ assignments' = z.given /\ z \in TaskState
      /\ Now.tasks = tasks /\ Now.given = assignments
      /\ Len(z.tasks) = Len(tasks) /\ tasks \in Seq(Task)
      /\ DOMAIN tasks = 1..Len(tasks)
  BY DEF Become, SameTasks, Now, TasksInv, TasksTypeOK
<1>2. DOMAIN tasks' = 1..Len(tasks) /\ tasks' \in Seq(Task)
  BY <1>1 DEF TaskState
<1>3. \A i \in 1..Len(tasks) :
        /\ tasks'[i].id = tasks[i].id
        /\ tasks[i].status = "assigned" =>
             tasks'[i] = tasks[i] /\ assignments'[tasks[i].id] = assignments[tasks[i].id]
        /\ tasks[i].status # "assigned" /\ tasks'[i].status = "assigned" =>
             assignments'[tasks[i].id] = tasks'[i].assigned_to /\ assignments'[tasks[i].id] # Nobody
  BY <1>1 DEF SameTasks
<1>4. byHand' = byHand \ {tasks'[i].id : i \in {j \in DOMAIN tasks :
                              tasks[j].status # "assigned" /\ tasks'[j].status = "assigned"}}
  BY <1>1 DEF Become
<1>5. \A i, j \in 1..Len(tasks) : tasks[i].id = tasks[j].id => i = j
  BY <1>1 DEF TasksInv, TasksTypeOK
<1>6. TasksTypeOK'
  BY <1>1, <1>2, <1>3, <1>4, <1>5 DEF TasksTypeOK, TasksInv, TaskState
<1>7. ASSUME NEW i \in 1..Len(tasks), tasks'[i].status = "assigned", tasks'[i].id \notin byHand'
      PROVE  assignments'[tasks'[i].id] # Nobody /\ tasks'[i].assigned_to = assignments'[tasks'[i].id]
  <2>1. CASE tasks[i].status = "assigned"
    <3>1. tasks[i].id \notin byHand
      BY <1>1, <1>3, <1>4, <1>5, <1>7, <2>1
    <3>2. assignments[tasks[i].id] # Nobody /\ tasks[i].assigned_to = assignments[tasks[i].id]
      BY <1>1, <2>1, <3>1 DEF TasksInv, OwnersAgree
    <3>3. QED
      BY <1>3, <2>1, <3>2
  <2>2. CASE tasks[i].status # "assigned"
    BY <1>3, <1>7, <2>2
  <2>3. QED
    BY <2>1, <2>2
<1>8. OwnersAgree'
  BY <1>2, <1>7 DEF OwnersAgree
<1>9. QED
  BY <1>6, <1>8 DEF TasksInv

\* A task that is in the table stands at one place.
LEMMA PlaceOfATask ==
  ASSUME TasksTypeOK, NEW t \in Known
  PROVE  /\ At(t) \in 1..Len(tasks) /\ tasks[At(t)].id = t /\ tasks[At(t)] \in Task
         /\ DOMAIN tasks = 1..Len(tasks) /\ Len(tasks) \in Nat
         /\ \A i \in 1..Len(tasks) : i # At(t) => tasks[i].id # t
<1>1. PICK i \in DOMAIN tasks : tasks[i].id = t
  BY DEF Known
<1>2. At(t) \in DOMAIN tasks /\ tasks[At(t)].id = t
  BY <1>1 DEF At
<1>3. QED
  BY <1>2 DEF TasksTypeOK

\* One task changes where it stands, and keeps its id.
LEMMA OneTaskChanges ==
  ASSUME TasksInv, NEW t \in Known, NEW task \in Task, task.id = t,
         tasks' = [tasks EXCEPT ![At(t)] = task], assignments' = assignments,
         byHand' \in SUBSET TaskId, byHand' \cup {t} = byHand \cup {t},
         task.status = "assigned" => t \in byHand'
  PROVE  TasksInv'
<1> DEFINE p == At(t)
<1>1. /\ p \in 1..Len(tasks) /\ tasks[p].id = t /\ DOMAIN tasks = 1..Len(tasks)
      /\ \A i \in 1..Len(tasks) : i # p => tasks[i].id # t
  BY PlaceOfATask DEF TasksInv
<1> HIDE DEF p
<1>2. tasks' = [tasks EXCEPT ![p] = task]
  BY DEF p
<1>3. /\ tasks' \in Seq(Task) /\ DOMAIN tasks' = DOMAIN tasks /\ tasks'[p] = task
      /\ \A i \in 1..Len(tasks) : i # p => tasks'[i] = tasks[i]
  <2>1. tasks \in Seq(Task)
    BY DEF TasksInv, TasksTypeOK
  <2>2. tasks' \in Seq(Task)
    <3>1. Len(tasks) \in Nat /\ tasks \in [1..Len(tasks) -> Task]
      BY <2>1
    <3>2. tasks' \in [1..Len(tasks) -> Task]
      BY <1>1, <1>2, <3>1
    <3>3. QED
      BY <3>1, <3>2
  <2>3. QED
    BY <1>1, <1>2, <2>1, <2>2
<1>4. \A i \in 1..Len(tasks) : tasks'[i].id = tasks[i].id
  BY <1>1, <1>3
<1>5. TasksTypeOK'
  BY <1>1, <1>3, <1>4 DEF TasksTypeOK, TasksInv
<1>6. OwnersAgree'
  BY <1>1, <1>3 DEF OwnersAgree, TasksInv
<1>7. QED
  BY <1>5, <1>6 DEF TasksInv

\* A task that is added or replaced is nobody's.
LEMMA AddKeeps ==
  ASSUME TasksInv, NEW t \in TaskId, AddTask(t) PROVE TasksInv'
<1> DEFINE new == [id |-> t, status |-> "pending", assigned_to |-> Nobody]
<1>1. new \in Task /\ new.id = t /\ new.status = "pending"
  BY DEF Task, Status
<1>2. /\ tasks' = IF t \in Known THEN [tasks EXCEPT ![At(t)] = new] ELSE Append(tasks, new)
      /\ byHand' = byHand \ {t} /\ assignments' = assignments
  BY DEF AddTask
<1> HIDE DEF new
<1>3. byHand' \in SUBSET TaskId /\ byHand' \cup {t} = byHand \cup {t}
  BY <1>2 DEF TasksInv, TasksTypeOK
<1>4. CASE t \in Known
  BY <1>1, <1>2, <1>3, <1>4, OneTaskChanges
<1>5. CASE t \notin Known
  <2>1. tasks \in Seq(Task) /\ Len(tasks) \in Nat /\ DOMAIN tasks = 1..Len(tasks)
    BY DEF TasksInv, TasksTypeOK
  <2>2. /\ tasks' \in Seq(Task) /\ Len(tasks') = Len(tasks) + 1
        /\ \A i \in 1..Len(tasks) : tasks'[i] = tasks[i]
        /\ tasks'[Len(tasks) + 1] = new
    BY <1>1, <1>2, <1>5, <2>1, AppendProperties
  <2>3. DOMAIN tasks' = 1..(Len(tasks) + 1)
    BY <2>2
  <2>4. \A i \in 1..(Len(tasks) + 1) : i \in 1..Len(tasks) \/ i = Len(tasks) + 1
    BY <2>1
  <2>5. \A i \in 1..Len(tasks) : tasks[i].id # t
    BY <1>5, <2>1 DEF Known
  <2>6. TasksTypeOK'
    <3>1. \A i, j \in 1..(Len(tasks) + 1) : tasks'[i].id = tasks'[j].id => i = j
      BY <1>1, <2>1, <2>2, <2>4, <2>5 DEF TasksInv, TasksTypeOK
    <3>2. QED
      BY <1>2, <1>3, <2>2, <2>3, <3>1 DEF TasksInv, TasksTypeOK
  <2>7. OwnersAgree'
    BY <1>1, <1>2, <2>1, <2>2, <2>3, <2>4, <2>5 DEF OwnersAgree, TasksInv
  <2>8. QED
    BY <2>6, <2>7 DEF TasksInv
<1>6. QED
  BY <1>4, <1>5

\* A task that is removed takes the note of its assignment with it.
LEMMA RemoveKeeps ==
  ASSUME TasksInv, NEW t \in Known, RemoveTask(t) PROVE TasksInv'
<1> DEFINE p == At(t)
<1>1. /\ p \in 1..Len(tasks) /\ tasks[p].id = t /\ DOMAIN tasks = 1..Len(tasks)
      /\ Len(tasks) \in Nat /\ \A i \in 1..Len(tasks) : i # p => tasks[i].id # t
  BY PlaceOfATask DEF TasksInv
<1>2. /\ tasks' = RemoveAt(tasks, p) /\ assignments' = [assignments EXCEPT ![t] = Nobody]
      /\ byHand' = byHand \ {t} /\ tasks \in Seq(Task)
  BY DEF RemoveTask, TasksInv, TasksTypeOK
<1> HIDE DEF p
<1>3. /\ tasks' \in Seq(Task) /\ Len(tasks') = Len(tasks) - 1
      /\ \A j \in 1..(p - 1) : tasks'[j] = tasks[j]
      /\ \A j \in p..(Len(tasks) - 1) : tasks'[j] = tasks[j + 1]
  BY <1>1, <1>2, OneTakenOut
<1>4. DOMAIN tasks' = 1..(Len(tasks) - 1)
  BY <1>3
<1> DEFINE was == [j \in 1..(Len(tasks) - 1) |-> IF j < p THEN j ELSE j + 1]
<1>5. \A j \in 1..(Len(tasks) - 1) : /\ was[j] \in 1..Len(tasks) /\ was[j] # p
                                     /\ tasks'[j] = tasks[was[j]]
  BY <1>1, <1>3
<1>6. \A j, k \in 1..(Len(tasks) - 1) : was[j] = was[k] => j = k
  BY <1>1
<1> HIDE DEF was
<1>7. TasksTypeOK'
  <2>1. \A j, k \in 1..(Len(tasks) - 1) : tasks'[j].id = tasks'[k].id => j = k
    BY <1>1, <1>5, <1>6 DEF TasksInv, TasksTypeOK
  <2>2. assignments' \in [TaskId -> Agent \cup {Nobody}] /\ byHand' \subseteq TaskId
    BY <1>2 DEF TasksInv, TasksTypeOK
  <2>3. QED
    BY <1>3, <1>4, <2>1, <2>2 DEF TasksTypeOK
<1>8. OwnersAgree'
  <2> SUFFICES ASSUME NEW j \in 1..(Len(tasks) - 1), tasks'[j].status = "assigned",
                      tasks'[j].id \notin byHand'
      PROVE  /\ assignments'[tasks'[j].id] # Nobody
             /\ tasks'[j].assigned_to = assignments'[tasks'[j].id]
    BY <1>4 DEF OwnersAgree
  <2>1. tasks'[j] = tasks[was[j]] /\ was[j] \in DOMAIN tasks /\ tasks[was[j]].id # t
    BY <1>1, <1>5
  <2>2. tasks[was[j]].id \notin byHand
    BY <1>2, <2>1
  <2>3. tasks[was[j]] \in Task /\ tasks[was[j]].id \in TaskId
    <3>1. tasks[was[j]] \in Task
      BY <1>1, <1>2, <2>1
    <3>2. QED
      BY <3>1 DEF Task
  <2>4. assignments'[tasks[was[j]].id] = assignments[tasks[was[j]].id]
    BY <1>2, <2>1, <2>3 DEF TasksInv, TasksTypeOK
  <2>5. QED
    BY <2>1, <2>2, <2>4 DEF OwnersAgree, TasksInv
<1>9. QED
  BY <1>7, <1>8 DEF TasksInv

\* What the interface sets is noted as set by hand where it says who has the task.
LEMMA UpdateKeeps ==
  ASSUME TasksInv, NEW t \in Known, NEW s, NEW r \in Agent \cup {Nobody},
         UpdateTask(t, s, r) \/ (s \in {"completed", "failed"} /\ Finish(t, s))
                             \/ (r \in Agent /\ HandOver(t, r))
  PROVE  TasksInv'
<1> DEFINE old == tasks[At(t)]
<1>1. /\ At(t) \in 1..Len(tasks) /\ old.id = t /\ old \in Task /\ t \in TaskId
      /\ tasks \in Seq(Task) /\ DOMAIN tasks = 1..Len(tasks)
      /\ byHand \subseteq TaskId
  BY PlaceOfATask DEF TasksInv, TasksTypeOK, Task
<1>2. CASE UpdateTask(t, s, r)
  <2> DEFINE set == IF s = "pending" THEN Nobody ELSE IF s = "assigned" THEN r ELSE old.assigned_to
             who == IF r # Nobody THEN r ELSE set
             mid == [tasks EXCEPT ![At(t)].status = s]
             task == [old EXCEPT !.status = s, !.assigned_to = who]
  <2>1. /\ s \in Status /\ assignments' = assignments
        /\ tasks' = [tasks EXCEPT ![At(t)].status = s, ![At(t)].assigned_to = who]
        /\ byHand' = IF s = "assigned" \/ r # Nobody THEN byHand \cup {t} ELSE byHand
    BY <1>2 DEF UpdateTask
  <2>2. who \in Agent \cup {Nobody}
    BY <1>1 DEF Task
  <2> HIDE DEF who
  <2>3. task \in Task /\ task.id = t /\ task.status = s
    BY <1>1, <2>1, <2>2 DEF Task
  <2>4. tasks' = [mid EXCEPT ![At(t)].assigned_to = who]
    BY <2>1
  <2>5. mid[At(t)] = [old EXCEPT !.status = s]
    BY <1>1
  <2>6. tasks' = [mid EXCEPT ![At(t)] = task]
    BY <1>1, <2>4, <2>5
  <2>7. tasks' = [tasks EXCEPT ![At(t)] = task]
    BY <1>1, <2>6
  <2> HIDE DEF task, mid
  <2>8. /\ byHand' \in SUBSET TaskId /\ byHand' \cup {t} = byHand \cup {t}
        /\ task.status = "assigned" => t \in byHand'
    BY <1>1, <2>1, <2>3
  <2>9. QED
    BY <2>1, <2>3, <2>7, <2>8, OneTaskChanges
<1>3. CASE s \in {"completed", "failed"} /\ Finish(t, s)
  <2> DEFINE task == [old EXCEPT !.status = s]
  <2>1. task \in Task /\ task.id = t /\ task.status = s
    BY <1>1, <1>3 DEF Task, Status
  <2>2. tasks' = [tasks EXCEPT ![At(t)] = task] /\ assignments' = assignments /\ byHand' = byHand
    BY <1>3 DEF Finish
  <2> HIDE DEF task
  <2>3. QED
    BY <1>1, <1>3, <2>1, <2>2, OneTaskChanges
<1>4. CASE r \in Agent /\ HandOver(t, r)
  <2> DEFINE task == [old EXCEPT !.assigned_to = r]
  <2>1. task \in Task /\ task.id = t
    BY <1>1, <1>4 DEF Task
  <2>2. /\ tasks' = [tasks EXCEPT ![At(t)] = task] /\ assignments' = assignments
        /\ byHand' = byHand \cup {t}
    BY <1>4 DEF HandOver
  <2> HIDE DEF task
  <2>3. QED
    BY <1>1, <2>1, <2>2, OneTaskChanges
<1>5. QED
  BY <1>2, <1>3, <1>4

\* Every step keeps the invariant.
LEMMA TasksStep ==
  ASSUME TasksInv, [TasksNext]_taskVars PROVE TasksInv'
<1>1. Now \in TaskState /\ DifferentIds(Now.tasks) /\ SameTasks(Now, Now)
  <2>1. Now \in TaskState /\ Now.tasks = tasks
    BY DEF Now, TaskState, TasksInv, TasksTypeOK
  <2>2. DifferentIds(Now.tasks)
    BY <2>1 DEF DifferentIds, TasksInv, TasksTypeOK
  <2>3. QED
    BY <2>1, <2>2 DEF SameTasks
<1>2. ASSUME NEW rovers \in Team, Allocate(rovers) PROVE TasksInv'
  <2>1. SameTasks(Now, Allocated(Now, rovers))
    BY <1>1, AllocatedKeeps, TeamsAreOfAgents
  <2>2. Become(Allocated(Now, rovers))
    BY <1>2 DEF Allocate, Now
  <2>3. QED
    BY <2>1, <2>2, BecomeKeeps
<1>3. ASSUME NEW rovers \in Team, ReallocateFailed(rovers) PROVE TasksInv'
  <2>1. SameTasks(Now, Reallocated(Now, rovers))
    BY <1>1, ReallocatedKeeps, TeamsAreOfAgents
  <2>2. Become(Reallocated(Now, rovers))
    BY <1>3 DEF ReallocateFailed, Now
  <2>3. QED
    BY <2>1, <2>2, BecomeKeeps
<1>4. ASSUME NEW t \in TaskId, AddTask(t) PROVE TasksInv'
  BY <1>4, AddKeeps
<1>5. ASSUME NEW t \in Known, RemoveTask(t) PROVE TasksInv'
  BY <1>5, RemoveKeeps
<1>6. ASSUME NEW t \in Known, NEW s \in {"completed", "failed"}, Finish(t, s) PROVE TasksInv'
  BY <1>6, UpdateKeeps
<1>7. ASSUME NEW t \in Known, NEW s, NEW r \in Agent \cup {Nobody}, UpdateTask(t, s, r)
      PROVE  TasksInv'
  BY <1>7, UpdateKeeps
<1>8. ASSUME NEW t \in Known, NEW r \in Agent, HandOver(t, r) PROVE TasksInv'
  BY <1>8, UpdateKeeps
<1>9. CASE UNCHANGED taskVars
  BY <1>9 DEF taskVars, TasksInv, TasksTypeOK, OwnersAgree
<1>10. QED
  BY <1>2, <1>3, <1>4, <1>5, <1>6, <1>7, <1>8, <1>9 DEF TasksNext

\* At the start there are no tasks.
LEMMA TasksInitially == TasksInit => TasksInv
<1> SUFFICES ASSUME TasksInit PROVE TasksInv
  OBVIOUS
<1>1. <<>> \in Seq(Task) /\ DOMAIN <<>> = {}
  OBVIOUS
<1>2. QED
  BY <1>1 DEF TasksInit, TasksInv, TasksTypeOK, OwnersAgree

\* For any tasks and rovers, and whatever is completed, failed, replaced or given again: the
\* engine's notes name who has a task, unless the interface said otherwise since.
THEOREM NotesNameTheOwner == TasksSpec => []OwnersAgree
<1>1. TasksInv => OwnersAgree
  BY DEF TasksInv
<1>2. QED
  BY TasksInitially, TasksStep, <1>1, PTL DEF TasksSpec

-----------------------------------------------------------------------------
(* Allocations *)

\* A number is its quotient and its remainder.
LEMMA Divided ==
  ASSUME NEW n \in Nat, NEW d \in Nat \ {0}
  PROVE  n \div d \in Nat /\ n % d \in 0..(d - 1) /\ n = d * (n \div d) + (n % d)
OBVIOUS

\* A number has no other quotient and remainder.
LEMMA RemainderOf ==
  ASSUME NEW d \in Nat \ {0}, NEW k \in Nat, NEW b \in 0..(d - 1)
  PROVE  (d * k + b) % d = b
<1> DEFINE n == d * k + b
           q == n \div d
           r == n % d
<1>1. d * k \in Nat /\ n \in Nat
  OBVIOUS
<1>2. q \in Nat /\ r \in 0..(d - 1) /\ n = d * q + r
  BY <1>1, Divided
<1>3. d * k + b = d * q + r
  BY <1>2
<1> HIDE DEF q, r, n
<1>4. d * (k - q) = r - b
  BY <1>2, <1>3
<1>5. k - q < 1
  <2> SUFFICES ASSUME k - q >= 1 PROVE FALSE
    BY <1>2
  <2>1. d * (k - q) >= d
    BY <1>2
  <2>2. QED
    BY <1>2, <1>4, <2>1
<1>6. q - k < 1
  <2> SUFFICES ASSUME q - k >= 1 PROVE FALSE
    BY <1>2
  <2>1. d * (q - k) >= d
    BY <1>2
  <2>2. d * (q - k) = b - r
    BY <1>2, <1>4
  <2>3. QED
    BY <1>2, <2>1, <2>2
<1>7. r = b
  BY <1>2, <1>4, <1>5, <1>6
<1>8. QED
  BY <1>7 DEF r, n

\* The numbers below m that leave the remainder a.
Leaving(m, d, a) == {r \in 0..(m - 1) : r % d = a}

\* One remainder is left by as many numbers as another, or by one more or less.
LEMMA RemaindersAreEven ==
  ASSUME NEW m \in Nat, NEW d \in Nat \ {0}, NEW a \in 0..(d - 1), NEW b \in 0..(d - 1)
  PROVE  /\ IsFiniteSet(Leaving(m, d, a))
         /\ Cardinality(Leaving(m, d, a)) <= Cardinality(Leaving(m, d, b)) + 1
<1> DEFINE A == Leaving(m, d, a)
           B == Leaving(m, d, b)
           f == [r \in A \ {a} |-> r - d - a + b]
<1>1. IsFiniteSet(A) /\ IsFiniteSet(B) /\ Cardinality(A) \in Nat /\ Cardinality(B) \in Nat
  <2>1. IsFiniteSet(0..(m - 1))
    BY FS_Interval
  <2>2. A \in SUBSET (0..(m - 1)) /\ B \in SUBSET (0..(m - 1))
    BY DEF Leaving
  <2>3. QED
    BY <2>1, <2>2, FS_Subset, FS_CardinalityType
<1>2. ASSUME NEW r \in A \ {a} PROVE r - d - a + b \in B
  <2> DEFINE q == r \div d
  <2>1. r \in Nat /\ r < m /\ r # a /\ r % d = a
    BY DEF Leaving
  <2>2. q \in Nat /\ r = d * q + a
    BY <2>1, Divided
  <2> HIDE DEF q
  <2>3. q # 0
    BY <2>1, <2>2
  <2>4. q - 1 \in Nat /\ d * q = d * (q - 1) + d
    BY <2>2, <2>3
  <2>5. r - d - a + b = d * (q - 1) + b /\ d * (q - 1) \in Nat
    BY <2>2, <2>4
  <2>6. (r - d - a + b) % d = b
    BY <2>4, <2>5, RemainderOf
  <2>7. r - d - a + b \in 0..(m - 1)
    BY <2>1, <2>5
  <2>8. QED
    BY <2>6, <2>7 DEF Leaving
<1>3. f \in Injection(A \ {a}, B)
  <2>1. f \in [A \ {a} -> B]
    BY <1>2
  <2>2. ASSUME NEW r \in A \ {a}, NEW s \in A \ {a}, f[r] = f[s] PROVE r = s
    BY <2>2 DEF Leaving
  <2>3. QED
    BY <2>1, <2>2 DEF Injection, IsInjective
<1> HIDE DEF A, B, f
<1>4. Cardinality(A \ {a}) <= Cardinality(B)
  BY <1>1, <1>3, FS_Injection
<1>5. Cardinality(A) <= Cardinality(A \ {a}) + 1
  BY <1>1, FS_RemoveElement
<1>6. Cardinality(A \ {a}) \in Nat
  BY <1>1, FS_RemoveElement, FS_CardinalityType
<1>7. QED
  BY <1>1, <1>4, <1>5, <1>6 DEF A, B

\* How many of the numbers in S come before i.
Rank(S, i) == Cardinality(S \cap 1..(i - 1))

\* The ranks of the numbers in S are those below their number, each once.
LEMMA RanksAreAll ==
  ASSUME NEW n \in Nat, NEW S \in SUBSET (1..n)
  PROVE  /\ IsFiniteSet(S) /\ Cardinality(S) \in Nat
         /\ \A i \in S : Rank(S, i) \in 0..(Cardinality(S) - 1)
         /\ \A i, j \in S : Rank(S, i) = Rank(S, j) => i = j
         /\ \A r \in 0..(Cardinality(S) - 1) : \E i \in S : Rank(S, i) = r
<1>1. IsFiniteSet(S) /\ Cardinality(S) \in Nat
  <2>1. IsFiniteSet(1..n)
    BY FS_Interval
  <2>2. QED
    BY <2>1, FS_Subset, FS_CardinalityType
<1>2. \A T \in SUBSET S : IsFiniteSet(T) /\ Cardinality(T) \in Nat
  BY <1>1, FS_Subset, FS_CardinalityType
<1>3. ASSUME NEW i \in S, NEW T \in SUBSET S, S \cap 1..(i - 1) \subseteq T, i \in T
      PROVE  Rank(S, i) < Cardinality(T)
  <2> DEFINE U == S \cap 1..(i - 1)
  <2>1. U \cup {i} \in SUBSET T /\ i \notin U
    BY <1>3
  <2>2. Cardinality(U \cup {i}) = Cardinality(U) + 1
    BY <1>2, <2>1, FS_AddElement
  <2>3. Cardinality(U \cup {i}) <= Cardinality(T)
    BY <1>2, <2>1, FS_Subset
  <2>4. Cardinality(U) \in Nat /\ Cardinality(T) \in Nat
    BY <1>2
  <2> HIDE DEF U
  <2>5. Cardinality(U) < Cardinality(T)
    BY <2>2, <2>3, <2>4
  <2>6. QED
    BY <2>5 DEF Rank, U
<1>4. \A i \in S : Rank(S, i) \in 0..(Cardinality(S) - 1)
  BY <1>1, <1>2, <1>3 DEF Rank
<1>5. ASSUME NEW i \in S, NEW j \in S, i < j PROVE Rank(S, i) < Rank(S, j)
  BY <1>3, <1>5 DEF Rank
<1>6. ASSUME NEW i \in S, NEW j \in S, Rank(S, i) = Rank(S, j) PROVE i = j
  <2>1. i \in Nat /\ j \in Nat /\ Rank(S, i) \in Nat /\ Rank(S, j) \in Nat
    BY <1>4
  <2>2. QED
    BY <1>5, <1>6, <2>1
<1> DEFINE R == 0..(Cardinality(S) - 1)
           f == [i \in S |-> Rank(S, i)]
<1>7. IsFiniteSet(R) /\ Cardinality(R) = Cardinality(S)
  BY <1>1, FS_Interval
<1>8. f \in Injection(S, R)
  BY <1>4, <1>6 DEF Injection, IsInjective
<1>9. f \in Surjection(S, R)
  BY <1>7, <1>8, FS_Injection
<1>10. \A r \in R : \E i \in S : Rank(S, i) = r
  BY <1>9 DEF Surjection
<1>11. QED
  BY <1>1, <1>4, <1>6, <1>10

\* What goes round d takers in the order of its ranks is shared evenly.
LEMMA RoundsAreEven ==
  ASSUME NEW n \in Nat, NEW S \in SUBSET (1..n), NEW d \in Nat \ {0}, NEW a \in 0..(d - 1)
  PROVE  LET mine == {i \in S : Rank(S, i) % d = a} IN
         /\ IsFiniteSet(mine)
         /\ Cardinality(mine) = Cardinality(Leaving(Cardinality(S), d, a))
<1> DEFINE m == Cardinality(S)
           mine == {i \in S : Rank(S, i) % d = a}
           f == [i \in mine |-> Rank(S, i)]
<1>1. /\ IsFiniteSet(S) /\ m \in Nat
      /\ \A i \in S : Rank(S, i) \in 0..(m - 1)
      /\ \A i, j \in S : Rank(S, i) = Rank(S, j) => i = j
      /\ \A r \in 0..(m - 1) : \E i \in S : Rank(S, i) = r
  BY RanksAreAll
<1> HIDE DEF m
<1>2. IsFiniteSet(mine)
  BY <1>1, FS_Subset
<1>3. f \in [mine -> Leaving(m, d, a)]
  BY <1>1 DEF Leaving
<1>4. f \in Injection(mine, Leaving(m, d, a))
  BY <1>1, <1>3 DEF Injection, IsInjective
<1>5. f \in Surjection(mine, Leaving(m, d, a))
  BY <1>1, <1>3 DEF Surjection, Leaving
<1>6. ExistsBijection(mine, Leaving(m, d, a))
  BY <1>4, <1>5 DEF ExistsBijection, Bijection
<1>7. QED
  BY <1>2, <1>6, FS_Bijection DEF m

\* A rover's share are the tasks at the ranks where it is its turn.
LEMMA ShareIsRound ==
  ASSUME TasksInv, NEW rovers \in Team, rovers # <<>>, NEW a \in 0..(Len(rovers) - 1),
         tasks' = Allocated(Now, rovers).tasks
  PROVE  LET waiting == With(tasks, "pending") IN
         Share(rovers[a + 1], waiting, tasks')
           = Cardinality({i \in waiting : Rank(waiting, i) % Len(rovers) = a})
<1> DEFINE waiting == With(tasks, "pending")
<1>1. /\ tasks \in Seq(Task) /\ DOMAIN tasks = 1..Len(tasks) /\ Len(tasks) \in Nat
  BY DEF TasksInv, TasksTypeOK
<1>2. rovers \in Seq(Agent) /\ IsInjective(rovers) /\ Len(rovers) \in Nat \ {0}
  BY TeamsAreOfAgents, EmptySeq
<1>3. Now \in TaskState /\ Now.tasks = tasks /\ DifferentIds(Now.tasks)
  BY DEF Now, TaskState, TasksInv, TasksTypeOK, DifferentIds
<1>4. \A i \in waiting : i \in 1..Len(tasks) /\ tasks[i].status = "pending"
  BY <1>1 DEF With
<1>5. \A i \in waiting : tasks'[i].assigned_to = Taker(tasks, i, rovers)
  BY <1>1, <1>2, <1>3, <1>4, GivenIsTyped DEF Allocated
<1>6. ASSUME NEW i \in waiting
      PROVE  tasks'[i].assigned_to = rovers[a + 1] <=> Rank(waiting, i) % Len(rovers) = a
  <2> DEFINE r == Rank(waiting, i) % Len(rovers)
  <2>1. Taker(tasks, i, rovers) = rovers[1 + r]
    BY DEF Taker, Rank
  <2>2. r \in 0..(Len(rovers) - 1)
    <3>1. waiting \in SUBSET (1..Len(tasks))
      BY <1>4
    <3> HIDE DEF waiting
    <3>2. Rank(waiting, i) \in 0..(Cardinality(waiting) - 1)
      BY <1>1, <1>6, <3>1, RanksAreAll
    <3>3. Cardinality(waiting) \in Nat
      BY <1>1, <3>1, RanksAreAll
    <3>4. Rank(waiting, i) \in Nat
      BY <3>2, <3>3
    <3>5. QED
      BY <1>2, <3>4, Divided
  <2> HIDE DEF r
  <2>3. 1 + r \in DOMAIN rovers /\ a + 1 \in DOMAIN rovers
    BY <1>2, <2>2
  <2>4. rovers[1 + r] = rovers[a + 1] <=> r = a
    BY <1>2, <2>2, <2>3 DEF IsInjective
  <2>5. QED
    BY <1>5, <2>1, <2>4 DEF r
<1>7. {i \in waiting : tasks'[i].assigned_to = rovers[a + 1]}
        = {i \in waiting : Rank(waiting, i) % Len(rovers) = a}
  BY <1>6
<1>8. QED
  BY <1>7 DEF Share

\* What an allocation does, as a step.
AllocatesEvenly ==
  tasks # <<>> => \A rovers \in Team \ {<<>>} : Allocate(rovers) =>
    LET waiting == With(tasks, "pending") IN
    /\ With(tasks', "pending") = {}
    /\ \A i \in DOMAIN tasks \ waiting : tasks'[i] = tasks[i]
    /\ \A p, q \in Range(rovers) :
         Share(p, waiting, tasks') <= Share(q, waiting, tasks') + 1

\* Every allocation that the engine makes is such a step.
LEMMA AllocationsAreEven ==
  ASSUME TasksInv PROVE AllocatesEvenly
<1> SUFFICES ASSUME NEW rovers \in Team \ {<<>>}, Allocate(rovers)
    PROVE  /\ With(tasks', "pending") = {}
           /\ \A i \in DOMAIN tasks \ With(tasks, "pending") : tasks'[i] = tasks[i]
           /\ \A p, q \in Range(rovers) :
                Share(p, With(tasks, "pending"), tasks')
                  <= Share(q, With(tasks, "pending"), tasks') + 1
  BY DEF AllocatesEvenly
<1> DEFINE waiting == With(tasks, "pending")
           m == Cardinality(waiting)
           L == Len(rovers)
<1>1. /\ tasks \in Seq(Task) /\ DOMAIN tasks = 1..Len(tasks) /\ Len(tasks) \in Nat
  BY DEF TasksInv, TasksTypeOK
<1>2. /\ rovers \in Seq(Agent) /\ rovers # <<>> /\ L \in Nat \ {0} /\ DOMAIN rovers = 1..L
  BY TeamsAreOfAgents, EmptySeq
<1>3. Now \in TaskState /\ Now.tasks = tasks /\ DifferentIds(Now.tasks)
  BY DEF Now, TaskState, TasksInv, TasksTypeOK, DifferentIds
<1>4. tasks' = Allocated(Now, rovers).tasks
  BY DEF Allocate, Become, Now
<1>5. /\ tasks' \in Seq(Task) /\ Len(tasks') = Len(tasks)
      /\ \A i \in 1..Len(tasks) :
           IF tasks[i].status = "pending" THEN tasks'[i].status = "assigned"
           ELSE tasks'[i] = tasks[i]
  BY <1>2, <1>3, <1>4, GivenIsTyped DEF Allocated, TaskState
<1>6. DOMAIN tasks' = 1..Len(tasks)
  BY <1>5
<1>7. With(tasks', "pending") = {}
  BY <1>5, <1>6 DEF With
<1>8. \A i \in DOMAIN tasks \ waiting : tasks'[i] = tasks[i]
  BY <1>1, <1>5 DEF With
<1>9. ASSUME NEW p \in Range(rovers), NEW q \in Range(rovers)
      PROVE  Share(p, waiting, tasks') <= Share(q, waiting, tasks') + 1
  <2>1. PICK i, j \in 1..L : p = rovers[i] /\ q = rovers[j]
    BY <1>2 DEF Range
  <2> DEFINE a == i - 1
             b == j - 1
  <2>2. a \in 0..(L - 1) /\ b \in 0..(L - 1) /\ p = rovers[a + 1] /\ q = rovers[b + 1]
    BY <1>2, <2>1
  <2> HIDE DEF a, b
  <2>3. waiting \in SUBSET (1..Len(tasks))
    BY <1>1 DEF With
  <2>4. m \in Nat
    BY <1>1, <2>3, RanksAreAll
  <2>5. Share(p, waiting, tasks') = Cardinality(Leaving(m, L, a))
    BY <1>1, <1>2, <1>4, <2>2, <2>3, ShareIsRound, RoundsAreEven
  <2>6. Share(q, waiting, tasks') = Cardinality(Leaving(m, L, b))
    BY <1>1, <1>2, <1>4, <2>2, <2>3, ShareIsRound, RoundsAreEven
  <2>7. Cardinality(Leaving(m, L, a)) <= Cardinality(Leaving(m, L, b)) + 1
    BY <1>2, <2>2, <2>4, RemaindersAreEven
  <2>8. QED
    BY <2>5, <2>6, <2>7
<1>10. QED
  BY <1>7, <1>8, <1>9

\* For any number of tasks and rovers: an allocation leaves nothing waiting, touches
\* nothing else, and no rover is given two more than another.
THEOREM NobodyIsOverloaded == TasksSpec => AllocationIsEven
<1>1. TasksInv => AllocatesEvenly
  BY AllocationsAreEven
<1>2. AllocationIsEven <=> [][AllocatesEvenly]_taskVars
  BY PTL DEF AllocationIsEven, AllocatesEvenly
<1>3. QED
  BY TasksInitially, TasksStep, <1>1, <1>2, PTL DEF TasksSpec

-----------------------------------------------------------------------------
(* Requests to engines and databases *)

Database == Range(Backend)

\* What a request is, from when it is sent to when it is answered or has failed.
Request ==
  {r \in [pc : {"asking", "answered", "failed"}, left : Seq(Servers), of : SUBSET Servers,
          what : {"inference", "search"}, db : Seq(Database \cup {"none"}), then : Seq(Database)] :
     r.then # <<>> => r.db \in Seq(Database)}
Connecting == [pc : {"connecting"}, left : Seq(Database), got : Seq(Database), then : {<<>>}]

CallTyped(now) ==
  \/ now \in Request
  \/ now \in Connecting
  \/ now.pc \in {"idle", "checking", "closing"} /\ now.then = <<>>

\* Those that could have answered all along are yet to be asked.
Unasked(now, could) ==
  /\ now.pc = "asking" => could \subseteq Range(now.left)
  /\ now.pc = "failed" => could = {}

RequestsInv ==
  /\ manager = NoManager \/ manager \in Seq(Database)
  /\ call = [c \in Client |-> call[c]]
  /\ \A c \in Client : CallTyped(call[c]) /\ Unasked(call[c], steady[c])

\* Taking one name out of a sequence leaves all the others in it.
LEMMA AllButOne ==
  ASSUME NEW S, NEW s \in Seq(S), NEW e
  PROVE  /\ AllBut(s, e) \in Seq(S)
         /\ Range(s) \subseteq {e} \cup Range(AllBut(s, e))
<1>1. CASE e \notin Range(s)
  BY <1>1 DEF AllBut
<1>2. CASE e \in Range(s)
  <2>1. PICK i \in 1..Len(s) : s[i] = e /\ AllBut(s, e) = RemoveAt(s, i)
    <3>1. \E i \in DOMAIN s : s[i] = e
      BY <1>2 DEF Range
    <3>2. LET i == CHOOSE i \in DOMAIN s : s[i] = e
          IN  i \in DOMAIN s /\ s[i] = e /\ AllBut(s, e) = RemoveAt(s, i)
      BY <1>2, <3>1 DEF AllBut
    <3>3. DOMAIN s = 1..Len(s)
      OBVIOUS
    <3>4. QED
      BY <3>2, <3>3
  <2> DEFINE rest == RemoveAt(s, i)
  <2>2. /\ rest \in Seq(S) /\ Len(rest) = Len(s) - 1
        /\ \A j \in 1..(i - 1) : rest[j] = s[j]
        /\ \A j \in i..(Len(s) - 1) : rest[j] = s[j + 1]
    BY OneTakenOut
  <2> HIDE DEF rest
  <2>3. DOMAIN rest = 1..(Len(s) - 1) /\ DOMAIN s = 1..Len(s) /\ Len(s) \in Nat
    BY <2>2
  <2>4. ASSUME NEW j \in 1..Len(s), s[j] # e PROVE s[j] \in Range(rest)
    <3>1. PICK k \in 1..(Len(s) - 1) : s[j] = rest[k]
      <4>1. CASE j < i
        BY <2>2, <2>3, <4>1
      <4>2. CASE j > i
        <5>1. j - 1 \in i..(Len(s) - 1) /\ (j - 1) + 1 = j /\ j - 1 \in 1..(Len(s) - 1)
          BY <2>3, <4>2
        <5>2. QED
          BY <2>2, <5>1
      <4>3. QED
        BY <2>1, <2>4, <4>1, <4>2
    <3>2. QED
      BY <2>3, <3>1 DEF Range
  <2>5. Range(s) \subseteq {e} \cup Range(rest)
    BY <2>3, <2>4 DEF Range
  <2>6. QED
    BY <2>1, <2>2, <2>5 DEF rest
<1>3. QED
  BY <1>1, <1>2

\* A sequence with one more in front has what the sequence has, and that one.
LEMMA OneInFront ==
  ASSUME NEW S, NEW s \in Seq(S), NEW e \in S
  PROVE  /\ <<e>> \o s \in Seq(S)
         /\ Range(<<e>> \o s) = {e} \cup Range(s)
<1>1. /\ <<e>> \in Seq(S) /\ Len(<<e>>) = 1 /\ <<e>>[1] = e /\ Len(s) \in Nat
      /\ DOMAIN s = 1..Len(s)
  OBVIOUS
<1>2. /\ <<e>> \o s \in Seq(S) /\ Len(<<e>> \o s) = 1 + Len(s)
      /\ \A j \in 1..(1 + Len(s)) : (<<e>> \o s)[j] = IF j <= 1 THEN <<e>>[j] ELSE s[j - 1]
  BY <1>1, ConcatProperties
<1>3. DOMAIN (<<e>> \o s) = 1..(1 + Len(s)) /\ (<<e>> \o s)[1] = e
  BY <1>1, <1>2
<1>4. \A j \in 1..Len(s) : (j + 1) \in 1..(1 + Len(s)) /\ (<<e>> \o s)[j + 1] = s[j]
  BY <1>1, <1>2
<1>5. \A j \in 1..(1 + Len(s)) : j = 1 \/ (j - 1 \in 1..Len(s) /\ (<<e>> \o s)[j] = s[j - 1])
  BY <1>1, <1>2
<1>6. {e} \cup Range(s) \subseteq Range(<<e>> \o s)
  <2>1. e \in Range(<<e>> \o s)
    <3>1. 1 \in 1..(1 + Len(s))
      BY <1>1
    <3>2. QED
      BY <1>3, <3>1 DEF Range
  <2>2. \A j \in 1..Len(s) : s[j] \in Range(<<e>> \o s)
    BY <1>3, <1>4 DEF Range
  <2>3. QED
    BY <1>1, <2>1, <2>2 DEF Range
<1>7. Range(<<e>> \o s) \subseteq {e} \cup Range(s)
  BY <1>1, <1>2, <1>3, <1>5 DEF Range
<1>8. QED
  BY <1>2, <1>6, <1>7

\* Those of a sequence are its first and those of the rest.
LEMMA HeadAndTail ==
  ASSUME NEW S, NEW s \in Seq(S), s # <<>>
  PROVE  Head(s) \in S /\ Tail(s) \in Seq(S) /\ Range(s) \subseteq {Head(s)} \cup Range(Tail(s))
<1>1. /\ Head(s) \in S /\ Head(s) = s[1] /\ Tail(s) \in Seq(S) /\ Len(Tail(s)) = Len(s) - 1
      /\ \A i \in 1..Len(Tail(s)) : Tail(s)[i] = s[i + 1]
  BY HeadTailProperties
<1>2. Len(s) \in Nat /\ DOMAIN s = 1..Len(s) /\ DOMAIN Tail(s) = 1..Len(Tail(s))
  BY <1>1
<1>3. ASSUME NEW j \in 1..Len(s), j # 1 PROVE s[j] \in Range(Tail(s))
  <2>1. j - 1 \in 1..Len(Tail(s)) /\ Tail(s)[j - 1] = s[j]
    BY <1>1, <1>2, <1>3
  <2>2. QED
    BY <1>2, <2>1 DEF Range
<1>4. QED
  BY <1>1, <1>2, <1>3 DEF Range

\* A name is a sequence of names.
LEMMA OneName ==
  ASSUME NEW S, NEW e \in S PROVE <<e>> \in Seq(S) /\ <<>> \in Seq(S)
OBVIOUS

\* What a request asks first is for all it may be answered by.
LEMMA AskingIsTyped ==
  ASSUME NEW left \in Seq(Servers), NEW of \in SUBSET Servers, NEW what \in {"inference", "search"},
         NEW db \in Seq(Database \cup {"none"}), NEW then \in Seq(Database), then # <<>> => db \in Seq(Database)
  PROVE  /\ Asking(left, of, what, db, then) \in Request
         /\ Asking(left, of, what, db, then).pc = "asking"
         /\ Asking(left, of, what, db, then).left = left
         /\ Asking(left, of, what, db, then).of = of
         /\ Asking(left, of, what, db, then).what = what
BY DEF Asking, Request

\* A chain has all the engines the request is for.
LEMMA ChainIsComplete ==
  ASSUME NEW named \in {{}} \cup {{e} : e \in Engine}, activeEngine \in Engine
  PROVE  LET of == IF named # {} /\ named \subseteq DOMAIN engines THEN named ELSE Range(FallbackChain)
         IN  ResolveChain(named) \in Seq(Servers) /\ of \subseteq Range(ResolveChain(named)) /\ of \subseteq Servers
<1>1. /\ FallbackChain \in Seq(Engine) /\ AllBut(FallbackChain, activeEngine) \in Seq(Engine)
      /\ Range(FallbackChain) \subseteq {activeEngine} \cup Range(AllBut(FallbackChain, activeEngine))
  BY EnginesAssumption, AllButOne
<1>2. \A s \in Seq(Engine) : s \in Seq(Servers) /\ Range(s) \subseteq Servers
  BY DEF Servers, Range
<1>3. CASE named = {}
  <2>1. ResolveChain(named) = <<activeEngine>> \o AllBut(FallbackChain, activeEngine)
    BY <1>3 DEF ResolveChain
  <2>2. QED
    BY <1>1, <1>2, <1>3, <2>1, OneInFront
<1>4. CASE named # {}
  <2>1. PICK e \in Engine : named = {e}
    BY <1>4
  <2>2. (CHOOSE x \in named : TRUE) = e
    BY <2>1
  <2>3. CASE e \in DOMAIN engines
    <3>1. ResolveChain(named) = <<e>>
      BY <1>4, <2>2, <2>3 DEF ResolveChain
    <3>2. <<e>> \in Seq(Servers) /\ Range(<<e>>) = {e}
      BY DEF Servers, Range
    <3>3. QED
      BY <2>1, <2>3, <3>1, <3>2 DEF Servers
  <2>4. CASE e \notin DOMAIN engines
    <3>1. ResolveChain(named) = <<e>> \o FallbackChain
      BY <1>4, <2>2, <2>4 DEF ResolveChain
    <3>2. QED
      BY <1>1, <1>2, <2>1, <2>4, <3>1, OneInFront
  <2>5. QED
    BY <2>3, <2>4
<1>5. QED
  BY <1>3, <1>4

\* What a search asks first is for all the databases of its manager.
LEMMA SearchIsTyped ==
  ASSUME NEW target, NEW db \in Seq(Database), NEW then \in Seq(Database)
  PROVE  LET now == SearchFor(target, db, then) IN
         /\ now \in Request
         /\ now.pc = "asking" => now.of \subseteq Range(now.left)
         /\ now.pc \in {"asking", "failed"}
<1>1. db \in Seq(Database \cup {"none"}) /\ \A s \in Seq(Database) : s \in Seq(Servers) /\ Range(s) \in SUBSET Database
  <2>1. Database \subseteq Database \cup {"none"} /\ Database \subseteq Servers
    BY DEF Database, Servers
  <2>2. Seq(Database) \subseteq Seq(Database \cup {"none"}) /\ Seq(Database) \subseteq Seq(Servers)
    BY <2>1, SeqMonotonic
  <2>3. \A s \in Seq(Database) : DOMAIN s = 1..Len(s) /\ \A i \in 1..Len(s) : s[i] \in Database
    OBVIOUS
  <2>4. QED
    BY <2>2, <2>3 DEF Range
<1>2. Database \subseteq Servers
  BY DEF Database, Servers
<1>3. CASE target \in Range(db)
  <2> DEFINE left == <<target>> \o AllBut(db, target)
  <2>1. left \in Seq(Database) /\ Range(db) \subseteq Range(left)
    BY <1>1, <1>3, AllButOne, OneInFront
  <2>2. left \in Seq(Servers) /\ Range(db) \in SUBSET Servers
    BY <1>1, <1>2, <2>1
  <2>3. SearchFor(target, db, then) = Asking(left, Range(db), "search", db, then)
    BY <1>3 DEF SearchFor
  <2> HIDE DEF left
  <2> DEFINE of == Range(db)
  <2>4. of \in SUBSET Servers /\ of \subseteq Range(left) /\ db \in Seq(Database \cup {"none"})
    BY <1>1, <2>1, <2>2
  <2> HIDE DEF of
  <2>5. /\ Asking(left, of, "search", db, then) \in Request
        /\ Asking(left, of, "search", db, then).pc = "asking"
        /\ Asking(left, of, "search", db, then).left = left
        /\ Asking(left, of, "search", db, then).of = of
    BY <2>2, <2>4 DEF Asking, Request
  <2>6. SearchFor(target, db, then) = Asking(left, of, "search", db, then)
    BY <2>3 DEF of
  <2>7. QED
    BY <2>4, <2>5, <2>6
<1>4. CASE target \notin Range(db)
  <2>1. <<>> \in Seq(Servers) /\ {} \in SUBSET Servers
    OBVIOUS
  <2>2. Asking(<<>>, {}, "search", db, then) \in Request
    BY <1>1, <2>1, AskingIsTyped
  <2>3. SearchFor(target, db, then) = [Asking(<<>>, {}, "search", db, then) EXCEPT !.pc = "failed"]
    BY <1>4 DEF SearchFor
  <2>4. QED
    BY <2>2, <2>3 DEF Request
<1>5. QED
  BY <1>3, <1>4

\* What a step does to one request, and nothing to the others, keeps the invariant if
\* it does for this one.
LEMMA OneRequestMoves ==
  ASSUME RequestsInv, NEW c \in Client, NEW now, Do(c, now), Noted,
         CallTyped(now), Unasked(now, StillSteady(c)),
         manager' = NoManager \/ manager' \in Seq(Database)
  PROVE  RequestsInv'
<1>1. /\ call' = [d \in Client |-> call'[d]] /\ call'[c] = now
      /\ \A d \in Client \ {c} : call'[d] = call[d]
  BY DEF RequestsInv, Do
<1>2. steady' = [d \in Client |-> StillSteady(d)]
  BY DEF Noted
<1>3. ASSUME NEW d \in Client \ {c} PROVE CallTyped(call'[d]) /\ Unasked(call'[d], steady'[d])
  <2>1. call'[d] = call[d] /\ CallTyped(call[d]) /\ Unasked(call[d], steady[d])
    BY <1>1 DEF RequestsInv
  <2>2. call[d].pc = "asking" => steady'[d] \subseteq steady[d]
    BY <1>2, <2>1 DEF StillSteady
  <2>3. call[d].pc = "failed" => steady'[d] = steady[d]
    BY <1>2, <2>1 DEF StillSteady
  <2>4. QED
    BY <2>1, <2>2, <2>3 DEF Unasked
<1>4. CallTyped(call'[c]) /\ Unasked(call'[c], steady'[c])
  BY <1>1, <1>2
<1>5. NoManager' = NoManager /\ Database' = Database
  BY DEF NoManager, Database
<1>6. QED
  BY <1>1, <1>3, <1>4, <1>5 DEF RequestsInv, CallTyped, Unasked

\* A server that is asked in vain could not have answered all along.
LEMMA AskKeeps ==
  ASSUME RequestsInv, NEW c \in Client, Ask(c), Noted PROVE RequestsInv'
<1> DEFINE now == call[c]
<1>1. now \in Request /\ now.pc = "asking" /\ steady[c] \subseteq Range(now.left)
  BY DEF Ask, RequestsInv, CallTyped, Unasked, Request, Connecting
<1>2. UNCHANGED <<up, engines, initialized, activeEngine, manager>>
  BY DEF Ask
<1> HIDE DEF now
<1>3. ASSUME now.left = <<>>, Do(c, [now EXCEPT !.pc = "failed"]) PROVE RequestsInv'
  <2> DEFINE then == [now EXCEPT !.pc = "failed"]
  <2>1. then \in Request /\ then.pc = "failed"
    BY <1>1 DEF Request
  <2>2. steady[c] = {}
    BY <1>1, <1>3 DEF Range
  <2>3. call'[c] = then
    BY <1>3 DEF Do, RequestsInv
  <2>4. StillSteady(c) = {}
    BY <2>1, <2>2, <2>3 DEF StillSteady
  <2>5. CallTyped(then) /\ Unasked(then, StillSteady(c))
    BY <2>1, <2>4 DEF CallTyped, Unasked
  <2> HIDE DEF then
  <2>6. Do(c, then)
    BY <1>3 DEF then
  <2>7. QED
    BY <1>2, <2>5, <2>6, OneRequestMoves DEF RequestsInv
<1>4. ASSUME Do(c, [now EXCEPT !.pc = "answered"]) PROVE RequestsInv'
  <2> DEFINE then == [now EXCEPT !.pc = "answered"]
  <2>1. then \in Request /\ then.pc = "answered"
    BY <1>1 DEF Request
  <2>2. CallTyped(then) /\ Unasked(then, StillSteady(c))
    BY <2>1 DEF CallTyped, Unasked
  <2> HIDE DEF then
  <2>3. Do(c, then)
    BY <1>4 DEF then
  <2>4. QED
    BY <1>2, <2>2, <2>3, OneRequestMoves DEF RequestsInv
<1>5. ASSUME now.left # <<>>, MayFail(now.what, Head(now.left)), Do(c, [now EXCEPT !.left = Tail(@)])
      PROVE  RequestsInv'
  <2> DEFINE then == [now EXCEPT !.left = Tail(@)]
             s == Head(now.left)
  <2>1. /\ now.left \in Seq(Servers) /\ s \in Servers /\ Tail(now.left) \in Seq(Servers)
        /\ Range(now.left) \subseteq {s} \cup Range(Tail(now.left))
    BY <1>1, <1>5, HeadAndTail DEF Request
  <2>2. /\ then \in Request /\ then.pc = "asking" /\ then.left = Tail(now.left)
        /\ then.what = now.what
    BY <1>1, <2>1 DEF Request
  <2>3. call'[c] = then /\ \A d \in Client \ {c} : call'[d] = call[d]
    BY <1>5 DEF Do, RequestsInv
  <2> HIDE DEF then
  <2>4. StillSteady(c) = steady[c] \cap CanAnswer(now.what)
    BY <1>1, <2>2, <2>3 DEF StillSteady, now
  <2>5. s \notin CanAnswer(now.what)
    <3>1. CASE ~MayAnswer(now.what, s)
      BY <1>2, <3>1 DEF MayAnswer, CanAnswer, Real
    <3>2. CASE now.what = "inference" /\ Closing
      <4>1. PICK d \in Client : call[d].pc = "closing"
        BY <3>2 DEF Closing
      <4>2. d # c
        BY <1>1, <4>1 DEF now
      <4>3. call'[d].pc = "closing"
        BY <2>3, <4>1, <4>2
      <4>4. Closing'
        BY <4>3 DEF Closing
      <4>5. QED
        BY <3>2, <4>4 DEF CanAnswer
    <3>3. QED
      BY <1>5, <3>1, <3>2 DEF MayFail
  <2>6. StillSteady(c) \subseteq Range(then.left)
    BY <1>1, <2>1, <2>2, <2>4, <2>5
  <2>7. CallTyped(then) /\ Unasked(then, StillSteady(c))
    BY <2>2, <2>6 DEF CallTyped, Unasked
  <2>8. Do(c, then)
    BY <1>5 DEF then
  <2>9. QED
    BY <1>2, <2>7, <2>8, OneRequestMoves DEF RequestsInv
<1>6. QED
  BY <1>3, <1>4, <1>5 DEF Ask, now

\* A request that is sent is for servers it is going to ask.
LEMMA SendingKeeps ==
  ASSUME RequestsInv, NEW c \in Client, NEW now, Do(c, now), Noted, now \in Request,
         call[c].pc # "asking", now.pc \in {"asking", "failed"},
         now.pc = "asking" => now.of \subseteq Range(now.left), manager' = manager
  PROVE  RequestsInv'
<1>1. call'[c] = now
  BY DEF Do, RequestsInv
<1>2. Unasked(now, StillSteady(c))
  <2>1. now.pc = "asking" => StillSteady(c) \subseteq now.of
    BY <1>1 DEF StillSteady
  <2>2. now.pc = "failed" => StillSteady(c) = {}
    BY <1>1 DEF StillSteady, RequestsInv, Unasked
  <2>3. QED
    BY <2>1, <2>2 DEF Unasked
<1>3. CallTyped(now)
  BY DEF CallTyped
<1>4. QED
  BY <1>2, <1>3, OneRequestMoves DEF RequestsInv

\* What is under way when nothing is asked needs nothing of the history.
LEMMA OtherwiseKeeps ==
  ASSUME RequestsInv, NEW c \in Client, NEW now, Do(c, now), Noted, CallTyped(now),
         now.pc \notin {"asking", "failed"}, manager' = NoManager \/ manager' \in Seq(Database)
  PROVE  RequestsInv'
<1>1. Unasked(now, StillSteady(c))
  BY DEF Unasked
<1>2. QED
  BY <1>1, OneRequestMoves

\* A step that starts or ends no request takes servers from the history at most.
LEMMA NobodyMoves ==
  ASSUME RequestsInv, UNCHANGED <<call, manager>>, Noted PROVE RequestsInv'
<1>1. ASSUME NEW d \in Client PROVE CallTyped(call'[d]) /\ Unasked(call'[d], steady'[d])
  <2>1. call'[d] = call[d] /\ CallTyped(call[d]) /\ Unasked(call[d], steady[d])
    BY DEF RequestsInv
  <2>2. call[d].pc = "asking" => steady'[d] \subseteq steady[d]
    BY <2>1 DEF StillSteady, Noted
  <2>3. call[d].pc = "failed" => steady'[d] = steady[d]
    BY <2>1 DEF StillSteady, Noted
  <2>4. QED
    BY <2>1, <2>2, <2>3 DEF Unasked
<1>2. NoManager' = NoManager /\ Database' = Database
  BY DEF NoManager, Database
<1>3. QED
  BY <1>1, <1>2 DEF RequestsInv, CallTyped, Unasked

\* Connecting goes from one database to the next; the manager has those that were up.
LEMMA ConnectKeeps ==
  ASSUME RequestsInv, NEW c \in Client, ConnectBackend(c), Noted PROVE RequestsInv'
<1> DEFINE now == call[c]
<1>1. now \in Connecting
  BY DEF ConnectBackend, RequestsInv, CallTyped, Request
<1> HIDE DEF now
<1>2. CASE now.left = <<>>
  <2>1. manager' = now.got /\ Do(c, Idle)
    BY <1>2 DEF ConnectBackend, now
  <2>2. CallTyped(Idle) /\ Idle.pc = "idle"
    BY DEF CallTyped, Idle
  <2>3. manager' \in Seq(Database)
    BY <1>1, <2>1 DEF Connecting
  <2>4. QED
    BY <2>1, <2>2, <2>3, OtherwiseKeeps
<1>3. CASE now.left # <<>>
  <2> DEFINE got == IF Head(now.left) \in up THEN Append(now.got, Head(now.left)) ELSE now.got
             then == [now EXCEPT !.left = Tail(@), !.got = got]
  <2>1. Do(c, then) /\ manager' = manager
    BY <1>3 DEF ConnectBackend, now
  <2>2. Head(now.left) \in Database /\ Tail(now.left) \in Seq(Database) /\ now.got \in Seq(Database)
    BY <1>1, <1>3, HeadTailProperties DEF Connecting
  <2>3. got \in Seq(Database)
    BY <2>2, AppendProperties
  <2> HIDE DEF got
  <2>4. then \in Connecting /\ then.pc = "connecting"
    BY <1>1, <2>2, <2>3 DEF Connecting
  <2> HIDE DEF then
  <2>5. CallTyped(then)
    BY <2>4 DEF CallTyped
  <2>6. QED
    BY <2>1, <2>4, <2>5, OtherwiseKeeps DEF RequestsInv
<1>4. QED
  BY <1>2, <1>3

\* Requests that are sent to engines and to databases.
LEMMA RequestsAreSent ==
  ASSUME RequestsInv, activeEngine \in Engine, Noted, NEW c \in Client
  PROVE  /\ \A named \in {{}} \cup {{e} : e \in Engine} : RouteInfer(c, named) => RequestsInv'
         /\ \A target \in Database : RouteSearch(c, target) => RequestsInv'
         /\ \A asked \in {manager} \cup {<<b>> : b \in Database} :
              HybridSearch(c, asked) => RequestsInv'
         /\ SearchOn(c) => RequestsInv'
<1>1. ASSUME NEW named \in {{}} \cup {{e} : e \in Engine}, RouteInfer(c, named) PROVE RequestsInv'
  <2> DEFINE of == IF named # {} /\ named \subseteq DOMAIN engines THEN named ELSE Range(FallbackChain)
             left == ResolveChain(named)
             now == Asking(left, of, "inference", NoManager, <<>>)
  <2>1. left \in Seq(Servers) /\ of \subseteq Range(left) /\ of \in SUBSET Servers
    BY ChainIsComplete
  <2>2. Do(c, now) /\ call[c].pc # "asking" /\ manager' = manager
    BY <1>1 DEF RouteInfer, AtRest
  <2> HIDE DEF of, left
  <2>3. NoManager \in Seq(Database \cup {"none"}) /\ <<>> \in Seq(Database)
    BY OneName DEF NoManager
  <2>4. now \in Request /\ now.pc = "asking" /\ now.of = of /\ now.left = left
    BY <2>1, <2>3 DEF Asking, Request
  <2> HIDE DEF now
  <2>5. QED
    BY <2>1, <2>2, <2>4, SendingKeeps
<1>2. ASSUME NEW target, NEW db \in Seq(Database), NEW then \in Seq(Database),
             Do(c, SearchFor(target, db, then)), call[c].pc # "asking", manager' = manager
      PROVE  RequestsInv'
  <2> DEFINE now == SearchFor(target, db, then)
  <2>1. /\ now \in Request /\ now.pc \in {"asking", "failed"}
        /\ now.pc = "asking" => now.of \subseteq Range(now.left)
    BY SearchIsTyped
  <2>2. Do(c, now)
    BY <1>2
  <2> HIDE DEF now
  <2>3. QED
    BY <1>2, <2>1, <2>2, SendingKeeps
<1>3. ASSUME NEW target \in Database, RouteSearch(c, target) PROVE RequestsInv'
  <2>1. /\ Do(c, SearchFor(target, manager, <<>>)) /\ call[c].pc # "asking" /\ manager' = manager
        /\ manager \in Seq(Database)
    BY <1>3 DEF RouteSearch, AtRest, RequestsInv
  <2>2. <<>> \in Seq(Database)
    OBVIOUS
  <2>3. QED
    BY <1>2, <2>1, <2>2
<1>4. ASSUME NEW asked \in {manager} \cup {<<b>> : b \in Database}, HybridSearch(c, asked)
      PROVE  RequestsInv'
  <2>1. /\ Do(c, SearchFor(Head(asked), manager, Tail(asked))) /\ manager' = manager
        /\ call[c].pc # "asking" /\ manager \in Seq(Database) /\ asked # <<>>
    BY <1>4 DEF HybridSearch, AtRest, RequestsInv
  <2>2. asked \in Seq(Database)
    <3>1. \A b \in Database : <<b>> \in Seq(Database)
      OBVIOUS
    <3>2. QED
      BY <2>1, <3>1
  <2>3. Tail(asked) \in Seq(Database)
    BY <2>1, <2>2, HeadTailProperties
  <2>4. QED
    BY <1>2, <2>1, <2>3
<1>5. ASSUME SearchOn(c) PROVE RequestsInv'
  <2> DEFINE then == call[c].then
  <2>1. /\ Do(c, SearchFor(Head(then), call[c].db, Tail(then))) /\ manager' = manager
        /\ call[c].pc \in {"answered", "failed"} /\ then # <<>>
    BY <1>5 DEF SearchOn
  <2>2. call[c] \in Request
    BY <2>1 DEF RequestsInv, CallTyped, Connecting
  <2>3. call[c].db \in Seq(Database) /\ then \in Seq(Database)
    BY <2>1, <2>2 DEF Request
  <2>4. Tail(then) \in Seq(Database)
    BY <2>1, <2>3, HeadTailProperties
  <2>5. call[c].pc # "asking"
    BY <2>1
  <2>6. QED
    BY <1>2, <2>1, <2>3, <2>4, <2>5
<1>6. QED
  BY <1>1, <1>3, <1>4, <1>5

\* The rest of the types: the servers, what is registered and which engine is active.
RegistryTyped ==
  /\ up \subseteq Servers
  /\ DOMAIN engines \subseteq Engine /\ engines \in [DOMAIN engines -> {"real", "stub"}]
  /\ initialized \in BOOLEAN /\ activeEngine \in Engine
  /\ steady \in [Client -> SUBSET Servers]

\* A step leaves these as they should be.
LEMMA RegistryKept ==
  ASSUME RegistryTyped, RouterStep \/ SearchStep
  PROVE  /\ up' \subseteq Servers
         /\ DOMAIN engines' \subseteq Engine /\ engines' \in [DOMAIN engines' -> {"real", "stub"}]
         /\ initialized' \in BOOLEAN /\ activeEngine' \in Engine
<1> DEFINE Kept == /\ up' \subseteq Servers
                   /\ DOMAIN engines' \subseteq Engine
                   /\ engines' \in [DOMAIN engines' -> {"real", "stub"}]
                   /\ initialized' \in BOOLEAN /\ activeEngine' \in Engine
<1> USE DEF RegistryTyped
<1>1. ASSUME NEW s \in Servers, ServerChanges(s) PROVE Kept
  BY <1>1 DEF ServerChanges
<1>2. ASSUME NEW e \in Engine, RegisterEngine(e) PROVE Kept
  BY <1>2 DEF RegisterEngine
<1>3. ASSUME NEW e \in Engine, SwitchEngine(e) PROVE Kept
  BY <1>3 DEF SwitchEngine
<1>4. ASSUME NEW c \in Client, Initialized(c) PROVE Kept
  BY <1>4, EnginesAssumption DEF Initialized, Stubs
<1>5. ASSUME NEW c \in Client, ShutDown(c) PROVE Kept
  BY <1>5 DEF ShutDown
<1>6. ASSUME UNCHANGED <<up, engines, initialized, activeEngine>> PROVE Kept
  BY <1>6
<1>7. Engine \subseteq Servers /\ Range(Backend) \subseteq Servers
  BY DEF Servers
<1> HIDE DEF Kept
<1>8. Kept
  BY <1>1, <1>2, <1>3, <1>4, <1>5, <1>6, <1>7
     DEF RouterStep, SearchStep, Initialize, Ask, Shutdown, RouteInfer, GetVectorDb, ConnectBackend,
         SearchOn, HybridSearch, RouteSearch
<1>9. QED
  BY <1>8 DEF Kept

\* Every step keeps the invariant and the types.
LEMMA RequestsStep ==
  ASSUME RequestsInv, RegistryTyped, [EnginesNext]_engineVars PROVE RequestsInv' /\ RegistryTyped'
<1>1. CASE UNCHANGED engineVars
  BY <1>1 DEF engineVars, RequestsInv, RegistryTyped, CallTyped, Unasked
<1>2. CASE EnginesNext
  <2>1. Noted /\ (RouterStep \/ SearchStep)
    BY <1>2 DEF EnginesNext, RouterNext, SearchNext
  <2>2. RegistryTyped'
    <3>1. \A c \in Client : StillSteady(c) \subseteq Servers
      <4> TAKE c \in Client
      <4>1. up' \subseteq Servers
        BY <2>1, RegistryKept
      <4>2. CanAnswer(call'[c].what) \subseteq Servers
        BY <4>1 DEF CanAnswer
      <4>3. QED
        BY <4>2 DEF StillSteady, RegistryTyped
    <3>2. steady' \in [Client -> SUBSET Servers]
      BY <2>1, <3>1 DEF Noted
    <3>3. QED
      BY <2>1, <3>2, RegistryKept DEF RegistryTyped
  <2>3. RequestsInv'
    <3>1. ASSUME NEW c \in Client, Ask(c) PROVE RequestsInv'
      BY <2>1, <3>1, AskKeeps
    <3>2. ASSUME NEW c \in Client, ConnectBackend(c) PROVE RequestsInv'
      BY <2>1, <3>2, ConnectKeeps
    <3>3. ASSUME NEW c \in Client, Initialize(c) PROVE RequestsInv'
      <4> DEFINE now == [pc |-> "checking", then |-> <<>>]
      <4>1. CallTyped(now) /\ now.pc = "checking" /\ Do(c, now) /\ manager' = manager
        BY <3>3 DEF CallTyped, Initialize
      <4> HIDE DEF now
      <4>2. QED
        BY <2>1, <4>1, OtherwiseKeeps DEF RequestsInv
    <3>4. ASSUME NEW c \in Client, Initialized(c) \/ ShutDown(c) PROVE RequestsInv'
      <4>1. CallTyped(Idle) /\ Idle.pc = "idle" /\ Do(c, Idle) /\ manager' = manager
        BY <3>4 DEF CallTyped, Initialized, ShutDown, Idle
      <4>2. QED
        BY <2>1, <4>1, OtherwiseKeeps DEF RequestsInv
    <3>5. ASSUME NEW c \in Client, Shutdown(c) PROVE RequestsInv'
      <4> DEFINE now == [pc |-> "closing", size |-> Cardinality(DOMAIN engines), then |-> <<>>]
      <4>1. CallTyped(now) /\ now.pc = "closing" /\ Do(c, now) /\ manager' = manager
        BY <3>5 DEF CallTyped, Shutdown
      <4> HIDE DEF now
      <4>2. QED
        BY <2>1, <4>1, OtherwiseKeeps DEF RequestsInv
    <3>6. ASSUME NEW c \in Client, GetVectorDb(c) PROVE RequestsInv'
      <4> DEFINE now == [pc |-> "connecting", left |-> Backend, got |-> <<>>, then |-> <<>>]
      <4>1. Do(c, now) /\ manager' = manager
        BY <3>6 DEF GetVectorDb
      <4>2. Backend \in Seq(Database) /\ <<>> \in Seq(Database)
        BY EnginesAssumption DEF Database, Range
      <4>3. now \in Connecting /\ now.pc = "connecting"
        BY <4>2 DEF Connecting
      <4> HIDE DEF now
      <4>4. CallTyped(now)
        BY <4>3 DEF CallTyped
      <4>5. QED
        BY <2>1, <4>1, <4>3, <4>4, OtherwiseKeeps DEF RequestsInv
    <3>7. ASSUME UNCHANGED <<call, manager>> PROVE RequestsInv'
      BY <2>1, <3>7, NobodyMoves
    <3>8. activeEngine \in Engine
      BY DEF RegistryTyped
    <3>9. QED
      BY <2>1, <3>1, <3>2, <3>3, <3>4, <3>5, <3>6, <3>7, <3>8, RequestsAreSent
         DEF RouterStep, SearchStep, ServerChanges, RegisterEngine, SwitchEngine, Database
  <2>4. QED
    BY <2>2, <2>3
<1>3. QED
  BY <1>1, <1>2

\* At the start nobody asks.
LEMMA RequestsInit == EnginesInit => RequestsInv /\ RegistryTyped
<1> SUFFICES ASSUME EnginesInit PROVE RequestsInv /\ RegistryTyped
  OBVIOUS
<1>1. \A c \in Client : call[c] = Idle /\ steady[c] = {}
  BY DEF EnginesInit
<1>2. CallTyped(Idle) /\ Unasked(Idle, {})
  BY DEF CallTyped, Unasked, Idle
<1>3. RequestsInv
  BY <1>1, <1>2 DEF EnginesInit, RequestsInv
<1>4. RegistryTyped
  BY EnginesAssumption DEF EnginesInit, RegistryTyped
<1>5. QED
  BY <1>3, <1>4

\* For any number of requests, engines and databases: whoever is told that all have failed
\* asked for what none could have answered all along, whatever else went on.
THEOREM NobodyFailsInVain == EnginesSpec => []FailsOnlyIfAll
<1>1. RequestsInv => FailsOnlyIfAll
  BY DEF RequestsInv, Unasked, FailsOnlyIfAll
<1>2. QED
  BY RequestsInit, RequestsStep, <1>1, PTL DEF EnginesSpec

\* The types of the engines follow.
LEMMA EnginesTyped == RequestsInv /\ RegistryTyped => EnginesTypeOK
BY DEF RequestsInv, RegistryTyped, EnginesTypeOK, CallTyped, Request, Connecting, Database

-----------------------------------------------------------------------------
(* Gossip *)

\* What waits in a buffer or is under way has no fewer hops than none.
Parcel == [id : Rumour, ttl : 0..Hops]
Most == Fanout * BatchSize
Target == Mate \X (1..BatchSize)

\* A batch's hops sink by one with each of its sends, of which there are so many at most.
BatchesTyped ==
  \A n \in Mate :
    /\ targets[n] = <<>> => batch[n] = <<>>
    /\ \A k \in 1..Len(targets[n]) : targets[n][k][2] \in 1..Len(batch[n])
    /\ \A j \in 1..Len(batch[n]) : batch[n][j].ttl >= Len(targets[n]) - Most

\* Who has not forgotten an id has buffered it when it heard of it.
BufferedOnce ==
  \A n \in Mate, m \in Rumour :
    m \notin forgot[n] => buffered[n][m] <= (IF m \in seen[n] THEN 1 ELSE 0)

GossipTyped ==
  /\ buffer \in [Mate -> Seq(Parcel)] /\ batch \in [Mate -> Seq(Message)]
  /\ seen \in [Mate -> SUBSET Rumour] /\ targets \in [Mate -> Seq(Target)]
  /\ \A p \in net : p.to \in Mate /\ p.msg \in Parcel /\ p.no \in Nat
  /\ origins \in [Rumour -> Nat] /\ sent \in [Rumour -> Nat]
  /\ buffered \in [Mate -> [Rumour -> Nat]] /\ forgot \in [Mate -> SUBSET Rumour]

\* A parcel is a message.
LEMMA ParcelsAreMessages ==
  Most \in Nat /\ Message = [id : Rumour, ttl : -Most..Hops] /\ Parcel \subseteq Message
<1>1. Most \in Nat /\ -Fanout * BatchSize = -Most
  BY GossipAssumption DEF Most
<1>2. 0..Hops \subseteq -Most..Hops
  BY <1>1, GossipAssumption
<1>3. QED
  BY <1>1, <1>2 DEF Message, Parcel

\* A round: the batch leaves the buffer, and each of its messages is to be sent to some.
Round(n, size, now, rest, sends) ==
  /\ size \in 1..BatchSize /\ size <= Len(buffer[n])
  /\ now \in Seq(Parcel) /\ Len(now) = size /\ \A j \in 1..size : now[j] = buffer[n][j]
  /\ rest \in Seq(Parcel) /\ Len(rest) = Len(buffer[n]) - size
  /\ \A j \in 1..Len(rest) : rest[j] = buffer[n][j + size]
  /\ sends \in Seq(Target) /\ sends # <<>> /\ Len(sends) <= Most
  /\ \A k \in 1..Len(sends) : sends[k][2] \in 1..size
  /\ batch' = [batch EXCEPT ![n] = now] /\ buffer' = [buffer EXCEPT ![n] = rest]
  /\ targets' = [targets EXCEPT ![n] = sends]

\* So it is when a batch is taken.
LEMMA BatchesAreRounds ==
  ASSUME GossipTyped, NEW n \in Mate, TakeBatch(n)
  PROVE  \E size, now, rest, sends : Round(n, size, now, rest, sends)
<1> DEFINE size == IF Len(buffer[n]) < BatchSize THEN Len(buffer[n]) ELSE BatchSize
           now == SubSeq(buffer[n], 1, size)
           rest == SubSeq(buffer[n], size + 1, Len(buffer[n]))
<1>1. /\ buffer[n] \in Seq(Parcel) /\ buffer[n] # <<>> /\ Len(buffer[n]) \in Nat \ {0}
      /\ \A i \in 1..Len(buffer[n]) : buffer[n][i] \in Parcel
  BY EmptySeq DEF GossipTyped, TakeBatch
<1>2. size \in 1..BatchSize /\ size <= Len(buffer[n]) /\ size \in Nat \ {0}
  BY <1>1, GossipAssumption
<1>3. PICK others \in PeersOf(n), many \in 1..Fanout : \E sample \in [1..many -> others] :
        targets' = [targets EXCEPT ![n] =
          [k \in 1..(many * size) |-> <<sample[1 + ((k - 1) \div size)], 1 + ((k - 1) % size)>>]]
  BY DEF TakeBatch
<1>4. PICK sample \in [1..many -> others] :
        targets' = [targets EXCEPT ![n] =
          [k \in 1..(many * size) |-> <<sample[1 + ((k - 1) \div size)], 1 + ((k - 1) % size)>>]]
  BY <1>3
<1> DEFINE sends == [k \in 1..(many * size) |->
                       <<sample[1 + ((k - 1) \div size)], 1 + ((k - 1) % size)>>]
<1>5. /\ batch' = [batch EXCEPT ![n] = now] /\ buffer' = [buffer EXCEPT ![n] = rest]
      /\ targets' = [targets EXCEPT ![n] = sends]
  BY <1>1, <1>4 DEF TakeBatch, GossipTyped
<1> HIDE DEF size
<1>6. /\ now \in Seq(Parcel) /\ Len(now) = size /\ \A j \in 1..size : now[j] = buffer[n][j]
  <2>1. \A i \in 1..size : buffer[n][i] \in Parcel
    BY <1>1, <1>2
  <2>2. QED
    BY <1>2, <2>1, SubSeqProperties
<1>7. /\ rest \in Seq(Parcel) /\ Len(rest) = Len(buffer[n]) - size
      /\ \A j \in 1..Len(rest) : rest[j] = buffer[n][j + size]
  <2>1. \A i \in (size + 1)..Len(buffer[n]) : buffer[n][i] \in Parcel
    BY <1>1, <1>2
  <2>2. size + 1 \in Int /\ Len(buffer[n]) \in Int
    BY <1>1, <1>2
  <2>3. /\ rest \in Seq(Parcel)
        /\ Len(rest) = IF size + 1 <= Len(buffer[n]) THEN Len(buffer[n]) - (size + 1) + 1 ELSE 0
        /\ \A i \in 1..(Len(buffer[n]) - (size + 1) + 1) : rest[i] = buffer[n][(size + 1) + i - 1]
    BY <2>1, <2>2, SubSeqProperties
  <2> HIDE DEF rest
  <2>4. Len(rest) = Len(buffer[n]) - size
    BY <1>1, <1>2, <2>3
  <2>5. ASSUME NEW j \in 1..Len(rest) PROVE rest[j] = buffer[n][j + size]
    <3>1. j \in 1..(Len(buffer[n]) - (size + 1) + 1) /\ (size + 1) + j - 1 = j + size
      BY <1>1, <1>2, <2>4
    <3>2. QED
      BY <2>3, <3>1
  <2>6. QED
    BY <2>3, <2>4, <2>5
<1>8. many \in Nat \ {0} /\ many <= Fanout /\ many * size \in Nat \ {0} /\ many * size <= Most
  <2>1. many \in Nat \ {0} /\ many <= Fanout /\ Fanout \in Nat /\ BatchSize \in Nat
    BY GossipAssumption
  <2>2. many * size <= Fanout * size
    BY <1>2, <2>1
  <2>3. Fanout * size <= Fanout * BatchSize
    BY <1>2, <2>1
  <2>4. many * size \in Nat \ {0}
    BY <1>2, <2>1
  <2>5. QED
    BY <1>2, <2>1, <2>2, <2>3, <2>4 DEF Most
<1>9. others \subseteq Mate
  BY GossipAssumption DEF PeersOf
<1>10. ASSUME NEW k \in 1..(many * size)
       PROVE  sends[k] \in Target /\ sends[k][2] \in 1..size
  <2> DEFINE q == (k - 1) \div size
             r == (k - 1) % size
  <2>1. q \in Nat /\ r \in 0..(size - 1) /\ k - 1 = size * q + r
    <3>1. k - 1 \in Nat
      BY <1>8
    <3>2. QED
      BY <1>2, <3>1, Divided
  <2> HIDE DEF q, r
  <2>2. q < many
    <3> SUFFICES ASSUME q >= many PROVE FALSE
      BY <1>8, <2>1
    <3>1. size * q >= size * many
      BY <1>2, <1>8, <2>1
    <3>2. size * many = many * size /\ k - 1 >= size * q
      BY <1>2, <1>8, <2>1
    <3>3. k - 1 < many * size
      BY <1>8
    <3>4. size * q \in Nat
      BY <1>2, <2>1
    <3>5. QED
      BY <1>8, <3>1, <3>2, <3>3, <3>4
  <2>3. 1 + q \in 1..many /\ 1 + r \in 1..size /\ 1 + r \in 1..BatchSize
    BY <1>2, <1>8, <2>1, <2>2, GossipAssumption
  <2>4. sample[1 + q] \in Mate
    BY <1>9, <2>3
  <2>5. sends[k] = <<sample[1 + q], 1 + r>>
    BY DEF q, r
  <2>6. QED
    BY <2>3, <2>4, <2>5 DEF Target
<1> HIDE DEF now, rest
<1>11. sends \in [1..(many * size) -> Target]
  <2> DEFINE e(k) == <<sample[1 + ((k - 1) \div size)], 1 + ((k - 1) % size)>>
  <2>1. \A k \in 1..(many * size) : e(k) \in Target
    BY <1>10
  <2> HIDE DEF e
  <2>2. [k \in 1..(many * size) |-> e(k)] \in [1..(many * size) -> Target]
    BY <2>1
  <2>3. QED
    BY <2>2 DEF e
<1>12. \A k \in 1..(many * size) : sends[k][2] \in 1..size
  BY <1>10
<1> HIDE DEF sends
<1>13. sends \in Seq(Target) /\ Len(sends) = many * size
  BY <1>8, <1>11
<1>14. sends # <<>>
  BY <1>8, <1>13, EmptySeq
<1>15. Round(n, size, now, rest, sends)
  BY <1>2, <1>5, <1>6, <1>7, <1>8, <1>12, <1>13, <1>14 DEF Round
<1>16. QED
  BY <1>15

\* A message that has a hop less.
Spent(msg) == [msg EXCEPT !.ttl = @ - 1]

\* A send: the message loses a hop, and the batch is dropped after its last send.
Sending(n, i, now) ==
  /\ i \in 1..Len(batch[n]) /\ batch' = [batch EXCEPT ![n] = now]
  /\ targets[n] # <<>> /\ targets' = [targets EXCEPT ![n] = Tail(targets[n])]
  /\ Head(targets[n])[1] \in Mate /\ Spent(batch[n][i]) \in Message
  /\ \/ Len(targets[n]) = 1 /\ now = <<>>
     \/ /\ Len(targets[n]) > 1 /\ now \in Seq(Message) /\ Len(now) = Len(batch[n])
        /\ \A j \in 1..Len(now) : now[j] = IF j = i THEN Spent(batch[n][i]) ELSE batch[n][j]
  /\ LET msg == Spent(batch[n][i]) IN
     IF msg.ttl >= 0
     THEN /\ sent' = [sent EXCEPT ![msg.id] = @ + 1]
          /\ net' = net \cup {[to |-> Head(targets[n])[1], msg |-> msg, no |-> sent[msg.id]]}
     ELSE UNCHANGED <<sent, net>>
  /\ UNCHANGED <<buffer, seen, origins, buffered, forgot>>

\* So it is with the next of the sends.
LEMMA SendsAreSuch ==
  ASSUME GossipTyped, BatchesTyped, NEW n \in Mate, SendNext(n)
  PROVE  \E i, now : Sending(n, i, now)
<1> DEFINE to == Head(targets[n])[1]
           i == Head(targets[n])[2]
           msg == Spent(batch[n][i])
           now == IF Len(targets[n]) = 1 THEN <<>> ELSE [batch[n] EXCEPT ![i] = msg]
<1>1. targets[n] # <<>> /\ targets[n] \in Seq(Target) /\ batch[n] \in Seq(Message)
  BY DEF SendNext, GossipTyped
<1>2. Len(targets[n]) \in Nat \ {0} /\ Head(targets[n]) = targets[n][1] /\ targets[n][1] \in Target
  BY <1>1, EmptySeq
<1>3. to \in Mate /\ i \in 1..Len(batch[n]) /\ Len(batch[n]) \in Nat
  BY <1>1, <1>2 DEF BatchesTyped, Target
<1>4. batch[n][i] \in Message
  BY <1>1, <1>3, ElementOfSeq
<1>5. batch[n][i].ttl >= Len(targets[n]) - Most
  BY <1>3 DEF BatchesTyped
<1>6. msg \in Message
  <2>1. batch[n][i].ttl \in -Most..Hops /\ Most \in Nat /\ Hops \in Nat
    BY <1>4, ParcelsAreMessages, GossipAssumption
  <2>2. batch[n][i].ttl - 1 \in -Most..Hops
    BY <1>2, <1>5, <2>1
  <2>3. msg = [id |-> batch[n][i].id, ttl |-> batch[n][i].ttl - 1]
    BY <1>4, ParcelsAreMessages DEF Spent
  <2>4. QED
    BY <1>4, <2>2, <2>3, ParcelsAreMessages
<1>7. /\ batch' = [batch EXCEPT ![n] = now] /\ targets' = [targets EXCEPT ![n] = Tail(targets[n])]
      /\ IF msg.ttl >= 0
         THEN /\ sent' = [sent EXCEPT ![msg.id] = @ + 1]
              /\ net' = net \cup {[to |-> to, msg |-> msg, no |-> sent[msg.id]]}
         ELSE UNCHANGED <<sent, net>>
      /\ UNCHANGED <<buffer, seen, origins, buffered, forgot>>
  BY DEF SendNext, Spent, GossipTyped
<1> HIDE DEF i, msg
<1>8. \/ Len(targets[n]) = 1 /\ now = <<>>
      \/ /\ Len(targets[n]) > 1 /\ now \in Seq(Message) /\ Len(now) = Len(batch[n])
         /\ \A j \in 1..Len(now) : now[j] = IF j = i THEN msg ELSE batch[n][j]
  <2>1. CASE Len(targets[n]) = 1
    BY <2>1
  <2>2. CASE Len(targets[n]) # 1
    <3>1. now = [batch[n] EXCEPT ![i] = msg]
      BY <2>2
    <3>2. Len(targets[n]) > 1
      <4>1. \A k \in Nat \ {0} : k # 1 => k > 1
        OBVIOUS
      <4>2. QED
        BY <1>2, <2>2, <4>1
    <3> HIDE DEF now
    <3>3. QED
      BY <1>1, <1>3, <1>6, <3>1, <3>2, ExceptSeq
  <2>3. QED
    BY <2>1, <2>2
<1> HIDE DEF now
<1>9. Sending(n, i, now)
  BY <1>1, <1>3, <1>6, <1>7, <1>8 DEF Sending, msg
<1>10. QED
  BY <1>9

\* What is appended to a sequence is at its end.
LEMMA AppendedIsLast ==
  ASSUME NEW S, NEW s \in Seq(S), NEW e \in S
  PROVE  /\ Append(s, e) \in Seq(S) /\ Len(Append(s, e)) = Len(s) + 1 /\ Len(s) \in Nat
         /\ \A i \in 1..Len(s) : Append(s, e)[i] = s[i]
         /\ Append(s, e)[Len(s) + 1] = e
OBVIOUS

\* What Buffer does: the parcel is the last in the buffer.
LEMMA BufferIsTyped ==
  ASSUME GossipTyped, NEW n \in Mate, NEW msg \in Parcel, Buffer(n, msg)
  PROVE  /\ buffer' = [buffer EXCEPT ![n] = Append(buffer[n], msg)]
         /\ buffer' \in [Mate -> Seq(Parcel)]
         /\ buffered' \in [Mate -> [Rumour -> Nat]]
         /\ \A a \in Mate, m \in Rumour :
              buffered'[a][m] = IF a = n /\ m = msg.id THEN buffered[a][m] + 1 ELSE buffered[a][m]
<1>1. msg.id \in Rumour
  BY DEF Parcel
<1>2. Append(buffer[n], msg) \in Seq(Parcel)
  BY AppendedIsLast DEF GossipTyped
<1>3. buffer' = [buffer EXCEPT ![n] = Append(buffer[n], msg)]
  BY DEF Buffer, GossipTyped
<1>4. buffer' \in [Mate -> Seq(Parcel)]
  BY <1>2, <1>3 DEF GossipTyped
<1> DEFINE f == [buffered[n] EXCEPT ![msg.id] = @ + 1]
<1>5. f \in [Rumour -> Nat] /\ \A m \in Rumour : f[m] = IF m = msg.id THEN buffered[n][m] + 1 ELSE buffered[n][m]
  BY <1>1 DEF GossipTyped
<1>6. buffered' = [buffered EXCEPT ![n] = f]
  BY DEF Buffer, GossipTyped
<1> HIDE DEF f
<1>7. buffered' \in [Mate -> [Rumour -> Nat]]
  BY <1>5, <1>6 DEF GossipTyped
<1>8. \A a \in Mate, m \in Rumour :
        buffered'[a][m] = IF a = n /\ m = msg.id THEN buffered[a][m] + 1 ELSE buffered[a][m]
  BY <1>5, <1>6 DEF GossipTyped
<1>9. QED
  BY <1>3, <1>4, <1>7, <1>8

\* What a node hears it buffers with a hop less, if there is one left.
LEMMA HeardIsParcel ==
  ASSUME GossipTyped, NEW p \in net, p.msg.ttl > 0
  PROVE  /\ Spent(p.msg) \in Parcel /\ Spent(p.msg).id = p.msg.id
         /\ Spent(p.msg).ttl = p.msg.ttl - 1
<1>1. p.msg \in Parcel
  BY DEF GossipTyped
<1>2. QED
  BY <1>1, GossipAssumption DEF Parcel, Spent

\* What a node starts is a parcel with all the hops, and it notes that it knows of it.
LEMMA OriginateStarts ==
  ASSUME NEW n, NEW m \in Rumour, Originate(n, m)
  PROVE  /\ m \notin seen[n]
         /\ [id |-> m, ttl |-> Hops] \in Parcel /\ Buffer(n, [id |-> m, ttl |-> Hops])
         /\ \E kept \in SUBSET (seen[n] \cup {m}) :
              /\ seen' = [seen EXCEPT ![n] = kept]
              /\ forgot' = [forgot EXCEPT ![n] = @ \cup ((seen[n] \cup {m}) \ kept)]
         /\ origins' = [origins EXCEPT ![m] = @ + 1]
         /\ UNCHANGED <<batch, targets, net, sent>>
<1>1. Hops \in 0..Hops
  BY GossipAssumption
<1>2. [id |-> m, ttl |-> Hops] \in Parcel
  BY <1>1 DEF Parcel
<1>3. Buffer(n, [id |-> m, ttl |-> Hops])
  BY DEF Originate
<1>4. \E kept \in SUBSET (seen[n] \cup {m}) :
        /\ seen' = [seen EXCEPT ![n] = kept]
        /\ forgot' = [forgot EXCEPT ![n] = @ \cup ((seen[n] \cup {m}) \ kept)]
  BY DEF Originate
<1>5. m \notin seen[n] /\ origins' = [origins EXCEPT ![m] = @ + 1]
      /\ UNCHANGED <<batch, targets, net, sent>>
  BY DEF Originate
<1>6. QED
  BY <1>2, <1>3, <1>4, <1>5

\* The sequences and tables stay of their types.
LEMMA GossipTypedStep ==
  ASSUME GossipTyped, BatchesTyped, [GossipNext]_gossipVars
  PROVE  GossipTyped'
<1>1. ASSUME NEW n \in Mate, TakeBatch(n) PROVE GossipTyped'
  <2>1. PICK size, now, rest, sends : Round(n, size, now, rest, sends)
    BY <1>1, BatchesAreRounds
  <2>2. now \in Seq(Message)
    BY <2>1, SeqMonotonic, ParcelsAreMessages DEF Round
  <2>3. buffer' \in [Mate -> Seq(Parcel)] /\ batch' \in [Mate -> Seq(Message)] /\ targets' \in [Mate -> Seq(Target)]
    BY <2>1, <2>2 DEF Round, GossipTyped
  <2>4. UNCHANGED <<seen, net, origins, sent, buffered, forgot>>
    BY <1>1 DEF TakeBatch
  <2>5. QED
    BY <2>3, <2>4 DEF GossipTyped
<1>2. ASSUME NEW n \in Mate, SendNext(n) PROVE GossipTyped'
  <2>1. PICK i, now : Sending(n, i, now)
    BY <1>2, SendsAreSuch
  <2>2. now \in Seq(Message) /\ Tail(targets[n]) \in Seq(Target)
    <3>1. now \in Seq(Message)
      BY <2>1, EmptySeq DEF Sending
    <3>2. targets[n] \in Seq(Target) /\ targets[n] # <<>>
      BY <2>1 DEF Sending, GossipTyped
    <3>3. QED
      BY <3>1, <3>2, HeadTailProperties
  <2>3. batch' \in [Mate -> Seq(Message)] /\ targets' \in [Mate -> Seq(Target)]
    BY <2>1, <2>2 DEF Sending, GossipTyped
  <2> DEFINE msg == Spent(batch[n][i])
             p == [to |-> Head(targets[n])[1], msg |-> msg, no |-> sent[msg.id]]
  <2>4. msg \in Message /\ msg.id \in Rumour /\ p.to \in Mate /\ p.no \in Nat
    BY <2>1, ParcelsAreMessages DEF Sending, GossipTyped
  <2>5. msg.ttl >= 0 => msg \in Parcel
    BY <2>4, ParcelsAreMessages, GossipAssumption DEF Parcel
  <2>6. /\ IF msg.ttl >= 0 THEN sent' = [sent EXCEPT ![msg.id] = @ + 1] /\ net' = net \cup {p}
           ELSE sent' = sent /\ net' = net
        /\ UNCHANGED <<buffer, seen, origins, buffered, forgot>>
    BY <2>1 DEF Sending
  <2>7. p.msg = msg
    OBVIOUS
  <2> HIDE DEF msg, p
  <2>8. sent' \in [Rumour -> Nat]
    <3>1. CASE msg.ttl >= 0
      <4>1. sent' = [sent EXCEPT ![msg.id] = sent[msg.id] + 1] /\ sent \in [Rumour -> Nat]
        BY <2>6, <3>1 DEF GossipTyped
      <4>2. sent[msg.id] + 1 \in Nat
        BY <2>4, <4>1
      <4>3. QED
        BY <4>1, <4>2
    <3>2. CASE ~(msg.ttl >= 0)
      BY <2>6, <3>2 DEF GossipTyped
    <3>3. QED
      BY <3>1, <3>2
  <2>9. \A q \in net' : q.to \in Mate /\ q.msg \in Parcel /\ q.no \in Nat
    <3>1. CASE msg.ttl >= 0
      <4>1. net' = net \cup {p}
        BY <2>6, <3>1
      <4>3. p.msg \in Parcel
        BY <2>5, <2>7, <3>1
      <4>2. QED
        BY <2>4, <4>1, <4>3 DEF GossipTyped
    <3>2. CASE ~(msg.ttl >= 0)
      BY <2>6, <3>2 DEF GossipTyped
    <3>3. QED
      BY <3>1, <3>2
  <2>10. QED
    BY <2>3, <2>6, <2>8, <2>9 DEF GossipTyped
<1>3. ASSUME NEW n \in Mate, NEW m \in Rumour, Originate(n, m) PROVE GossipTyped'
  <2> DEFINE msg == [id |-> m, ttl |-> Hops]
  <2>1. msg \in Parcel /\ Buffer(n, msg)
    BY <1>3, OriginateStarts
  <2> HIDE DEF msg
  <2>2. /\ buffer' \in [Mate -> Seq(Parcel)] /\ buffered' \in [Mate -> [Rumour -> Nat]]
    BY <2>1, BufferIsTyped
  <2>3. PICK kept \in SUBSET (seen[n] \cup {m}) :
          /\ seen' = [seen EXCEPT ![n] = kept]
          /\ forgot' = [forgot EXCEPT ![n] = @ \cup ((seen[n] \cup {m}) \ kept)]
    BY <1>3, OriginateStarts
  <2>4. seen' \in [Mate -> SUBSET Rumour] /\ forgot' \in [Mate -> SUBSET Rumour]
    BY <2>3 DEF GossipTyped
  <2>5. origins' \in [Rumour -> Nat] /\ UNCHANGED <<batch, targets, net, sent>>
    <3>1. origins' = [origins EXCEPT ![m] = @ + 1] /\ UNCHANGED <<batch, targets, net, sent>>
      BY <1>3, OriginateStarts
    <3>2. QED
      BY <3>1 DEF GossipTyped
  <2>6. QED
    BY <2>2, <2>4, <2>5 DEF GossipTyped
<1>4. ASSUME NEW p \in net, Receive(p) PROVE GossipTyped'
  <2>1. p.to \in Mate /\ p.msg \in Parcel /\ p.msg.id \in Rumour
    BY DEF GossipTyped, Parcel
  <2>2. buffer' \in [Mate -> Seq(Parcel)] /\ buffered' \in [Mate -> [Rumour -> Nat]]
    <3>1. CASE p.msg.id \notin seen[p.to] /\ p.msg.ttl > 0
      <4>1. Buffer(p.to, Spent(p.msg))
        BY <1>4, <3>1 DEF Receive, Spent
      <4>2. QED
        BY <2>1, <3>1, <4>1, HeardIsParcel, BufferIsTyped
    <3>2. CASE ~(p.msg.id \notin seen[p.to] /\ p.msg.ttl > 0)
      BY <1>4, <3>2 DEF Receive, GossipTyped
    <3>3. QED
      BY <3>1, <3>2
  <2>3. seen' \in [Mate -> SUBSET Rumour]
    BY <1>4, <2>1 DEF Receive, GossipTyped
  <2>4. net' \subseteq net /\ UNCHANGED <<batch, targets, origins, sent, forgot>>
    BY <1>4 DEF Receive
  <2>5. QED
    BY <2>2, <2>3, <2>4 DEF GossipTyped
<1>5. ASSUME NEW p \in net, Lose(p) PROVE GossipTyped'
  BY <1>5 DEF Lose, GossipTyped
<1>6. CASE UNCHANGED gossipVars
  BY <1>6 DEF gossipVars, GossipTyped
<1>7. QED
  BY <1>1, <1>2, <1>3, <1>4, <1>5, <1>6 DEF GossipNext

\* A batch has the hops for the sends that are left, and every target is one of its messages.
LEMMA BatchesTypedStep ==
  ASSUME GossipTyped, BatchesTyped, [GossipNext]_gossipVars
  PROVE  BatchesTyped'
<1>1. ASSUME NEW n \in Mate, TakeBatch(n) PROVE BatchesTyped'
  <2>1. PICK size, now, rest, sends : Round(n, size, now, rest, sends)
    BY <1>1, BatchesAreRounds
  <2>2. /\ targets'[n] = sends /\ batch'[n] = now
        /\ \A a \in Mate \ {n} : targets'[a] = targets[a] /\ batch'[a] = batch[a]
    BY <2>1 DEF Round, GossipTyped
  <2>3. \A j \in 1..Len(now) : now[j].ttl >= Len(sends) - Most
    <3>1. Len(sends) \in Nat /\ Len(sends) <= Most /\ Most \in Nat
      BY <2>1, ParcelsAreMessages, LenProperties DEF Round
    <3>2. ASSUME NEW j \in 1..Len(now) PROVE now[j].ttl \in Nat
      <4>1. now[j] \in Parcel
        BY <2>1, ElementOfSeq DEF Round
      <4>2. QED
        BY <4>1, GossipAssumption DEF Parcel
    <3>3. QED
      BY <3>1, <3>2
  <2>4. sends # <<>> /\ \A k \in 1..Len(sends) : sends[k][2] \in 1..Len(now)
    BY <2>1 DEF Round
  <2>5. QED
    BY <2>2, <2>3, <2>4 DEF BatchesTyped
<1>2. ASSUME NEW n \in Mate, SendNext(n) PROVE BatchesTyped'
  <2>1. PICK i, now : Sending(n, i, now)
    BY <1>2, SendsAreSuch
  <2> DEFINE left == Tail(targets[n])
  <2>2. /\ targets'[n] = left /\ batch'[n] = now
        /\ \A a \in Mate \ {n} : targets'[a] = targets[a] /\ batch'[a] = batch[a]
    BY <2>1 DEF Sending, GossipTyped
  <2>3. /\ targets[n] \in Seq(Target) /\ targets[n] # <<>> /\ Len(targets[n]) \in Nat \ {0}
        /\ batch[n] \in Seq(Message) /\ Len(batch[n]) \in Nat
    BY <2>1, EmptySeq DEF Sending, GossipTyped
  <2>4. /\ left \in Seq(Target) /\ Len(left) = Len(targets[n]) - 1
        /\ \A k \in 1..Len(left) : left[k] = targets[n][k + 1]
    BY <2>3, HeadTailProperties
  <2> HIDE DEF left
  <2>5. CASE Len(targets[n]) = 1 /\ now = <<>>
    <3>1. Len(left) = 0 /\ Len(now) = 0
      BY <2>4, <2>5, EmptySeq
    <3>2. QED
      BY <2>2, <2>5, <3>1 DEF BatchesTyped
  <2>6. CASE /\ Len(targets[n]) > 1 /\ now \in Seq(Message) /\ Len(now) = Len(batch[n])
             /\ \A j \in 1..Len(now) : now[j] = IF j = i THEN Spent(batch[n][i]) ELSE batch[n][j]
    <3>1. left # <<>>
      BY <2>3, <2>4, <2>6, EmptySeq
    <3>2. \A k \in 1..Len(left) : left[k][2] \in 1..Len(now)
      <4> SUFFICES ASSUME NEW k \in 1..Len(left) PROVE left[k][2] \in 1..Len(now)
        OBVIOUS
      <4>1. k + 1 \in 1..Len(targets[n])
        BY <2>3, <2>4
      <4>2. QED
        BY <2>4, <2>6, <4>1 DEF BatchesTyped
    <3>3. \A j \in 1..Len(now) : now[j].ttl >= Len(left) - Most
      <4> SUFFICES ASSUME NEW j \in 1..Len(now) PROVE now[j].ttl >= Len(left) - Most
        OBVIOUS
      <4>1. batch[n][j] \in Message /\ batch[n][j].ttl \in Int /\ Most \in Nat
        <5>1. batch[n][j] \in Message
          BY <2>3, <2>6, ElementOfSeq
        <5>2. QED
          BY <5>1, ParcelsAreMessages
      <4>2. batch[n][j].ttl >= Len(targets[n]) - Most
        BY <2>6 DEF BatchesTyped
      <4>3. now[j].ttl \in {batch[n][j].ttl, batch[n][j].ttl - 1}
        BY <2>6, <4>1, ParcelsAreMessages DEF Spent
      <4>4. QED
        BY <2>3, <2>4, <4>1, <4>2, <4>3
    <3>4. QED
      BY <2>2, <3>1, <3>2, <3>3 DEF BatchesTyped
  <2>7. QED
    BY <2>1, <2>5, <2>6 DEF Sending
<1>3. CASE UNCHANGED <<batch, targets>>
  BY <1>3 DEF BatchesTyped
<1>4. QED
  BY <1>1, <1>2, <1>3 DEF GossipNext, gossipVars, Originate, Receive, Lose

\* A node buffers an id when it is not among those it has seen, and sees it with that.
LEMMA BufferedOnceStep ==
  ASSUME GossipTyped, BufferedOnce, [GossipNext]_gossipVars
  PROVE  BufferedOnce'
<1>1. ASSUME NEW n \in Mate, NEW m \in Rumour, Originate(n, m) PROVE BufferedOnce'
  <2> DEFINE msg == [id |-> m, ttl |-> Hops]
  <2>1. msg \in Parcel /\ Buffer(n, msg) /\ msg.id = m
    BY <1>1, OriginateStarts
  <2> HIDE DEF msg
  <2>2. \A a \in Mate, x \in Rumour :
          buffered'[a][x] = IF a = n /\ x = m THEN buffered[a][x] + 1 ELSE buffered[a][x]
    BY <2>1, BufferIsTyped
  <2>3. PICK kept \in SUBSET (seen[n] \cup {m}) :
          /\ seen' = [seen EXCEPT ![n] = kept]
          /\ forgot' = [forgot EXCEPT ![n] = @ \cup ((seen[n] \cup {m}) \ kept)]
    BY <1>1, OriginateStarts
  <2>4. m \notin seen[n]
    BY <1>1, OriginateStarts
  <2>5. ASSUME NEW a \in Mate, NEW x \in Rumour, x \notin forgot'[a]
        PROVE  buffered'[a][x] <= IF x \in seen'[a] THEN 1 ELSE 0
    <3>1. CASE a # n
      BY <2>2, <2>3, <2>5, <3>1 DEF BufferedOnce, GossipTyped
    <3>2. CASE a = n
      <4>1. /\ forgot'[n] = forgot[n] \cup ((seen[n] \cup {m}) \ kept) /\ seen'[n] = kept
        BY <2>3 DEF GossipTyped
      <4>2. x \notin forgot[n] /\ (x \in seen[n] \cup {m} => x \in seen'[n])
        BY <2>5, <3>2, <4>1
      <4>3. buffered[n][x] <= (IF x \in seen[n] THEN 1 ELSE 0) /\ buffered[n][x] \in Nat
        BY <4>2 DEF BufferedOnce, GossipTyped
      <4>4. buffered'[n][x] = IF x = m THEN buffered[n][x] + 1 ELSE buffered[n][x]
        BY <2>2
      <4>5. CASE x = m
        BY <2>4, <3>2, <4>2, <4>3, <4>4, <4>5
      <4>6. CASE x # m /\ x \in seen[n]
        BY <3>2, <4>2, <4>3, <4>4, <4>6
      <4>7. CASE x # m /\ x \notin seen[n]
        BY <3>2, <4>2, <4>3, <4>4, <4>7
      <4>8. QED
        BY <4>5, <4>6, <4>7
    <3>3. QED
      BY <3>1, <3>2
  <2>6. QED
    BY <2>5 DEF BufferedOnce
<1>2. ASSUME NEW p \in net, Receive(p) PROVE BufferedOnce'
  <2>1. p.to \in Mate /\ p.msg \in Parcel /\ p.msg.id \in Rumour
    BY DEF GossipTyped, Parcel
  <2>2. /\ forgot' = forgot
        /\ \A a \in Mate : seen'[a] = IF a = p.to THEN seen[a] \cup {p.msg.id} ELSE seen[a]
    BY <1>2 DEF Receive, GossipTyped
  <2>3. CASE p.msg.id \notin seen[p.to] /\ p.msg.ttl > 0
    <3>1. Buffer(p.to, Spent(p.msg))
      BY <1>2, <2>3 DEF Receive, Spent
    <3>2. \A a \in Mate, x \in Rumour :
            buffered'[a][x] = IF a = p.to /\ x = p.msg.id THEN buffered[a][x] + 1 ELSE buffered[a][x]
      BY <2>1, <2>3, <3>1, HeardIsParcel, BufferIsTyped
    <3>3. ASSUME NEW a \in Mate, NEW x \in Rumour, x \notin forgot'[a]
          PROVE  buffered'[a][x] <= IF x \in seen'[a] THEN 1 ELSE 0
      <4>1. buffered[a][x] <= (IF x \in seen[a] THEN 1 ELSE 0) /\ buffered[a][x] \in Nat
        BY <2>2, <3>3 DEF BufferedOnce, GossipTyped
      <4>2. CASE a = p.to /\ x = p.msg.id
        <5>1. x \notin seen[a] /\ x \in seen'[a]
          BY <2>2, <2>3, <4>2
        <5>2. buffered[a][x] = 0
          BY <4>1, <5>1
        <5>3. QED
          BY <3>2, <4>2, <5>1, <5>2
      <4>3. CASE ~(a = p.to /\ x = p.msg.id)
        <5>1. buffered'[a][x] = buffered[a][x]
          BY <3>2, <4>3
        <5>2. x \in seen'[a] <=> x \in seen[a]
          BY <2>2, <4>3
        <5>3. QED
          BY <4>1, <5>1, <5>2
      <4>4. QED
        BY <4>2, <4>3
    <3>4. QED
      BY <3>3 DEF BufferedOnce
  <2>4. CASE ~(p.msg.id \notin seen[p.to] /\ p.msg.ttl > 0)
    <3>1. buffered' = buffered
      BY <1>2, <2>4 DEF Receive
    <3>2. ASSUME NEW a \in Mate, NEW x \in Rumour, x \notin forgot'[a]
          PROVE  buffered'[a][x] <= IF x \in seen'[a] THEN 1 ELSE 0
      <4>1. buffered[a][x] <= (IF x \in seen[a] THEN 1 ELSE 0) /\ buffered[a][x] \in Nat
        BY <2>2, <3>2 DEF BufferedOnce, GossipTyped
      <4>2. x \in seen[a] => x \in seen'[a]
        BY <2>2
      <4>3. QED
        BY <3>1, <4>1, <4>2
    <3>3. QED
      BY <3>2 DEF BufferedOnce
  <2>5. QED
    BY <2>3, <2>4
<1>3. CASE UNCHANGED <<seen, buffered, forgot>>
  BY <1>3 DEF BufferedOnce
<1>4. QED
  BY <1>1, <1>2, <1>3 DEF GossipNext, gossipVars, TakeBatch, SendNext, Lose

\* They start so.
LEMMA GossipInitially == GossipInit => GossipTyped /\ BatchesTyped /\ BufferedOnce
<1> SUFFICES ASSUME GossipInit PROVE GossipTyped /\ BatchesTyped /\ BufferedOnce
  OBVIOUS
<1>1. <<>> \in Seq(Parcel) /\ <<>> \in Seq(Message) /\ <<>> \in Seq(Target)
      /\ Len(<<>>) = 0
  BY EmptySeq
<1>2. GossipTyped
  BY <1>1 DEF GossipInit, GossipTyped
<1>3. BatchesTyped
  <2>1. \A n \in Mate : Len(batch[n]) = 0 /\ Len(targets[n]) = 0 /\ batch[n] = <<>>
    BY <1>1 DEF GossipInit
  <2>2. QED
    BY <2>1 DEF BatchesTyped
<1>4. BufferedOnce
  BY DEF GossipInit, BufferedOnce
<1>5. QED
  BY <1>2, <1>3, <1>4

\* The types follow.
LEMMA GossipTypes == GossipTyped => GossipTypeOK
<1> SUFFICES ASSUME GossipTyped PROVE GossipTypeOK
  OBVIOUS
<1>1. ASSUME NEW n \in Mate PROVE buffer[n] \in Seq(Message)
  <2>1. buffer[n] \in Seq(Parcel) /\ Parcel \subseteq Message
    BY ParcelsAreMessages DEF GossipTyped
  <2>2. QED
    BY <2>1, SeqMonotonic
<1>2. buffer \in [Mate -> Seq(Message)]
  BY <1>1 DEF GossipTyped
<1>3. QED
  BY <1>2, ParcelsAreMessages DEF GossipTyped, GossipTypeOK, Target

\* A table of the costs up to some number of hops.
Costs(f, h) == f = [t \in 0..h |-> IF t < 2 THEN t ELSE f[t - 1] + f[t - 2] + 1]

\* There is one for any number of hops.
LEMMA CostsExist ==
  ASSUME NEW h \in Nat PROVE \E f : Costs(f, h)
<1> DEFINE T == {m \in Nat : ~\E f : Costs(f, m)}
<1> SUFFICES ASSUME T # {} PROVE FALSE
  OBVIOUS
<1>1. PICK m \in T : \A k \in T : ~(k < m)
  BY LeastOne
<1>2. m \in Nat /\ ~\E f : Costs(f, m)
  OBVIOUS
<1>3. m # 0
  <2> DEFINE f == [t \in 0..0 |-> 0]
  <2>1. \A t \in 0..0 : t = 0 /\ t < 2
    OBVIOUS
  <2>2. Costs(f, 0)
    BY <2>1 DEF Costs
  <2>3. QED
    BY <1>2, <2>2
<1>4. m - 1 \in Nat /\ m - 1 \notin T
  BY <1>1, <1>2, <1>3
<1>5. PICK f : Costs(f, m - 1)
  BY <1>4
<1> DEFINE g == [t \in 0..m |-> IF t < m THEN f[t] ELSE IF m < 2 THEN m ELSE f[m - 1] + f[m - 2] + 1]
<1>6. Costs(g, m)
  <2>1. ASSUME NEW t \in 0..m PROVE g[t] = IF t < 2 THEN t ELSE g[t - 1] + g[t - 2] + 1
    <3>1. CASE t < 2
      <4>1. t < m => f[t] = t
        <5>1. t < m => t \in 0..(m - 1)
          BY <1>2
        <5>2. QED
          BY <1>5, <3>1, <5>1 DEF Costs
      <4>2. ~(t < m) => t = m
        BY <1>2
      <4>3. QED
        BY <3>1, <4>1, <4>2
    <3>2. CASE ~(t < 2)
      <4>1. t - 1 \in 0..m /\ t - 2 \in 0..m /\ t - 1 < m /\ t - 2 < m
        BY <1>2, <3>2
      <4>2. g[t - 1] = f[t - 1] /\ g[t - 2] = f[t - 2]
        BY <4>1
      <4>3. t < m => f[t] = f[t - 1] + f[t - 2] + 1
        <5>1. t < m => t \in 0..(m - 1)
          BY <1>2
        <5>2. QED
          BY <1>5, <3>2, <5>1 DEF Costs
      <4>4. ~(t < m) => t = m
        BY <1>2
      <4>5. g[t] = IF t < m THEN f[t] ELSE IF m < 2 THEN m ELSE f[m - 1] + f[m - 2] + 1
        OBVIOUS
      <4> HIDE DEF g
      <4>6. QED
        BY <3>2, <4>2, <4>3, <4>4, <4>5
    <3>3. QED
      BY <3>1, <3>2
  <2>2. g = [t \in 0..m |-> g[t]]
    OBVIOUS
  <2> HIDE DEF g
  <2>3. QED
    BY <2>1, <2>2 DEF Costs
<1>7. QED
  BY <1>2, <1>6

\* What the hops cost are numbers, and a send pays for what is left to either side.
LEMMA CostIs ==
  /\ Cost \in [0..Hops -> Nat] /\ Cost[0] = 0 /\ Cost[1] = 1
  /\ \A t \in 2..Hops : Cost[t] = Cost[t - 1] + Cost[t - 2] + 1
<1>1. Hops \in Nat \ {0} /\ 0 \in 0..Hops /\ 1 \in 0..Hops
  BY GossipAssumption
<1>2. Costs(Cost, Hops)
  <2>1. \E f : f = [t \in 0..Hops |-> IF t < 2 THEN t ELSE f[t - 1] + f[t - 2] + 1]
    BY <1>1, CostsExist DEF Costs
  <2>2. QED
    BY <2>1 DEF Cost, Costs
<1>3. \A t \in 0..Hops : Cost[t] = IF t < 2 THEN t ELSE Cost[t - 1] + Cost[t - 2] + 1
  BY <1>2 DEF Costs
<1>4. DOMAIN Cost = 0..Hops /\ Cost = [t \in 0..Hops |-> Cost[t]]
  BY <1>2 DEF Costs
<1>5. \A t \in 2..Hops : t \in 0..Hops /\ ~(t < 2) /\ t - 1 \in 0..Hops /\ t - 2 \in 0..Hops
  BY <1>1
<1> DEFINE T == {t \in 0..Hops : Cost[t] \notin Nat}
<1>6. T = {}
  <2> SUFFICES ASSUME T # {} PROVE FALSE
    OBVIOUS
  <2>1. T \in SUBSET Nat
    OBVIOUS
  <2>2. PICK t \in T : \A k \in T : ~(k < t)
    BY <2>1, LeastOne
  <2>3. t \in 0..Hops /\ Cost[t] \notin Nat
    OBVIOUS
  <2>4. CASE t < 2
    BY <1>3, <2>3, <2>4
  <2>5. CASE ~(t < 2)
    <3>1. t - 1 \in 0..Hops /\ t - 2 \in 0..Hops /\ t - 1 < t /\ t - 2 < t
      BY <1>1, <2>3, <2>5
    <3>2. Cost[t - 1] \in Nat /\ Cost[t - 2] \in Nat
      BY <2>2, <3>1
    <3>3. QED
      BY <1>3, <2>3, <2>5, <3>2
  <2>6. QED
    BY <2>4, <2>5
<1>7. Cost \in [0..Hops -> Nat]
  BY <1>4, <1>6
<1>8. Cost[0] = 0 /\ Cost[1] = 1
  BY <1>1, <1>3
<1>9. QED
  BY <1>3, <1>5, <1>7, <1>8

\* What hops are good for; none are good for nothing.
Owed(ttl) == IF ttl \in 1..Hops THEN Cost[ttl] ELSE 0

\* The sends that are made of an id and those that may be still, one by one: of what is in
\* a buffer or a batch, and of what is under way, for whoever hears it.
Pays(msg, m, c) == msg.id = m /\ c \in 1..Owed(msg.ttl)
TokensOf(said, buf, bat, way, m) ==
  UNION {
    {<<"sent", 0, 0, c>> : c \in 1..said},
    {t \in {"buffer"} \X Mate \X Nat \X Nat :
       t[3] \in 1..Len(buf[t[2]]) /\ Pays(buf[t[2]][t[3]], m, t[4])},
    {t \in {"batch"} \X Mate \X Nat \X Nat :
       t[3] \in 1..Len(bat[t[2]]) /\ Pays(bat[t[2]][t[3]], m, t[4])},
    {t \in {"net"} \X way \X {0} \X Nat : Pays(Spent(t[2].msg), m, t[4])} }
Tokens(m) == TokensOf(sent[m], buffer, batch, net, m)

\* An id's tokens are no more than its origins paid for.
Paid == \A m \in Rumour :
  IsFiniteSet(Tokens(m)) /\ Cardinality(Tokens(m)) <= origins[m] * Cost[Hops]

\* A set that another covers is no larger.
LEMMA CoveredIsSmaller ==
  ASSUME NEW S, IsFiniteSet(S), NEW T, NEW h, \A t \in T : \E s \in S : h[s] = t
  PROVE  IsFiniteSet(T) /\ Cardinality(T) <= Cardinality(S)
<1> DEFINE D == {s \in S : h[s] \in T}
           f == [s \in D |-> h[s]]
<1>1. IsFiniteSet(D) /\ Cardinality(D) <= Cardinality(S)
  BY FS_Subset
<1>2. f \in Surjection(D, T)
  <2>1. f \in [D -> T]
    OBVIOUS
  <2>2. \A t \in T : \E s \in D : f[s] = t
    OBVIOUS
  <2> HIDE DEF f, D
  <2>3. QED
    BY <2>1, <2>2 DEF Surjection
<1> HIDE DEF D, f
<1>3. IsFiniteSet(T) /\ Cardinality(T) <= Cardinality(D)
  BY <1>1, <1>2, FS_Surjection
<1>4. Cardinality(T) \in Nat /\ Cardinality(D) \in Nat /\ Cardinality(S) \in Nat
  BY <1>1, <1>3, FS_CardinalityType
<1>5. QED
  BY <1>1, <1>3, <1>4

\* The four kinds of tokens, as they are looked at below.
FormsOf(said, buf, bat, way, m) ==
  \A t : t \in TokensOf(said, buf, bat, way, m) <=>
    \/ \E c \in 1..said : t = <<"sent", 0, 0, c>>
    \/ \E n \in Mate : \E i \in 1..Len(buf[n]), c \in Nat :
         t = <<"buffer", n, i, c>> /\ Pays(buf[n][i], m, c)
    \/ \E n \in Mate : \E i \in 1..Len(bat[n]), c \in Nat :
         t = <<"batch", n, i, c>> /\ Pays(bat[n][i], m, c)
    \/ \E p \in way, c \in Nat : t = <<"net", p, 0, c>> /\ Pays(Spent(p.msg), m, c)

\* They are of these kinds,
LEMMA TokenForms ==
  ASSUME NEW said \in Nat, NEW buf \in [Mate -> Seq(Parcel)], NEW bat \in [Mate -> Seq(Message)],
         NEW way, NEW m
  PROVE  FormsOf(said, buf, bat, way, m)
<1> SUFFICES ASSUME NEW t
    PROVE  t \in TokensOf(said, buf, bat, way, m) <=>
           \/ \E c \in 1..said : t = <<"sent", 0, 0, c>>
           \/ \E n \in Mate : \E i \in 1..Len(buf[n]), c \in Nat :
                t = <<"buffer", n, i, c>> /\ Pays(buf[n][i], m, c)
           \/ \E n \in Mate : \E i \in 1..Len(bat[n]), c \in Nat :
                t = <<"batch", n, i, c>> /\ Pays(bat[n][i], m, c)
           \/ \E p \in way, c \in Nat : t = <<"net", p, 0, c>> /\ Pays(Spent(p.msg), m, c)
  BY DEF FormsOf
<1>1. \A n \in Mate : Len(buf[n]) \in Nat /\ Len(bat[n]) \in Nat
  OBVIOUS
<1> DEFINE B == {x \in {"buffer"} \X Mate \X Nat \X Nat :
                   x[3] \in 1..Len(buf[x[2]]) /\ Pays(buf[x[2]][x[3]], m, x[4])}
           A == {x \in {"batch"} \X Mate \X Nat \X Nat :
                   x[3] \in 1..Len(bat[x[2]]) /\ Pays(bat[x[2]][x[3]], m, x[4])}
           N == {x \in {"net"} \X way \X {0} \X Nat : Pays(Spent(x[2].msg), m, x[4])}
<1>2. t \in B <=> \E n \in Mate : \E i \in 1..Len(buf[n]), c \in Nat :
                    t = <<"buffer", n, i, c>> /\ Pays(buf[n][i], m, c)
  BY <1>1
<1>3. t \in A <=> \E n \in Mate : \E i \in 1..Len(bat[n]), c \in Nat :
                    t = <<"batch", n, i, c>> /\ Pays(bat[n][i], m, c)
  BY <1>1
<1>4. t \in N <=> \E p \in way, c \in Nat : t = <<"net", p, 0, c>> /\ Pays(Spent(p.msg), m, c)
  OBVIOUS
<1>5. t \in TokensOf(said, buf, bat, way, m) <=>
        (\E c \in 1..said : t = <<"sent", 0, 0, c>>) \/ t \in B \/ t \in A \/ t \in N
  BY DEF TokensOf
<1> HIDE DEF A, B, N
<1>6. QED
  BY <1>2, <1>3, <1>4, <1>5

\* ... in a state and in the next.
TokensAre(m) == FormsOf(sent[m], buffer, batch, net, m) /\ Tokens(m) = TokensOf(sent[m], buffer, batch, net, m)

\* Well-typed states have such tokens.
LEMMA TokensAreSuch ==
  /\ GossipTyped => \A m \in Rumour : TokensAre(m)
  /\ GossipTyped' => \A m \in Rumour : TokensAre(m)'
<1>1. ASSUME GossipTyped, NEW m \in Rumour PROVE TokensAre(m)
  <2>1. sent[m] \in Nat /\ buffer \in [Mate -> Seq(Parcel)] /\ batch \in [Mate -> Seq(Message)]
    BY <1>1 DEF GossipTyped
  <2>2. QED
    BY <2>1, TokenForms DEF TokensAre, Tokens
<1>2. ASSUME GossipTyped', NEW m \in Rumour PROVE TokensAre(m)'
  <2>1. sent'[m] \in Nat /\ buffer' \in [Mate -> Seq(Parcel)] /\ batch' \in [Mate -> Seq(Message)]
    BY <1>2 DEF GossipTyped
  <2>2. QED
    BY <2>1, TokenForms DEF TokensAre, Tokens
<1>3. QED
  BY <1>1, <1>2

\* A round moves the tokens of its batch.
LEMMA RoundsMoveTokens ==
  ASSUME GossipTyped, GossipTyped', NEW n \in Mate, TakeBatch(n), NEW m \in Rumour
  PROVE  \E h : \A t \in Tokens(m)' : \E s \in Tokens(m) : h[s] = t
<1> DEFINE S == Tokens(m)
<1>1. PICK size, now, rest, sends : Round(n, size, now, rest, sends)
  BY BatchesAreRounds
<1>2. sent' = sent /\ net' = net
  BY DEF TakeBatch
<1>3. /\ buffer'[n] = rest /\ batch'[n] = now
      /\ \A a \in Mate \ {n} : buffer'[a] = buffer[a] /\ batch'[a] = batch[a]
  BY <1>1 DEF Round, GossipTyped
<1>4. TokensAre(m) /\ TokensAre(m)'
  BY TokensAreSuch
<1> DEFINE h == [t \in S |->
                   IF t[1] = "buffer" /\ t[2] = n
                   THEN IF t[3] <= size THEN <<"batch", n, t[3], t[4]>>
                        ELSE <<"buffer", n, t[3] - size, t[4]>>
                   ELSE t]
<1>5. ASSUME NEW t \in Tokens(m)' PROVE \E s \in S : h[s] = t
  <2>1. CASE \E c \in 1..sent[m] : t = <<"sent", 0, 0, c>>
    BY <1>4, <2>1 DEF TokensAre, FormsOf
  <2>2. CASE \E p \in net, c \in Nat : t = <<"net", p, 0, c>> /\ Pays(Spent(p.msg), m, c)
    BY <1>4, <2>2 DEF TokensAre, FormsOf
  <2>3. ASSUME NEW a \in Mate, NEW i \in 1..Len(buffer'[a]), NEW c \in Nat,
               t = <<"buffer", a, i, c>>, Pays(buffer'[a][i], m, c)
        PROVE  \E s \in S : h[s] = t
    <3>1. CASE a # n
      <4>1. t \in S /\ ~(t[1] = "buffer" /\ t[2] = n)
        BY <1>3, <1>4, <2>3, <3>1 DEF TokensAre, FormsOf
      <4>2. QED
        BY <4>1
    <3>2. CASE a = n
      <4> DEFINE s == <<"buffer", n, i + size, c>>
      <4>1. /\ i + size \in 1..Len(buffer[n]) /\ rest[i] = buffer[n][i + size] /\ i \in 1..Len(rest)
            /\ size \in Nat \ {0} /\ i \in Nat /\ ~(i + size <= size) /\ (i + size) - size = i
        <5>1. Len(buffer[n]) \in Nat
          BY DEF GossipTyped
        <5>2. size \in Nat \ {0} /\ i \in 1..Len(rest) /\ Len(rest) = Len(buffer[n]) - size
          BY <1>1, <1>3, <3>2 DEF Round
        <5>3. QED
          BY <1>1, <5>1, <5>2 DEF Round
      <4>2. Pays(buffer[n][i + size], m, c)
        BY <1>3, <2>3, <3>2, <4>1
      <4>3. s \in S
        BY <1>4, <4>1, <4>2 DEF TokensAre, FormsOf
      <4>4. h[s] = <<"buffer", n, (i + size) - size, c>>
        BY <4>1, <4>3
      <4>5. QED
        BY <2>3, <3>2, <4>1, <4>3, <4>4
    <3>3. QED
      BY <3>1, <3>2
  <2>4. ASSUME NEW a \in Mate, NEW i \in 1..Len(batch'[a]), NEW c \in Nat,
               t = <<"batch", a, i, c>>, Pays(batch'[a][i], m, c)
        PROVE  \E s \in S : h[s] = t
    <3>1. CASE a # n
      <4>1. t \in S /\ ~(t[1] = "buffer" /\ t[2] = n)
        BY <1>3, <1>4, <2>4, <3>1 DEF TokensAre, FormsOf
      <4>2. QED
        BY <4>1
    <3>2. CASE a = n
      <4> DEFINE s == <<"buffer", n, i, c>>
      <4>1. /\ i \in 1..Len(buffer[n]) /\ now[i] = buffer[n][i] /\ i <= size
        <5>1. Len(buffer[n]) \in Nat
          BY DEF GossipTyped
        <5>2. size \in Nat \ {0} /\ i \in 1..size /\ size <= Len(buffer[n])
          BY <1>1, <1>3, <3>2 DEF Round
        <5>3. QED
          BY <1>1, <5>1, <5>2 DEF Round
      <4>2. Pays(buffer[n][i], m, c)
        BY <1>3, <2>4, <3>2, <4>1
      <4>3. s \in S
        BY <1>4, <4>1, <4>2 DEF TokensAre, FormsOf
      <4>4. h[s] = <<"batch", n, i, c>>
        BY <4>1, <4>3
      <4>5. QED
        BY <2>4, <3>2, <4>3, <4>4
    <3>3. QED
      BY <3>1, <3>2
  <2> HIDE DEF h, S
  <2>5. QED
    BY <1>2, <1>4, <2>1, <2>2, <2>3, <2>4 DEF TokensAre, FormsOf
<1> HIDE DEF h, S
<1>6. QED
  BY <1>5 DEF S

\* A hop that is there pays for a send, for what is left here and for what is left there.
LEMMA OwedIs ==
  /\ \A t \in Int : Owed(t) \in Nat /\ (t <= 0 => Owed(t) = 0)
  /\ \A t \in 1..Hops : Owed(t) = Owed(t - 1) + Owed(t - 2) + 1
<1>1. \A t \in Int : Owed(t) \in Nat /\ (t <= 0 => Owed(t) = 0)
  BY CostIs, GossipAssumption DEF Owed
<1>2. ASSUME NEW t \in 1..Hops PROVE Owed(t) = Owed(t - 1) + Owed(t - 2) + 1
  <2>1. Owed(t) = Cost[t] /\ t - 1 \in Int /\ t - 2 \in Int /\ Hops \in Nat
    BY GossipAssumption DEF Owed
  <2>2. CASE t = 1
    <3>1. Owed(t - 1) = 0 /\ Owed(t - 2) = 0
      BY <1>1, <2>1, <2>2
    <3>2. QED
      BY <2>1, <2>2, <3>1, CostIs
  <2>3. CASE t = 2
    <3>1. Owed(t - 2) = 0 /\ Owed(t - 1) = Cost[1]
      BY <2>1, <2>3 DEF Owed
    <3>2. Cost[2] = Cost[2 - 1] + Cost[2 - 2] + 1 /\ 2 - 1 = 1 /\ 2 - 2 = 0
      BY <2>1, <2>3, CostIs
    <3>3. QED
      BY <2>1, <2>3, <3>1, <3>2, CostIs
  <2>4. CASE t > 2
    <3>1. t - 1 \in 1..Hops /\ t - 2 \in 1..Hops /\ t \in 2..Hops
      BY <2>1, <2>4
    <3>2. QED
      BY <2>1, <3>1, CostIs DEF Owed
  <2>5. QED
    BY <2>2, <2>3, <2>4
<1>3. QED
  BY <1>1, <1>2

\* A send moves the tokens of its message: one becomes the send, and of the others those
\* that the hops left pay for stay here and go there.
LEMMA SendsMoveTokens ==
  ASSUME GossipTyped, GossipTyped', BatchesTyped, NEW n \in Mate, SendNext(n), NEW m \in Rumour
  PROVE  \E h : \A t \in Tokens(m)' : \E s \in Tokens(m) : h[s] = t
<1> DEFINE S == Tokens(m)
<1>1. PICK i, now : Sending(n, i, now)
  BY SendsAreSuch
<1> DEFINE msg == batch[n][i]
           here == Owed(msg.ttl - 1)
           there == Owed(msg.ttl - 2)
           p == [to |-> Head(targets[n])[1], msg |-> Spent(msg), no |-> sent[msg.id]]
<1>2. buffer' = buffer
  BY <1>1 DEF Sending
<1>3. batch'[n] = now /\ \A a \in Mate \ {n} : batch'[a] = batch[a]
  BY <1>1 DEF Sending, GossipTyped
<1>4. TokensAre(m) /\ TokensAre(m)'
  BY TokensAreSuch
<1>5. /\ i \in 1..Len(batch[n]) /\ Len(batch[n]) \in Nat /\ i \in Nat
      /\ msg \in Message /\ msg.id \in Rumour /\ msg.ttl \in Int /\ msg.ttl <= Hops
  <2>1. i \in 1..Len(batch[n]) /\ batch[n] \in Seq(Message)
    BY <1>1 DEF Sending, GossipTyped
  <2>2. msg \in Message
    BY <2>1, ElementOfSeq
  <2>3. Hops \in Nat /\ Most \in Nat
    BY GossipAssumption, ParcelsAreMessages
  <2>4. msg.ttl \in -Most..Hops /\ msg.id \in Rumour
    BY <2>2, ParcelsAreMessages
  <2>5. Len(batch[n]) \in Nat
    BY <2>1
  <2> HIDE DEF msg
  <2>6. QED
    BY <2>1, <2>2, <2>3, <2>4, <2>5
<1>6. Spent(msg).id = msg.id /\ Spent(msg).ttl = msg.ttl - 1
  BY <1>5, ParcelsAreMessages DEF Spent
<1>7. /\ msg.ttl >= 1 =>
           /\ sent' = [sent EXCEPT ![msg.id] = @ + 1] /\ net' = net \cup {p}
           /\ Owed(msg.ttl) = here + there + 1
      /\ ~(msg.ttl >= 1) => sent' = sent /\ net' = net
      /\ here \in Nat /\ there \in Nat /\ Owed(msg.ttl) \in Nat /\ here <= Owed(msg.ttl)
  <2>1. /\ Spent(msg).ttl >= 0 =>
             sent' = [sent EXCEPT ![msg.id] = @ + 1] /\ net' = net \cup {p}
        /\ ~(Spent(msg).ttl >= 0) => sent' = sent /\ net' = net
    BY <1>1, <1>6 DEF Sending
  <2> HIDE DEF msg, p
  <2>2. msg.ttl >= 1 <=> Spent(msg).ttl >= 0
    BY <1>5, <1>6
  <2>3. here \in Nat /\ there \in Nat /\ Owed(msg.ttl) \in Nat
    <3>1. msg.ttl - 1 \in Int /\ msg.ttl - 2 \in Int /\ msg.ttl \in Int
      BY <1>5
    <3>2. QED
      BY <3>1, OwedIs
  <2>4. msg.ttl >= 1 => Owed(msg.ttl) = here + there + 1
    <3>1. msg.ttl >= 1 => msg.ttl \in 1..Hops
      BY <1>5, GossipAssumption
    <3>2. QED
      BY <3>1, OwedIs
  <2>5. ~(msg.ttl >= 1) => here = 0
    <3>1. ~(msg.ttl >= 1) => msg.ttl - 1 \in Int /\ msg.ttl - 1 <= 0
      BY <1>5
    <3>2. QED
      BY <3>1, OwedIs
  <2> HIDE DEF here, there
  <2>6. here <= Owed(msg.ttl)
    BY <1>5, <2>3, <2>4, <2>5
  <2>7. QED
    BY <2>1, <2>2, <2>3, <2>4, <2>6
<1> HIDE DEF here, there, p
<1> DEFINE h == [t \in S |->
                   IF t[1] = "batch" /\ t[2] = n /\ t[3] = i /\ t[4] > here
                   THEN IF t[4] = Owed(msg.ttl) THEN <<"sent", 0, 0, sent[m] + 1>>
                        ELSE <<"net", p, 0, t[4] - here>>
                   ELSE t]
<1>8. ASSUME NEW c \in 1..Owed(msg.ttl), msg.id = m PROVE <<"batch", n, i, c>> \in S
  BY <1>4, <1>5, <1>7, <1>8 DEF TokensAre, FormsOf, Pays
<1>9. ASSUME NEW t \in S, t[1] # "batch" \/ t[2] # n \/ t[3] # i PROVE h[t] = t
  BY <1>9
<1>10. ASSUME NEW t \in Tokens(m)' PROVE \E s \in S : h[s] = t
  <2>1. ASSUME NEW c \in 1..sent'[m], t = <<"sent", 0, 0, c>> PROVE \E s \in S : h[s] = t
    <3>1. CASE c \in 1..sent[m]
      <4>1. t \in S /\ t[1] # "batch"
        BY <1>4, <2>1, <3>1 DEF TokensAre, FormsOf
      <4>2. QED
        BY <1>9, <4>1
    <3>2. CASE c \notin 1..sent[m]
      <4>1. msg.ttl >= 1 /\ msg.id = m /\ c = sent[m] + 1
        <5>1. sent'[m] # sent[m] /\ c \in 1..sent'[m]
          BY <2>1, <3>2
        <5>2. msg.ttl >= 1
          BY <1>7, <5>1
        <5>3. sent' = [sent EXCEPT ![msg.id] = sent[msg.id] + 1] /\ sent \in [Rumour -> Nat]
          BY <1>7, <5>2 DEF GossipTyped
        <5>4. msg.id = m
          BY <1>5, <5>1, <5>3
        <5>5. sent'[m] = sent[m] + 1 /\ sent[m] \in Nat
          BY <5>3, <5>4
        <5>6. QED
          BY <3>2, <5>1, <5>2, <5>4, <5>5
      <4> DEFINE s == <<"batch", n, i, Owed(msg.ttl)>>
      <4>2. Owed(msg.ttl) \in 1..Owed(msg.ttl) /\ Owed(msg.ttl) > here
        BY <1>7, <4>1
      <4>3. s \in S
        BY <1>8, <4>1, <4>2
      <4>4. h[s] = <<"sent", 0, 0, sent[m] + 1>>
        BY <4>2, <4>3
      <4>5. QED
        BY <2>1, <4>1, <4>3, <4>4
    <3>3. QED
      BY <3>1, <3>2
  <2>2. ASSUME NEW q \in net', NEW c \in Nat, t = <<"net", q, 0, c>>, Pays(Spent(q.msg), m, c)
        PROVE  \E s \in S : h[s] = t
    <3>1. CASE q \in net
      <4>1. t \in S /\ t[1] # "batch"
        BY <1>4, <2>2, <3>1 DEF TokensAre, FormsOf
      <4>2. QED
        BY <1>9, <4>1
    <3>2. CASE q \notin net
      <4>1. msg.ttl >= 1 /\ q = p
        BY <1>7, <2>2, <3>2
      <4>2. Spent(q.msg).id = msg.id /\ Spent(q.msg).ttl = msg.ttl - 2
        <5>1. q.msg = Spent(msg)
          BY <4>1 DEF p
        <5>2. Spent(msg) \in Message
          BY <1>1 DEF Sending
        <5>3. Spent(q.msg).id = Spent(msg).id /\ Spent(q.msg).ttl = Spent(msg).ttl - 1
          BY <5>1, <5>2, ParcelsAreMessages DEF Spent
        <5>4. Spent(msg).ttl - 1 = msg.ttl - 2
          BY <1>5, <1>6
        <5>5. QED
          BY <1>6, <5>3, <5>4
      <4>3. msg.id = m /\ c \in 1..there
        BY <2>2, <4>2 DEF Pays, there
      <4> DEFINE s == <<"batch", n, i, here + c>>
      <4>4. /\ here + c \in 1..Owed(msg.ttl) /\ here + c > here /\ here + c # Owed(msg.ttl)
            /\ (here + c) - here = c
        BY <1>7, <4>1, <4>3
      <4>5. s \in S
        BY <1>8, <4>3, <4>4
      <4>6. h[s] = <<"net", p, 0, (here + c) - here>>
        BY <4>4, <4>5
      <4>7. QED
        BY <2>2, <4>1, <4>4, <4>5, <4>6
    <3>3. QED
      BY <3>1, <3>2
  <2>3. ASSUME NEW a \in Mate, NEW j \in 1..Len(buffer'[a]), NEW c \in Nat,
               t = <<"buffer", a, j, c>>, Pays(buffer'[a][j], m, c)
        PROVE  \E s \in S : h[s] = t
    <3>1. t \in S /\ t[1] # "batch"
      BY <1>2, <1>4, <2>3 DEF TokensAre, FormsOf
    <3>2. QED
      BY <1>9, <3>1
  <2>4. ASSUME NEW a \in Mate, NEW j \in 1..Len(batch'[a]), NEW c \in Nat,
               t = <<"batch", a, j, c>>, Pays(batch'[a][j], m, c)
        PROVE  \E s \in S : h[s] = t
    <3>1. CASE a # n
      <4>1. t \in S /\ t[2] # n
        BY <1>3, <1>4, <2>4, <3>1 DEF TokensAre, FormsOf
      <4>2. QED
        BY <1>9, <4>1
    <3>2. CASE a = n
      <4>1. j \in 1..Len(now)
        BY <1>3, <2>4, <3>2
      <4>2. /\ Len(now) = Len(batch[n])
            /\ now[j] = IF j = i THEN Spent(msg) ELSE batch[n][j]
        <5>1. now # <<>>
          BY <4>1, EmptySeq
        <5>2. QED
          BY <1>1, <4>1, <5>1 DEF Sending
      <4>3. CASE j # i
        <5>1. t \in S /\ t[3] # i
          BY <1>3, <1>4, <2>4, <3>2, <4>1, <4>2, <4>3 DEF TokensAre, FormsOf
        <5>2. QED
          BY <1>9, <5>1
      <4>4. CASE j = i
        <5>1. Pays(Spent(msg), m, c)
          BY <1>3, <2>4, <3>2, <4>2, <4>4
        <5>2. msg.id = m /\ c \in 1..here
          BY <1>6, <5>1 DEF Pays, here
        <5>3. c \in 1..Owed(msg.ttl) /\ ~(c > here)
          BY <1>7, <5>2
        <5>4. t \in S /\ ~(t[4] > here)
          BY <1>8, <2>4, <3>2, <4>4, <5>2, <5>3
        <5>5. h[t] = t
          BY <5>4
        <5>6. QED
          BY <5>4, <5>5
      <4>5. QED
        BY <4>3, <4>4
    <3>3. QED
      BY <3>1, <3>2
  <2> HIDE DEF h, S
  <2>5. QED
    BY <1>4, <2>1, <2>2, <2>3, <2>4 DEF TokensAre, FormsOf
<1> HIDE DEF h, S
<1>11. QED
  BY <1>10 DEF S

\* What a node hears takes its tokens into the buffer, or they are gone, as with what is lost.
LEMMA ArrivalsMoveTokens ==
  ASSUME GossipTyped, GossipTyped', NEW p \in net, Receive(p) \/ Lose(p), NEW m \in Rumour
  PROVE  \E h : \A t \in Tokens(m)' : \E s \in Tokens(m) : h[s] = t
<1> DEFINE S == Tokens(m)
           last == Len(buffer[p.to]) + 1
           h == [t \in S |-> IF t[1] = "net" /\ t[2] = p THEN <<"buffer", p.to, last, t[4]>> ELSE t]
<1>1. TokensAre(m) /\ TokensAre(m)'
  BY TokensAreSuch
<1>2. net' = net \ {p} /\ batch' = batch /\ sent' = sent /\ p.to \in Mate
  BY DEF Receive, Lose, GossipTyped
<1>3. \/ buffer' = buffer
      \/ /\ Spent(p.msg) \in Parcel
         /\ buffer' = [buffer EXCEPT ![p.to] = Append(buffer[p.to], Spent(p.msg))]
  <2>1. CASE Receive(p) /\ p.msg.id \notin seen[p.to] /\ p.msg.ttl > 0
    <3>1. Buffer(p.to, Spent(p.msg))
      BY <2>1 DEF Receive, Spent
    <3>2. Spent(p.msg) \in Parcel
      BY <2>1, HeardIsParcel
    <3>3. QED
      BY <1>2, <3>1, <3>2, BufferIsTyped
  <2>2. CASE ~(Receive(p) /\ p.msg.id \notin seen[p.to] /\ p.msg.ttl > 0)
    BY <2>2 DEF Receive, Lose
  <2>3. QED
    BY <2>1, <2>2
<1>4. ASSUME NEW t \in S, t[1] # "net" \/ t[2] # p PROVE h[t] = t
  BY <1>4
<1>5. ASSUME NEW t \in Tokens(m)' PROVE \E s \in S : h[s] = t
  <2>1. CASE \E c \in 1..sent[m] : t = <<"sent", 0, 0, c>>
    <3>1. t \in S /\ t[1] # "net"
      BY <1>1, <2>1 DEF TokensAre, FormsOf
    <3>2. QED
      BY <1>4, <3>1
  <2>2. CASE \E q \in net', c \in Nat : t = <<"net", q, 0, c>> /\ Pays(Spent(q.msg), m, c)
    <3>1. t \in S /\ t[2] # p
      BY <1>1, <1>2, <2>2 DEF TokensAre, FormsOf
    <3>2. QED
      BY <1>4, <3>1
  <2>3. CASE \E n \in Mate : \E i \in 1..Len(batch[n]), c \in Nat :
               t = <<"batch", n, i, c>> /\ Pays(batch[n][i], m, c)
    <3>1. t \in S /\ t[1] # "net"
      BY <1>1, <2>3 DEF TokensAre, FormsOf
    <3>2. QED
      BY <1>4, <3>1
  <2>4. ASSUME NEW a \in Mate, NEW i \in 1..Len(buffer'[a]), NEW c \in Nat,
               t = <<"buffer", a, i, c>>, Pays(buffer'[a][i], m, c)
        PROVE  \E s \in S : h[s] = t
    <3>1. buffer[a] \in Seq(Parcel) /\ Len(buffer[a]) \in Nat
      BY DEF GossipTyped
    <3>2. CASE i \in 1..Len(buffer[a])
      <4>1. buffer'[a][i] = buffer[a][i]
        <5>1. CASE buffer' = buffer
          BY <5>1
        <5>2. CASE /\ Spent(p.msg) \in Parcel
                   /\ buffer' = [buffer EXCEPT ![p.to] = Append(buffer[p.to], Spent(p.msg))]
          <6>1. CASE a # p.to
            BY <5>2, <6>1 DEF GossipTyped
          <6>2. CASE a = p.to
            <7>1. buffer'[a] = Append(buffer[a], Spent(p.msg))
              BY <1>2, <5>2, <6>2 DEF GossipTyped
            <7>2. QED
              BY <3>1, <3>2, <5>2, <7>1, AppendedIsLast
          <6>3. QED
            BY <6>1, <6>2
        <5>3. QED
          BY <1>3, <5>1, <5>2
      <4>2. t \in S /\ t[1] # "net"
        BY <1>1, <2>4, <3>2, <4>1 DEF TokensAre, FormsOf
      <4>3. QED
        BY <1>4, <4>2
    <3>3. CASE i \notin 1..Len(buffer[a])
      <4>1. /\ a = p.to /\ buffer'[a] = Append(buffer[a], Spent(p.msg)) /\ Spent(p.msg) \in Parcel
        BY <1>2, <1>3, <2>4, <3>3 DEF GossipTyped
      <4>2. i = last /\ buffer'[a][i] = Spent(p.msg)
        <5>1. /\ Len(buffer'[a]) = Len(buffer[a]) + 1
              /\ buffer'[a][Len(buffer[a]) + 1] = Spent(p.msg)
          BY <3>1, <4>1, AppendedIsLast
        <5>2. i = Len(buffer[a]) + 1
          BY <3>1, <3>3, <5>1
        <5>3. QED
          BY <4>1, <5>1, <5>2
      <4> DEFINE s == <<"net", p, 0, c>>
      <4>3. s \in S
        BY <1>1, <2>4, <4>2 DEF TokensAre, FormsOf
      <4>4. h[s] = <<"buffer", p.to, last, c>>
        BY <4>3
      <4>5. QED
        BY <2>4, <4>1, <4>2, <4>3, <4>4
    <3>4. QED
      BY <3>2, <3>3
  <2> HIDE DEF h, S
  <2>5. \/ \E c \in 1..sent'[m] : t = <<"sent", 0, 0, c>>
        \/ \E a \in Mate : \E i \in 1..Len(buffer'[a]), c \in Nat :
             t = <<"buffer", a, i, c>> /\ Pays(buffer'[a][i], m, c)
        \/ \E n \in Mate : \E i \in 1..Len(batch'[n]), c \in Nat :
             t = <<"batch", n, i, c>> /\ Pays(batch'[n][i], m, c)
        \/ \E q \in net', c \in Nat : t = <<"net", q, 0, c>> /\ Pays(Spent(q.msg), m, c)
    BY <1>1 DEF TokensAre, FormsOf
  <2>6. (\E c \in 1..sent'[m] : t = <<"sent", 0, 0, c>>)
          => \E c \in 1..sent[m] : t = <<"sent", 0, 0, c>>
    BY <1>2
  <2>7. (\E n \in Mate : \E i \in 1..Len(batch'[n]), c \in Nat :
             t = <<"batch", n, i, c>> /\ Pays(batch'[n][i], m, c))
          => \E n \in Mate : \E i \in 1..Len(batch[n]), c \in Nat :
               t = <<"batch", n, i, c>> /\ Pays(batch[n][i], m, c)
    BY <1>2
  <2>8. QED
    BY <2>1, <2>2, <2>3, <2>4, <2>5, <2>6, <2>7
<1> HIDE DEF h, S
<1>6. QED
  BY <1>5 DEF S

\* A new message adds tokens for its hops to those of its id, and to no other's.
LEMMA OriginsAddTokens ==
  ASSUME GossipTyped, GossipTyped', NEW n \in Mate, NEW id \in Rumour, Originate(n, id),
         NEW m \in Rumour
  PROVE  Tokens(m)' \subseteq Tokens(m) \cup
           (IF m = id THEN {<<"buffer", n, Len(buffer[n]) + 1, c>> : c \in 1..Cost[Hops]} ELSE {})
<1> DEFINE msg == [id |-> id, ttl |-> Hops]
           new == IF m = id THEN {<<"buffer", n, Len(buffer[n]) + 1, c>> : c \in 1..Cost[Hops]} ELSE {}
<1>1. TokensAre(m) /\ TokensAre(m)'
  BY TokensAreSuch
<1>2. msg \in Parcel /\ Buffer(n, msg) /\ net' = net /\ batch' = batch /\ sent' = sent
  BY OriginateStarts
<1>3. buffer' = [buffer EXCEPT ![n] = Append(buffer[n], msg)]
  BY <1>2, BufferIsTyped
<1>4. msg.id = id /\ Owed(msg.ttl) = Cost[Hops]
  <2>1. Hops \in 1..Hops
    BY GossipAssumption
  <2>2. msg.id = id /\ msg.ttl = Hops
    OBVIOUS
  <2> HIDE DEF msg
  <2>3. QED
    BY <2>1, <2>2 DEF Owed
<1> HIDE DEF msg
<1>5. ASSUME NEW t \in Tokens(m)' PROVE t \in Tokens(m) \cup new
  <2>1. CASE \/ \E c \in 1..sent[m] : t = <<"sent", 0, 0, c>>
             \/ \E q \in net, c \in Nat : t = <<"net", q, 0, c>> /\ Pays(Spent(q.msg), m, c)
             \/ \E a \in Mate : \E i \in 1..Len(batch[a]), c \in Nat :
                  t = <<"batch", a, i, c>> /\ Pays(batch[a][i], m, c)
    BY <1>1, <2>1 DEF TokensAre, FormsOf
  <2>2. ASSUME NEW a \in Mate, NEW i \in 1..Len(buffer'[a]), NEW c \in Nat,
               t = <<"buffer", a, i, c>>, Pays(buffer'[a][i], m, c)
        PROVE  t \in Tokens(m) \cup new
    <3>1. buffer[a] \in Seq(Parcel) /\ Len(buffer[a]) \in Nat
      BY DEF GossipTyped
    <3>2. CASE a # n
      <4>1. buffer'[a] = buffer[a]
        BY <1>3, <3>2 DEF GossipTyped
      <4>2. QED
        BY <1>1, <2>2, <4>1 DEF TokensAre, FormsOf
    <3>3. CASE a = n
      <4>1. buffer'[a] = Append(buffer[a], msg)
        BY <1>3, <3>3 DEF GossipTyped
      <4>2. /\ Len(buffer'[a]) = Len(buffer[a]) + 1
            /\ \A j \in 1..Len(buffer[a]) : buffer'[a][j] = buffer[a][j]
            /\ buffer'[a][Len(buffer[a]) + 1] = msg
        BY <1>2, <3>1, <4>1, AppendedIsLast
      <4>3. CASE i \in 1..Len(buffer[a])
        BY <1>1, <2>2, <4>2, <4>3 DEF TokensAre, FormsOf
      <4>4. CASE i \notin 1..Len(buffer[a])
        <5>1. i = Len(buffer[a]) + 1
          BY <3>1, <4>2, <4>4
        <5>2. Pays(msg, m, c)
          BY <2>2, <4>2, <5>1
        <5>3. m = id /\ c \in 1..Cost[Hops]
          BY <1>4, <5>2 DEF Pays
        <5>4. QED
          BY <2>2, <3>3, <5>1, <5>3
      <4>5. QED
        BY <4>3, <4>4
    <3>4. QED
      BY <3>2, <3>3
  <2> HIDE DEF new
  <2>3. QED
    BY <1>1, <1>2, <2>1, <2>2 DEF TokensAre, FormsOf
<1>6. QED
  BY <1>5

\* So the tokens stay paid for.
LEMMA PaidStep ==
  ASSUME GossipTyped, GossipTyped', BatchesTyped, Paid, [GossipNext]_gossipVars
  PROVE  Paid'
<1>1. ASSUME origins' = origins,
             \A m \in Rumour : \E h : \A t \in Tokens(m)' : \E s \in Tokens(m) : h[s] = t
      PROVE  Paid'
  <2> SUFFICES ASSUME NEW m \in Rumour
      PROVE  IsFiniteSet(Tokens(m)') /\ Cardinality(Tokens(m)') <= origins'[m] * Cost[Hops]
    BY DEF Paid
  <2>1. PICK h : \A t \in Tokens(m)' : \E s \in Tokens(m) : h[s] = t
    BY <1>1
  <2>2. IsFiniteSet(Tokens(m)) /\ Cardinality(Tokens(m)) <= origins[m] * Cost[Hops]
    BY DEF Paid
  <2>3. IsFiniteSet(Tokens(m)') /\ Cardinality(Tokens(m)') <= Cardinality(Tokens(m))
    BY <2>1, <2>2, CoveredIsSmaller
  <2>4. /\ Cardinality(Tokens(m)) \in Nat /\ Cardinality(Tokens(m)') \in Nat
        /\ origins[m] * Cost[Hops] \in Nat
    <3>1. Hops \in 0..Hops
      BY GossipAssumption
    <3>2. Cost[Hops] \in Nat /\ origins[m] \in Nat
      BY <3>1, CostIs DEF GossipTyped
    <3>3. QED
      BY <2>2, <2>3, <3>2, FS_CardinalityType
  <2>5. QED
    BY <1>1, <2>2, <2>3, <2>4
<1>2. ASSUME NEW n \in Mate, TakeBatch(n) PROVE Paid'
  BY <1>1, <1>2, RoundsMoveTokens DEF TakeBatch
<1>3. ASSUME NEW n \in Mate, SendNext(n) PROVE Paid'
  BY <1>1, <1>3, SendsMoveTokens DEF SendNext
<1>4. ASSUME NEW p \in net, Receive(p) \/ Lose(p) PROVE Paid'
  BY <1>1, <1>4, ArrivalsMoveTokens DEF Receive, Lose
<1>5. ASSUME NEW n \in Mate, NEW id \in Rumour, Originate(n, id) PROVE Paid'
  <2> SUFFICES ASSUME NEW m \in Rumour
      PROVE  IsFiniteSet(Tokens(m)') /\ Cardinality(Tokens(m)') <= origins'[m] * Cost[Hops]
    BY DEF Paid
  <2> DEFINE price == Cost[Hops]
             new == {<<"buffer", n, Len(buffer[n]) + 1, c>> : c \in 1..price}
             more == IF m = id THEN new ELSE {}
  <2>1. price \in Nat /\ origins[m] \in Nat
    <3>1. Hops \in 0..Hops
      BY GossipAssumption
    <3>2. QED
      BY <3>1, CostIs DEF GossipTyped
  <2>2. Tokens(m)' \subseteq Tokens(m) \cup more
    BY <1>5, OriginsAddTokens
  <2>3. origins' = [origins EXCEPT ![id] = @ + 1]
    BY <1>5, OriginateStarts
  <2>4. origins'[m] = IF m = id THEN origins[m] + 1 ELSE origins[m]
    BY <2>3 DEF GossipTyped
  <2> HIDE DEF price
  <2>5. IsFiniteSet(new) /\ Cardinality(new) <= price
    <3>1. IsFiniteSet(1..price) /\ Cardinality(1..price) = price
      BY <2>1, FS_Interval
    <3> DEFINE h == [c \in 1..price |-> <<"buffer", n, Len(buffer[n]) + 1, c>>]
    <3>2. \A t \in new : \E c \in 1..price : h[c] = t
      OBVIOUS
    <3> HIDE DEF h, new
    <3>3. QED
      BY <3>1, <3>2, CoveredIsSmaller
  <2> HIDE DEF new
  <2>6. /\ IsFiniteSet(more) /\ Cardinality(more) \in Nat
        /\ Cardinality(more) <= IF m = id THEN price ELSE 0
    BY <2>1, <2>5, FS_EmptySet, FS_CardinalityType
  <2> HIDE DEF more
  <2>7. IsFiniteSet(Tokens(m)) /\ Cardinality(Tokens(m)) <= origins[m] * price
    BY DEF Paid, price
  <2>8. /\ IsFiniteSet(Tokens(m) \cup more)
        /\ Cardinality(Tokens(m) \cup more) <= Cardinality(Tokens(m)) + Cardinality(more)
    <3>1. Cardinality(Tokens(m) \cap more) \in Nat /\ Cardinality(Tokens(m)) \in Nat
      <4>1. IsFiniteSet(Tokens(m) \cap more)
        BY <2>6, FS_Intersection
      <4>2. QED
        BY <2>7, <4>1, FS_CardinalityType
    <3>2. /\ IsFiniteSet(Tokens(m) \cup more)
          /\ Cardinality(Tokens(m) \cup more)
               = Cardinality(Tokens(m)) + Cardinality(more) - Cardinality(Tokens(m) \cap more)
      BY <2>6, <2>7, FS_Union
    <3>3. QED
      BY <2>6, <3>1, <3>2
  <2>9. /\ IsFiniteSet(Tokens(m)')
        /\ Cardinality(Tokens(m)') <= Cardinality(Tokens(m) \cup more)
    BY <2>2, <2>8, FS_Subset
  <2>10. /\ Cardinality(Tokens(m)') \in Nat /\ Cardinality(Tokens(m)) \in Nat
         /\ Cardinality(Tokens(m) \cup more) \in Nat
    BY <2>7, <2>8, <2>9, FS_CardinalityType
  <2>11. Cardinality(Tokens(m)') <= origins'[m] * price
    <3>1. CASE m = id
      <4>1. origins'[m] * price = origins[m] * price + price /\ origins[m] * price \in Nat
        BY <2>1, <2>4, <3>1
      <4>2. QED
        BY <2>1, <2>6, <2>7, <2>8, <2>9, <2>10, <3>1, <4>1
    <3>2. CASE m # id
      <4>1. origins'[m] * price = origins[m] * price /\ origins[m] * price \in Nat
        BY <2>1, <2>4, <3>2
      <4>2. QED
        BY <2>1, <2>6, <2>7, <2>8, <2>9, <2>10, <3>2, <4>1
    <3>3. QED
      BY <3>1, <3>2
  <2>12. QED
    BY <2>9, <2>11 DEF price
<1>6. CASE UNCHANGED gossipVars
  BY <1>6 DEF gossipVars, Paid, Tokens
<1>7. QED
  BY <1>2, <1>3, <1>4, <1>5, <1>6 DEF GossipNext

\* Nothing is there to be paid for at the start.
LEMMA PaidInitially == GossipInit => Paid
<1> SUFFICES ASSUME GossipInit, NEW m \in Rumour
    PROVE  IsFiniteSet(Tokens(m)) /\ Cardinality(Tokens(m)) <= origins[m] * Cost[Hops]
  BY DEF Paid
<1>1. GossipTyped
  BY GossipInitially
<1>2. TokensAre(m)
  BY <1>1, TokensAreSuch
<1>3. sent[m] = 0 /\ net = {} /\ \A n \in Mate : Len(buffer[n]) = 0 /\ Len(batch[n]) = 0
  <2>1. Len(<<>>) = 0
    BY EmptySeq
  <2>2. QED
    BY <2>1 DEF GossipInit
<1>4. Tokens(m) = {}
  BY <1>2, <1>3 DEF TokensAre, FormsOf
<1>5. origins[m] = 0 /\ Cost[Hops] \in Nat
  <2>1. Hops \in 0..Hops
    BY GossipAssumption
  <2>2. QED
    BY <2>1, CostIs DEF GossipInit
<1>6. origins[m] * Cost[Hops] = 0
  BY <1>5
<1>7. QED
  BY <1>4, <1>6, FS_EmptySet

\* The sends are among the tokens.
LEMMA SendsArePaid ==
  ASSUME GossipTyped, Paid, NEW m \in Rumour
  PROVE  sent[m] <= origins[m] * Cost[Hops]
<1>1. IsFiniteSet(Tokens(m)) /\ Cardinality(Tokens(m)) <= origins[m] * Cost[Hops]
  BY DEF Paid
<1>2. TokensAre(m)
  BY TokensAreSuch
<1> DEFINE h == [t \in Tokens(m) |-> t[4]]
<1>3. ASSUME NEW c \in 1..sent[m] PROVE \E t \in Tokens(m) : h[t] = c
  <2>1. <<"sent", 0, 0, c>> \in Tokens(m)
    BY <1>2 DEF TokensAre, FormsOf
  <2>2. h[<<"sent", 0, 0, c>>] = c
    BY <2>1
  <2>3. QED
    BY <2>1, <2>2
<1> HIDE DEF h
<1>4. Cardinality(1..sent[m]) <= Cardinality(Tokens(m))
  BY <1>1, <1>3, CoveredIsSmaller
<1>5. sent[m] \in Nat /\ Cardinality(1..sent[m]) = sent[m]
  <2>1. sent[m] \in Nat
    BY DEF GossipTyped
  <2>2. QED
    BY <2>1, FS_Interval
<1>6. Cardinality(Tokens(m)) \in Nat /\ origins[m] * Cost[Hops] \in Nat
  <2>1. Hops \in 0..Hops
    BY GossipAssumption
  <2>2. Cost[Hops] \in Nat /\ origins[m] \in Nat
    BY <2>1, CostIs DEF GossipTyped
  <2>3. QED
    BY <1>1, <2>2, FS_CardinalityType
<1>7. QED
  BY <1>1, <1>4, <1>5, <1>6

\* For every number of nodes, hops, targets and messages, and however relays are timed,
\* peers change, sends fail and ids are forgotten: an id causes no more sends than its
\* origins pay for, and who has not forgotten it relays it once.
THEOREM HopsBoundTraffic == GossipSpec => []RumoursDie
<1> DEFINE Inv == GossipTyped /\ BatchesTyped /\ BufferedOnce /\ Paid
<1>1. GossipInit => Inv
  BY GossipInitially, PaidInitially
<1>2. Inv /\ [GossipNext]_gossipVars => Inv'
  BY GossipTypedStep, BatchesTypedStep, BufferedOnceStep, PaidStep
<1>3. Inv => RumoursDie
  <2> SUFFICES ASSUME Inv PROVE RumoursDie
    OBVIOUS
  <2>1. ASSUME NEW m \in Rumour PROVE sent[m] <= origins[m] * Cost[Hops]
    BY SendsArePaid
  <2>2. ASSUME NEW m \in Rumour, NEW n \in Mate, m \notin forgot[n] PROVE buffered[n][m] <= 1
    <3>1. buffered[n][m] <= (IF m \in seen[n] THEN 1 ELSE 0) /\ buffered[n][m] \in Nat
      BY <2>2 DEF BufferedOnce, GossipTyped
    <3>2. QED
      BY <3>1
  <2>3. QED
    BY <2>1, <2>2 DEF RumoursDie
<1>4. QED
  BY <1>1, <1>2, <1>3, PTL DEF GossipSpec

-----------------------------------------------------------------------------
(* All of them *)

\* A behaviour of the composition is one of each part.
LEMMA EachPartAlone ==
  Spec => /\ ChannelSpec /\ TasksSpec /\ GossipSpec /\ PeersSpec
          /\ EnginesSpec /\ FieldSpec /\ ReplicasSpec /\ MvSpec
<1>1. Init => /\ ChannelInit /\ TasksInit /\ GossipInit /\ PeersInit
              /\ EnginesInit /\ FieldInit /\ ReplicasInit /\ MvInit
  BY DEF Init
<1>2. [Next]_coordinationVars => [ChannelNext]_channelVars
  BY DEF Next, coordinationVars, channelVars, ChannelNext
<1>3. [Next]_coordinationVars => [TasksNext]_taskVars
  BY DEF Next, coordinationVars, taskVars
<1>4. [Next]_coordinationVars => [GossipNext]_gossipVars
  BY DEF Next, coordinationVars, gossipVars
<1>5. [Next]_coordinationVars => [PeersNext]_peerVars
  BY DEF Next, coordinationVars, peerVars
<1>6. [Next]_coordinationVars => [EnginesNext]_engineVars
  BY DEF Next, coordinationVars, engineVars, EnginesNext
<1>7. [Next]_coordinationVars => [FieldNext]_fieldVars
  BY DEF Next, coordinationVars, fieldVars
<1>8. [Next]_coordinationVars => [ReplicasNext]_replicaVars
  BY DEF Next, coordinationVars, replicaVars
<1>9. [Next]_coordinationVars => [MvNext]_mvVars
  BY DEF Next, coordinationVars, mvVars
<1>10. QED
  BY <1>1, <1>2, <1>3, <1>4, <1>5, <1>6, <1>7, <1>8, <1>9, PTL
     DEF Spec, ChannelSpec, TasksSpec, GossipSpec, PeersSpec, EnginesSpec, FieldSpec,
         ReplicasSpec, MvSpec

\* Every part is well typed.
LEMMA TypesOfTheParts ==
  Spec => [](/\ ChannelTypeOK /\ TasksTypeOK /\ GossipTypeOK /\ PeersTypeOK
             /\ EnginesTypeOK /\ FieldTypeOK /\ ReplicasTypeOK /\ MvTypeOK)
<1>1. ChannelSpec => []ChannelTypeOK
  <2>1. ChannelInit => ServedInv
    BY NoCastIsCast, FS_EmptySet DEF ChannelInit, ServedInv, SetIsServed
  <2>2. QED
    BY <2>1, ServedStep, ChannelTypeInit, ChannelTypeStep, PTL DEF ChannelSpec
<1>2. TasksSpec => []TasksTypeOK
  <2>1. TasksInv => TasksTypeOK
    BY DEF TasksInv
  <2>2. QED
    BY <2>1, TasksInitially, TasksStep, PTL DEF TasksSpec
<1>3. PeersSpec => []PeersTypeOK
  BY PeersInitially, PeersStep, PeersOnce, PeersTyped, PTL DEF PeersSpec
<1>4. EnginesSpec => []EnginesTypeOK
  BY RequestsInit, RequestsStep, EnginesTyped, PTL DEF EnginesSpec
<1>5. FieldSpec => []FieldTypeOK
  BY FieldTypeInit, FieldTypeStep, PTL DEF FieldSpec
<1>6. MvSpec => []MvTypeOK
  BY MvInitially, MvStep, MvTyped, PTL DEF MvSpec
<1>7. GossipSpec => []GossipTypeOK
  BY GossipInitially, GossipTypedStep, BatchesTypedStep, GossipTypes, PTL DEF GossipSpec
<1>8. QED
  BY EachPartAlone, <1>1, <1>2, <1>3, <1>4, <1>5, <1>6, <1>7, ReplicasTypeCorrect, PTL

\* The composition is well typed, whichever part is looked at: each has the types of its
\* own module, also while it stands still.
THEOREM CoordinationTypeCorrect == Spec => []TypeOK
BY TypesOfTheParts, PTL DEF TypeOK
=============================================================================
