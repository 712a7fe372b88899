------------------------------ MODULE Replicas ------------------------------
(***************************************************************************)
(* The replicated objects of crdt/ that are put together from others:      *)
(* gset.py, pncounter.py, lwwmap.py, rover_state.py, swarm_state.py and    *)
(* mission_state.py with swarm/mission_planner.py, as records, their       *)
(* methods as operators, and replicas of one of them that are changed,     *)
(* sent and merged.  No two writes read the same time (LwwRegSync has      *)
(* ties), and the time stands for the value too, so that all values        *)
(* differ.  Of the fields that behave alike a composite has one, and None  *)
(* stands for what that is made with, the same at every node (LwwRegSync   *)
(* has others).  Its counters, which no code of the repository increments  *)
(* but a mission's, are GCounterSync's; the vector clocks are read by none *)
(* of them.                                                                *)
(***************************************************************************)
EXTENDS LwwReg, FiniteSets

CONSTANTS Key,           \* elements of a set, keys of a map, rovers of a swarm
          Kinds,         \* the objects to look at
          KeysOf,        \* bound on the keys an object of each kind is changed at
          Mail,          \* bound on the messages: the places for one on its way
          MaxUpdates     \* bound on the changes, each at a time of its own

ASSUME ReplicasAssumption ==
  /\ Kinds \subseteq {"gset", "pncounter", "lwwmap", "rover", "mission", "swarm"}
  /\ KeysOf \in [Kinds -> SUBSET Key] /\ Key \cap {"pos", "neg", "all"} = {}
  /\ Node # {} /\ Mail \cap Node = {}
  /\ MaxUpdates \in Nat /\ 1..MaxUpdates \subseteq Value

G == INSTANCE GCounter

VARIABLES kind,     \* what the replicas are of
          replica,  \* the object of each node, and what each message tells of it
          known,    \* history: the changes each has heard of, with their times,
                    \* their nodes and what they were to
          bent      \* history: a task was changed in place whose write was then dropped

replicaVars == <<kind, replica, known, bent>>

Place == Node \cup Mail
Someone == CHOOSE n \in Node : TRUE

NoKeys == [k \in {} |-> 0]
Put(f, k, x) == [j \in DOMAIN f \cup {k} |-> IF j = k THEN x ELSE f[j]]
Drop(f, k) == [j \in DOMAIN f \ {k} |-> f[j]]

\* LwwMap
NewMap(n) == [node |-> n, data |-> NoKeys, dirty |-> {}]
RegisterAt(m, k) == IF k \in DOMAIN m.data THEN m.data[k] ELSE NewReg(m.node, None)
SetKey(m, k, v, t) ==
  [m EXCEPT !.data = Put(@, k, SetReg(RegisterAt(m, k), v, t)), !.dirty = @ \cup {k}]

DeleteKey(m, k, t) == IF k \in DOMAIN m.data THEN SetKey(m, k, None, t) ELSE m
MapValue(m) == [k \in DOMAIN m.data |-> m.data[k].value]

\* What two tables have under the keys of either, joined where both have it.
Union(f, g, Join(_, _)) ==
  [k \in DOMAIN f \cup DOMAIN g |->
     IF k \notin DOMAIN f THEN g[k] ELSE IF k \notin DOMAIN g THEN f[k] ELSE Join(f[k], g[k])]

MergeMap(m, o) == [node |-> m.node, data |-> Union(m.data, o.data, MergeReg), dirty |-> {}]

\* A delta has the values without their times: they are written anew at the receiver's.
MapDelta(m) == [k \in m.dirty |-> m.data[k].value]
ApplyMapDelta(m, delta, t) ==
  [m EXCEPT !.data =
     [k \in DOMAIN @ \cup DOMAIN delta |->
        IF k \in DOMAIN delta THEN SetReg(RegisterAt(m, k), delta[k], t) ELSE @[k]]]

\* GSet
NewSet == [all |-> {}, fresh |-> {}]
AddElement(s, e) ==
  IF e \in s.all THEN s ELSE [all |-> s.all \cup {e}, fresh |-> s.fresh \cup {e}]
MergeSet(s, o) == [all |-> s.all \cup o.all, fresh |-> {}]
ApplySetDelta(s, from) == [s EXCEPT !.all = @ \cup from.fresh]

\* PnCounter
NewPn(n) == [pos |-> G!NewGCounter(n), neg |-> G!NewGCounter(n)]
MergePn(c, o) == [pos |-> G!Merge(c.pos, o.pos), neg |-> G!Merge(c.neg, o.neg)]
ApplyPnDelta(c, from) ==
  [pos |-> G!ApplyDelta(c.pos, G!DeltaOf(from.pos)), neg |-> G!ApplyDelta(c.neg, G!DeltaOf(from.neg))]
PnValue(c) ==
  [n \in Node |-> c.pos.counts[n] - c.neg.counts[n]]

\* RoverState, with a register and a map; MissionState, with a counter too.
NewRover(n) == [status |-> NewReg(n, None), tasks |-> NewMap(n)]
RoverValue(r) == [status |-> r.status.value, tasks |-> MapValue(r.tasks)]
MergeRover(r, o) ==
  [status |-> MergeReg(r.status, o.status), tasks |-> MergeMap(r.tasks, o.tasks)]

NewMission(n) == [phase |-> NewReg(n, None), tasks |-> NewMap(n), completed |-> G!NewGCounter(n)]
MissionValue(s) ==
  [phase |-> s.phase.value, tasks |-> MapValue(s.tasks), completed |-> s.completed.counts]
MergeMission(s, o) ==
  [phase |-> MergeReg(s.phase, o.phase), tasks |-> MergeMap(s.tasks, o.tasks),
   completed |-> G!Merge(s.completed, o.completed)]

\* The delta of a composite is not read but for its clock, and of that the merge is lost.
ApplyRoverDelta(r, from) == r
ApplyMissionDelta(s, from) == s

\* SwarmState
NewSwarm(n) == [rovers |-> NoKeys, leader |-> NewReg(n, None)]
SwarmValue(s) == [rovers |-> [r \in DOMAIN s.rovers |-> RoverValue(s.rovers[r])],
                  leader |-> s.leader.value]

\* Mutant: of the rovers only its own ones.
MergeSwarmOwn(s, o) ==
  [rovers |-> [r \in DOMAIN s.rovers |->
                 IF r \in DOMAIN o.rovers THEN MergeRover(s.rovers[r], o.rovers[r]) ELSE s.rovers[r]],
   leader |-> MergeReg(s.leader, o.leader)]

MergeSwarm(s, o) ==
  [rovers |-> Union(s.rovers, o.rovers, MergeRover), leader |-> MergeReg(s.leader, o.leader)]

ApplySwarmDelta(s, from) == s

\* What to_binary() and from_binary() bring over, and reset_delta() leaves: all but what
\* waits to be sent.  Nothing reads what the registers of a map note.
WireSet(s) == [s EXCEPT !.fresh = {}]
WirePn(c) == [pos |-> G!ResetDelta(c.pos), neg |-> G!ResetDelta(c.neg)]
WireMap(m) == [m EXCEPT !.dirty = {}]
WireRover(r) == [status |-> ResetRegDelta(r.status), tasks |-> WireMap(r.tasks)]
WireMission(s) ==
  [phase |-> ResetRegDelta(s.phase), tasks |-> WireMap(s.tasks),
   completed |-> G!ResetDelta(s.completed)]
WireSwarm(s) ==
  [rovers |-> [r \in DOMAIN s.rovers |-> WireRover(s.rovers[r])], leader |-> ResetRegDelta(s.leader)]

\* CRDT_TYPE_MAP: each by its type.
OnWire(x) ==
  CASE kind = "gset" -> WireSet(x)
    [] kind = "pncounter" -> WirePn(x)
    [] kind = "lwwmap" -> WireMap(x)
    [] kind = "rover" -> WireRover(x)
    [] kind = "mission" -> WireMission(x)
    [] kind = "swarm" -> WireSwarm(x)

New(n) ==
  CASE kind = "gset" -> NewSet
    [] kind = "pncounter" -> NewPn(n)
    [] kind = "lwwmap" -> NewMap(n)
    [] kind = "rover" -> NewRover(n)
    [] kind = "mission" -> NewMission(n)
    [] kind = "swarm" -> NewSwarm(n)

Merged(x, o) ==
  CASE kind = "gset" -> MergeSet(x, o)
    [] kind = "pncounter" -> MergePn(x, o)
    [] kind = "lwwmap" -> MergeMap(x, o)
    [] kind = "rover" -> MergeRover(x, o)
    [] kind = "mission" -> MergeMission(x, o)
    [] kind = "swarm" -> MergeSwarm(x, o)

Shown(x) ==
  CASE kind = "gset" -> x.all
    [] kind = "pncounter" -> PnValue(x)
    [] kind = "lwwmap" -> MapValue(x)
    [] kind = "rover" -> RoverValue(x)
    [] kind = "mission" -> MissionValue(x)
    [] kind = "swarm" -> SwarmValue(x)

Used == {u[1] : u \in UNION {known[p] : p \in Place}}

ReplicasTypeOK ==
  /\ kind \in Kinds
  /\ known \in [Place -> SUBSET ((1..MaxUpdates) \X Node \X (Key \cup {"pos", "neg", "all"}))]
  /\ kind = "gset" => \A p \in Place : replica[p].fresh \subseteq replica[p].all
  /\ kind = "lwwmap" => \A p \in Place : replica[p].dirty \subseteq DOMAIN replica[p].data
  /\ bent \in BOOLEAN

\* A message not sent yet tells of a new object.
ReplicasInit ==
  /\ kind \in Kinds /\ known = [p \in Place |-> {}] /\ bent = FALSE
  /\ replica = [p \in Place |-> New(IF p \in Node THEN p ELSE Someone)]

\* A change at node n that makes x of its object, heard of nowhere else,
Sets(n, t, what, x) ==
  /\ t \notin Used /\ replica' = [replica EXCEPT ![n] = x]
  /\ known' = [known EXCEPT ![n] = @ \cup {<<t, n, what>>}] /\ UNCHANGED kind

\* ... and none that is dropped.
Changes(n, t, what, x) == Sets(n, t, what, x) /\ UNCHANGED bent

Add(n, t, e) == kind = "gset" /\ e \notin replica[n].all /\ Changes(n, t, e, AddElement(replica[n], e))

Count(n, t, way) ==
  /\ kind = "pncounter"
  /\ Changes(n, t, way, [replica[n] EXCEPT ![way] = G!Increment(@, 1)])

SetInMap(n, t, k) == kind = "lwwmap" /\ Changes(n, t, k, SetKey(replica[n], k, t, t))

DeleteInMap(n, t, k) ==
  /\ kind = "lwwmap" /\ k \in DOMAIN replica[n].data
  /\ Changes(n, t, k, DeleteKey(replica[n], k, t))

\* The planner's new mission, with a task.
Created(n, t, k) == [NewMission(n) EXCEPT !.tasks = SetKey(@, k, t, t)]

\* The request for it is refused where the mission is there already.
CreateMission(n, t, k) ==
  /\ kind = "mission" /\ known[n] = {}
  /\ Changes(n, t, "all", Created(n, t, k))

\* start_mission(), complete_mission() and fail_mission() set the phase whatever it was.
SetPhase(n, t) ==
  /\ kind = "mission"
  /\ Changes(n, t, "all", [replica[n] EXCEPT !.phase = SetReg(@, t, t)])

\* The request to delete a mission makes it a failed one, a completed one too.
CancelMission(n, t) == SetPhase(n, t)

\* add_task(); assign_rover() and remove_rover() are alike.
SetMissionTask(n, t, k) ==
  /\ kind = "mission"
  /\ Changes(n, t, "all", [replica[n] EXCEPT !.tasks = SetKey(@, k, t, t)])

\* update_task_status() changes the task where it is, and then sets it: when the set is
\* dropped, for the clock is behind, the task has changed all the same.
InPlace(m, k, v) == [m EXCEPT !.data[k].value = v]

UpdateTaskStatus(n, t, k) ==
  /\ kind = "mission" /\ k \in DOMAIN replica[n].tasks.data
  /\ Sets(n, t, "all", [replica[n] EXCEPT !.tasks = SetKey(InPlace(@, k, t), k, t, t)])
  /\ bent' = (bent \/ ~ Accepts(replica[n].tasks.data[k], t))

\* A request may set the name and the phase, alike here, and the task together; when it
\* is refused for its phase, the name has been set.
UpdateMission(n, t, k) ==
  LET named == [replica[n] EXCEPT !.phase = SetReg(@, t, t)] IN
  /\ kind = "mission"
  /\ \E x \in {named, [named EXCEPT !.tasks = SetKey(@, k, t, t)]} : Changes(n, t, "all", x)

CompleteObjective(n, t) ==
  /\ kind = "mission"
  /\ Changes(n, t, "all", [replica[n] EXCEPT !.completed = G!Increment(@, 1)])

\* What was known of the rover is gone from here.
AddRover(n, t, r) ==
  /\ kind = "swarm" /\ t \notin Used
  /\ replica' = [replica EXCEPT ![n].rovers = Put(@, r, NewRover(n))]
  /\ known' = [known EXCEPT ![n] = {u \in @ : u[3] # r} \cup {<<t, n, r>>}] /\ UNCHANGED <<kind, bent>>

\* Only here: a merge with another that has the rover brings it back.
RemoveRover(n, r) ==
  /\ kind = "swarm" /\ r \in DOMAIN replica[n].rovers
  /\ replica' = [replica EXCEPT ![n].rovers = Drop(@, r)]
  /\ known' = [known EXCEPT ![n] = {u \in @ : u[3] # r}] /\ UNCHANGED <<kind, bent>>

\* update_position(), update_status(), update_battery() and update_role(), or a task.
Updated(r, t) ==
  {[r EXCEPT !.status = SetReg(@, t, t)]} \cup {[r EXCEPT !.tasks = SetKey(@, k, t, t)] : k \in KeysOf[kind]}

UpdateOwn(n, t) ==
  kind = "rover" /\ \E x \in Updated(replica[n], t) : Changes(n, t, "all", x)

UpdateRover(n, t, r) ==
  /\ kind = "swarm" /\ r \in DOMAIN replica[n].rovers
  /\ \E x \in Updated(replica[n].rovers[r], t) :
       Changes(n, t, r, [replica[n] EXCEPT !.rovers[r] = x])

SetLeader(n, t) ==
  kind = "swarm" /\ Changes(n, t, "all", [replica[n] EXCEPT !.leader = SetReg(@, t, t)])

\* n sends what it has and its delta, instead of an older message.
SendTo(n, p) ==
  /\ replica' = [replica EXCEPT ![p] = replica[n]] /\ known' = [known EXCEPT ![p] = known[n]]
  /\ UNCHANGED <<kind, bent>>

\* n gets the state of another, or what it was when it was sent: a message may come late,
\* out of order, again and again or never, and to anyone.
MergeFrom(n, m) ==
  /\ n # m /\ replica' = [replica EXCEPT ![n] = Merged(@, OnWire(replica[m]))]
  /\ known' = [known EXCEPT ![n] = @ \cup known[m]] /\ UNCHANGED <<kind, bent>>

\* apply_delta(): a receiver has heard of what is in it,
ApplyDeltaFrom(n, m) ==
  /\ n # m /\ kind # "lwwmap" /\ UNCHANGED <<kind, bent>>
  /\ CASE kind = "gset" ->
            /\ replica' = [replica EXCEPT ![n] = ApplySetDelta(@, replica[m])]
            /\ known' = [known EXCEPT ![n] = @ \cup {u \in known[m] : u[3] \in replica[m].fresh}]
       [] kind = "pncounter" ->
            /\ replica' = [replica EXCEPT ![n] = ApplyPnDelta(@, replica[m])]
            /\ known' = [known EXCEPT ![n] =
                 @ \cup {u \in known[m] : u[2] = replica[m].pos.node_id /\ replica[m][u[3]].delta # 0}]
       [] kind = "rover" ->
            replica' = [replica EXCEPT ![n] = ApplyRoverDelta(@, replica[m])] /\ UNCHANGED known
       [] kind = "mission" ->
            replica' = [replica EXCEPT ![n] = ApplyMissionDelta(@, replica[m])] /\ UNCHANGED known
       [] kind = "swarm" ->
            replica' = [replica EXCEPT ![n] = ApplySwarmDelta(@, replica[m])] /\ UNCHANGED known

\* ... and with a map it is a change of its own.
ApplyMapDeltaFrom(n, m, t) ==
  /\ n # m /\ kind = "lwwmap" /\ replica[m].dirty # {}
  /\ \E k \in replica[m].dirty : Changes(n, t, k, ApplyMapDelta(replica[n], MapDelta(replica[m]), t))

ResetDeltas(n) ==
  /\ replica' = [replica EXCEPT ![n] = OnWire(@)] /\ UNCHANGED <<kind, known, bent>>

ReplicasNext ==
  \/ \E n \in Node, t \in 1..MaxUpdates :
       \/ UpdateOwn(n, t) \/ CompleteObjective(n, t) \/ SetPhase(n, t) \/ CancelMission(n, t)
       \/ SetLeader(n, t)
       \/ \E way \in {"pos", "neg"} : Count(n, t, way)
       \/ \E p \in Place : ApplyMapDeltaFrom(n, p, t)
       \/ \E k \in KeysOf[kind] :
            \/ Add(n, t, k) \/ SetInMap(n, t, k) \/ DeleteInMap(n, t, k)
            \/ CreateMission(n, t, k) \/ SetMissionTask(n, t, k) \/ UpdateTaskStatus(n, t, k)
            \/ UpdateMission(n, t, k) \/ AddRover(n, t, k) \/ UpdateRover(n, t, k)
  \/ \E n \in Node : ResetDeltas(n) \/ \E k \in Key : RemoveRover(n, k)
  \/ \E n \in Node, p \in Mail : SendTo(n, p)
  \/ \E n \in Node, p \in Place : MergeFrom(n, p) \/ ApplyDeltaFrom(n, p)

ReplicasSpec == ReplicasInit /\ [][ReplicasNext]_replicaVars
-----------------------------------------------------------------------------
(* Properties *)

\* Whatever has heard of the same changes shows the same, however they came to it, in
\* whatever order, through whom, how late and how often,
TheSameIsShown ==
  \A p, q \in Place : known[p] = known[q] => Shown(replica[p]) = Shown(replica[q])

\* ... as long as no task was changed in place by a write that was dropped.
ReplicasAgree == bent \/ TheSameIsShown
=============================================================================
