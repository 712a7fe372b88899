-------------------------------- MODULE Field --------------------------------
(***************************************************************************)
(* node.py, ground_station.py, communication/mqtt_client.py and            *)
(* api/routers/commands.py: rovers and a ground station that are started   *)
(* and stopped around a broker.  A step is the code from one await to the  *)
(* next.  What the MQTT library is asked may be done, may fail, or may be  *)
(* done and fail: it is not asked for anything it returns.  The broker is  *)
(* outside the repository: it loses, repeats and reorders.  What comes to  *)
(* the station changes nothing: _dispatch() looks its handlers up by the   *)
(* topic of the message, and they are under the pattern subscribed to.     *)
(***************************************************************************)
EXTENDS Naturals, Sequences

CONSTANTS Rover,
          Loop        \* the loops of a rover that publish

ASSUME FieldAssumption == Loop \subseteq {"sync", "heartbeat", "telemetry", "consensus"}

VARIABLES phase,      \* where start() and then stop() of each rover are
          loops,      \* its loops: gone, asleep, or awaiting a publish
          connected,  \* _connected of its client
          handlers,   \* whether its client has the handler of its commands
          status,     \* the value of state.status
          broker,     \* what the broker holds: topics, and who is subscribed to what
          station     \* where the station's start() and stop() are

fieldVars == <<phase, loops, connected, handlers, status, broker, station>>

Kind == {"crdt/sync", "heartbeat", "telemetry", "consensus", "command"}
Phase == {"new", "connecting", "subscribing", "up", "cancelling", "closing", "stopped", "broken"}
StationTopics == <<"telemetry", "heartbeat", "crdt/sync">>    \* each of rover/+/...

FieldTypeOK ==
  /\ phase \in [Rover -> Phase] /\ connected \in [Rover -> BOOLEAN]
  /\ loops \in [Rover -> [Loop -> {"gone", "asleep", "publishing"}]]
  /\ handlers \in [Rover -> BOOLEAN] /\ status \in [Rover -> {"online", "offline"}]
  /\ broker \in [held : SUBSET (Rover \X Kind), commands : SUBSET Rover, rovers : SUBSET Kind]
  /\ station \in Phase

FieldInit ==
  /\ phase = [r \in Rover |-> "new"] /\ connected = [r \in Rover |-> FALSE]
  /\ loops = [r \in Rover |-> [l \in Loop |-> "gone"]]
  /\ handlers = [r \in Rover |-> FALSE] /\ status = [r \in Rover |-> "online"]
  /\ broker = [held |-> {}, commands |-> {}, rovers |-> {}]
  /\ station = "new"

Moves(r, from, to) == phase[r] \in from /\ phase' = [phase EXCEPT ![r] = to]
Set(f, r, value) == [f EXCEPT ![r] = value]
NoLoops == [l \in Loop |-> "gone"]

\* MqttClient.connect(), with either library: what on_connect is told is only logged.
ConnectClient(r) == connected' = Set(connected, r, TRUE)

\* MqttClient.publish() raises unless the client passes for connected.
MayPublish(r) == connected[r]

StartRover(r) ==
  /\ Moves(r, {"new"}, "connecting")
  /\ UNCHANGED <<loops, connected, handlers, status, broker, station>>

\* start() goes on when connect() has returned: consensus, the loops, and subscribe(),
\* which makes the topic's list of handlers and awaits the library.
Connect(r) ==
  /\ Moves(r, {"connecting"}, "subscribing")
  /\ ConnectClient(r)
  /\ loops' = Set(loops, r, [l \in Loop |-> "asleep"])
  /\ UNCHANGED <<handlers, status, broker, station>>

\* ... and puts the handler there after that, if the library's may be awaited (see
\* StationSubscribes); if not, start() raises: StopRover.
Subscribe(r) ==
  /\ Moves(r, {"subscribing"}, "up") /\ handlers' = Set(handlers, r, TRUE)
  /\ UNCHANGED <<loops, connected, status, broker, station>>

BrokerSubscribes(r) ==
  /\ phase[r] \in {"subscribing", "up"}
  /\ broker' = [broker EXCEPT !.commands = @ \cup {r}]
  /\ UNCHANGED <<phase, loops, connected, handlers, status, station>>

\* _run_rover_node(): a signal, or whatever start() raises, leads to stop(), which
\* cancels the loops.
StopRover(r) ==
  /\ Moves(r, {"connecting", "subscribing", "up"}, "cancelling")
  /\ UNCHANGED <<loops, connected, handlers, status, broker, station>>

\* Mutant: the loops are not waited for, and end when they look at _running.
GatherNot(r) ==
  /\ Moves(r, {"cancelling"}, "closing")
  /\ loops' = [loops EXCEPT ![r] = [l \in Loop |-> IF @[l] = "publishing" THEN @[l] ELSE "gone"]]
  /\ status' = Set(status, r, "offline")
  /\ UNCHANGED <<connected, handlers, broker, station>>

\* The cancelled loops have been gathered; disconnect() awaits the library.
Gather(r) ==
  /\ Moves(r, {"cancelling"}, "closing") /\ loops' = Set(loops, r, NoLoops)
  /\ status' = Set(status, r, "offline")
  /\ UNCHANGED <<connected, handlers, broker, station>>

\* disconnect(): if the library raises, the client passes for connected and consensus
\* is not stopped.
Disconnect(r, fails) ==
  /\ Moves(r, {"closing"}, IF fails THEN "broken" ELSE "stopped")
  /\ connected' = Set(connected, r, fails /\ connected[r])
  /\ broker' = [broker EXCEPT !.commands = @ \ {r}]
  /\ UNCHANGED <<loops, handlers, status, station>>

\* _on_disconnect(): the library connects again by itself, but nothing notes that.
OnDisconnect(r) ==
  /\ connected[r] /\ connected' = Set(connected, r, FALSE)
  /\ UNCHANGED <<phase, loops, handlers, status, broker, station>>

\* A loop wakes and publishes, if it goes on and may; what consensus has to say is not
\* asked for, the loop may sleep on.
BeginPublish(r, l) ==
  /\ phase[r] \in {"subscribing", "up"} /\ loops[r][l] = "asleep" /\ MayPublish(r)
  /\ loops' = [loops EXCEPT ![r][l] = "publishing"]
  /\ UNCHANGED <<phase, connected, handlers, status, broker, station>>

KindOf(l) == IF l = "sync" THEN "crdt/sync" ELSE l

Publish(r, l) ==
  /\ loops[r][l] = "publishing" /\ broker' = [broker EXCEPT !.held = @ \cup {<<r, KindOf(l)>>}]
  /\ UNCHANGED <<phase, loops, connected, handlers, status, station>>

\* publish() returns or raises: the heartbeats end for good at an error of the library.
EndPublish(r, l) ==
  /\ loops[r][l] = "publishing" /\ phase[r] # "cancelling"
  /\ \E after \in {"asleep"} \cup (IF l = "heartbeat" THEN {"gone"} ELSE {}) :
       loops' = [loops EXCEPT ![r][l] = after]
  /\ UNCHANGED <<phase, connected, handlers, status, broker, station>>

\* send_rover_command(): queued, or a 502, and published in either case or in none.
SendRoverCommand(r) ==
  /\ broker' = [broker EXCEPT !.held = @ \cup {<<r, "command">>}]
  /\ UNCHANGED <<phase, loops, connected, handlers, status, station>>

\* broadcast_command(): queued for all, whoever was reached.
BroadcastCommand(reached) ==
  /\ broker' = [broker EXCEPT !.held = @ \cup (reached \X {"command"})]
  /\ UNCHANGED <<phase, loops, connected, handlers, status, station>>

\* handle_command(): set_status takes a value beside the command, and the interface puts
\* it among the params, so that it is always the default.  Others leave the status alone.
HandleCommand(r) == status' \in {status, Set(status, r, "online")}

\* _on_message(): what the broker holds may come, once or again.
Arrives(r, k) == <<r, k>> \in broker.held

\* _on_command(), in a task of its own that stop() does not know; an error is logged.
OnCommand(r) ==
  /\ Arrives(r, "command") /\ r \in broker.commands /\ handlers[r]
  /\ HandleCommand(r)
  /\ UNCHANGED <<phase, loops, connected, handlers, broker, station>>

BrokerDrops(r, k) ==
  /\ <<r, k>> \in broker.held /\ broker' = [broker EXCEPT !.held = @ \ {<<r, k>>}]
  /\ UNCHANGED <<phase, loops, connected, handlers, status, station>>

\* GroundStation.start(): it connects and subscribes to its topics one by one,
StationStarts ==
  /\ station = "new" /\ station' = "subscribing"
  /\ UNCHANGED <<phase, loops, connected, handlers, status, broker>>

\* ... or not: subscribe() is awaited, of gmqtt and of paho it may not be, and start()
\* raises when it has asked for the first.
StationSubscribes(i) ==
  /\ station = "subscribing" /\ \A j \in 1..(i - 1) : StationTopics[j] \in broker.rovers
  /\ broker' = [broker EXCEPT !.rovers = @ \cup {StationTopics[i]}]
  /\ station' \in {IF i = Len(StationTopics) THEN "up" ELSE station, "closing"}
  /\ UNCHANGED <<phase, loops, connected, handlers, status>>

\* _run_ground_station(): a signal, or whatever start() raises, leads to stop(),
StopStation ==
  /\ station \in {"subscribing", "up"} /\ station' = "closing"
  /\ UNCHANGED <<phase, loops, connected, handlers, status, broker>>

\* ... which may raise too, and the process ends in either case.
StationStops ==
  /\ station = "closing" /\ station' \in {"stopped", "broken"}
  /\ broker' = [broker EXCEPT !.rovers = {}]
  /\ UNCHANGED <<phase, loops, connected, handlers, status>>

FieldNext ==
  \/ StationStarts \/ StopStation \/ StationStops \/ \E i \in 1..3 : StationSubscribes(i)
  \/ \E reached \in SUBSET Rover : BroadcastCommand(reached)
  \/ \E r \in Rover :
       \/ StartRover(r) \/ Connect(r) \/ Subscribe(r) \/ BrokerSubscribes(r)
       \/ StopRover(r) \/ Gather(r) \/ \E fails \in BOOLEAN : Disconnect(r, fails)
       \/ OnDisconnect(r) \/ SendRoverCommand(r) \/ OnCommand(r)
       \/ \E l \in Loop : BeginPublish(r, l) \/ Publish(r, l) \/ EndPublish(r, l)
       \/ \E k \in Kind : BrokerDrops(r, k)

FieldSpec == FieldInit /\ [][FieldNext]_fieldVars
-----------------------------------------------------------------------------
(* Properties *)

\* Whatever became of start(), a rover whose stop() has come to the broker says nothing
\* more, and at the end nothing of it runs.
StopIsClean ==
  [][\A r \in Rover :
       phase[r] \in {"closing", "stopped", "broken"} =>
         /\ \A k \in Kind \ {"command"} :
              <<r, k>> \in broker'.held => <<r, k>> \in broker.held
         /\ phase'[r] \in {"stopped", "broken"} => loops'[r] = NoLoops]_fieldVars
=============================================================================
