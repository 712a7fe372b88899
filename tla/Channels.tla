------------------------------ MODULE Channels ------------------------------
(***************************************************************************)
(* api/websocket.py: the browsers' sockets of /ws/swarm and /ws/alerts.    *)
(* One handler per socket, all in one event loop: a step is the code from  *)
(* one await to the next.  On /ws/swarm every handler sends the state of   *)
(* the swarm to all sockets in turn; others come and go meanwhile.  A      *)
(* refused token ends a handler before it begins.  The handler of          *)
(* /ws/rovers is registered in a way that gives it no rover_id and never   *)
(* runs.                                                                   *)
(***************************************************************************)
EXTENDS Naturals, FiniteSets

CONSTANTS Socket,     \* sockets of /ws/swarm
          AlertSocket,    \* sockets of /ws/alerts
          MaxCasts     \* bound on the broadcasts under way at one time

ASSUME ChannelsAssumption == Socket \cap AlertSocket = {} /\ MaxCasts \in Nat

VARIABLES socketPc,    \* where the handler of each socket is
          present,     \* the sockets whose browser is there
          swarmTable, alertTable,    \* ConnectionManager's sets
          cast         \* of each handler's broadcast: the size of the set when it
                       \* began, who was in it, who was sent to, who failed

channelVars == <<socketPc, present, swarmTable, alertTable, cast>>

Handling == {"away", "receiving", "sending", "sleeping", "over"}
NoCast == [size |-> 0, first |-> {}, sent |-> {}, dead |-> {}]

ChannelTypeOK ==
  /\ socketPc \in [Socket \cup AlertSocket -> Handling]
  /\ present \subseteq Socket \cup AlertSocket
  /\ swarmTable \subseteq Socket /\ alertTable \subseteq AlertSocket
  /\ cast \in [Socket -> [size : Nat, first : SUBSET Socket,
                          sent : SUBSET Socket, dead : SUBSET Socket]]

ChannelInit ==
  /\ socketPc = [c \in Socket \cup AlertSocket |-> "away"]
  /\ present = {} /\ swarmTable = {} /\ alertTable = {}
  /\ cast = [c \in Socket |-> NoCast]

Go(c, from, to) == socketPc[c] = from /\ socketPc' = [socketPc EXCEPT ![c] = to]

\* A browser is gone, with no message left that the handler has not read.
Leave(c) ==
  /\ c \in present /\ present' = present \ {c}
  /\ UNCHANGED <<socketPc, swarmTable, alertTable, cast>>

\* connect_swarm(): accept() is awaited first.  It raises if the browser is gone by
\* then, and nothing has happened.
ConnectSwarm(c) ==
  /\ Go(c, "away", "receiving") /\ present' = present \cup {c}
  /\ swarmTable' = swarmTable \cup {c}
  /\ UNCHANGED <<alertTable, cast>>

\* Mutant: a handler that ends leaves its socket in the set.
EndForgets(c) ==
  /\ socketPc' = [socketPc EXCEPT ![c] = "over"]
  /\ present' = present \ {c}
  /\ cast' = [cast EXCEPT ![c] = NoCast]
  /\ UNCHANGED <<swarmTable, alertTable>>

\* disconnect_swarm(), the same for a browser that left and for any other exception;
\* the server closes the socket of a handler that returns.
End(c) ==
  /\ socketPc' = [socketPc EXCEPT ![c] = "over"]
  /\ swarmTable' = swarmTable \ {c} /\ present' = present \ {c}
  /\ cast' = [cast EXCEPT ![c] = NoCast]
  /\ UNCHANGED alertTable

\* A message (a ping is answered), or 30 s without one: broadcast_swarm() begins.
BeginBroadcast(c) ==
  /\ c \in present /\ Go(c, "receiving", "sending")
  /\ Cardinality({d \in Socket : socketPc[d] = "sending"}) < MaxCasts
  /\ cast' = [cast EXCEPT ![c] = [NoCast EXCEPT !.size = Cardinality(swarmTable),
                                                !.first = swarmTable]]
  /\ UNCHANGED <<present, swarmTable, alertTable>>

\* The browser is gone, or what it sent is no JSON object: the handler ends.
ReceiveFails(c) == socketPc[c] = "receiving" /\ End(c)

\* The set may not change its size while it is walked through.
Broken(c) == Cardinality(swarmTable) # cast[c].size

\* The next socket of the set, in any order; a send to a browser that is gone may
\* raise, or seem to succeed.
Send(c, d) ==
  /\ socketPc[c] = "sending" /\ ~Broken(c) /\ d \in swarmTable \ cast[c].sent
  /\ \E dead \in {{}, {d} \ present} :
       cast' = [cast EXCEPT ![c].sent = @ \cup {d}, ![c].dead = @ \cup dead]
  /\ UNCHANGED <<socketPc, present, swarmTable, alertTable>>

\* After the last one, those that failed go.  A socket that took the place of another
\* in the set meanwhile is met or not.
EndBroadcast(c) ==
  /\ Go(c, "sending", "sleeping") /\ ~Broken(c)
  /\ cast[c].first \cap swarmTable \subseteq cast[c].sent
  /\ swarmTable' = swarmTable \ cast[c].dead
  /\ cast' = [cast EXCEPT ![c] = NoCast]
  /\ UNCHANGED <<present, alertTable>>

\* RuntimeError: the handler ends for what happened to others.
BroadcastBreaks(c) == socketPc[c] = "sending" /\ Broken(c) /\ End(c)

WakeUp(c) == Go(c, "sleeping", "receiving") /\ UNCHANGED <<present, swarmTable, alertTable, cast>>

\* connect_alerts()
ConnectAlerts(c) ==
  /\ Go(c, "away", "receiving") /\ present' = present \cup {c}
  /\ alertTable' = alertTable \cup {c}
  /\ UNCHANGED <<swarmTable, cast>>

\* websocket_alerts(): whatever comes, the end of the socket too, is passed over, and
\* the handler sleeps and receives again.
ReceiveAlert(c) == Go(c, "receiving", "sleeping") /\ UNCHANGED <<present, swarmTable, alertTable, cast>>

Handler(c) ==
  \/ BeginBroadcast(c) \/ ReceiveFails(c)
  \/ EndBroadcast(c) \/ BroadcastBreaks(c) \/ WakeUp(c)
  \/ \E d \in Socket : Send(c, d)

SwarmChannelNext == \E c \in Socket : ConnectSwarm(c) \/ Leave(c) \/ Handler(c)

AlertChannelNext ==
  \E c \in AlertSocket : ConnectAlerts(c) \/ Leave(c) \/ ReceiveAlert(c) \/ WakeUp(c)

ChannelNext == SwarmChannelNext \/ AlertChannelNext

\* The event loop runs every handler that can go on.
ChannelFairness == \A c \in Socket : WF_channelVars(Handler(c))

ChannelSpec == ChannelInit /\ [][ChannelNext]_channelVars /\ ChannelFairness
-----------------------------------------------------------------------------
(* Properties *)

\* A browser that is connected hears the broadcasts, whatever the broadcasts of others
\* make of the set: its socket is in it as long as its handler goes on, and no socket
\* is in it without a handler.
SetIsServed ==
  \A c \in Socket :
    /\ c \in present /\ socketPc[c] \in {"receiving", "sending", "sleeping"} => c \in swarmTable
    /\ c \in swarmTable => socketPc[c] \in {"receiving", "sending", "sleeping"}

\* A browser that left is not sent to for ever.
GhostsGo == \A c \in Socket : c \in swarmTable \ present ~> c \notin swarmTable
=============================================================================
