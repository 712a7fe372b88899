# Formal model of the rover swarm

TLA+ modules, TLC configurations and TLAPS proofs for the code in
`src/src/rover_swarm` (paths below are relative to that directory unless they
begin with `docs/`, which is `src/docs/`). Definitions are translated from the
Python source; the documents are quoted only where they claim something the
code does not do.

To run a module: `tlc -workers 2 -config MCGCounterSync.cfg GCounterSync`. To
check its proofs: `tlapm GCounterProofs.tla`.

Contents: 1 the system and its parts, 2 the modules, 3 runs and bounds,
4 fairness, 5 proofs, 6 where code and documents part, 7 what is not modelled,
8 plan.

## 1. The system and its parts

Every rover runs a `RoverNode` with a `RoverState` made of CRDTs. The node
publishes the state over MQTT every `CRDT_SYNC_INTERVAL`, steps an election module every `HEARTBEAT_INTERVAL`, and would merge a peer's state when
`sync_state` were called; no code calls it. A ground station subscribes to all rovers
and answers the HTTP interface; what rovers publish comes to it and to none of its handlers. Sensors feed a pipeline that
hands batches to a sink. Security services (tokens, keys, rate limits, audit)
stand beside the HTTP interface. All of it is Python on one asyncio event loop
per process: a step lasts from one `await` to the next, and the concurrency
lies in what other tasks, other processes and the network do between two steps.

| Part | State | Operations | Talks to | Hard behaviour | Correct when |
|---|---|---|---|---|---|
| `crdt/gcounter.py` | counts per node, pending delta | increment, merge, delta, apply_delta, reset_delta | peers, by states and deltas | late, repeated, lost and reordered messages; restart | never counts twice, never goes back |
| `crdt/lwwreg.py` | value, timestamp, node id, last write | set, merge, delta, apply_delta | peers | clocks out of step, ties, empty deltas | value and time stay together; equal times mean equal values; replicas only move to later writes, and change nothing without one |
| `crdt/orset.py` | add tags, removed tags, tag counter | add, remove, merge, delta, apply_delta | peers | add against remove, tags issued again, tombstones before tags | what was added is shown unless a remove saw it; states forget nothing |
| `crdt/pncounter.py`, `lwwmap.py`, `gset.py` | two counters, registers by key, elements | the same | peers | as above; a map's delta has no times | replicas that heard the same show the same; a newer value stays |
| `crdt/mvreg.py`, `vector_clock.py` | tags with clocks | write, merge, delta, apply_delta | peers | which write came before which, judged by clocks that deltas make up | no concurrent write is lost |
| `crdt/rga.py` | linked elements, tag counter | insert, append, delete, merge | nobody | reused tags make a ring | see section 7 |
| `crdt/rover_state.py`, `swarm_state.py`, `mission_state.py`, `merge_engine.py`, `serialization.py` | records of CRDTs | update_*, merge, delta | node, station, planner | a field left out of a merge, a delta that is not applied, a task changed in place | replicas that heard the same show the same |
| `swarm/consensus.py` | term, vote, leader, role, votes received | start, stop, step, receive_heartbeat, handle_vote_request, handle_vote_response | peers, through the node | any order of timeouts and messages, stale votes, restart without storage | one leader per term; votes are kept; leaders were elected |
| `swarm/gossip.py` | pending, seen, peers | gossip, disseminate, receive, update_peers | peers | shared hop counts, batch taken before the sends | a message causes no more traffic than its hops pay for, and nobody relays it twice |
| `node.py` | running, tasks, the parts above | start, stop, sync_state, handle_command, five loops | all | stop between two awaits of start or of a loop | nothing speaks after stop, no loop is left |
| `ground_station.py`, `communication/mqtt_client.py` | rover table, telemetry; handlers, connection | telemetry, merge, commands; connect, subscribe, dispatch, reconnect | rovers, API | wildcard subscriptions, connections lost and not regained, stop during start, `subscribe()` awaited of libraries that do not allow it | nothing speaks after stop |
| `communication/connection_manager.py`, `discovery.py` | peers, last heartbeat | register, remove, heartbeat, monitor | peers | eviction against a late heartbeat | the table is bounded and nobody silent passes for active |
| `communication/websocket_bridge.py`, `api/websocket.py` | client table | connect, disconnect, broadcast | browsers | clients come and go between two sends | who is there is sent to, who left is let go |
| `swarm/task_allocation.py`, `mission_planner.py`, `role_assignment.py`, `api/routers/tasks.py`, `missions.py` | tasks and missions, who has them | add, allocate, complete, fail, reallocate; CRUD | station, API | the engine and the API change one task, failures are given out again | engine and task name one owner; work is spread evenly |
| `sensor/pipeline.py` | buffer, state, flush task, counters | ingest, flush, start, stop, set_sink | drivers, sink | flushes that overlap, slow and failing sink, cancellation, start during stop | every reading has one fate; stop settles, flushes and returns |
| `security/rate_limiter.py` | buckets | try_acquire, get_remaining, get_reset_time, cleanup_stale_buckets | HTTP middleware | lazy refill, eviction of buckets | no window grants too much; no request is refused that an ideal bucket grants |
| `security/audit.py` | buffer, indexes, hash chain, file | log_event, load, verify_integrity, queries | all security services | failed and torn writes, restarts, trimming | the chain verifies if nobody touched it; indexes match the buffer |
| `security/auth.py`, `api/routers/auth.py` | issued tokens, keys, roles and permissions | login, refresh, authenticate, generate and revoke keys | HTTP | tokens refreshed side by side, tokens of either type used, keys beside tokens | a session ends |
| `security/tls.py` | certificate files, store, index by rover | create, load, add, remove, contexts | TLS | a write that fails half way, restart, two names for one rover | store and index agree |
| `ai/engine_manager.py`, `vector_db/manager.py` | engines, which one is active; backends | initialise, register, switch, route, search, shut down | model and vector servers | an engine fails during use, a manager is made twice or shut down under a request | a request fails only if nobody could answer it |
| motion, sensors, simulation, observability, health, input validation, configuration | floating-point or I/O only | - | - | numeric | see section 7 |

`PROJECT.json` lists every file under its component with its status, and the
hazards of the code line by line with the properties that watch them.

## 2. The modules

**Grow-only counter: `GCounter`, `GCounterSync`, `GrowOnlyKnowledge`.** `GCounter`
is the object as a record with its methods as operators: `Increment`, `Merge`,
`DeltaOf`, `ApplyDelta`, `ResetDelta` for the methods of those names. A key that
is missing from the dictionary is a 0, as in every `.get` of the class. The
vector clock is carried but never read and is left out. `GCounterSync` puts one
replica on every node: `Count`, `SendState`, `SendDelta`, `ReceiveState`,
`ReceiveDelta`, `Restart`. `channel` keeps everything ever encoded, so a
message may arrive late, out of order, any number of times, or never. Nothing
is assumed about when, and no fairness: the repository has the operations and nobody who
carries a state from one rover into another. `done` is a history variable. `GrowOnlyKnowledge` is the
abstract specification, without messages: a replica may at any time learn any
amount that is true, never more. `GCounterSync` implements it with the
increments made as the truth and the replicas' counts as what is known.

**Register: `LwwReg`, `LwwRegSync`.** The same layout. Values are model values. A register starts
at time 0 with one of `Starts` (a rover's are "offline", 100.0, "general" and 0.0) or with `None`,
and `None` at time 0 is also what an empty delta says. Node ids are numbers because the code compares them. The
asymmetry of the source is kept: `set` compares a tie with the node of the last
delta, `merge` and `apply_delta` with the node of the value, and both take over
the winner's node id, under which the receiver then writes. Clocks are not
synchronised: `Write` takes any reading of the clock. `DistinctTimes` restricts a run to
histories in which no two writes read the same time (floating-point seconds of
`time.time()`); the other case is the run `LwwRegTies`. An empty delta can displace a starting value, which
`TimesGoWithValues` and `ValueMovesForward` therefore allow.

**Set: `OrSet`, `OrSetSync`.** A pair of element and tag is `<<element, <<node,
number>>>>`. `MergeOrSet` builds a new object as the code does: the tag counter starts
again at 0, the deltas are empty, and tombstones of elements without an add tag
go. `MaxDeltas` bounds the deltas; where a property says `deltas = 0` it is about
full states. `issued`, `heard` and `gone` are history: the calls of `add` with the pair each stored, and which of them
a node has heard of, and heard to be removed; a message carries what it tells of. `ObservedRemove` compares
what is shown with that. No code of the repository holds an `OrSet`. A restart of a node is left out
here: it resets the tag counter, which every merge does as well.

**Leader election: `Consensus`.** One `ConsensusModule` per node. `StartElection`
and `SendHeartbeat` are the two outcomes of `step()`; clocks are left out, so an
election timeout may run out at any step, and with it goes the resetting of
timers. `ElectionSafety` bounds the winners of a term by half the nodes, for two votes win whatever
the number of nodes: with three that is one. The handlers `ReceiveHeartbeat`, `HandleVoteRequest` and
`HandleVoteResponse` do not look at `_running`, as in the code. The source has no
code that takes messages from the consensus topic to these handlers; the model calls
them with any message ever sent by another node. A grant carries its term for the
properties only: `handle_vote_response` is given the voter's name. `late` counts
the responses that meet another term than their own. `commit_index` and
`last_applied` are never written and are left out.

**Sensor pipeline: `SensorPipeline`.** A step is the code from one `await` to the
next. The `asyncio.Lock` is never held across an await and adds nothing; the state
STARTING is set and left in one step, and ERROR only follows an exception that
`flush()` cannot raise. `Loop` are the flush tasks that `start()` creates,
`Caller` are tasks that call `flush()` and `stop()`. A task's place is `pc`: in the sink,
in the pause before a retry, asleep, waiting for the loop it cancelled. `StopRefused` is the `stop()` of a stopped
pipeline, which returns at once. Cancellation is two
steps, as in asyncio: `StopCall` requests it, `LoopCancelled` is the loop being
thrown out of its await, with the final flush it then makes. `mark` and `cut` are history: what had been offered when a
caller called `stop()`, and what the loop had in hand when it was cancelled. A reading is its
number of arrival. Compression, sizes and time stamps are left out.

**Rate limiter: `TokenBucket`, `RateLimiter`.** `TokenBucket` is the promise: each
key has a bucket that is always there and gains tokens with every tick.
`RateLimiter` is the code: buckets made on demand (`TryAcquire`), refilled when looked at
(`Refill`), thrown away by age (`CleanupStaleBuckets`). Tokens, rates and the clock
are integers; rounding of floats is not modelled. A key keeps one configuration.
`answer` and `window` are history: what a caller was told, and what a key was granted
since an arbitrary moment (`OpenWindow`). The refinement maps the abstract level
to what a look at the bucket would find.

**Audit log: `AuditLog`.** An event is its number, its actor and the number of the event
before it; the number stands for the hash, and hashes do not collide. The file is a
sequence of lines; `Junk` is a line that does not parse, and `cut` says that the last line
has no end, so that the next event is written onto it. A write may be whole,
whole but for its newline, partial, or nothing (`Outcome`), and the code goes on in each case.
`Restart` may come between any two events; a write that a crash interrupts is a
partial write followed by `Restart`. Of the three indexes, which are kept
alike, the one by actor is modelled. The callback and a logger without a file are
left out.

Queries are operators (`QueryEvents`): one by actor goes through the index, takes the page that `limit` and `offset`
name, and its pages together must show all of the actor's events in the buffer, newest first.

**Tokens and keys: `Access`.** A token is its type, user, role and times; signatures are
unforgeable. `Login` and `Refresh` issue, `GetCurrentUser` is the middleware with a bearer token, a
key, both or neither: the token goes first and a key stands in for a bad one. A token's role is read back from
`str(role)`, which is the name of the enum's member and not its value, so that the caller is an observer
whatever was issued (`TokenIdentity`). `until` is history: when the session would end had the user
never come back.

**Certificates: `Certificates`.** A certificate is whom it is for and a serial number. `WriteKey`
and `WriteCert` are the two file writes of `create_rover_cert_files`, either of which may
fail; `LoadFromDisk` is the store's start, which meets the files in any order; `ExtractRoverId` knows only
names with a `rover-` prefix, and `add_certificate` may be given another. `TlsManager`'s own paths are those of `Self`.

**Security: `Security`** has limiter, audit log, access and certificates in one specification, each on its own: they share no
variable and none calls another, so each property speaks of one service. `service`, chosen in `Init`, is
the one that moves, and the others stand still. `Coordination` is made in the same way, with `part`. No claim is made
about several at work at once; what there is to say of each is proved in its own specification.

**Composite objects: `Replicas`.** `kind` says what the replicas are of: a grow-only set, a
PN-counter, a map, a rover's, mission's or swarm's state. The methods are operators over `GCounter` and
`LwwReg`; fields that are kept alike are one. `New`, `Merged`, `OnWire`, `Shown` choose by kind, as
the serializer does by type. A `Place` is a node or a message: `SendTo` puts what a node has into one of `Mail`, where it stays until
overwritten, and `MergeFrom` and `ApplyDeltaFrom` take from any place, so that states and deltas come late, again,
out of order or never. No two changes read the same time (ties are in `LwwRegSync`), and the time stands for the value. `known` is history: the changes
each place has heard of, so that "heard the same" can be said. `ApplyMapDelta` writes at the receiver's time and
is a change of its own; the deltas of composites do nothing, as in the code. `UpdateTaskStatus` changes the task where it is
before it is set, and `bent` notes that such a set was refused: from there on nothing settles it, and `ReplicasAgree` says nothing more. A mission is
created, changed and cancelled as the planner and its routes do. In the
process the merge of two swarms shares the rover objects of one side; the model merges copies, which is what comes over the wire.

**Multi-value register: `MvReg`.** Tags with the clock noted beside each. `write` ticks twice and drops nothing;
`merge` joins and prunes ancestors; `apply_delta` gives every new tag the clock of the
whole register it is from, and leaves its own clock behind. Pruning walks the pairs of a list and
may come to a tag it has dropped: with three tags or more it may raise having dropped some (`MayRaise`).

**Rovers and station: `Field`.** `start()` and `stop()` as places (`phase`), each loop as gone, asleep or publishing,
`connected` as the client's flag, which is not the connection. `stop()` may come at any await of `start()`. What the MQTT library is asked
may be done, fail, or be done and fail. The broker holds what was published until it is dropped and may
deliver it again at any time. `subscribe()` awaits what the library's returns: where that may not be awaited, as with gmqtt and paho,
`start()` raises after the first topic and leads to `stop()`; the model has libraries of either kind. What comes to the station changes
nothing, for `_dispatch` looks handlers up by the topic of the message and they are under the pattern. Commands reach `handle_command` with their value among `params`, where it is not looked for.

**Tasks: `Tasks`.** `_tasks` in the dictionary's order, `_assignments`, and the requests of the
HTTP interface, which change the same tasks without the engine. `byHand` is history.

**Gossip: `Gossip`.** `TakeBatch` begins a round of the dissemination loop, `SendNext` is one send,
after which the loop awaits. The hops of a message in a batch are one number for all its
targets; a receiver has a copy. Once `SeenLimit` ids are known, any `SeenKept` of them are kept, since a
Python set has no order.

**Peers: `Peers`.** The table in the order of connection, with ages instead of times. `Monitor` is a look of
the loop, which comes every `Interval` ticks.

**Channels: `Channels`.** One handler per socket. `Send` is one step of the walk over the set, and `Broken` the
walk's end by a changed size, which raises in the handler that walks.

**Engines: `Engines`.** A request is a list of servers left to ask, whom it is for, and what it is (inference or
search); `Ask` is one try. Stubs answer nothing that can be awaited. `steady` is history: who could have answered since the request began.

**MC modules.** `MCConsensus` adds the symmetry of the node names and an action constraint,
`MCSecurity` the limiter's keys and rules, `MCCoordination` orders, views and the keys at which each kind of object is changed.
The symmetric runs check no liveness.

## 3. Runs and bounds

| Run | Checks | Instance | Why it is enough |
|---|---|---|---|
| `GCounterSync` | `TypeOK`, `CountsAreTrue`, `ImplementsKnowledge` | 2 nodes, 2 increments each, 1 restart | two increments give an old and a new state and delta of one node, which is what can overtake; the restart may come before and after they were received |
| `LwwRegSync` | `TypeOK`, `TimesGoWithValues`, `ValueMovesForward` | 2 nodes, 2 values and one to start with, 2 clock readings, 1 restart, distinct times | an older and a newer write, by the same or different nodes, in both orders |
| `LwwRegTies` | violation of `TiesAreSettled` | the same, ties allowed, no restart | the counterexample is found |
| `OrSet` | `TypeOK`, `ObservedRemove`, `StatesForgetNothing` | 2 nodes, 1 element, 2 adds, any removes, 1 delta | elements do not interact but through the tag counter; two adds give a removed and a surviving tag, or one tag twice |
| `OrSetTags` | violation of `TagsUnique` | the same, no delta | the counterexample is found |
| `Consensus` | `TypeOK`, `LeadersWereElected`, `ElectionSafety`, `VotesStick` | 3 nodes, 2 terms, 2 restarts, 2 late votes; with restarts or two late votes, one of the three stays out | three nodes are the least swarm in which a voter may vote for two candidates, two terms the least in which a vote is late; restarts and late votes need only two nodes to go wrong |
| `ConsensusSplit` | violation of `NoSplitBrain` | 3 nodes, 2 terms, no restart | the counterexample is found |
| `SensorPipeline` | `TypeOK`, `ReadingsAreOnce`, `LoopIsKnown`, `StopSettles`, `StopReturns`, `BufferDrains` | 2 starts, 2 callers, buffer of 1, 1 retry, 3 readings | two loops overlap when start comes during a stop, two callers overlap with each other and the loop, the buffer fills while a batch is out |
| `StopFlushes` | violation of `StopFlushes` | the same | the counterexample is found |
| `Security` | `TypeOK`, `WindowBound`, `ImplementsTokenBucket`, `MemoryIsTrue`, `NoFalseAlarm`, `SessionsEnd`, `StoreAgrees` | *limiter*: capacities 4 and 2, rates 2 and 1, demands 1 and 2, eviction after 2 ticks, 5 ticks. *Audit*: 2 actors, buffer size 2, 6 events, 3 failed writes. *Access*: 1 user, lives of 1 and 2 ticks, 4 ticks, 4 tokens, 1 key. *Certificates*: 2 rovers, one with the prefix, 2 certificates, 1 failed write | a bucket empties, fills, is evicted and made again, at the smallest legal `MaxAge`; the buffer is trimmed past its doubled size with failures before and after, and loaded again; a session is refreshed, forks and runs out; one rover has an old and a new certificate, under either kind of name, over a restart |
| `Coordination` | `TypeOK`, `SetIsServed`, `GhostsGo`, `OwnersAgree`, `AllocationIsEven`, `RumoursDie`, `NobodyIsForgotten`, `FailsOnlyIfAll`, `StopIsClean`, `ReplicasAgree`, `StatesKeepWrites` | *channels*: 3 sockets, 2 broadcasts at a time, 1 alert socket. *Tasks*: 2 tasks, 2 rovers. *Gossip*: 3 nodes, 1 rumour of 4 hops, fan-out 2, an empty seen set after each originating. *Peers*: 3 for 2 places. *Engines*: 2 clients, 2 engines, 2 backends. *Field*: 1 rover with 2 loops. *Replicas*: 2 nodes, 2 changes, 1 message, each kind. *Register*: 2 authors, 3 writes | a socket joins or leaves under two walks over the set; two tasks and rovers make every mix of failed, pending and handed over; four hops over two targets return to their origin; a third peer evicts; one request runs into another's initialisation or shutdown; rovers do not interact; a change, one that overwrites or joins it, and an older state still under way, which comes late, again or to its sender; three tags are the least with which pruning may raise |
| `WritesSurvive` | violation of `WritesSurvive` | 2 authors, 3 writes | the counterexample is found |

Every bound is a CONSTANT whose name begins with `Max`, or the size of a set, and stands
in a guard. Three more are named for what they bound: `KeysOf`, the keys at which
an object of each kind is changed; `Views`, the sets of nodes that gossip may be told of; the action constraint
`Small` of `MCConsensus`, which keeps one of three nodes out once there are restarts or two late votes.
`BufferSize`, `MaxRetries`, `MaxAge`, `MaxBuffer`, `MaxPeers`, `Interval`, `StaleAfter`,
`Fanout`, `Hops`, `BatchSize`, `SeenLimit` and `SeenKept` are the code's own configuration, made small.
`SeenLimit = 0` makes gossip forget at once what in the code it forgets after 10000 ids; `RumoursDie` bounds the traffic even so.
`Security` and `Coordination` switch deadlock checking off because clocks, serials and changes
reach their bounds, and so does the violation run of `MvReg`. The others have a step in every state. The
runs take from seconds to three minutes.

Some properties hold under a condition that is part of what they say:
`OwnCountExact`, a conjunct of `CountsAreTrue`, without
restarts, because nothing is stored; `Agreement` and `ValueMovesForward` with distinct times;
of the set, that what was added is shown as long as tags are unique, and the rest with full states only; `ElectionSafety` with no restart and no vote
counted late; `LoopIsKnown` and `StopSettles` unless `start()` came during a `stop()`;
`NoFalseAlarm` unless an event was written after a missed one; `ReplicasAgree` unless a task was changed in place by a write that was
refused; `StatesKeepWrites` unless a delta was applied;
`OwnersAgree` for tasks that nobody handed over through the interface. In each case the behaviour
outside the condition is a real one of this code: section 6 says what happens then.

The violation runs show, the others do not, what the code does against its own documents.

## 4. Fairness

*Pipeline.* Weak fairness of each task that is ready, of timers (`Retry`, `LoopWakes`) and of
the sink's answer, good or bad, for each call; all of it is the event loop's and the sink's
contract. No fairness of `start`, `stop`, `flush`, `ingest` and `set_sink`. A sink that
never answers would keep `stop()` from returning; `await self._sink(...)` has no timeout.

*Channels* (`ChannelFairness`). Weak fairness of each handler of `/ws/swarm`: the event loop runs
whoever can go on, `receive` returns after 30 s at the latest, and a send returns or raises. None of browsers
coming and leaving. `GhostsGo` then says that who left is let go, by its own handler at the latest.

*All others*: safety only. That replicas converge in the end is not claimed: states are published only while the client passes for
connected (`node.py:128`), which a lost connection ends for good, and `sync_state` has no caller. Elections need not end in a leader, as two candidates may split the votes for ever;
gossip may lose every send; a lost connection is never regained.

## 5. Proofs

All theorems are for every value of the constants that the named ASSUMEs allow.
The assumptions are those of the model, none is about the behaviour:

- `BoundsAssumption`, `SyncAssumption`, `OrSetAssumption`, `ConsensusAssumption`,
  `PipelineAssumption`: bounds are natural numbers, the sets of tasks are disjoint, `None` is no node.
  The nodes of an election are finitely many.
- `NodesAreOrdered`, `NoneIsNoValue`: node ids are numbers; `None` is not written.
- `LimiterAssumption`: `Rate * MaxAge >= Capacity`, a bucket old enough to be evicted
  has had time to fill. By default eviction is after 3600 s and a bucket fills
  up within `burst_multiplier` windows of 60 s. A configuration with windows longer than the
  eviction age breaks it, and the limiter then gives tokens nobody earned.
- `AuditAssumption`: a line that does not parse is no event, the buffer has a place.
- `AccessAssumption`: an access token does not outlive a refresh token (30 minutes and 7 days by default).
  A configuration that turns this round would let an access token in after its session.
- `CertificatesAssumption`, `FieldAssumption`, `ChannelsAssumption`, `PeersAssumption`: the authority is no
  holder, the loops are the code's, the two channels' sockets differ, times are natural numbers.
- `ReplicasAssumption`: no key of a map is one of the marks the histories of counters and composites use, and times are values;
  messages are no nodes.
- `TasksAssumption`, `EnginesAssumption`, `GossipAssumption`, `MvRegAssumption`: nobody is no agent, chains name
  each engine and database once, a peer knows mates only, bounds are natural numbers and what is kept is no more than the limit.

The parts of `Security` and `Coordination` are proved about as modules on their own (`LimiterSpec`, `TasksSpec` and so
on), and the theorems about them are about these. Of the two specifications with `service` and `part`, the types are proved
(`SecurityTypeCorrect`, `CoordinationTypeCorrect`).

| Module | Theorem | Argument |
|---|---|---|
| `GCounterProofs` | `JoinIsSemilattice` | pointwise maximum, by arithmetic |
| | `TypeCorrect`, `CounterSafety` | `SafetyInv` is the two conjuncts of `CountsAreTrue`: `NeverOvercounts` is inductive because it speaks of pending deltas and messages too, which come back at any time, and for `OwnCountExact` no message may claim more of a node than its own entry |
| | `CounterImplementsKnowledge` | each step under the invariant is a step of `GrowOnlyKnowledge` or a stutter (a delivery that teaches nothing) |
| `LwwRegProofs` | `TypeCorrect`, `RegisterAgreement`, `RegisterMovesForward` | `SafetyInv`, the conjuncts of `TimesGoWithValues`: every copy of value and time (replica, last write, message) is an accepted write, or at time 0 a starting value or none, and with distinct times a time determines its write. At time 0 it does not: `LwwRegStart` |
| `OrSetProofs` | `TypeCorrect`, `RemovesAreObserved`, `StatesOnlyGrow` | an invariant of nodes and messages alike: the tags are those of the adds heard of, and the tombstones come from the adds heard to be removed; with full states only, they are just these, tombstones lie within the tags, and what `merge` drops is empty |
| `ConsensusProofs` | `TypeCorrect`, `LeadersAreElected`, `VotesDoStick` | `Standing`: the conjuncts of `LeadersWereElected` and what carries `VotesStick`, with: votes are finite sets, winners won by two votes, and every heartbeat ever sent is a winner's |
| | `VotesCountOnce`, `LeadersAreFew` | `Balloting`, while `Steady` (no restart, no late vote): nobody is asked for a vote in a term the candidate has not reached; a cast vote is of a term its voter has reached; the candidate voted for last has gone past every term in which the voter chose another; only cast votes are counted. Each winner has two voters of its own, so twice the winners are no more than the nodes: `LeadersAreFew`, which is `ElectionSafety`, for any number of nodes |
| `SensorPipelineProofs` | `TypeCorrect`, `OneFate` | `OnceInv`: buffer, batches, and the sets of settled readings partition what was offered, and a task that is not publishing has empty hands, so that taking the buffer overwrites nothing |
| | `KnowsItsLoop` | `KnownInv`: tasks are where their jobs allow (`Seated`), cancelled loops are live (`Honest`), and without an overlapping start a live loop is `flushTask` and every stop under way waits for it (`Awaited`) |
| | `StopsSettle` | `SettleInv`: once a stop is at its own flush, only readings offered since its call are in the buffer; with `OnceInv` the rest is flushed, dropped, lost or in hands, with `KnownInv` these are not a loop's, and what is lost was cut off by a cancellation (`CutOff`) |
| `SecurityProofs` | `LimiterTypeCorrect`, `WindowBounded` | `WindowInv`: granted + what a look would find now <= capacity + rate * elapsed. It is inductive because a look does not change what the next look finds |
| | `LimiterImplementsBuckets` | the same lemma (`LevelLooked`), `OldIsFull` for the eviction, and one lemma per action |
| | `AuditTypeCorrect` | `TypedAndIndexed`, with `CutHasALine`: a cut file has a line to spoil, and the index is that of the buffer |
| | `NothingRecentIsForgotten` | `Recent`: the buffer is the end of what was seen and never misses the newest, and with no failed write the file holds everything logged; `QueriesFindThem` derives from it and from the index that the pages of a query show all of an actor's events in the buffer and no others |
| | `ChainHolds` | `ChainInv`: `lastHash` is the hash of the last event in the buffer; unless there is a gap, buffer and file are chained (the file up to its first junk) and, while nothing was missed, a file without junk ends with that hash |
| | `SessionsDoEnd` | `SessionInv`: each token runs out with its user's session at the latest, and lives no longer than one handed out now would |
| | `StoreDoesAgree` | `StoreInv`: the conjuncts of `StoreAgrees` with the domains of index and history, and `SerialsCount`: no certificate has the number that stands for none |
| | `SecurityTypeCorrect` | each service's types, under its own steps and those of the others |
| `CoordinationProofs` | `StopsAreClean` | `LoopsInv`: loops are there between `connect()` and the gathering of `stop()`, and at no other time; only a loop that is publishing says anything but a command |
| | `EveryoneIsServed` | `ServedInv`: a broadcast notes as gone only sockets whose browser came and left, and a socket is used once, so what it removes in the end is nobody who is there |
| | `NobodyStaysActive` | `PeersInv`: while the loop runs, an active peer's age is at most the timeout and what has passed since the last look |
| | `NotesNameTheOwner` | `TasksInv`: `OwnersAgree` is inductive with the types. A reallocation goes through the failed tasks one after another; that each allocation on the way keeps owners and tasks together is shown by the least round that would not |
| | `NobodyIsOverloaded` | a task's rank among the waiting, modulo the rovers, says whose it is; ranks are a bijection onto 0 .. n - 1, and the residues of these are shared evenly |
| | `NobodyFailsInVain` | `RequestsInv`: everyone who could have answered all along (`steady`) is still to be asked, so a request that has no one left to ask had no such one. A chain of fallback that leaves one name out has all the others |
| | `HopsBoundTraffic` | each message is a finite set of *tokens*, one for each send its hops still pay for. A send spends one token and hands the rest on, a round puts each batch's tokens to its targets, and a receiver adds none; so the sends made and the tokens left are at most what the author's hops came to (`CostIs` relates that to the recursive `Cost`) |
| | `CoordinationTypeCorrect` | each part's types, under its own steps and those of the others |
| `ReplicasProofs` | `ReplicasTypeCorrect`, `ReplicasDoAgree` | `ReplicasInv`, one conjunct for each kind, built from two ideas, of nodes and messages alike. A *spot* (a register, or a key of a map) is `InOrder`: a node shows nothing or a write it heard of, nothing earlier than a write it heard of that anybody shows, and what is of one time is the same everywhere; it goes on by a write at a new time, a join of two spots or a new start; a task changed in place by a write that is refused breaks it, and `bent` is then true. A *counter* is `Chained`: all that is known of an origin's increments are states the origin was in, so of two nodes one has heard of what the other has and counts no less. A sheet is a register with a map (`SheetsHold`): a rover is one, a map is one whose register nobody writes, a mission is one with a counter, a swarm one for each rover and one for its leader |
| | `NoConcurrentWriteIsLost` | `MvInv`: whatever is exchanged, no clock is ahead of its author's own (`MvBounded`); while only whole states are, a clock that has reached a tag belongs to one who had heard of it (`ClocksTell`), and who has heard of a write has heard of all that its writer had (`PastIsHeard`). What pruning drops has a write above it, and above that one that stays: one with the fewest above it, by the well-foundedness of strict subsets |

Facts about recursive functions (`Reallocated`, `Cost`) are proved without the library's induction theorems, whose
operator parameters the provers cannot instantiate: the least counterexample in a set of naturals is taken by the
well-foundedness of `<` (`WellFoundedInduction`), and the recursion equation contradicts it there.

Checked by TLC only: the liveness properties `StopReturns`, `BufferDrains`, `GhostsGo` (liveness under fairness, and with it ENABLED, is
outside what TLAPS proves here), and the violation runs. Every invariant and every action property of
a passing run is a theorem.

## 6. Where code and documents part

Shown by a run, and listed under `findings`:

- `LwwRegTies`: `crdt/lwwreg.py:18` says the highest node id wins ties. After a merge a replica
  writes under the winner's id, so two concurrent writes may have the same time and
  the same id, and no merge settles them.
- `OrSetTags`: `crdt/orset.py:16` says tags are unique. `merge` restarts the tag
  counter; if the tag issued again was removed before, the new element is invisible everywhere.
- `ConsensusSplit`: `docs/ARCHITECTURE.md:127` says there is no split-brain. A vote granted in an earlier term
  is counted in a later one, and two nodes lead the same term.
- `StopFlushes`: `sensor/pipeline.py:216` says that `stop()` flushes remaining data. The batch in the hands of the loop it
  cancels is neither flushed nor counted as dropped.
- `WritesSurvive`: `crdt/mvreg.py:17` says no data is lost during concurrent writes. A delta dates its writes by
  the clock of the whole register, and a concurrent write is pruned as if it came before.

Visible in the models, and in the conditions of properties that hold:

- `docs/ARCHITECTURE.md:5` says that each rover converges to the same state. `update_task_status` changes a task
  where it is, and when the clock lags the write is refused and the change stays, under the old time: `TheSameIsShown` without the
  exception of `bent` is false for two changes of a mission.
- `crdt/lwwmap.py:18` says each key of a map is an LWW register, and `crdt/lwwreg.py:17` that the most recent write wins. A delta
  brings values without their times, and an old one is written over a newer.
- `crdt/base.py:31` says a delta is the changes since the last sync. That of a register nobody wrote says `None` at time 0,
  and takes the place of the value a lower node's register was made with.
- `docs/ARCHITECTURE.md:135` asks for N/2 + 1 votes; the code asks for two whatever N is. Of four
  nodes two disjoint pairs elect two leaders of one term; `ElectionSafety` bounds the winners of a term by half the nodes.
- `docs/ARCHITECTURE.md:11` and `:54` promise convergence without rollbacks. A restarted node has a new state,
  and increments nobody had received are lost.
- `:55` gives gossip a fan-out of 3. The targets of a round share one count of hops, which starts at 3: the three targets
  are sent it with 2, 1 and 0 hops left.
- `merge` returns an object with an empty delta, so an increment made before a merge is
  in no delta. Full states carry it. The deltas of composites carry nothing that is applied.
- A tombstone that arrives by delta before its tag is dropped by the next merge, and the
  element comes back with the tag (`docs/ARCHITECTURE.md:49`).
- A rover removed from a swarm comes back with the next merge of a swarm that has it.
- `start()` of the pipeline during a `stop()` makes a second loop; the ending stop forgets it and reports
  STOPPED over a running loop. A `stop()` of a stopped pipeline leaves in the buffer what was ingested since.
- The station subscribes to `rover/+/...` and `_dispatch` looks for handlers under the topic of
  the message: none of its handlers is ever called.
- The `subscribe()` of gmqtt and of paho returns nothing to await, and `MqttClient.subscribe` awaits it: with either, `start()` raises there.
- A failed audit write is only reported to the log. The next event names an event the file does
  not have, and after a restart `verify_integrity` reports a broken chain. After a torn
  line, every later start stops loading there.
- `docs/SECURITY.md:100` maps the role claim of a token to permissions. The claim is `str(role)`, which is no value of
  `Role`: every bearer of a token is an observer. line 101 compares permissions;
  `require_permission` asks a table of roles that no code of the repository fills, so it would refuse everybody.
- The index of the certificate store finds the newest certificate added for a rover, but after a restart whichever
  file came last, and none for a name without the `rover-` prefix.
- A client that lost its connection is not told when the library has it again, and a rover
  whose `disconnect()` raises has not stopped its election module.
- A command's `value` travels among its `params`, and `handle_command` looks beside them: `set_status` always sets "online".
- A broadcast on `/ws/swarm` that meets a change of the set ends the handler it runs in; the alert loop
  never ends; `stop()` of the station would call `close()` on a server that has none.
- `MergeEngine.merge` appends to a `dataclasses.Field` and raises; `vector_search` reads `body.backends`, which its request
  does not have; `/ws/rovers/{rover_id}` is registered in a way that gives its handler no `rover_id`. Each of these
  fails at the first call, and a first test would show it; none is modelled further.

## 7. What is not modelled, and why

- *What the station does with rovers' messages* (`_on_mqtt_message`, `handle_rover_telemetry`): no message
  reaches it (`mqtt_client.py:95`). Its use of the merge (`ground_station.py:150` drops the result) is read, not run.
- *RGA*: without a caller. After a merge its tags are reused (as in `OrSetTags`), an element may be linked to itself and
  `append()` then does not return, and deletes are undone by a merge; there is no property left to hold.
- *Health monitor, role assignment, input validation, discovery's table*: one assignment or one pure function each.
- *Motion, fusion, terrain, simulation*: pure functions over floating-point numbers; TLC has none.
- *Drivers, engines, vector databases, gRPC, the ssl library, encodings, telemetry export*: adapters to
  libraries and services outside the repository. What the replicas need of serialisation (a state
  carries values, times and counts exactly) is assumed.
- *Configuration and shared types*: constants; those that matter are CONSTANTS of the modules.
- *Unreachable code*: `ensure_connected`, the bridge's clients, `/ws/rovers`, the client's own heartbeat.
- Within modelled parts: vector clocks where they are never read, timers of the election, float rounding,
  the text of the limiter's headers, filters and exports of the audit log, validity dates of certificates, signatures
  and passwords, the text of what models and searches answer, the order in which `MvReg.value()` lists.

## 8. Plan

What could be modelled next: restarts in `OrSetSync`, `active_peers()`'s own timeout in `Peers`, and a station whose subscriptions are looked up with
wildcards, so that its copy of a rover could be compared with the rover.
