------------------------------ MODULE AuditLog ------------------------------
(***************************************************************************)
(* security/audit.py: every event carries the hash of the event before it. *)
(* The newest events are kept in memory, with indexes for queries, and     *)
(* each event is appended to a file that the next start loads.  A failed   *)
(* write is reported to the operator's log only, and the logger goes on.   *)
(* Hashes do not collide (an event holds a random event_id): an event is   *)
(* its number, and its hash is that number; 0 stands for None.             *)
(***************************************************************************)
EXTENDS Integers, Sequences, FiniteSets

CONSTANTS Actor,
          Junk,         \* a line of the file that does not parse
          MaxBuffer,    \* max_buffer_size
          MaxEvents,    \* bound on the events logged
          MaxFaults     \* bound on the writes that fail

Event == [no : Nat, actor : Actor, prev : Nat]

ASSUME AuditAssumption ==
  /\ Junk \notin Event
  /\ MaxBuffer \in Nat \ {0} /\ MaxEvents \in Nat /\ MaxFaults \in Nat

VARIABLES events,      \* _events: the buffer in memory
          lastHash,
          byActor,     \* _events_by_actor (the other two indexes are alike)
          file,        \* the lines of the log file
          cut,         \* whether the file's last line has no end of line
          logged,      \* the number of events logged so far
          faults,      \* history: the number of writes that were not whole
          seen,        \* history: what this run loaded and logged
          missed,      \* history: this run has failed to write an event at all
          gap          \* history: an event was written after a missed one

auditVars == <<events, lastHash, byActor, file, cut, logged, faults, seen, missed, gap>>

Outcome == {"whole", "unended", "part", "nothing"}   \* of a write

AuditTypeOK ==
  /\ events \in Seq(Event) /\ lastHash \in Nat
  /\ byActor \in [Actor -> SUBSET (1..Len(events))]
  /\ file \in Seq(Event \cup {Junk}) /\ cut \in BOOLEAN
  /\ logged \in Nat /\ faults \in Nat
  /\ seen \in Seq(Event) /\ missed \in BOOLEAN /\ gap \in BOOLEAN

\* _index_event() over a whole buffer.
Index(evs) == [a \in Actor |-> {i \in 1..Len(evs) : evs[i].actor = a}]

AuditInit ==
  /\ events = <<>> /\ lastHash = 0 /\ byActor = Index(<<>>)
  /\ file = <<>> /\ cut = FALSE
  /\ logged = 0 /\ faults = 0
  /\ seen = <<>> /\ missed = FALSE /\ gap = FALSE

\* Text added to a line without an end joins that line.
AddLine(l) == IF cut THEN [file EXCEPT ![Len(file)] = Junk] ELSE Append(file, l)

\* _write_event(): the file is opened, appended to and closed; the disk may be
\* full at any byte.
Write(e, outcome) ==
  /\ outcome # "whole" => faults < MaxFaults
  /\ faults' = IF outcome = "whole" THEN faults ELSE faults + 1
  /\ file' = CASE outcome = "nothing" -> file
               [] outcome = "part" -> AddLine(Junk)
               [] OTHER -> AddLine(e)
  /\ cut' = CASE outcome = "nothing" -> cut
              [] outcome = "whole" -> FALSE
              [] OTHER -> TRUE
  /\ missed' = (missed \/ outcome = "nothing")
  /\ gap' = (gap \/ (missed /\ outcome # "nothing"))

Newest(evs, n) == SubSeq(evs, Len(evs) - n + 1, Len(evs))

\* Mutant: the indexes are left to point at the old places.
RememberUnindexed(e) ==
  LET evs == Append(events, e) IN
  /\ byActor' = [byActor EXCEPT ![e.actor] = @ \cup {Len(evs)}]
  /\ events' = IF Len(evs) > 2 * MaxBuffer THEN Newest(evs, MaxBuffer) ELSE evs

\* The buffer takes the event and, past twice its size, drops the oldest.
Remember(e) ==
  LET evs == Append(events, e) IN
  IF Len(evs) > 2 * MaxBuffer
  THEN events' = Newest(evs, MaxBuffer) /\ byActor' = Index(events')
  ELSE events' = evs /\ byActor' = [byActor EXCEPT ![e.actor] = @ \cup {Len(evs)}]

\* log_event()
LogEvent(a, outcome) ==
  LET e == [no |-> logged + 1, actor |-> a, prev |-> lastHash] IN
  /\ logged < MaxEvents /\ logged' = e.no
  /\ lastHash' = e.no
  /\ seen' = Append(seen, e)
  /\ Write(e, outcome)
  /\ Remember(e)

\* _load_from_file(): the first line that does not parse ends the loading.
Readable ==
  CHOOSE n \in 0..Len(file) :
    /\ \A i \in 1..n : file[i] # Junk
    /\ n < Len(file) => file[n + 1] = Junk

Loaded == SubSeq(file, 1, Readable)

LastOf(evs) == IF evs = <<>> THEN 0 ELSE evs[Len(evs)].no

\* Mutant: the chain is begun anew.
RestartForgetful ==
  /\ events' = Loaded /\ seen' = Loaded
  /\ lastHash' = 0
  /\ byActor' = Index(Loaded)
  /\ missed' = FALSE
  /\ UNCHANGED <<file, cut, logged, faults, gap>>

\* The process ends at any time, and the next one makes its logger.
Restart ==
  /\ events' = Loaded /\ seen' = Loaded
  /\ lastHash' = LastOf(Loaded)
  /\ byActor' = Index(Loaded)
  /\ missed' = FALSE
  /\ UNCHANGED <<file, cut, logged, faults, gap>>

\* query_events() by actor: a page of what matches, the newest first.
QueryEvents(a, limit, offset) ==
  LET Newer(i) == Cardinality({j \in byActor[a] : j > i}) IN
  {events[i] : i \in {j \in byActor[a] : Newer(j) \in offset..(offset + limit - 1)}}

AuditNext == Restart \/ \E a \in Actor, outcome \in Outcome : LogEvent(a, outcome)

AuditSpec == AuditInit /\ [][AuditNext]_auditVars
-----------------------------------------------------------------------------
(* Properties *)

\* A query by actor looks at the events of that actor and at no others, after
\* trims and restarts too.
IndexesAgree == byActor = Index(events)

\* verify_integrity() on an untouched log.
Chained(evs) == \A i \in 2..Len(evs) : evs[i].prev = evs[i - 1].no

\* The chain verifies, over torn lines, lost ends and restarts, as long as no event
\* was written behind one whose write had failed altogether: otherwise the next start
\* finds a chain that looks as if somebody had tampered with it.
NoFalseAlarm == gap \/ Chained(events)

\* The buffer is the end of what this run has loaded and logged, misses none of the
\* newest max_buffer_size events, and with every write whole a run has seen them all.
BufferIsRecent ==
  /\ Len(events) <= Len(seen) /\ events = Newest(seen, Len(events))
  /\ Len(events) >= MaxBuffer \/ events = seen
  /\ faults = 0 => Len(seen) = logged

\* A page of a query by actor holds events of that actor only, and each of its events
\* among the newest max_buffer_size that this run has loaded and logged is on some page,
\* however long a page is.
QueriesFind ==
  \A a \in Actor : \A limit \in 1..Len(events) :
    /\ \A offset \in 0..Len(events) : \A e \in QueryEvents(a, limit, offset) : e.actor = a
    /\ \A i \in 1..Len(seen) :
         i > Len(seen) - MaxBuffer /\ seen[i].actor = a =>
           \E offset \in 0..Len(events) : seen[i] \in QueryEvents(a, limit, offset)

\* What queries look at and find is what happened last, over trims, failed writes and
\* restarts.
MemoryIsTrue == IndexesAgree /\ BufferIsRecent /\ QueriesFind
=============================================================================
