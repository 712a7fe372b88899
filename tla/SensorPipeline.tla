--------------------------- MODULE SensorPipeline ---------------------------
(***************************************************************************)
(* sensor/pipeline.py: readings are buffered, a background task hands the  *)
(* buffer to a sink at every interval, and anybody may call flush(),       *)
(* start() and stop().  Everything runs on one event loop, so a step lasts *)
(* from one await to the next; the lock is never held across an await and  *)
(* adds nothing.  The sink may be slow and may fail at every attempt.      *)
(***************************************************************************)
EXTENDS Integers, FiniteSets

CONSTANTS Loop,          \* the flush tasks start() can create: bound on starts
          Caller,        \* tasks that call flush() and stop()
          NoLoop,
          BufferSize,    \* config.buffer_size
          MaxRetries,    \* config.max_retries
          MaxReadings    \* bound on the readings offered

ASSUME PipelineAssumption ==
  /\ Loop \cap Caller = {} /\ NoLoop \notin Loop
  /\ BufferSize \in Nat /\ MaxRetries \in Nat /\ MaxReadings \in Nat

VARIABLES state, stopEvent, flushTask,
          sink,        \* whether set_sink was called
          buffer,      \* readings waiting; a reading is its number of arrival
          pc, job,     \* where each task is, and what it is flushing for
          batch,       \* the readings a task has taken and not settled yet
          attempt,
          cancelled,   \* loops whose task was cancelled and has not noticed yet
          waits,       \* the loop a stop() call awaits
          flushed, dropped,   \* readings counted in total_flushed, total_dropped
          offered, lost,      \* history: readings that came, and that no counter knows
          cut,                \* history: readings a loop had in hand when stop() cancelled it
          mark,               \* history: the readings offered before c's last stop()
          overlapped          \* history: start() was called during a stop()

metrics == <<flushed, dropped, offered, lost>>
vars == <<state, stopEvent, flushTask, sink, buffer, pc, job, batch, attempt,
          cancelled, waits, metrics, cut, mark, overlapped>>

Task == Loop \cup Caller
State == {"stopped", "running", "stopping"}   \* "starting" ends in the step that sets it
Job == {"none", "loop", "final", "flush", "stop"}

TypeOK ==
  /\ state \in State /\ stopEvent \in BOOLEAN /\ flushTask \in Loop \cup {NoLoop}
  /\ sink \in BOOLEAN /\ overlapped \in BOOLEAN
  /\ pc \in [Task -> {"unborn", "new", "sleep", "done", "idle", "join", "sink", "retry"}]
  /\ job \in [Task -> Job]
  /\ offered \in Nat
  /\ buffer \subseteq 1..offered /\ Cardinality(buffer) <= BufferSize
  /\ batch \in [Task -> SUBSET (1..offered)]
  /\ attempt \in [Task -> 0..MaxRetries]
  /\ cancelled \subseteq Loop
  /\ waits \in [Caller -> Loop \cup {NoLoop}]
  /\ flushed \subseteq 1..offered /\ dropped \subseteq 1..offered /\ lost \subseteq 1..offered
  /\ cut \subseteq 1..offered
  /\ mark \in [Caller -> Nat]

Init ==
  /\ state = "stopped" /\ stopEvent = FALSE /\ flushTask = NoLoop
  /\ sink = FALSE /\ buffer = {}
  /\ pc = [t \in Task |-> IF t \in Loop THEN "unborn" ELSE "idle"]
  /\ job = [t \in Task |-> "none"]
  /\ batch = [t \in Task |-> {}]
  /\ attempt = [t \in Task |-> 0]
  /\ cancelled = {} /\ waits = [c \in Caller |-> NoLoop]
  /\ flushed = {} /\ dropped = {} /\ offered = 0 /\ lost = {} /\ cut = {}
  /\ mark = [c \in Caller |-> 0] /\ overlapped = FALSE

SetSink ==
  /\ ~sink /\ sink' = TRUE
  /\ UNCHANGED <<state, stopEvent, flushTask, buffer, pc, job, batch, attempt,
                 cancelled, waits, metrics, cut, mark, overlapped>>

\* Mutant: one reading too many.
IngestOneMore ==
  /\ offered < MaxReadings /\ offered' = offered + 1
  /\ IF Cardinality(buffer) > BufferSize
     THEN dropped' = dropped \cup {offered'} /\ UNCHANGED buffer
     ELSE buffer' = buffer \cup {offered'} /\ UNCHANGED dropped
  /\ UNCHANGED <<state, stopEvent, flushTask, sink, pc, job, batch, attempt,
                 cancelled, waits, flushed, lost, cut, mark, overlapped>>

\* ingest(): in whatever state the pipeline is.
Ingest ==
  /\ offered < MaxReadings /\ offered' = offered + 1
  /\ IF Cardinality(buffer) >= BufferSize
     THEN dropped' = dropped \cup {offered'} /\ UNCHANGED buffer
     ELSE buffer' = buffer \cup {offered'} /\ UNCHANGED dropped
  /\ UNCHANGED <<state, stopEvent, flushTask, sink, pc, job, batch, attempt,
                 cancelled, waits, flushed, lost, cut, mark, overlapped>>

\* Mutant: the buffer is to be cleared after the await.
TakeCopy(t, j) ==
  /\ UNCHANGED buffer
  /\ batch' = [batch EXCEPT ![t] = buffer]
  /\ attempt' = [attempt EXCEPT ![t] = 0]
  /\ pc' = [pc EXCEPT ![t] = "sink"]
  /\ job' = [job EXCEPT ![t] = j]

\* Task t takes the whole buffer to the sink, for the purpose j.
Take(t, j) ==
  /\ buffer' = {}
  /\ batch' = [batch EXCEPT ![t] = buffer]
  /\ attempt' = [attempt EXCEPT ![t] = 0]
  /\ pc' = [pc EXCEPT ![t] = "sink"]
  /\ job' = [job EXCEPT ![t] = j]

\* Mutant: the loop flushes once.
AfterOnce(j) == IF j \in {"flush", "stop"} THEN "idle" ELSE "done"

\* Where a flush for j returns to.
After(j) == CASE j \in {"flush", "stop"} -> "idle"
              [] j = "final" \/ (j = "loop" /\ stopEvent) -> "done"
              [] OTHER -> "sleep"

Leave(t, j) ==
  /\ pc' = [pc EXCEPT ![t] = After(j)]
  /\ job' = [job EXCEPT ![t] = "none"]
  /\ batch' = [batch EXCEPT ![t] = {}]
  /\ attempt' = [attempt EXCEPT ![t] = 0]

\* flush() up to its first await; without a sink the readings are dropped.
Flush(t, j) ==
  IF buffer # {} /\ sink
  THEN Take(t, j) /\ UNCHANGED dropped
  ELSE Leave(t, j) /\ buffer' = {} /\ dropped' = dropped \cup buffer

\* After the batch is settled: a loop that is to stop flushes what came meanwhile.
Return(t) ==
  /\ IF job[t] = "loop" /\ stopEvent /\ buffer # {}
     THEN Take(t, "final")
     ELSE Leave(t, job[t]) /\ UNCHANGED buffer
  /\ state' = IF job[t] = "stop" THEN "stopped" ELSE state

SinkAccepts(t) ==
  /\ pc[t] = "sink" /\ t \notin cancelled
  /\ flushed' = flushed \cup batch[t]
  /\ Return(t)
  /\ UNCHANGED <<stopEvent, flushTask, sink, cancelled, waits, dropped, offered, lost,
                 cut, mark, overlapped>>

SinkFails(t) ==
  /\ pc[t] = "sink" /\ t \notin cancelled
  /\ IF attempt[t] < MaxRetries
     THEN /\ pc' = [pc EXCEPT ![t] = "retry"]
          /\ UNCHANGED <<state, buffer, job, batch, attempt, dropped>>
     ELSE Return(t) /\ dropped' = dropped \cup batch[t]
  /\ UNCHANGED <<stopEvent, flushTask, sink, cancelled, waits, flushed, offered, lost,
                 cut, mark, overlapped>>

\* retry_delay has passed.
Retry(t) ==
  /\ pc[t] = "retry" /\ t \notin cancelled
  /\ pc' = [pc EXCEPT ![t] = "sink"]
  /\ attempt' = [attempt EXCEPT ![t] = @ + 1]
  /\ UNCHANGED <<state, stopEvent, flushTask, sink, buffer, job, batch, cancelled, waits,
                 metrics, cut, mark, overlapped>>

Stopping == {c \in Caller : job[c] = "stop"}

\* Mutant: not refused.
StartTwice(l) ==
  /\ pc[l] = "unborn"
  /\ state' = "running" /\ stopEvent' = FALSE /\ flushTask' = l
  /\ pc' = [pc EXCEPT ![l] = "new"]
  /\ overlapped' = (overlapped \/ Stopping # {})
  /\ UNCHANGED <<sink, buffer, job, batch, attempt, cancelled, waits, metrics, cut, mark>>

\* start(): refused while running only.
Start(l) ==
  /\ state # "running" /\ pc[l] = "unborn"
  /\ state' = "running" /\ stopEvent' = FALSE /\ flushTask' = l
  /\ pc' = [pc EXCEPT ![l] = "new"]
  /\ overlapped' = (overlapped \/ Stopping # {})
  /\ UNCHANGED <<sink, buffer, job, batch, attempt, cancelled, waits, metrics, cut, mark>>

\* The new task runs for the first time.
LoopBegins(l) ==
  /\ pc[l] = "new" /\ l \notin cancelled
  /\ IF stopEvent
     THEN Flush(l, "final")
     ELSE /\ pc' = [pc EXCEPT ![l] = "sleep"]
          /\ UNCHANGED <<buffer, job, batch, attempt, dropped>>
  /\ UNCHANGED <<state, stopEvent, flushTask, sink, cancelled, waits, flushed, offered, lost,
                 cut, mark, overlapped>>

\* batch_interval has passed.
LoopWakes(l) ==
  /\ pc[l] = "sleep" /\ l \notin cancelled
  /\ Flush(l, "loop")
  /\ UNCHANGED <<state, stopEvent, flushTask, sink, cancelled, waits, flushed, offered, lost,
                 cut, mark, overlapped>>

\* Mutant: the cancellation is caught and the loop goes on.
LoopCancelledGoesOn(l) ==
  /\ l \in cancelled /\ cancelled' = cancelled \ {l}
  /\ lost' = lost \cup batch[l]
  /\ pc' = [pc EXCEPT ![l] = "sleep"]
  /\ job' = [job EXCEPT ![l] = "none"]
  /\ batch' = [batch EXCEPT ![l] = {}]
  /\ UNCHANGED <<state, stopEvent, flushTask, sink, buffer, attempt, waits, flushed, dropped,
                 offered, cut, mark, overlapped>>

\* The loop is thrown out of its await.  A batch it was publishing is in no counter;
\* the loop then flushes the rest, unless it had not begun or was doing just that.
LoopCancelled(l) ==
  /\ l \in cancelled /\ cancelled' = cancelled \ {l}
  /\ lost' = lost \cup batch[l]
  /\ IF pc[l] = "new" \/ job[l] = "final"
     THEN Leave(l, "final") /\ UNCHANGED <<buffer, dropped>>
     ELSE Flush(l, "final")
  /\ UNCHANGED <<state, stopEvent, flushTask, sink, waits, flushed, offered, cut, mark, overlapped>>

FlushCall(c) ==
  /\ pc[c] = "idle"
  /\ Flush(c, "flush")
  /\ UNCHANGED <<state, stopEvent, flushTask, sink, cancelled, waits, flushed, offered, lost,
                 cut, mark, overlapped>>

\* The end of stop(): forget the task, whichever it now is, and flush; the state is set
\* after the flush.
EndStop(c, now) ==
  /\ flushTask' = NoLoop
  /\ Flush(c, "stop")
  /\ state' = IF pc'[c] = "idle" THEN "stopped" ELSE now

\* Mutant: the loop is not waited for.
StopCallNoJoin(c) ==
  /\ pc[c] = "idle" /\ state # "stopped"
  /\ stopEvent' = TRUE
  /\ mark' = [mark EXCEPT ![c] = offered]
  /\ EndStop(c, "stopping")
  /\ UNCHANGED <<sink, cancelled, waits, flushed, offered, lost, cut, overlapped>>

\* stop() of a stopped pipeline returns at once.
StopRefused(c) ==
  /\ pc[c] = "idle" /\ state = "stopped"
  /\ mark' = [mark EXCEPT ![c] = offered]
  /\ UNCHANGED <<state, stopEvent, flushTask, sink, buffer, pc, job, batch, attempt,
                 cancelled, waits, metrics, cut, overlapped>>

\* stop() up to its first await.
StopCall(c) ==
  /\ pc[c] = "idle" /\ state # "stopped"
  /\ stopEvent' = TRUE
  /\ mark' = [mark EXCEPT ![c] = offered]
  /\ IF flushTask # NoLoop /\ pc[flushTask] # "done"
     THEN /\ state' = "stopping"
          /\ cancelled' = cancelled \cup {flushTask}
          /\ cut' = cut \cup batch[flushTask]
          /\ waits' = [waits EXCEPT ![c] = flushTask]
          /\ pc' = [pc EXCEPT ![c] = "join"]
          /\ job' = [job EXCEPT ![c] = "stop"]
          /\ UNCHANGED <<flushTask, buffer, batch, attempt, dropped>>
     ELSE EndStop(c, "stopping") /\ UNCHANGED <<cancelled, waits, cut>>
  /\ UNCHANGED <<sink, flushed, offered, lost, overlapped>>

\* The loop that stop() awaits has ended.
Joined(c) ==
  /\ pc[c] = "join" /\ pc[waits[c]] = "done"
  /\ waits' = [waits EXCEPT ![c] = NoLoop]
  /\ EndStop(c, state)
  /\ UNCHANGED <<stopEvent, sink, cancelled, flushed, offered, lost, cut, mark, overlapped>>

Next ==
  \/ SetSink \/ Ingest
  \/ \E t \in Task : SinkAccepts(t) \/ SinkFails(t) \/ Retry(t)
  \/ \E l \in Loop : Start(l) \/ LoopBegins(l) \/ LoopWakes(l) \/ LoopCancelled(l)
  \/ \E c \in Caller : FlushCall(c) \/ StopRefused(c) \/ StopCall(c) \/ Joined(c)

Spec == Init /\ [][Next]_vars

\* The event loop runs every task that is ready, timers go off, and the sink
\* answers each call in the end, well or badly.
FairSpec ==
  /\ Spec
  /\ \A t \in Task : WF_vars(SinkAccepts(t) \/ SinkFails(t)) /\ WF_vars(Retry(t))
  /\ \A l \in Loop : WF_vars(LoopBegins(l) \/ LoopWakes(l) \/ LoopCancelled(l))
  /\ \A c \in Caller : WF_vars(Joined(c))
-----------------------------------------------------------------------------
(* Properties *)

Live(l) == pc[l] \notin {"unborn", "done"}

InFlight == UNION {batch[t] : t \in Task}

\* Every reading is in exactly one place: waiting, in one task's hands, counted as
\* flushed, counted as dropped, or lost to the counters.  None is delivered twice.
ReadingsAreOnce ==
  /\ 1..offered = buffer \cup InFlight \cup flushed \cup dropped \cup lost
  /\ buffer \cap (InFlight \cup flushed \cup dropped \cup lost) = {}
  /\ InFlight \cap (flushed \cup dropped \cup lost) = {}
  /\ flushed \cap (dropped \cup lost) = {} /\ dropped \cap lost = {}
  /\ \A t, u \in Task : t # u => batch[t] \cap batch[u] = {}

\* As long as start() was not called during a stop(), every live loop is the one the
\* pipeline knows and a stopped pipeline has none: no task flushes behind its back.
LoopIsKnown ==
  ~overlapped => \A l \in Loop : Live(l) => l = flushTask /\ state # "stopped"

\* A call of stop() ends in this step, be it the step it began in.
Returns(c) == job'[c] = "none" /\ (job[c] = "stop" \/ mark'[c] # mark[c])

StepSettles ==
  \A c \in Caller : Returns(c) /\ ~overlapped =>
    \A r \in 1..mark'[c] :
      \/ r \in flushed' \cup dropped' \cup cut'
      \/ \E d \in Caller \ {c} : r \in batch'[d]
      \/ r \in buffer' /\ state = "stopped" /\ job[c] = "none"

\* When stop() returns, each reading offered before the call is flushed or counted as
\* dropped, or another caller of flush() or stop() has it in hand.  There are two ways
\* out: a batch that stop() itself cut off by cancelling the loop, and a stop() that
\* finds the pipeline stopped and leaves in the buffer what came since.
StopSettles == [][StepSettles]_vars

\* "Stop the pipeline and flush remaining data": stop() throws no reading away.
StopFlushes == lost = {}

\* stop() returns, however often it is called and whatever the sink answers.
StopReturns == \A c \in Caller : (job[c] = "stop") ~> (pc[c] = "idle")

\* A running pipeline does not leave a reading in its buffer.
BufferDrains ==
  \A r \in 1..MaxReadings : (r \in buffer) ~> (r \notin buffer \/ state # "running")
=============================================================================
