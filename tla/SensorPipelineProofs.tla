------------------------ MODULE SensorPipelineProofs ------------------------
(***************************************************************************)
(* Theorems about the sensor pipeline, for any number of readings, starts, *)
(* callers and retries and every size of the buffer.                       *)
(***************************************************************************)
EXTENDS SensorPipeline, FiniteSetTheorems, TLAPS

\* The parts of TypeOK that a flush disturbs.
Place == {"unborn", "new", "sleep", "done", "idle", "join", "sink", "retry"}

TasksOK ==
  /\ pc \in [Task -> Place] /\ job \in [Task -> Job]
  /\ batch \in [Task -> SUBSET (1..offered)] /\ attempt \in [Task -> 0..MaxRetries]
  /\ \A t \in Task : pc[t] = "retry" => attempt[t] < MaxRetries

BufferOK == buffer \subseteq 1..offered /\ Cardinality(buffer) <= BufferSize

\* TypeOK is not inductive by itself: who waits to try again may do so.
Typed == TypeOK /\ \A t \in Task : pc[t] = "retry" => attempt[t] < MaxRetries

\* A flush returns to a place there is.
LEMMA AfterType == \A j \in Job : After(j) \in {"idle", "done", "sleep"}
BY DEF After, Job

LEMMA TypeParts == Typed => TasksOK /\ BufferOK
BY DEF Typed, TypeOK, TasksOK, BufferOK, Place

\* A task that leaves a flush keeps the types.
LEMMA LeaveTypes ==
  ASSUME Typed, NEW t \in Task, NEW j \in Job, Leave(t, j), offered' = offered
  PROVE  TasksOK'
<1>1. After(j) \in Place \ {"retry"} /\ "none" \in Job /\ 0 \in 0..MaxRetries
  BY AfterType, PipelineAssumption DEF Place, Job
<1>2. TasksOK
  BY TypeParts
<1>3. pc' \in [Task -> Place] /\ job' \in [Task -> Job]
  BY <1>1, <1>2 DEF Leave, TasksOK
<1>4. batch' \in [Task -> SUBSET (1..offered')] /\ attempt' \in [Task -> 0..MaxRetries]
  BY <1>1, <1>2 DEF Leave, TasksOK
<1>5. \A u \in Task : pc'[u] = "retry" => u # t /\ pc[u] = "retry"
  BY <1>1, <1>2 DEF Leave, TasksOK
<1>6. \A u \in Task : u # t => attempt'[u] = attempt[u]
  BY <1>2 DEF Leave, TasksOK
<1>7. \A u \in Task : pc'[u] = "retry" => attempt'[u] < MaxRetries
  BY <1>2, <1>5, <1>6 DEF TasksOK
<1> QED
  BY <1>3, <1>4, <1>7 DEF TasksOK

\* So does a task that takes the buffer.
LEMMA TakeTypes ==
  ASSUME Typed, NEW t \in Task, NEW j \in Job, Take(t, j), offered' = offered
  PROVE  TasksOK' /\ BufferOK'
<1>1. "sink" \in Place /\ 0 \in 0..MaxRetries
  BY PipelineAssumption DEF Place
<1>2. TasksOK /\ BufferOK
  BY TypeParts
<1>3. Cardinality({}) = 0
  BY FS_EmptySet
<1> QED
  BY <1>1, <1>2, <1>3, PipelineAssumption DEF Take, TasksOK, BufferOK

LEMMA FlushTypes ==
  ASSUME Typed, NEW t \in Task, NEW j \in Job, Flush(t, j), offered' = offered
  PROVE  TasksOK' /\ BufferOK' /\ dropped' \subseteq 1..offered
<1>1. CASE buffer # {} /\ sink
  BY <1>1, TakeTypes DEF Flush, Typed, TypeOK
<1>2. CASE ~(buffer # {} /\ sink)
  <2>1. Leave(t, j) /\ buffer' = {} /\ dropped' = dropped \cup buffer
    BY <1>2 DEF Flush
  <2>2. Cardinality({}) = 0
    BY FS_EmptySet
  <2> QED
    BY <2>1, <2>2, LeaveTypes, PipelineAssumption DEF Typed, TypeOK, BufferOK
<1> QED
  BY <1>1, <1>2

LEMMA ReturnTypes ==
  ASSUME Typed, NEW t \in Task, Return(t), offered' = offered
  PROVE  TasksOK' /\ BufferOK' /\ state' \in State
<1>1. job[t] \in Job /\ "final" \in Job
  BY DEF Typed, TypeOK, Job
<1>2. state' \in State
  BY DEF Return, Typed, TypeOK, State
<1>3. CASE job[t] = "loop" /\ stopEvent /\ buffer # {}
  BY <1>1, <1>2, <1>3, TakeTypes DEF Return
<1>4. CASE ~(job[t] = "loop" /\ stopEvent /\ buffer # {})
  <2>1. Leave(t, job[t]) /\ UNCHANGED buffer
    BY <1>4 DEF Return
  <2> QED
    BY <1>1, <1>2, <2>1, LeaveTypes, TypeParts DEF BufferOK
<1> QED
  BY <1>3, <1>4
-----------------------------------------------------------------------------
(* Type correctness *)

LEMMA InitTypes == Init => Typed
<1> SUFFICES ASSUME Init PROVE Typed
  OBVIOUS
<1>1. Cardinality({}) = 0 /\ 0 \in 0..MaxRetries
  BY FS_EmptySet, PipelineAssumption
<1>2. pc \in [Task -> {"unborn", "new", "sleep", "done", "idle", "join", "sink", "retry"}]
  BY DEF Init
<1>3. job \in [Task -> Job] /\ batch \in [Task -> SUBSET (1..offered)]
      /\ attempt \in [Task -> 0..MaxRetries]
  BY <1>1 DEF Init, Job
<1>4. buffer \subseteq 1..offered /\ Cardinality(buffer) <= BufferSize
  BY <1>1, PipelineAssumption DEF Init
<1> QED
  BY <1>2, <1>3, <1>4 DEF Init, Typed, TypeOK, State

\* A reading that finds room is one more in the buffer.
LEMMA IngestTypes == Typed /\ Ingest => Typed'
<1> SUFFICES ASSUME Typed, Ingest PROVE Typed'
  OBVIOUS
<1>1. offered \in Nat /\ offered' = offered + 1 /\ 1..offered \subseteq 1..offered'
      /\ offered' \in 1..offered'
  BY DEF Ingest, Typed, TypeOK
<1>2. IsFiniteSet(buffer) /\ Cardinality(buffer) \in Nat
  <2>1. IsFiniteSet(1..offered)
    BY <1>1, FS_Interval
  <2> QED
    BY <2>1, FS_Subset, FS_CardinalityType DEF Typed, TypeOK
<1>3. BufferOK' /\ dropped' \subseteq 1..offered'
  <2>1. CASE Cardinality(buffer) >= BufferSize
    BY <1>1, <2>1 DEF Ingest, Typed, TypeOK, BufferOK
  <2>2. CASE ~(Cardinality(buffer) >= BufferSize)
    <3>1. buffer' = buffer \cup {offered'} /\ dropped' = dropped
      BY <2>2 DEF Ingest
    <3>2. Cardinality(buffer') <= Cardinality(buffer) + 1
      BY <1>2, <3>1, FS_AddElement
    <3>3. Cardinality(buffer') \in Nat
      BY <1>2, <3>1, FS_AddElement, FS_CardinalityType
    <3> QED
      BY <1>1, <1>2, <2>2, <3>1, <3>2, <3>3, PipelineAssumption DEF Typed, TypeOK, BufferOK
  <2> QED
    BY <2>1, <2>2
<1>4. batch' \in [Task -> SUBSET (1..offered')]
  BY <1>1 DEF Ingest, Typed, TypeOK
<1>5. flushed' \subseteq 1..offered' /\ lost' \subseteq 1..offered' /\ cut' \subseteq 1..offered'
  BY <1>1 DEF Ingest, metrics, Typed, TypeOK
<1> QED
  BY <1>1, <1>3, <1>4, <1>5 DEF Ingest, Typed, TypeOK, BufferOK

LEMMA TypesKept == Typed /\ [Next]_vars => Typed'
<1> SUFFICES ASSUME Typed, [Next]_vars PROVE Typed'
  OBVIOUS
<1> USE DEF Typed, TypeOK, TasksOK, BufferOK, Place
<1>j. {"loop", "final", "flush", "stop"} \subseteq Job
  BY DEF Job
<1>1. CASE SetSink
  BY <1>1 DEF SetSink, metrics
<1>2. CASE Ingest
  BY <1>2, IngestTypes
<1>3. ASSUME NEW t \in Task, SinkAccepts(t) PROVE Typed'
  <2>1. offered' = offered /\ Return(t) /\ flushed' \subseteq 1..offered
    BY <1>3 DEF SinkAccepts
  <2>2. TasksOK' /\ BufferOK' /\ state' \in State
    BY <2>1, ReturnTypes
  <2> QED
    BY <1>3, <2>1, <2>2 DEF SinkAccepts
<1>4. ASSUME NEW t \in Task, SinkFails(t) PROVE Typed'
  <2>1. CASE attempt[t] < MaxRetries
    BY <1>4, <2>1 DEF SinkFails
  <2>2. CASE ~(attempt[t] < MaxRetries)
    <3>1. offered' = offered /\ Return(t) /\ dropped' \subseteq 1..offered
      BY <1>4, <2>2 DEF SinkFails
    <3>2. TasksOK' /\ BufferOK' /\ state' \in State
      BY <3>1, ReturnTypes
    <3> QED
      BY <1>4, <3>1, <3>2 DEF SinkFails
  <2> QED
    BY <2>1, <2>2
<1>5. ASSUME NEW t \in Task, Retry(t) PROVE Typed'
  <2>1. attempt[t] < MaxRetries /\ attempt[t] + 1 \in 0..MaxRetries
    BY <1>5, PipelineAssumption DEF Retry
  <2>2. attempt' \in [Task -> 0..MaxRetries]
    BY <1>5, <2>1 DEF Retry
  <2> QED
    BY <1>5, <2>2 DEF Retry, metrics
<1>6. ASSUME NEW l \in Loop, Start(l) PROVE Typed'
  BY <1>6 DEF Start, metrics, State, Task
<1>7. ASSUME NEW l \in Loop, LoopBegins(l) PROVE Typed'
  <2>0. l \in Task
    BY DEF Task
  <2>1. CASE stopEvent
    <3>1. Flush(l, "final") /\ offered' = offered
      BY <1>7, <2>1 DEF LoopBegins
    <3>2. TasksOK' /\ BufferOK' /\ dropped' \subseteq 1..offered'
      BY <1>j, <2>0, <3>1, FlushTypes
    <3> QED
      BY <1>7, <3>2 DEF LoopBegins
  <2>2. CASE ~stopEvent
    BY <1>7, <2>2 DEF LoopBegins
  <2> QED
    BY <2>1, <2>2
<1>8. ASSUME NEW l \in Loop, LoopWakes(l) PROVE Typed'
  <2>1. Flush(l, "loop") /\ offered' = offered /\ l \in Task
    BY <1>8 DEF LoopWakes, Task
  <2>2. TasksOK' /\ BufferOK' /\ dropped' \subseteq 1..offered'
    BY <1>j, <2>1, FlushTypes
  <2> QED
    BY <1>8, <2>2 DEF LoopWakes
<1>9. ASSUME NEW l \in Loop, LoopCancelled(l) PROVE Typed'
  <2>0. l \in Task /\ offered' = offered /\ lost' \subseteq 1..offered'
    BY <1>9 DEF LoopCancelled, Task
  <2>1. TasksOK' /\ BufferOK' /\ dropped' \subseteq 1..offered'
    <3>1. CASE pc[l] = "new" \/ job[l] = "final"
      BY <1>9, <1>j, <2>0, <3>1, LeaveTypes DEF LoopCancelled
    <3>2. CASE ~(pc[l] = "new" \/ job[l] = "final")
      BY <1>9, <1>j, <2>0, <3>2, FlushTypes DEF LoopCancelled
    <3> QED
      BY <3>1, <3>2
  <2> QED
    BY <1>9, <2>0, <2>1 DEF LoopCancelled
<1>10. ASSUME NEW c \in Caller, FlushCall(c) PROVE Typed'
  <2>1. Flush(c, "flush") /\ offered' = offered /\ c \in Task
    BY <1>10 DEF FlushCall, Task
  <2>2. TasksOK' /\ BufferOK' /\ dropped' \subseteq 1..offered'
    BY <1>j, <2>1, FlushTypes
  <2> QED
    BY <1>10, <2>2 DEF FlushCall
<1>11. ASSUME NEW c \in Caller, NEW now \in State, EndStop(c, now), offered' = offered
       PROVE  TasksOK' /\ BufferOK' /\ dropped' \subseteq 1..offered'
              /\ state' \in State /\ flushTask' = NoLoop
  <2>1. Flush(c, "stop") /\ c \in Task
    BY <1>11 DEF EndStop, Task
  <2> QED
    BY <1>11, <1>j, <2>1, FlushTypes DEF EndStop, State
<1>12. ASSUME NEW c \in Caller, StopCall(c) PROVE Typed'
  <2>0. offered' = offered /\ c \in Task /\ mark' \in [Caller -> Nat]
    BY <1>12 DEF StopCall, Task
  <2>1. CASE flushTask # NoLoop /\ pc[flushTask] # "done"
    <3>1. pc' \in [Task -> Place] /\ job' \in [Task -> Job]
      BY <1>12, <1>j, <2>0, <2>1 DEF StopCall
    <3>2. \A t \in Task : pc'[t] = "retry" => attempt'[t] < MaxRetries
      BY <1>12, <2>0, <2>1 DEF StopCall
    <3>3. cancelled' \subseteq Loop /\ waits' \in [Caller -> Loop \cup {NoLoop}]
      BY <1>12, <2>1 DEF StopCall
    <3>4. cut' \subseteq 1..offered
      <4>1. flushTask \in Task
        BY <2>1 DEF Task
      <4> QED
        BY <1>12, <2>1, <4>1 DEF StopCall
    <3> QED
      BY <1>12, <2>0, <2>1, <3>1, <3>2, <3>3, <3>4 DEF StopCall, State
  <2>2. CASE ~(flushTask # NoLoop /\ pc[flushTask] # "done")
    <3>1. EndStop(c, "stopping") /\ UNCHANGED <<cancelled, waits, cut>>
      BY <1>12, <2>2 DEF StopCall
    <3>2. "stopping" \in State
      BY DEF State
    <3> QED
      BY <1>11, <1>12, <2>0, <3>1, <3>2 DEF StopCall
  <2> QED
    BY <2>1, <2>2
<1>13. ASSUME NEW c \in Caller, Joined(c) PROVE Typed'
  <2>1. EndStop(c, state) /\ offered' = offered
    BY <1>13 DEF Joined
  <2> QED
    BY <1>11, <1>13, <2>1 DEF Joined
<1>14. ASSUME NEW c \in Caller, StopRefused(c) PROVE Typed'
  BY <1>14 DEF StopRefused, metrics
<1>15. CASE UNCHANGED vars
  BY <1>15 DEF vars, metrics
<1> QED
  BY <1>1, <1>2, <1>3, <1>4, <1>5, <1>6, <1>7, <1>8, <1>9, <1>10, <1>12, <1>13, <1>14, <1>15
     DEF Next

\* Every reachable state is well typed: the buffer never holds more than buffer_size
\* readings and no batch is tried more than max_retries times again.
THEOREM TypeCorrect == Spec => []TypeOK
<1>1. Typed => TypeOK
  BY DEF Typed
<1> QED
  BY <1>1, InitTypes, TypesKept, PTL DEF Spec
-----------------------------------------------------------------------------
(* Every reading is in exactly one place *)

Covered ==
  \A r \in 1..offered :
    r \in buffer \cup flushed \cup dropped \cup lost \/ \E t \in Task : r \in batch[t]

Apart ==
  /\ \A t \in Task : batch[t] \cap (buffer \cup flushed \cup dropped \cup lost) = {}
  /\ \A t, u \in Task : t # u => batch[t] \cap batch[u] = {}
  /\ buffer \cap (flushed \cup dropped \cup lost) = {}
  /\ flushed \cap (dropped \cup lost) = {} /\ dropped \cap lost = {}

\* Only a task that is publishing has readings in hand: nothing is overwritten
\* when a task takes the buffer.
EmptyHands == \A t \in Task : pc[t] \notin {"sink", "retry"} => batch[t] = {}

OnceInv == Typed /\ Covered /\ Apart /\ EmptyHands

LEMMA OnceInvImplies == OnceInv => ReadingsAreOnce
<1> SUFFICES ASSUME OnceInv PROVE ReadingsAreOnce
  OBVIOUS
<1>1. 1..offered = buffer \cup InFlight \cup flushed \cup dropped \cup lost
  <2>1. InFlight \subseteq 1..offered
    BY DEF OnceInv, Typed, TypeOK, InFlight
  <2>2. 1..offered \subseteq buffer \cup InFlight \cup flushed \cup dropped \cup lost
    BY DEF OnceInv, Covered, InFlight
  <2> QED
    BY <2>1, <2>2 DEF OnceInv, Typed, TypeOK
<1>2. InFlight \cap (buffer \cup flushed \cup dropped \cup lost) = {}
  BY DEF OnceInv, Apart, InFlight
<1> QED
  BY <1>1, <1>2 DEF OnceInv, Apart, ReadingsAreOnce

\* A step that settles the batch of t as F flushed, D dropped, L lost, and takes from
\* the buffer B for a new batch and X to drop, leaves every reading in one place.
LEMMA Moves ==
  ASSUME OnceInv, NEW t \in Task, NEW F, NEW D, NEW L, NEW B, NEW X,
         F \cup D \cup L = batch[t],
         F \cap (D \cup L) = {}, D \cap L = {},
         B \cup X \subseteq buffer, B \cap X = {},
         offered' = offered,
         buffer' = buffer \ (B \cup X),
         batch' = [batch EXCEPT ![t] = B],
         flushed' = flushed \cup F, dropped' = dropped \cup D \cup X, lost' = lost \cup L
  PROVE  Covered' /\ Apart'
<1>1. batch \in [Task -> SUBSET (1..offered)]
  BY DEF OnceInv, Typed, TypeOK
<1>2. batch'[t] = B /\ \A u \in Task : u # t => batch'[u] = batch[u]
  BY <1>1
<1>3. Covered'
  <2> SUFFICES ASSUME NEW r \in 1..offered,
                      r \notin buffer' \cup flushed' \cup dropped' \cup lost'
               PROVE  \E u \in Task : r \in batch'[u]
    BY DEF Covered
  <2>1. CASE r \in buffer
    BY <1>2, <2>1
  <2>2. CASE r \notin buffer
    <3>1. r \notin flushed \cup dropped \cup lost \cup batch[t]
      OBVIOUS
    <3>2. PICK u \in Task : r \in batch[u]
      BY <2>2, <3>1 DEF OnceInv, Covered
    <3> QED
      BY <1>2, <3>1, <3>2
  <2> QED
    BY <2>1, <2>2
<1>4. Apart'
  <2>1. \A u \in Task : batch'[u] \cap (buffer' \cup flushed' \cup dropped' \cup lost') = {}
    <3> SUFFICES ASSUME NEW u \in Task
                 PROVE  batch'[u] \cap (buffer' \cup flushed' \cup dropped' \cup lost') = {}
      OBVIOUS
    <3>1. CASE u = t
      BY <1>2, <3>1 DEF OnceInv, Apart
    <3>2. CASE u # t
      BY <1>2, <3>2 DEF OnceInv, Apart
    <3> QED
      BY <3>1, <3>2
  <2>2. \A u, v \in Task : u # v => batch'[u] \cap batch'[v] = {}
    BY <1>2 DEF OnceInv, Apart
  <2>3. buffer' \cap (flushed' \cup dropped' \cup lost') = {}
    BY DEF OnceInv, Apart
  <2>4. flushed' \cap (dropped' \cup lost') = {} /\ dropped' \cap lost' = {}
    BY DEF OnceInv, Apart
  <2> QED
    BY <2>1, <2>2, <2>3, <2>4 DEF Apart
<1> QED
  BY <1>3, <1>4

\* Where a task goes that leaves a flush, its hands are empty.
LEMMA LeaveHands ==
  ASSUME OnceInv, NEW t \in Task, NEW j \in Job, Leave(t, j)
  PROVE  EmptyHands' /\ batch' = [batch EXCEPT ![t] = {}]
<1>1. batch \in [Task -> SUBSET (1..offered)] /\ pc \in [Task -> Place]
  BY DEF OnceInv, Typed, TypeOK, Place
<1> QED
  BY <1>1 DEF Leave, OnceInv, EmptyHands

LEMMA TakeHands ==
  ASSUME OnceInv, NEW t \in Task, NEW j, Take(t, j)
  PROVE  EmptyHands' /\ batch' = [batch EXCEPT ![t] = buffer] /\ buffer' = {}
<1>1. batch \in [Task -> SUBSET (1..offered)] /\ pc \in [Task -> Place]
  BY DEF OnceInv, Typed, TypeOK, Place
<1> QED
  BY <1>1 DEF Take, OnceInv, EmptyHands

\* What a flush moves.
LEMMA FlushMoves ==
  ASSUME OnceInv, NEW t \in Task, NEW j \in Job, Flush(t, j)
  PROVE  /\ EmptyHands'
         /\ \E B, X : /\ B \cup X \subseteq buffer /\ B \cap X = {}
                      /\ buffer' = buffer \ (B \cup X)
                      /\ batch' = [batch EXCEPT ![t] = B]
                      /\ dropped' = dropped \cup X
<1>1. CASE buffer # {} /\ sink
  <2>1. Take(t, j) /\ dropped' = dropped
    BY <1>1 DEF Flush
  <2>2. /\ buffer \cup {} \subseteq buffer /\ buffer \cap {} = {}
        /\ buffer' = buffer \ (buffer \cup {}) /\ batch' = [batch EXCEPT ![t] = buffer]
        /\ dropped' = dropped \cup {}
    BY <2>1, TakeHands
  <2> QED
    BY <2>1, <2>2, TakeHands
<1>2. CASE ~(buffer # {} /\ sink)
  <2>1. Leave(t, j) /\ buffer' = {} /\ dropped' = dropped \cup buffer
    BY <1>2 DEF Flush
  <2>2. /\ {} \cup buffer \subseteq buffer /\ {} \cap buffer = {}
        /\ buffer' = buffer \ ({} \cup buffer) /\ batch' = [batch EXCEPT ![t] = {}]
    BY <2>1, LeaveHands
  <2> QED
    BY <2>1, <2>2, LeaveHands
<1> QED
  BY <1>1, <1>2

\* What the end of a flush moves.
LEMMA ReturnMoves ==
  ASSUME OnceInv, NEW t \in Task, Return(t)
  PROVE  /\ EmptyHands'
         /\ \E B : /\ B \subseteq buffer /\ buffer' = buffer \ B
                   /\ batch' = [batch EXCEPT ![t] = B]
<1>0. job[t] \in Job
  BY DEF OnceInv, Typed, TypeOK
<1>1. CASE job[t] = "loop" /\ stopEvent /\ buffer # {}
  <2>1. Take(t, "final")
    BY <1>1 DEF Return
  <2>2. EmptyHands' /\ batch' = [batch EXCEPT ![t] = buffer] /\ buffer' = buffer \ buffer
    BY <2>1, TakeHands
  <2> QED
    BY <2>2
<1>2. CASE ~(job[t] = "loop" /\ stopEvent /\ buffer # {})
  <2>1. Leave(t, job[t]) /\ buffer' = buffer \ {}
    BY <1>2 DEF Return
  <2> QED
    BY <1>0, <2>1, LeaveHands
<1> QED
  BY <1>1, <1>2

OnceKept == Covered' /\ Apart' /\ EmptyHands'

\* A flush by a task with empty hands keeps every reading in one place.
LEMMA FlushOnce ==
  ASSUME OnceInv, NEW t \in Task, NEW j \in Job, Flush(t, j), batch[t] = {},
         UNCHANGED <<offered, flushed, lost>>
  PROVE  OnceKept
<1>1. PICK B, X : /\ B \cup X \subseteq buffer /\ B \cap X = {}
                  /\ buffer' = buffer \ (B \cup X)
                  /\ batch' = [batch EXCEPT ![t] = B]
                  /\ dropped' = dropped \cup X
  BY FlushMoves
<1> DEFINE N == {}
<1>2. /\ N \cup N \cup N = batch[t] /\ N \cap (N \cup N) = {} /\ N \cap N = {}
      /\ flushed' = flushed \cup N /\ dropped' = dropped \cup N \cup X /\ lost' = lost \cup N
  BY <1>1
<1>3. Covered' /\ Apart'
  BY <1>1, <1>2, Moves
<1> QED
  BY <1>3, FlushMoves DEF OnceKept

\* So does the end of a flush, whether its batch was delivered or given up.
LEMMA ReturnOnce ==
  ASSUME OnceInv, NEW t \in Task, Return(t), UNCHANGED <<offered, lost>>,
         \/ flushed' = flushed \cup batch[t] /\ dropped' = dropped
         \/ dropped' = dropped \cup batch[t] /\ flushed' = flushed
  PROVE  OnceKept
<1>1. PICK B : B \subseteq buffer /\ buffer' = buffer \ B /\ batch' = [batch EXCEPT ![t] = B]
  BY ReturnMoves
<1> DEFINE N == {}
           T == batch[t]
<1>2. /\ B \cup N \subseteq buffer /\ B \cap N = {} /\ buffer' = buffer \ (B \cup N)
      /\ T \cup N \cup N = batch[t] /\ N \cup T \cup N = batch[t]
      /\ T \cap (N \cup N) = {} /\ N \cap (T \cup N) = {} /\ N \cap N = {} /\ T \cap N = {}
      /\ lost' = lost \cup N
  BY <1>1
<1>3. CASE flushed' = flushed \cup batch[t] /\ dropped' = dropped
  <2>1. flushed' = flushed \cup T /\ dropped' = dropped \cup N \cup N
    BY <1>3
  <2> HIDE DEF N, T
  <2> QED
    BY <1>1, <1>2, <2>1, Moves, ReturnMoves DEF OnceKept
<1>4. CASE dropped' = dropped \cup batch[t] /\ flushed' = flushed
  <2>1. flushed' = flushed \cup N /\ dropped' = dropped \cup T \cup N
    BY <1>4
  <2> HIDE DEF N, T
  <2> QED
    BY <1>1, <1>2, <2>1, Moves, ReturnMoves DEF OnceKept
<1> QED
  BY <1>3, <1>4

\* A reading that comes is in the buffer or dropped, and was nowhere before.
LEMMA IngestOnce == OnceInv /\ Ingest => OnceKept
<1> SUFFICES ASSUME OnceInv, Ingest PROVE OnceKept
  OBVIOUS
<1>1. /\ offered \in Nat /\ offered' = offered + 1
      /\ 1..offered' = (1..offered) \cup {offered'} /\ offered' \notin 1..offered
  BY DEF OnceInv, Typed, TypeOK, Ingest
<1>2. /\ offered' \notin buffer \cup flushed \cup dropped \cup lost
      /\ \A t \in Task : offered' \notin batch[t]
  BY <1>1 DEF OnceInv, Typed, TypeOK
<1>3. /\ UNCHANGED <<pc, batch, flushed, lost>>
      /\ \/ dropped' = dropped \cup {offered'} /\ buffer' = buffer
         \/ buffer' = buffer \cup {offered'} /\ dropped' = dropped
  BY DEF Ingest
<1>4. Covered'
  BY <1>1, <1>3 DEF OnceInv, Covered
<1>5. Apart'
  <2>1. CASE dropped' = dropped \cup {offered'} /\ buffer' = buffer
    BY <1>2, <1>3, <2>1 DEF OnceInv, Apart
  <2>2. CASE buffer' = buffer \cup {offered'} /\ dropped' = dropped
    BY <1>2, <1>3, <2>2 DEF OnceInv, Apart
  <2> QED
    BY <1>3, <2>1, <2>2
<1> QED
  BY <1>3, <1>4, <1>5 DEF OnceInv, EmptyHands, OnceKept

LEMMA OnceStep == OnceInv /\ [Next]_vars => OnceInv'
<1> SUFFICES ASSUME OnceInv, [Next]_vars PROVE OnceKept
  BY TypesKept DEF OnceInv, OnceKept
<1>j. {"loop", "final", "flush", "stop"} \subseteq Job
  BY DEF Job
<1>t. /\ pc \in [Task -> Place] /\ batch \in [Task -> SUBSET (1..offered)]
      /\ cancelled \subseteq Loop
  BY DEF OnceInv, Typed, TypeOK, Place
<1>f. ASSUME NEW t \in Task, NEW j \in Job, Flush(t, j), batch[t] = {},
             UNCHANGED <<offered, flushed, lost>>
      PROVE  OnceKept
  BY <1>f, FlushOnce
<1>u. ASSUME UNCHANGED <<offered, buffer, batch, flushed, dropped, lost>>, EmptyHands'
      PROVE  OnceKept
  BY <1>u DEF OnceInv, OnceKept, Covered, Apart
<1>1. CASE SetSink
  BY <1>1, <1>u DEF SetSink, metrics, OnceInv, EmptyHands
<1>2. CASE Ingest
  BY <1>2, IngestOnce
<1>3. ASSUME NEW t \in Task, SinkAccepts(t) PROVE OnceKept
  BY <1>3, ReturnOnce DEF SinkAccepts
<1>4. ASSUME NEW t \in Task, SinkFails(t) PROVE OnceKept
  <2>1. CASE attempt[t] < MaxRetries
    <3>1. EmptyHands'
      BY <1>4, <1>t, <2>1 DEF SinkFails, OnceInv, EmptyHands
    <3> QED
      BY <1>4, <1>u, <2>1, <3>1 DEF SinkFails
  <2>2. CASE ~(attempt[t] < MaxRetries)
    BY <1>4, <2>2, ReturnOnce DEF SinkFails
  <2> QED
    BY <2>1, <2>2
<1>5. ASSUME NEW t \in Task, Retry(t) PROVE OnceKept
  <2>1. EmptyHands'
    BY <1>5, <1>t DEF Retry, OnceInv, EmptyHands
  <2> QED
    BY <1>5, <1>u, <2>1 DEF Retry, metrics
<1>6. ASSUME NEW l \in Loop, Start(l) PROVE OnceKept
  <2>1. EmptyHands'
    BY <1>6, <1>t DEF Start, OnceInv, EmptyHands
  <2> QED
    BY <1>6, <1>u, <2>1 DEF Start, metrics
<1>7. ASSUME NEW l \in Loop, LoopBegins(l) PROVE OnceKept
  <2>1. batch[l] = {} /\ l \in Task
    BY <1>7 DEF LoopBegins, OnceInv, EmptyHands, Task
  <2>2. CASE stopEvent
    <3>1. Flush(l, "final") /\ UNCHANGED <<offered, flushed, lost>>
      BY <1>7, <2>2 DEF LoopBegins
    <3> QED
      BY <1>j, <1>f, <2>1, <3>1
  <2>3. CASE ~stopEvent
    <3>1. EmptyHands'
      BY <1>7, <1>t, <2>1, <2>3 DEF LoopBegins, OnceInv, EmptyHands
    <3> QED
      BY <1>7, <1>u, <2>3, <3>1 DEF LoopBegins
  <2> QED
    BY <2>2, <2>3
<1>8. ASSUME NEW l \in Loop, LoopWakes(l) PROVE OnceKept
  <2>1. Flush(l, "loop") /\ UNCHANGED <<offered, flushed, lost>>
    BY <1>8 DEF LoopWakes
  <2>2. batch[l] = {} /\ l \in Task
    BY <1>8 DEF LoopWakes, OnceInv, EmptyHands, Task
  <2> QED
    BY <1>j, <1>f, <2>1, <2>2
<1>9. ASSUME NEW l \in Loop, LoopCancelled(l) PROVE OnceKept
  <2>1. l \in Task /\ UNCHANGED <<offered, flushed>> /\ lost' = lost \cup batch[l]
    BY <1>9 DEF LoopCancelled, Task
  <2>2. /\ EmptyHands'
        /\ \E B, X : /\ B \cup X \subseteq buffer /\ B \cap X = {}
                     /\ buffer' = buffer \ (B \cup X)
                     /\ batch' = [batch EXCEPT ![l] = B]
                     /\ dropped' = dropped \cup X
    <3>1. CASE pc[l] = "new" \/ job[l] = "final"
      <4>1. Leave(l, "final") /\ UNCHANGED <<buffer, dropped>>
        BY <1>9, <3>1 DEF LoopCancelled
      <4>2. EmptyHands' /\ batch' = [batch EXCEPT ![l] = {}]
        BY <1>j, <2>1, <4>1, LeaveHands
      <4>3. {} \cup {} \subseteq buffer /\ {} \cap {} = {} /\ buffer' = buffer \ ({} \cup {})
            /\ dropped' = dropped \cup {}
        BY <4>1
      <4> QED
        BY <4>2, <4>3
    <3>2. CASE ~(pc[l] = "new" \/ job[l] = "final")
      <4>1. Flush(l, "final")
        BY <1>9, <3>2 DEF LoopCancelled
      <4> QED
        BY <1>j, <2>1, <4>1, FlushMoves
    <3> QED
      BY <3>1, <3>2
  <2>3. PICK B, X : /\ B \cup X \subseteq buffer /\ B \cap X = {}
                    /\ buffer' = buffer \ (B \cup X)
                    /\ batch' = [batch EXCEPT ![l] = B]
                    /\ dropped' = dropped \cup X
    BY <2>2
  <2> DEFINE N == {}
             T == batch[l]
  <2>4. /\ N \cup N \cup T = batch[l] /\ N \cap (N \cup T) = {} /\ N \cap T = {}
        /\ flushed' = flushed \cup N /\ dropped' = dropped \cup N \cup X
        /\ lost' = lost \cup T /\ offered' = offered
    BY <2>1, <2>3
  <2> HIDE DEF N, T
  <2>5. Covered' /\ Apart'
    BY <2>1, <2>3, <2>4, Moves
  <2> QED
    BY <2>2, <2>5 DEF OnceKept
<1>10. ASSUME NEW c \in Caller, FlushCall(c) PROVE OnceKept
  <2>1. Flush(c, "flush") /\ UNCHANGED <<offered, flushed, lost>>
    BY <1>10 DEF FlushCall
  <2>2. batch[c] = {} /\ c \in Task
    BY <1>10 DEF FlushCall, OnceInv, EmptyHands, Task
  <2> QED
    BY <1>j, <1>f, <2>1, <2>2
<1>12. ASSUME NEW c \in Caller, StopCall(c) PROVE OnceKept
  <2>1. batch[c] = {} /\ c \in Task /\ UNCHANGED <<offered, flushed, lost>>
    BY <1>12 DEF StopCall, OnceInv, EmptyHands, Task
  <2>2. CASE flushTask # NoLoop /\ pc[flushTask] # "done"
    <3>1. EmptyHands'
      BY <1>12, <1>t, <2>1, <2>2 DEF StopCall, OnceInv, EmptyHands
    <3> QED
      BY <1>12, <1>u, <2>1, <2>2, <3>1 DEF StopCall
  <2>3. CASE ~(flushTask # NoLoop /\ pc[flushTask] # "done")
    <3>1. Flush(c, "stop")
      BY <1>12, <2>3 DEF StopCall, EndStop
    <3> QED
      BY <1>j, <1>f, <2>1, <3>1
  <2> QED
    BY <2>2, <2>3
<1>13. ASSUME NEW c \in Caller, Joined(c) PROVE OnceKept
  <2>1. Flush(c, "stop") /\ UNCHANGED <<offered, flushed, lost>>
    BY <1>13 DEF Joined, EndStop
  <2>2. batch[c] = {} /\ c \in Task
    BY <1>13 DEF Joined, OnceInv, EmptyHands, Task
  <2> QED
    BY <1>j, <1>f, <2>1, <2>2
<1>14. ASSUME NEW c \in Caller, StopRefused(c) PROVE OnceKept
  BY <1>14, <1>u DEF StopRefused, metrics, OnceInv, EmptyHands
<1>15. CASE UNCHANGED vars
  BY <1>15, <1>u DEF vars, metrics, OnceInv, EmptyHands
<1> QED
  BY <1>1, <1>2, <1>3, <1>4, <1>5, <1>6, <1>7, <1>8, <1>9, <1>10, <1>12, <1>13, <1>14, <1>15
     DEF Next

LEMMA InitOnce == Init => OnceInv
<1> SUFFICES ASSUME Init PROVE Covered /\ Apart /\ EmptyHands
  BY InitTypes DEF OnceInv
<1> QED
  BY DEF Init, Covered, Apart, EmptyHands

\* Whatever the sink answers and however flushes, starts and stops overlap, every
\* reading is in exactly one place, and none is handed on as flushed twice.
THEOREM OneFate == Spec => []ReadingsAreOnce
BY InitOnce, OnceStep, OnceInvImplies, PTL DEF Spec
-----------------------------------------------------------------------------
(* The pipeline knows its loop *)

\* Where loops and callers can be, and what for.
LoopSeat(l) ==
  \/ pc[l] \in {"unborn", "new", "sleep", "done"} /\ job[l] = "none"
  \/ pc[l] \in {"sink", "retry"} /\ job[l] \in {"loop", "final"}

CallerSeat(c) ==
  \/ pc[c] = "idle" /\ job[c] = "none"
  \/ pc[c] = "join" /\ job[c] = "stop" /\ waits[c] \in Loop
  \/ pc[c] \in {"sink", "retry"} /\ job[c] \in {"flush", "stop"}

Seated ==
  /\ \A l \in Loop : LoopSeat(l)
  /\ \A c \in Caller : CallerSeat(c)

\* The cancelled loops are live, the known one was started, and somebody is stopping
\* a pipeline that is "stopping".
Honest ==
  /\ \A l \in cancelled : Live(l)
  /\ flushTask \in Loop => pc[flushTask] # "unborn"
  /\ state = "stopping" => Stopping # {}

\* Unless start() came during a stop(), a live loop is known, and every stop() under
\* way is waiting for it.
Awaited ==
  ~overlapped =>
    \A l \in Loop : Live(l) =>
      /\ l = flushTask /\ state # "stopped"
      /\ \A c \in Stopping : pc[c] = "join" /\ waits[c] = l

KnownInv == Typed /\ Seated /\ Honest /\ Awaited

\* Where a flush puts a task.
Moved(t, j) ==
  \/ /\ pc' = [pc EXCEPT ![t] = "sink"] /\ job' = [job EXCEPT ![t] = j]
  \/ /\ pc' = [pc EXCEPT ![t] = After(j)] /\ job' = [job EXCEPT ![t] = "none"]

LEMMA FlushPlaces ==
  ASSUME NEW t, NEW j, Flush(t, j)
  PROVE  Moved(t, j)
BY DEF Flush, Take, Leave, Moved

LEMMA ReturnPlaces ==
  ASSUME NEW t, Return(t)
  PROVE  /\ Moved(t, job[t]) \/ (job[t] = "loop" /\ Moved(t, "final"))
         /\ state' = IF job[t] = "stop" THEN "stopped" ELSE state
BY DEF Return, Take, Leave, Moved

\* A live loop that flushes, or ends a flush, stays seated, and no other task moves.
LEMMA LoopMoves ==
  ASSUME KnownInv, NEW l \in Loop, Live(l), NEW j \in {"loop", "final"}, Moved(l, j),
         UNCHANGED <<flushTask, waits, state, overlapped>>,
         cancelled' \in {cancelled, cancelled \ {l}},
         l \notin cancelled'
  PROVE  Seated' /\ Honest' /\ Awaited'
<1>1. pc \in [Task -> Place] /\ job \in [Task -> Job] /\ Loop \subseteq Task /\ Caller \subseteq Task
  BY DEF KnownInv, Typed, TypeOK, Place, Task
<1>2. \A t \in Task : t # l => pc'[t] = pc[t] /\ job'[t] = job[t]
  BY <1>1 DEF Moved
<1>3. \/ pc'[l] = "sink" /\ job'[l] \in {"loop", "final"}
      \/ pc'[l] \in {"done", "sleep"} /\ job'[l] = "none"
  BY <1>1 DEF Moved, After
<1>4. \A c \in Caller : c # l
  BY PipelineAssumption
<1>5. Seated'
  BY <1>1, <1>2, <1>3, <1>4 DEF KnownInv, Seated, LoopSeat, CallerSeat
<1>6. Stopping' = Stopping
  BY <1>1, <1>2, <1>4 DEF Stopping
<1>7. \A k \in Loop : k # l => Live(k)' = Live(k)
  BY <1>1, <1>2 DEF Live
<1>8. Honest'
  <2>1. \A k \in cancelled' : Live(k)'
    BY <1>7 DEF KnownInv, Honest, Typed, TypeOK
  <2>2. flushTask' \in Loop => pc'[flushTask'] # "unborn"
    BY <1>1, <1>2, <1>3 DEF KnownInv, Honest
  <2> QED
    BY <1>6, <2>1, <2>2 DEF KnownInv, Honest
<1>9. Awaited'
  <2> SUFFICES ASSUME ~overlapped, NEW k \in Loop, Live(k)'
               PROVE  /\ k = flushTask /\ state # "stopped"
                      /\ \A c \in Stopping : pc'[c] = "join" /\ waits[c] = k
    BY <1>6 DEF Awaited
  <2>1. Live(k)
    BY <1>7
  <2> QED
    BY <1>1, <1>2, <1>4, <2>1 DEF KnownInv, Awaited, Stopping
<1> QED
  BY <1>5, <1>8, <1>9

\* A caller moves from one seat to another; the loops do not.
LEMMA CallerMoves ==
  ASSUME KnownInv, NEW c \in Caller,
         pc' \in [Task -> Place], job' \in [Task -> Job],
         \A t \in Task : t # c => pc'[t] = pc[t] /\ job'[t] = job[t],
         \A d \in Caller : d # c => waits'[d] = waits[d],
         CallerSeat(c)'
  PROVE  /\ Seated'
         /\ \A l \in Loop : Live(l)' = Live(l) /\ pc'[l] = pc[l]
         /\ Stopping' \ {c} = Stopping \ {c}
         /\ c \in Stopping' <=> job'[c] = "stop"
<1>1. Loop \subseteq Task /\ Caller \subseteq Task /\ c \notin Loop
  BY PipelineAssumption DEF Task
<1>2. Seated'
  BY <1>1 DEF KnownInv, Seated, LoopSeat, CallerSeat
<1>3. \A l \in Loop : Live(l)' = Live(l) /\ pc'[l] = pc[l]
  BY <1>1 DEF Live
<1> QED
  BY <1>1, <1>2, <1>3 DEF Stopping

KnownKept == Seated' /\ Honest' /\ Awaited'

\* The last step of stop(): by now no loop is live, unless start() interfered.
LEMMA StopEnds ==
  ASSUME KnownInv, Typed', NEW c \in Caller, NEW now \in {"stopping", state}, EndStop(c, now),
         ~overlapped => \A l \in Loop : ~Live(l),
         UNCHANGED <<cancelled, overlapped>>,
         \A d \in Caller : d # c => waits'[d] = waits[d]
  PROVE  KnownKept
<1>1. pc \in [Task -> Place] /\ job \in [Task -> Job] /\ c \in Task
      /\ pc' \in [Task -> Place] /\ job' \in [Task -> Job]
  BY DEF KnownInv, Typed, TypeOK, Place, Task
<1>2. Moved(c, "stop") /\ flushTask' = NoLoop
  BY FlushPlaces DEF EndStop
<1>3. \/ pc'[c] = "sink" /\ job'[c] = "stop" /\ state' = now
      \/ pc'[c] = "idle" /\ job'[c] = "none" /\ state' = "stopped"
  BY <1>1, <1>2 DEF Moved, After, EndStop
<1>4. \A t \in Task : t # c => pc'[t] = pc[t] /\ job'[t] = job[t]
  BY <1>1, <1>2 DEF Moved
<1>5. CallerSeat(c)'
  BY <1>3 DEF CallerSeat
<1>6. /\ Seated' /\ \A l \in Loop : Live(l)' = Live(l) /\ pc'[l] = pc[l]
      /\ c \in Stopping' <=> job'[c] = "stop"
  BY <1>1, <1>4, <1>5, CallerMoves
<1>7. Honest'
  BY <1>2, <1>3, <1>6, PipelineAssumption DEF KnownInv, Honest, Typed, TypeOK
<1>8. Awaited'
  BY <1>6 DEF Awaited
<1> QED
  BY <1>6, <1>7, <1>8 DEF KnownKept

\* A caller that ends a flush leaves the pipeline stopped if the flush was stop()'s.
LEMMA CallerReturns ==
  ASSUME KnownInv, Typed', NEW c \in Caller, Return(c), pc[c] = "sink",
         UNCHANGED <<cancelled, overlapped, flushTask, waits>>
  PROVE  KnownKept
<1>1. pc \in [Task -> Place] /\ job \in [Task -> Job] /\ c \in Task
      /\ pc' \in [Task -> Place] /\ job' \in [Task -> Job]
  BY DEF KnownInv, Typed, TypeOK, Place, Task
<1>2. job[c] \in {"flush", "stop"}
  BY DEF KnownInv, Seated, CallerSeat
<1>3. Moved(c, job[c]) /\ state' = IF job[c] = "stop" THEN "stopped" ELSE state
  BY <1>2, ReturnPlaces
<1>4. \/ pc'[c] = "sink" /\ job'[c] = job[c]
      \/ pc'[c] = "idle" /\ job'[c] = "none"
  BY <1>1, <1>2, <1>3 DEF Moved, After
<1>5. \A t \in Task : t # c => pc'[t] = pc[t] /\ job'[t] = job[t]
  BY <1>1, <1>3 DEF Moved
<1>6. CallerSeat(c)'
  BY <1>2, <1>4 DEF CallerSeat
<1>7. /\ Seated' /\ \A l \in Loop : Live(l)' = Live(l) /\ pc'[l] = pc[l]
      /\ Stopping' \ {c} = Stopping \ {c} /\ (c \in Stopping' <=> job'[c] = "stop")
  BY <1>1, <1>5, <1>6, CallerMoves
<1>8. CASE job[c] = "flush"
  <2>1. c \notin Stopping /\ c \notin Stopping' /\ Stopping' = Stopping /\ state' = state
    BY <1>3, <1>4, <1>7, <1>8 DEF Stopping
  <2>2. Honest'
    BY <1>7, <2>1 DEF KnownInv, Honest, Typed, TypeOK
  <2>3. \A d \in Stopping : pc'[d] = pc[d]
    BY <1>5, <2>1 DEF Stopping, Task
  <2>4. Awaited'
    BY <1>7, <2>1, <2>3 DEF KnownInv, Awaited
  <2> QED
    BY <1>7, <2>2, <2>4 DEF KnownKept
<1>9. CASE job[c] = "stop"
  <2>1. state' = "stopped" /\ c \in Stopping
    BY <1>3, <1>9 DEF Stopping
  <2>2. ~overlapped => \A l \in Loop : ~Live(l)
    BY <2>1 DEF KnownInv, Awaited
  <2>3. Honest'
    BY <1>7, <2>1 DEF KnownInv, Honest, Typed, TypeOK
  <2>4. Awaited'
    BY <1>7, <2>2 DEF Awaited
  <2> QED
    BY <1>7, <2>3, <2>4 DEF KnownKept
<1> QED
  BY <1>2, <1>8, <1>9

\* A task in "sink" or "retry" that stays in one of them changes nothing here.
LEMMA Retries ==
  ASSUME KnownInv, NEW t \in Task, pc[t] \in {"sink", "retry"}, NEW p \in {"sink", "retry"},
         pc' = [pc EXCEPT ![t] = p],
         UNCHANGED <<job, state, flushTask, cancelled, waits, overlapped>>
  PROVE  KnownKept
<1>1. pc \in [Task -> Place] /\ Loop \subseteq Task /\ Caller \subseteq Task
  BY DEF KnownInv, Typed, TypeOK, Place, Task
<1>2. \A u \in Task : pc'[u] # pc[u] => /\ pc[u] \in {"sink", "retry"}
                                        /\ pc'[u] \in {"sink", "retry"}
  BY <1>1
<1>3. Seated'
  <2>1. ASSUME NEW l \in Loop PROVE LoopSeat(l)'
    <3>1. LoopSeat(l) /\ l \in Task
      BY <1>1 DEF KnownInv, Seated
    <3> QED
      BY <1>2, <3>1 DEF LoopSeat
  <2>2. ASSUME NEW c \in Caller PROVE CallerSeat(c)'
    <3>1. CallerSeat(c) /\ c \in Task
      BY <1>1 DEF KnownInv, Seated
    <3> QED
      BY <1>2, <3>1 DEF CallerSeat
  <2> QED
    BY <2>1, <2>2 DEF Seated
<1>4. Stopping' = Stopping /\ \A l \in Loop : Live(l)' = Live(l)
  <2>1. Stopping' = Stopping
    BY DEF Stopping
  <2>2. \A l \in Loop : Live(l)' = Live(l)
    BY <1>1, <1>2 DEF Live
  <2> QED
    BY <2>1, <2>2
<1>5. Honest'
  BY <1>1, <1>2, <1>4 DEF KnownInv, Honest, Typed, TypeOK
<1>6. Awaited'
  <2>1. \A c \in Stopping : pc[c] = "join" => pc'[c] = "join"
    BY <1>1, <1>2 DEF Stopping
  <2> QED
    BY <1>4, <2>1 DEF KnownInv, Awaited
<1> QED
  BY <1>3, <1>5, <1>6 DEF KnownKept

LEMMA KnownStep == KnownInv /\ [Next]_vars => KnownInv'
<1> SUFFICES ASSUME KnownInv, [Next]_vars, Typed' PROVE KnownKept
  BY TypesKept DEF KnownInv, KnownKept
<1>t. /\ pc \in [Task -> Place] /\ job \in [Task -> Job] /\ cancelled \subseteq Loop
      /\ Loop \subseteq Task /\ Caller \subseteq Task /\ waits \in [Caller -> Loop \cup {NoLoop}]
      /\ pc' \in [Task -> Place] /\ job' \in [Task -> Job]
  BY DEF KnownInv, Typed, TypeOK, Place, Task
<1>l. ASSUME NEW l \in Loop, Live(l), Moved(l, "loop") \/ Moved(l, "final"),
             UNCHANGED <<flushTask, waits, state, overlapped>>,
             cancelled' \in {cancelled, cancelled \ {l}}, l \notin cancelled'
      PROVE  KnownKept
  BY <1>l, LoopMoves DEF KnownKept
<1>r. ASSUME NEW t \in Task, pc[t] = "sink", t \notin cancelled, Return(t),
             UNCHANGED <<flushTask, waits, overlapped, cancelled>>
      PROVE  KnownKept
  <2>1. CASE t \in Loop
    <3>1. job[t] \in {"loop", "final"} /\ Live(t)
      BY <1>r, <2>1 DEF KnownInv, Seated, LoopSeat, Live
    <3>2. (Moved(t, "loop") \/ Moved(t, "final")) /\ state' = state
      BY <1>r, <3>1, ReturnPlaces
    <3> QED
      BY <1>r, <1>l, <2>1, <3>1, <3>2
  <2>2. CASE t \in Caller
    BY <1>r, <2>2, CallerReturns
  <2> QED
    BY <2>1, <2>2 DEF Task
<1>1. CASE SetSink
  BY <1>1 DEF SetSink, KnownInv, KnownKept, Seated, LoopSeat, CallerSeat, Honest, Awaited,
              Live, Stopping
<1>2. CASE Ingest
  BY <1>2 DEF Ingest, KnownInv, KnownKept, Seated, LoopSeat, CallerSeat, Honest, Awaited,
              Live, Stopping
<1>3. ASSUME NEW t \in Task, SinkAccepts(t) PROVE KnownKept
  BY <1>3, <1>r DEF SinkAccepts
<1>4. ASSUME NEW t \in Task, SinkFails(t) PROVE KnownKept
  <2>1. CASE attempt[t] < MaxRetries
    BY <1>4, <2>1, Retries DEF SinkFails
  <2>2. CASE ~(attempt[t] < MaxRetries)
    BY <1>4, <1>r, <2>2 DEF SinkFails
  <2> QED
    BY <2>1, <2>2
<1>5. ASSUME NEW t \in Task, Retry(t) PROVE KnownKept
  BY <1>5, Retries DEF Retry
<1>6. ASSUME NEW l \in Loop, Start(l) PROVE KnownKept
  <2>1. \A t \in Task : t # l => pc'[t] = pc[t]
    BY <1>6, <1>t DEF Start
  <2>2. pc'[l] = "new" /\ pc[l] = "unborn" /\ job' = job /\ waits' = waits /\ l \notin Caller
    BY <1>6, <1>t, PipelineAssumption DEF Start
  <2>3. Seated'
    BY <1>t, <2>1, <2>2 DEF KnownInv, Seated, LoopSeat, CallerSeat
  <2>4. Stopping' = Stopping
    BY <2>2 DEF Stopping
  <2>5. Honest'
    <3>1. \A k \in cancelled' : Live(k)'
      BY <1>6, <1>t, <2>1, <2>2 DEF Start, KnownInv, Honest, Live
    <3> QED
      BY <1>6, <2>2, <3>1 DEF Start, Honest
  <2>6. Awaited'
    <3> SUFFICES ASSUME ~overlapped', NEW k \in Loop, Live(k)'
                 PROVE  k = l /\ Stopping' = {}
      BY <1>6 DEF Start, Awaited
    <3>1. ~overlapped /\ Stopping = {} /\ state # "running"
      BY <1>6, <1>t DEF Start, KnownInv, Typed, TypeOK
    <3>2. state = "stopped"
      BY <3>1 DEF KnownInv, Honest, Typed, TypeOK, State
    <3>3. \A i \in Loop : ~Live(i)
      BY <3>1, <3>2 DEF KnownInv, Awaited
    <3> QED
      BY <1>t, <2>1, <2>4, <3>1, <3>3 DEF Live
  <2> QED
    BY <2>3, <2>5, <2>6 DEF KnownKept
<1>7. ASSUME NEW l \in Loop, LoopBegins(l) PROVE KnownKept
  <2>1. Live(l) /\ UNCHANGED <<flushTask, waits, state, overlapped, cancelled>> /\ l \notin cancelled
    BY <1>7 DEF LoopBegins, Live
  <2>2. CASE stopEvent
    BY <1>7, <1>l, <2>1, <2>2, FlushPlaces DEF LoopBegins
  <2>3. CASE ~stopEvent
    <3>1. Moved(l, "loop")
      <4>1. After("loop") = "sleep" /\ job[l] = "none" /\ job' = job
        BY <1>7, <2>3 DEF LoopBegins, After, KnownInv, Seated, LoopSeat
      <4> QED
        BY <1>7, <1>t, <2>3, <4>1 DEF LoopBegins, Moved
    <3> QED
      BY <1>l, <2>1, <3>1
  <2> QED
    BY <2>2, <2>3
<1>8. ASSUME NEW l \in Loop, LoopWakes(l) PROVE KnownKept
  <2>1. Live(l) /\ Moved(l, "loop")
    BY <1>8, FlushPlaces DEF LoopWakes, Live
  <2> QED
    BY <1>8, <1>l, <2>1 DEF LoopWakes
<1>9. ASSUME NEW l \in Loop, LoopCancelled(l) PROVE KnownKept
  <2>1. Live(l)
    BY <1>9 DEF LoopCancelled, KnownInv, Honest
  <2>2. Moved(l, "final")
    BY <1>9, FlushPlaces DEF LoopCancelled, Leave, Moved
  <2> QED
    BY <1>9, <1>l, <2>1, <2>2 DEF LoopCancelled
<1>10. ASSUME NEW c \in Caller, FlushCall(c) PROVE KnownKept
  <2>1. Moved(c, "flush") /\ pc[c] = "idle" /\ job[c] = "none"
    BY <1>10, FlushPlaces DEF FlushCall, KnownInv, Seated, CallerSeat
  <2>2. \/ pc'[c] = "sink" /\ job'[c] = "flush"
        \/ pc'[c] = "idle" /\ job'[c] = "none"
    BY <1>t, <2>1 DEF Moved, After
  <2>3. \A t \in Task : t # c => pc'[t] = pc[t] /\ job'[t] = job[t]
    BY <1>t, <2>1 DEF Moved
  <2>4. CallerSeat(c)'
    BY <2>2 DEF CallerSeat
  <2>5. /\ Seated' /\ \A l \in Loop : Live(l)' = Live(l) /\ pc'[l] = pc[l]
        /\ Stopping' \ {c} = Stopping \ {c} /\ (c \in Stopping' <=> job'[c] = "stop")
    BY <1>10, <1>t, <2>3, <2>4, CallerMoves DEF FlushCall
  <2>6. Stopping' = Stopping /\ c \notin Stopping
    BY <2>1, <2>2, <2>5 DEF Stopping
  <2>7. Honest'
    BY <1>10, <2>5, <2>6 DEF FlushCall, KnownInv, Honest, Typed, TypeOK
  <2>8. \A d \in Stopping : pc'[d] = pc[d]
    BY <1>t, <2>3, <2>6 DEF Stopping
  <2>9. Awaited'
    BY <1>10, <2>5, <2>6, <2>8 DEF FlushCall, KnownInv, Awaited
  <2> QED
    BY <2>5, <2>7, <2>9 DEF KnownKept
<1>12. ASSUME NEW c \in Caller, StopCall(c) PROVE KnownKept
  <2>1. CASE flushTask # NoLoop /\ pc[flushTask] # "done"
    <3>1. /\ state' = "stopping" /\ cancelled' = cancelled \cup {flushTask}
          /\ waits' = [waits EXCEPT ![c] = flushTask]
          /\ pc' = [pc EXCEPT ![c] = "join"] /\ job' = [job EXCEPT ![c] = "stop"]
          /\ flushTask' = flushTask /\ overlapped' = overlapped
      BY <1>12, <2>1 DEF StopCall
    <3>2. flushTask \in Loop /\ Live(flushTask)
      BY <2>1 DEF KnownInv, Typed, TypeOK, Honest, Live
    <3>3. CallerSeat(c)'
      BY <1>t, <3>1, <3>2 DEF CallerSeat
    <3>4. /\ \A t \in Task : t # c => pc'[t] = pc[t] /\ job'[t] = job[t]
          /\ \A d \in Caller : d # c => waits'[d] = waits[d]
          /\ pc'[c] = "join" /\ job'[c] = "stop" /\ waits'[c] = flushTask
      BY <1>t, <3>1
    <3>5. /\ Seated' /\ \A l \in Loop : Live(l)' = Live(l) /\ pc'[l] = pc[l]
          /\ Stopping' \ {c} = Stopping \ {c} /\ (c \in Stopping' <=> job'[c] = "stop")
      BY <1>t, <3>3, <3>4, CallerMoves
    <3>6. Honest'
      BY <3>1, <3>2, <3>4, <3>5 DEF KnownInv, Honest, Typed, TypeOK
    <3>7. Awaited'
      <4> SUFFICES ASSUME ~overlapped, NEW l \in Loop, Live(l)
                   PROVE  /\ l = flushTask
                          /\ \A d \in Stopping' : pc'[d] = "join" /\ waits'[d] = l
        BY <3>1, <3>5 DEF Awaited
      <4>1. l = flushTask /\ \A d \in Stopping : pc[d] = "join" /\ waits[d] = l
        BY DEF KnownInv, Awaited
      <4>2. ASSUME NEW d \in Stopping' PROVE pc'[d] = "join" /\ waits'[d] = l
        <5>1. d \in Caller /\ d \in Task /\ (d # c => d \in Stopping)
          BY <1>t, <3>5, <4>2 DEF Stopping
        <5> QED
          BY <3>4, <4>1, <5>1
      <4> QED
        BY <4>1, <4>2
    <3> QED
      BY <3>5, <3>6, <3>7 DEF KnownKept
  <2>2. CASE ~(flushTask # NoLoop /\ pc[flushTask] # "done")
    <3>1. EndStop(c, "stopping") /\ UNCHANGED <<cancelled, waits, overlapped>>
      BY <1>12, <2>2 DEF StopCall
    <3>2. ~overlapped => \A l \in Loop : ~Live(l)
      BY <2>2, PipelineAssumption DEF KnownInv, Awaited, Live
    <3> QED
      BY <3>1, <3>2, StopEnds
  <2> QED
    BY <2>1, <2>2
<1>13. ASSUME NEW c \in Caller, Joined(c) PROVE KnownKept
  <2>1. job[c] = "stop" /\ pc[waits[c]] = "done" /\ c \in Stopping
    BY <1>13 DEF Joined, KnownInv, Seated, CallerSeat, Stopping
  <2>2. ~overlapped => \A l \in Loop : ~Live(l)
    BY <2>1 DEF KnownInv, Awaited, Live
  <2>3. \A d \in Caller : d # c => waits'[d] = waits[d]
    BY <1>13, <1>t DEF Joined
  <2> QED
    BY <1>13, <2>2, <2>3, StopEnds DEF Joined
<1>14. ASSUME NEW c \in Caller, StopRefused(c) PROVE KnownKept
  BY <1>14 DEF StopRefused, KnownInv, KnownKept, Seated, LoopSeat, CallerSeat, Honest, Awaited,
               Live, Stopping
<1>15. CASE UNCHANGED vars
  BY <1>15 DEF vars, KnownInv, KnownKept, Seated, LoopSeat, CallerSeat, Honest, Awaited,
               Live, Stopping
<1> QED
  BY <1>1, <1>2, <1>3, <1>4, <1>5, <1>6, <1>7, <1>8, <1>9, <1>10, <1>12, <1>13, <1>14, <1>15
     DEF Next

LEMMA InitKnown == Init => KnownInv
<1> SUFFICES ASSUME Init PROVE Seated /\ Honest /\ Awaited
  BY InitTypes DEF KnownInv
<1>1. \A l \in Loop : pc[l] = "unborn" /\ job[l] = "none"
  BY DEF Init, Task
<1>2. \A c \in Caller : pc[c] = "idle" /\ job[c] = "none"
  BY PipelineAssumption DEF Init, Task
<1> QED
  BY <1>1, <1>2, PipelineAssumption
     DEF Init, Seated, LoopSeat, CallerSeat, Honest, Awaited, Live

\* However starts, stops and flushes overlap, as long as no start() comes during a
\* stop() a live loop is the one the pipeline knows, and a stopped one has none.
THEOREM KnowsItsLoop == Spec => []LoopIsKnown
<1>1. KnownInv => LoopIsKnown
  BY DEF KnownInv, Awaited, LoopIsKnown
<1> QED
  BY <1>1, InitKnown, KnownStep, PTL DEF Spec
-----------------------------------------------------------------------------
(* stop() settles what was offered before it *)

\* Only what a stop() cut off is lost, or is going to be.
CutOff == lost \subseteq cut /\ \A l \in cancelled : batch[l] \subseteq cut

\* Once stop() is at its own flush, only readings offered since its call are waiting.
Settling ==
  \A c \in Caller :
    /\ mark[c] <= offered
    /\ job[c] = "stop" /\ pc[c] # "join" => \A r \in buffer : r > mark[c]

SettleInv == OnceInv /\ KnownInv /\ Settling /\ CutOff

\* A cancelled loop does nothing but notice it.
LEMMA CutOffKept == KnownInv /\ CutOff /\ [Next]_vars => CutOff'
<1> SUFFICES ASSUME KnownInv, CutOff, [Next]_vars PROVE CutOff'
  OBVIOUS
<1>t. /\ batch \in [Task -> SUBSET (1..offered)] /\ cancelled \subseteq Loop
      /\ Loop \cap Caller = {} /\ Task = Loop \cup Caller
  BY PipelineAssumption DEF KnownInv, Typed, TypeOK, Task
<1>b. ASSUME NEW t \in Task, t \notin cancelled, UNCHANGED <<cancelled, lost, cut>>,
             \A u \in Task : u # t => batch'[u] = batch[u]
      PROVE  CutOff'
  BY <1>b, <1>t DEF CutOff
<1>u. ASSUME UNCHANGED <<cancelled, lost, cut, batch>> PROVE CutOff'
  BY <1>u DEF CutOff
<1>1. CASE SetSink \/ Ingest \/ UNCHANGED vars
  BY <1>1, <1>u DEF SetSink, Ingest, vars, metrics
<1>2. ASSUME NEW t \in Task, SinkAccepts(t) \/ SinkFails(t) \/ Retry(t) PROVE CutOff'
  <2>1. t \notin cancelled /\ UNCHANGED <<cancelled, lost, cut>>
    BY <1>2 DEF SinkAccepts, SinkFails, Retry, metrics
  <2>2. \A u \in Task : u # t => batch'[u] = batch[u]
    BY <1>2, <1>t DEF SinkAccepts, SinkFails, Retry, Return, Take, Leave
  <2> QED
    BY <1>b, <2>1, <2>2
<1>3. ASSUME NEW l \in Loop, Start(l) PROVE CutOff'
  BY <1>3, <1>u DEF Start, metrics
<1>4. ASSUME NEW l \in Loop, LoopBegins(l) \/ LoopWakes(l) PROVE CutOff'
  <2>1. l \notin cancelled /\ UNCHANGED <<cancelled, lost, cut>> /\ l \in Task
    BY <1>4, <1>t DEF LoopBegins, LoopWakes
  <2>2. \A u \in Task : u # l => batch'[u] = batch[u]
    BY <1>4, <1>t DEF LoopBegins, LoopWakes, Flush, Take, Leave
  <2> QED
    BY <1>b, <2>1, <2>2
<1>5. ASSUME NEW l \in Loop, LoopCancelled(l) PROVE CutOff'
  <2>1. l \in cancelled /\ cancelled' = cancelled \ {l} /\ lost' = lost \cup batch[l] /\ cut' = cut
    BY <1>5 DEF LoopCancelled
  <2>2. \A u \in Task : u # l => batch'[u] = batch[u]
    BY <1>5, <1>t DEF LoopCancelled, Flush, Take, Leave
  <2> QED
    BY <1>t, <2>1, <2>2 DEF CutOff
<1>6. ASSUME NEW c \in Caller, FlushCall(c) \/ Joined(c) PROVE CutOff'
  <2>1. UNCHANGED <<cancelled, lost, cut>> /\ c \in Task /\ c \notin cancelled
    BY <1>6, <1>t DEF FlushCall, Joined
  <2>2. \A u \in Task : u # c => batch'[u] = batch[u]
    BY <1>6, <1>t DEF FlushCall, Joined, EndStop, Flush, Take, Leave
  <2> QED
    BY <1>b, <2>1, <2>2
<1>7. ASSUME NEW c \in Caller, StopRefused(c) PROVE CutOff'
  BY <1>7, <1>u DEF StopRefused, metrics
<1>8. ASSUME NEW c \in Caller, StopCall(c) PROVE CutOff'
  <2>1. CASE flushTask # NoLoop /\ pc[flushTask] # "done"
    <3>1. /\ cancelled' = cancelled \cup {flushTask} /\ cut' = cut \cup batch[flushTask]
          /\ batch' = batch /\ lost' = lost
      BY <1>8, <2>1 DEF StopCall
    <3> QED
      BY <3>1 DEF CutOff
  <2>2. CASE ~(flushTask # NoLoop /\ pc[flushTask] # "done")
    <3>1. UNCHANGED <<cancelled, lost, cut>> /\ c \in Task /\ c \notin cancelled
      BY <1>8, <1>t, <2>2 DEF StopCall
    <3>2. \A u \in Task : u # c => batch'[u] = batch[u]
      BY <1>8, <1>t, <2>2 DEF StopCall, EndStop, Flush, Take, Leave
    <3> QED
      BY <1>b, <3>1, <3>2
  <2> QED
    BY <2>1, <2>2
<1> QED
  BY <1>1, <1>2, <1>3, <1>4, <1>5, <1>6, <1>7, <1>8 DEF Next

\* Only ingest() puts readings into the buffer.
LEMMA BufferShrinks ==
  ASSUME [Next]_vars, ~Ingest
  PROVE  buffer' \subseteq buffer /\ offered' = offered
<1>1. CASE SetSink \/ UNCHANGED vars
  BY <1>1 DEF SetSink, vars, metrics
<1>2. ASSUME NEW t \in Task, SinkAccepts(t) \/ SinkFails(t) \/ Retry(t)
      PROVE  buffer' \subseteq buffer /\ offered' = offered
  BY <1>2 DEF SinkAccepts, SinkFails, Retry, Return, Take, metrics
<1>3. ASSUME NEW l \in Loop, Start(l) \/ LoopBegins(l) \/ LoopWakes(l) \/ LoopCancelled(l)
      PROVE  buffer' \subseteq buffer /\ offered' = offered
  BY <1>3 DEF Start, LoopBegins, LoopWakes, LoopCancelled, Flush, Take, metrics
<1>4. ASSUME NEW c \in Caller, FlushCall(c) \/ StopRefused(c) \/ StopCall(c) \/ Joined(c)
      PROVE  buffer' \subseteq buffer /\ offered' = offered
  BY <1>4 DEF FlushCall, StopRefused, metrics, StopCall, Joined, EndStop, Flush, Take
<1> QED
  BY <1>1, <1>2, <1>3, <1>4 DEF Next

\* Only c's own steps move c, and only its stop() marks it.
LEMMA OwnSteps ==
  ASSUME SettleInv, [Next]_vars, NEW c \in Caller
  PROVE  \/ job'[c] = job[c] /\ mark'[c] = mark[c]
            /\ (job[c] = "stop" /\ pc'[c] # "join" => pc[c] # "join")
         \/ SinkAccepts(c) \/ SinkFails(c)
         \/ FlushCall(c) \/ StopRefused(c) \/ StopCall(c) \/ Joined(c)
<1>t. /\ pc \in [Task -> Place] /\ job \in [Task -> Job] /\ mark \in [Caller -> Nat]
      /\ c \in Task /\ c \notin Loop
  BY PipelineAssumption DEF SettleInv, KnownInv, Typed, TypeOK, Place, Task
<1> DEFINE Same == /\ job'[c] = job[c] /\ mark'[c] = mark[c]
                   /\ (job[c] = "stop" /\ pc'[c] # "join" => pc[c] # "join")
           Own == \/ SinkAccepts(c) \/ SinkFails(c)
                  \/ FlushCall(c) \/ StopRefused(c) \/ StopCall(c) \/ Joined(c)
<1>1. CASE SetSink \/ Ingest \/ UNCHANGED vars
  <2>1. pc' = pc /\ job' = job /\ mark' = mark
    BY <1>1 DEF SetSink, Ingest, vars
  <2> QED
    BY <2>1
<1>2. ASSUME NEW t \in Task, SinkAccepts(t) \/ SinkFails(t) \/ Retry(t)
      PROVE  Same \/ Own
  <2>1. CASE t = c
    <3>1. CASE Retry(t)
      BY <1>2, <1>t, <2>1, <3>1 DEF Retry
    <3> QED
      BY <1>2, <2>1, <3>1
  <2>2. CASE t # c
    BY <1>2, <1>t, <2>2 DEF SinkAccepts, SinkFails, Retry, Return, Take, Leave
  <2> QED
    BY <2>1, <2>2
<1>3. ASSUME NEW l \in Loop, Start(l) \/ LoopBegins(l) \/ LoopWakes(l) \/ LoopCancelled(l)
      PROVE  Same
  <2>1. mark' = mark
    BY <1>3 DEF Start, LoopBegins, LoopWakes, LoopCancelled
  <2>2. l # c /\ l \in Task
    BY <1>t DEF Task
  <2>3. job'[c] = job[c] /\ pc'[c] = pc[c]
    BY <1>3, <1>t, <2>2 DEF Start, LoopBegins, LoopWakes, LoopCancelled, Flush, Take, Leave
  <2> QED
    BY <2>1, <2>3
<1>4. ASSUME NEW d \in Caller,
             FlushCall(d) \/ StopRefused(d) \/ StopCall(d) \/ Joined(d)
      PROVE  Same \/ Own
  <2>1. CASE d = c
    BY <1>4, <2>1
  <2>2. CASE d # c
    <3>1. mark'[c] = mark[c]
      BY <1>4, <1>t, <2>2 DEF FlushCall, StopRefused, StopCall, Joined
    <3>2. job'[c] = job[c] /\ pc'[c] = pc[c]
      BY <1>4, <1>t, <2>2
         DEF FlushCall, StopRefused, StopCall, Joined, EndStop, Flush, Take, Leave
    <3> QED
      BY <3>1, <3>2
  <2> QED
    BY <2>1, <2>2
<1> QED
  BY <1>1, <1>2, <1>3, <1>4 DEF Next

\* The flush at the end of stop() leaves the buffer empty.
LEMMA EndStopEmpties ==
  ASSUME NEW c, NEW now, EndStop(c, now)
  PROVE  buffer' = {}
BY DEF EndStop, Flush, Take

LEMMA SettlingKept == SettleInv /\ [Next]_vars => Settling'
<1> SUFFICES ASSUME SettleInv, [Next]_vars, NEW c \in Caller
             PROVE  /\ mark'[c] <= offered'
                    /\ job'[c] = "stop" /\ pc'[c] # "join" => \A r \in buffer' : r > mark'[c]
  BY DEF Settling
<1>t. /\ offered \in Nat /\ mark[c] \in Nat /\ mark[c] <= offered /\ c \in Task /\ c \notin Loop
      /\ pc \in [Task -> Place] /\ job \in [Task -> Job] /\ mark \in [Caller -> Nat]
  BY PipelineAssumption DEF SettleInv, KnownInv, Typed, TypeOK, Settling, Task, Place
<1>1. CASE Ingest
  <2>1. /\ UNCHANGED <<pc, job, mark>> /\ offered' = offered + 1
        /\ buffer' \subseteq buffer \cup {offered'}
    BY <1>1 DEF Ingest
  <2> QED
    BY <1>t, <2>1 DEF SettleInv, Settling
<1>2. CASE ~Ingest
  <2>1. buffer' \subseteq buffer /\ offered' = offered
    BY <1>2, BufferShrinks
  <2>2. CASE /\ job'[c] = job[c] /\ mark'[c] = mark[c]
             /\ (job[c] = "stop" /\ pc'[c] # "join" => pc[c] # "join")
    BY <1>t, <2>1, <2>2 DEF SettleInv, Settling
  <2>3. CASE SinkAccepts(c) \/ SinkFails(c)
    <3>1. mark' = mark /\ pc[c] = "sink"
      BY <2>3 DEF SinkAccepts, SinkFails
    <3>2. job[c] \in {"flush", "stop"}
      BY <3>1 DEF SettleInv, KnownInv, Seated, CallerSeat
    <3>3. job'[c] \in {job[c], "none"}
      BY <1>t, <2>3, <3>2 DEF SinkAccepts, SinkFails, Return, Leave
    <3> QED
      BY <1>t, <2>1, <3>1, <3>3 DEF SettleInv, Settling
  <2>4. CASE FlushCall(c)
    <3>1. mark' = mark /\ job'[c] # "stop"
      BY <1>t, <2>4 DEF FlushCall, Flush, Take, Leave
    <3> QED
      BY <1>t, <2>1, <3>1
  <2>5. CASE StopCall(c)
    <3>1. mark'[c] = offered
      BY <1>t, <2>5 DEF StopCall
    <3>2. pc'[c] = "join" \/ buffer' = {}
      BY <1>t, <2>5, EndStopEmpties DEF StopCall
    <3> QED
      BY <1>t, <2>1, <3>1, <3>2
  <2>6. CASE Joined(c)
    <3>1. mark' = mark /\ buffer' = {}
      BY <2>6, EndStopEmpties DEF Joined
    <3> QED
      BY <1>t, <2>1, <3>1
  <2>7. CASE StopRefused(c)
    <3>1. mark'[c] = offered /\ job'[c] # "stop"
      <4>1. job[c] = "none"
        BY <2>7 DEF StopRefused, SettleInv, KnownInv, Seated, CallerSeat
      <4> QED
        BY <1>t, <2>7, <4>1 DEF StopRefused
    <3> QED
      BY <1>t, <2>1, <3>1
  <2> QED
    BY <2>2, <2>3, <2>4, <2>5, <2>6, <2>7, OwnSteps
<1> QED
  BY <1>1, <1>2

\* With no loop at work and c's hands empty, a reading that is not waiting is settled.
LEMMA Settled ==
  ASSUME SettleInv', NEW c \in Caller, NEW r \in 1..offered', r \notin buffer',
         \A l \in Loop : batch'[l] = {}, batch'[c] = {}
  PROVE  \/ r \in flushed' \cup dropped' \cup cut'
         \/ \E d \in Caller \ {c} : r \in batch'[d]
BY DEF SettleInv, OnceInv, Covered, CutOff, Task

\* A stop() that returns, having flushed, has settled what came before it.
LEMMA SettleStep == SettleInv /\ SettleInv' /\ [Next]_vars => StepSettles
<1> SUFFICES ASSUME SettleInv, SettleInv', [Next]_vars, NEW c \in Caller,
                    Returns(c), ~overlapped, NEW r \in 1..mark'[c]
             PROVE  \/ r \in flushed' \cup dropped' \cup cut'
                    \/ \E d \in Caller \ {c} : r \in batch'[d]
                    \/ r \in buffer' /\ state = "stopped" /\ job[c] = "none"
  BY DEF StepSettles
<1>t. /\ offered \in Nat /\ mark[c] \in Nat /\ mark[c] <= offered /\ c \in Task /\ c \notin Loop
      /\ offered' \in Nat /\ mark'[c] \in Nat /\ mark'[c] <= offered'
      /\ pc \in [Task -> Place] /\ job \in [Task -> Job] /\ mark \in [Caller -> Nat]
      /\ Loop \subseteq Task
  BY PipelineAssumption DEF SettleInv, KnownInv, Typed, TypeOK, Settling, Task, Place
<1>1. CallerSeat(c) /\ (job[c] = "stop" => c \in Stopping)
  BY DEF SettleInv, KnownInv, Seated, Stopping
<1>2. r \in 1..offered' /\ job'[c] = "none"
  BY <1>t DEF Returns
<1>3. batch'[c] = {}
  BY <1>t, <1>2 DEF SettleInv, KnownInv, Seated, CallerSeat, OnceInv, EmptyHands
<1>e. ASSUME \A l \in Loop : ~Live(l) /\ pc'[l] = pc[l]
      PROVE  \A l \in Loop : batch'[l] = {}
  BY <1>t, <1>e DEF Live, SettleInv, OnceInv, EmptyHands
<1>f. ASSUME NEW now, EndStop(c, now)
      PROVE  buffer' = {} /\ \A l \in Loop : pc'[l] = pc[l]
  BY <1>t, <1>f DEF EndStop, Flush, Take, Leave
<1>4. CASE Joined(c)
  <2>1. pc[c] = "join" /\ pc[waits[c]] = "done" /\ EndStop(c, state)
    BY <1>4 DEF Joined
  <2>2. \A l \in Loop : ~Live(l)
    BY <1>1, <2>1 DEF SettleInv, KnownInv, Awaited, Live, CallerSeat
  <2> QED
    BY <1>2, <1>3, <1>e, <1>f, <2>1, <2>2, Settled
<1>5. CASE StopCall(c)
  <2>1. EndStop(c, "stopping")
    BY <1>t, <1>2, <1>5 DEF StopCall
  <2>2. ~(flushTask # NoLoop /\ pc[flushTask] # "done")
    BY <1>t, <1>2, <1>5 DEF StopCall
  <2>3. \A l \in Loop : ~Live(l)
    BY <2>2, PipelineAssumption DEF SettleInv, KnownInv, Awaited, Live
  <2> QED
    BY <1>2, <1>3, <1>e, <1>f, <2>1, <2>3, Settled
<1>6. CASE StopRefused(c)
  <2>1. state = "stopped" /\ pc[c] = "idle" /\ pc' = pc
    BY <1>6 DEF StopRefused
  <2>2. job[c] = "none"
    BY <1>1, <2>1 DEF CallerSeat
  <2>3. \A l \in Loop : ~Live(l)
    BY <2>1 DEF SettleInv, KnownInv, Awaited
  <2>4. \A l \in Loop : batch'[l] = {}
    BY <1>e, <2>1, <2>3
  <2> QED
    BY <1>2, <1>3, <2>1, <2>2, <2>4, Settled
<1>7. CASE SinkAccepts(c) \/ SinkFails(c)
  <2>1. pc[c] = "sink" /\ mark' = mark
    BY <1>7 DEF SinkAccepts, SinkFails
  <2>2. job[c] = "stop" /\ c \in Stopping
    BY <1>1, <2>1 DEF Returns
  <2>3. Return(c)
    BY <1>2, <1>7, <2>2 DEF SinkAccepts, SinkFails
  <2>4. buffer' = buffer /\ \A l \in Loop : pc'[l] = pc[l]
    BY <1>t, <2>2, <2>3 DEF Return, Leave
  <2>5. \A q \in buffer : q > mark[c]
    BY <2>1, <2>2 DEF SettleInv, Settling
  <2>6. r \notin buffer'
    BY <1>t, <2>1, <2>4, <2>5
  <2>7. \A l \in Loop : ~Live(l)
    BY <2>1, <2>2 DEF SettleInv, KnownInv, Awaited
  <2>8. \A l \in Loop : batch'[l] = {}
    BY <1>e, <2>4, <2>7
  <2> QED
    BY <1>2, <1>3, <2>6, <2>8, Settled
<1>8. CASE FlushCall(c)
  <2>1. mark' = mark /\ pc[c] = "idle"
    BY <1>8 DEF FlushCall
  <2> QED
    BY <1>1, <2>1 DEF Returns, CallerSeat
<1>9. CASE job'[c] = job[c] /\ mark'[c] = mark[c]
  BY <1>9 DEF Returns
<1> QED
  BY <1>4, <1>5, <1>6, <1>7, <1>8, <1>9, OwnSteps

\* When stop() returns, everything offered before it was called is flushed, dropped, cut
\* off by the cancellation of the loop, or in the hands of another caller of flush() or
\* stop(); only a stop() that finds the pipeline stopped leaves readings in the buffer.
\* This holds always, but for a start() during a stop().
THEOREM StopsSettle == Spec => StopSettles
<1>1. Init => Settling /\ CutOff
  BY PipelineAssumption DEF Init, Settling, CutOff, Task
<1>3. [][StepSettles]_vars => StopSettles
  BY DEF StopSettles
<1>4. SettleInv <=> OnceInv /\ KnownInv /\ Settling /\ CutOff
  BY DEF SettleInv
<1> QED
  BY <1>1, <1>3, <1>4, InitOnce, OnceStep, InitKnown, KnownStep, SettlingKept, CutOffKept,
     SettleStep, PTL DEF Spec
=============================================================================
