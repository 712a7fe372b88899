------------------------------- MODULE Tasks -------------------------------
(***************************************************************************)
(* swarm/task_allocation.py and api/routers/tasks.py: the engine that      *)
(* gives tasks to rovers, and the HTTP interface that changes the same     *)
(* tasks behind its back.  No handler awaits between reading a task and    *)
(* changing it: each is a step.                                            *)
(***************************************************************************)
EXTENDS Naturals, FiniteSets, Sequences, SequencesExt

CONSTANTS TaskId, Agent,    \* the ids of tasks, and the rovers
          Nobody            \* None

ASSUME TasksAssumption == Nobody \notin Agent

VARIABLES tasks,         \* _tasks, in the order of the dictionary
          assignments,   \* the rover _assignments names for a task, if any
          byHand         \* history: tasks the interface said who has, since they
                         \* were last allocated

taskVars == <<tasks, assignments, byHand>>

Status == {"pending", "assigned", "in_progress", "completed", "failed"}
RequestStatus == Status \cup {"cancelled"}
Task == [id : TaskId, status : Status, assigned_to : Agent \cup {Nobody}]

TasksTypeOK ==
  /\ tasks \in Seq(Task)
  /\ \A i, j \in DOMAIN tasks : tasks[i].id = tasks[j].id => i = j
  /\ assignments \in [TaskId -> Agent \cup {Nobody}]
  /\ byHand \subseteq TaskId

TasksInit == tasks = <<>> /\ assignments = [t \in TaskId |-> Nobody] /\ byHand = {}

Known == {tasks[i].id : i \in DOMAIN tasks}
At(t) == CHOOSE i \in DOMAIN tasks : tasks[i].id = t
With(ts, s) == {i \in DOMAIN ts : ts[i].status = s}

\* What may be given as available_rovers.
Team == {s \in UNION {[1..n -> Agent] : n \in 0..Cardinality(Agent)} : IsInjective(s)}

\* create_task(), add_task(): a task of the same id is replaced where it stands, and
\* what was noted of its assignment stays.
AddTask(t) ==
  LET new == [id |-> t, status |-> "pending", assigned_to |-> Nobody] IN
  /\ tasks' = IF t \in Known THEN [tasks EXCEPT ![At(t)] = new] ELSE Append(tasks, new)
  /\ byHand' = byHand \ {t}
  /\ UNCHANGED assignments

\* The rover whose turn it is when the i-th task is given.
Taker(ts, i, rovers) ==
  rovers[1 + (Cardinality(With(ts, "pending") \cap 1..(i - 1)) % Len(rovers))]

Give(task, r) == [task EXCEPT !.status = "assigned", !.assigned_to = r]

\* Mutant: each task goes to the first rover.
GivenToFirst(s, rovers) ==
  LET pending == With(s.tasks, "pending") IN
  [tasks |-> [i \in DOMAIN s.tasks |->
                IF i \in pending THEN Give(s.tasks[i], rovers[1]) ELSE s.tasks[i]],
   given |-> [t \in TaskId |->
                IF \E i \in pending : s.tasks[i].id = t THEN rovers[1] ELSE s.given[t]]]

\* Mutant: what is noted of an assignment stays when the task is given again.
GivenOnce(s, rovers) ==
  LET pending == With(s.tasks, "pending") IN
  [tasks |-> [i \in DOMAIN s.tasks |->
                IF i \in pending THEN Give(s.tasks[i], Taker(s.tasks, i, rovers)) ELSE s.tasks[i]],
   given |-> [t \in TaskId |->
                IF s.given[t] = Nobody /\ \E i \in pending : s.tasks[i].id = t
                THEN Taker(s.tasks, CHOOSE i \in pending : s.tasks[i].id = t, rovers)
                ELSE s.given[t]]]

\* allocate(), over tasks and assignments s: the pending tasks go round the rovers.
Given(s, rovers) ==
  LET pending == With(s.tasks, "pending") IN
  [tasks |-> [i \in DOMAIN s.tasks |->
                IF i \in pending THEN Give(s.tasks[i], Taker(s.tasks, i, rovers)) ELSE s.tasks[i]],
   given |-> [t \in TaskId |->
                IF \E i \in pending : s.tasks[i].id = t
                THEN Taker(s.tasks, CHOOSE i \in pending : s.tasks[i].id = t, rovers)
                ELSE s.given[t]]]

Allocated(s, rovers) == IF rovers = <<>> THEN s ELSE Given(s, rovers)

Become(s) ==
  /\ tasks' = s.tasks /\ assignments' = s.given
  /\ byHand' = byHand \ {s.tasks[i].id : i \in {j \in DOMAIN tasks :
                             tasks[j].status # "assigned" /\ s.tasks[j].status = "assigned"}}

Allocate(rovers) == Become(Allocated([tasks |-> tasks, given |-> assignments], rovers))

\* reallocate_failed(), over tasks and assignments s: one failed task after the other is
\* made pending, and whatever is pending then is allocated, from the first rover on.
Reallocated(s, rovers) ==
  LET done[i \in 0..Len(s.tasks)] ==
        IF i = 0 THEN s
        ELSE IF i \in With(s.tasks, "failed")
             THEN Allocated([done[i - 1] EXCEPT !.tasks[i].status = "pending"], rovers)
        ELSE done[i - 1]
  IN  done[Len(s.tasks)]

ReallocateFailed(rovers) ==
  Become(Reallocated([tasks |-> tasks, given |-> assignments], rovers))

\* complete_task() and fail_task(): who had the task stays noted.
Finish(t, s) ==
  /\ tasks' = [tasks EXCEPT ![At(t)].status = s]
  /\ UNCHANGED <<assignments, byHand>>

RemoveTask(t) ==
  /\ tasks' = RemoveAt(tasks, At(t))
  /\ assignments' = [assignments EXCEPT ![t] = Nobody]
  /\ byHand' = byHand \ {t}

\* update_task_status() with status s and the rover r, if the request names one: a
\* task may be given any status whatever it had.
UpdateTask(t, s, r) ==
  /\ s \in Status
  /\ LET set == IF s = "pending" THEN Nobody
                ELSE IF s = "assigned" THEN r ELSE tasks[At(t)].assigned_to
     IN  tasks' = [tasks EXCEPT ![At(t)].status = s,
                                ![At(t)].assigned_to = IF r # Nobody THEN r ELSE set]
  /\ byHand' = IF s = "assigned" \/ r # Nobody THEN byHand \cup {t} ELSE byHand
  /\ UNCHANGED assignments

\* The same without a status.
HandOver(t, r) ==
  /\ tasks' = [tasks EXCEPT ![At(t)].assigned_to = r]
  /\ byHand' = byHand \cup {t}
  /\ UNCHANGED assignments

TasksNext ==
  \/ \E t \in TaskId : AddTask(t)
  \/ \E t \in Known :
       \/ RemoveTask(t)
       \/ \E s \in {"completed", "failed"} : Finish(t, s)
       \/ \E s \in RequestStatus, r \in Agent \cup {Nobody} :
            IF s = "cancelled" THEN RemoveTask(t) ELSE UpdateTask(t, s, r)
       \/ \E r \in Agent : HandOver(t, r)
  \/ \E rovers \in Team : Allocate(rovers) \/ ReallocateFailed(rovers)

TasksSpec == TasksInit /\ [][TasksNext]_taskVars
-----------------------------------------------------------------------------
(* Properties *)

\* The task and the engine's notes name the same rover, unless somebody said otherwise
\* through the interface, whatever was completed, failed, replaced or given again.
OwnersAgree ==
  \A i \in DOMAIN tasks :
    LET t == tasks[i].id IN
    tasks[i].status = "assigned" /\ t \notin byHand
      => assignments[t] # Nobody /\ tasks[i].assigned_to = assignments[t]

\* How many of the tasks in S a rover has been given.
Share(r, S, ts) == Cardinality({i \in S : ts[i].assigned_to = r})

\* An allocation leaves nothing waiting if there is a rover at all, spreads what was
\* waiting evenly, and lets go of what is done or under way.
AllocationIsEven ==
  [][tasks # <<>> => \A rovers \in Team \ {<<>>} : Allocate(rovers) =>
       LET waiting == With(tasks, "pending") IN
       /\ With(tasks', "pending") = {}
       /\ \A i \in DOMAIN tasks \ waiting : tasks'[i] = tasks[i]
       /\ \A p, q \in Range(rovers) :
            Share(p, waiting, tasks') <= Share(q, waiting, tasks') + 1]_taskVars
=============================================================================
