----------------------------- MODULE TaskLifecycle -----------------------------
(***************************************************************************)
(* Tasks: the HTTP requests that create, queue and cancel them, the        *)
(* PROCESS_TASK jobs that carry them to the workers, and the handler that  *)
(* executes them.                                                          *)
(*                                                                         *)
(* A queue request reads the task, checks the status it read, writes       *)
(* QUEUED and enqueues a new command, with an await between any two of     *)
(* them.  The handler writes RUNNING, executes, and writes COMPLETED or    *)
(* FAILED, whatever the status has become meanwhile.  Nothing ties the     *)
(* task to the job that carries it.  Jobs of one task may be handled by    *)
(* different workers at the same time.                                     *)
(***************************************************************************)
EXTENDS Integers, FiniteSets

CONSTANTS
  Tasks,
  Requests,       \* HTTP requests that can be in progress at the same time
  Jobs,           \* bound: the PROCESS_TASK commands ever enqueued
  NoTask,
  MaxDeaths,      \* bound: how many workers die in the middle of a job
  Faults          \* what may go wrong besides (FaultKinds)

(* "queue": enqueue() fails, or the backend dies just before it;           *)
(* "database": a status update of the worker fails;                        *)
(* "restart": a worker is handed a job while it starts or drains.          *)
FaultKinds == {"queue", "database", "restart"}

ASSUME TaskAssumption == NoTask \notin Tasks
ASSUME DeathAssumption == MaxDeaths \in Nat
ASSUME FaultAssumption == Faults \subseteq FaultKinds

VARIABLES
  status,         \* Task.status, "ABSENT" before it is created
  startedAt, completedAt, error,   \* whether these columns are set
  request,        \* each HTTP request in progress
  jobTask,        \* the taskId in the payload of each job
  jobState,       \* BullMQ: the state of each job
  step,           \* where the PROCESS_TASK handler of each job is
  stalls,         \* BullMQ: how often the job was taken back
  deaths,         \* history: how many workers have died
  faults          \* history: what has gone wrong; "overlap": requests came together

columns == <<status, startedAt, completedAt, error>>
jobVars == <<jobTask, jobState, step, stalls>>
historyVars == <<deaths, faults>>
vars == <<columns, request, jobVars, historyVars>>

(* Mutant of Queueable: a task on its way may be queued again. *)
QueueableAgain == {"DRAFT", "PAUSED", "FAILED", "QUEUED", "RUNNING"}

Queueable == {"DRAFT", "PAUSED", "FAILED"}
Statuses == {"ABSENT", "DRAFT", "QUEUED", "RUNNING", "PAUSED", "COMPLETED", "FAILED", "CANCELLED"}
NoRequest == [step |-> "none", action |-> "none", task |-> NoTask, seen |-> "ABSENT"]

TypeOK ==
  /\ status \in [Tasks -> Statuses]
  /\ startedAt \in [Tasks -> BOOLEAN]
  /\ completedAt \in [Tasks -> BOOLEAN]
  /\ error \in [Tasks -> BOOLEAN]
  /\ request \in [Requests -> [step : {"none", "found", "updated"},
                               action : {"none", "queue", "cancel"},
                               task : Tasks \cup {NoTask}, seen : Statuses]]
  /\ jobTask \in [Jobs -> Tasks \cup {NoTask}]
  /\ jobState \in [Jobs -> {"absent", "waiting", "active", "completed", "failed"}]
  /\ step \in [Jobs -> {"none", "taken", "marked", "executed", "failing", "returned", "threw"}]
  /\ stalls \in [Jobs -> 0 .. 1]
  /\ deaths \in 0 .. MaxDeaths
  /\ faults \in SUBSET (Faults \cup {"overlap"})

Init ==
  /\ status = [t \in Tasks |-> "ABSENT"]
  /\ startedAt = [t \in Tasks |-> FALSE]
  /\ completedAt = [t \in Tasks |-> FALSE]
  /\ error = [t \in Tasks |-> FALSE]
  /\ request = [r \in Requests |-> NoRequest]
  /\ jobTask = [j \in Jobs |-> NoTask]
  /\ jobState = [j \in Jobs |-> "absent"]
  /\ step = [j \in Jobs |-> "none"]
  /\ stalls = [j \in Jobs |-> 0]
  /\ deaths = 0
  /\ faults = {}

(* A fault of kind f happens. *)
Suffer(f) ==
  /\ f \in Faults
  /\ faults' = faults \cup {f}

-----------------------------------------------------------------------------
(* Mutant of Create: the default status of a task item. *)
CreatePending(t) ==
  /\ status[t] = "ABSENT"
  /\ status' = [status EXCEPT ![t] = "PENDING"]
  /\ UNCHANGED <<startedAt, completedAt, error, request, jobVars, historyVars>>

(* POST /api/tasks *)
Create(t) ==
  /\ status[t] = "ABSENT"
  /\ status' = [status EXCEPT ![t] = "DRAFT"]
  /\ UNCHANGED <<startedAt, completedAt, error, request, jobVars, historyVars>>

(* POST /api/tasks/:id/queue or cancel: store.findTask *)
Find(r, t, action) ==
  /\ request[r].step = "none"
  /\ status[t] # "ABSENT"
  /\ action = "queue" => Cardinality({j \in Jobs : jobState[j] = "absent"})
                           > Cardinality({q \in Requests : request[q].action = "queue"})
  /\ request' = [request EXCEPT ![r] =
       [step |-> "found", action |-> action, task |-> t, seen |-> status[t]]]
  /\ faults' = IF \E q \in Requests : request[q].step # "none"
               THEN faults \cup {"overlap"} ELSE faults
  /\ UNCHANGED <<columns, jobVars, deaths>>

Respond(r) == request' = [request EXCEPT ![r] = NoRequest]

(* Cancelling checks no status. *)
Cancel(r) ==
  /\ request[r].step = "found"
  /\ request[r].action = "cancel"
  /\ status' = [status EXCEPT ![request[r].task] = "CANCELLED"]
  /\ completedAt' = [completedAt EXCEPT ![request[r].task] = TRUE]
  /\ Respond(r)
  /\ UNCHANGED <<startedAt, error, jobVars, historyVars>>

(* 409 task_not_queueable *)
Conflict(r) ==
  /\ request[r].step = "found"
  /\ request[r].action = "queue"
  /\ request[r].seen \notin Queueable
  /\ Respond(r)
  /\ UNCHANGED <<columns, jobVars, historyVars>>

(* Mutant of SetQueued: the error of the last run stays. *)
SetQueuedKeepError(r) ==
  /\ request[r].step = "found"
  /\ request[r].action = "queue"
  /\ request[r].seen \in Queueable
  /\ status' = [status EXCEPT ![request[r].task] = "QUEUED"]
  /\ request' = [request EXCEPT ![r].step = "updated"]
  /\ UNCHANGED <<startedAt, completedAt, error, jobVars, historyVars>>

(* The status that was read is queueable: QUEUED is written. *)
SetQueued(r) ==
  /\ request[r].step = "found"
  /\ request[r].action = "queue"
  /\ request[r].seen \in Queueable
  /\ status' = [status EXCEPT ![request[r].task] = "QUEUED"]
  /\ error' = [error EXCEPT ![request[r].task] = FALSE]
  /\ request' = [request EXCEPT ![r].step = "updated"]
  /\ UNCHANGED <<startedAt, completedAt, jobVars, historyVars>>

(* commandQueue.enqueue of a command with a new id; 202. *)
EnqueueTask(r, j) ==
  /\ request[r].step = "updated"
  /\ jobState[j] = "absent"
  /\ jobState' = [jobState EXCEPT ![j] = "waiting"]
  /\ jobTask' = [jobTask EXCEPT ![j] = request[r].task]
  /\ Respond(r)
  /\ UNCHANGED <<columns, step, stalls, historyVars>>

(* The enqueue throws (500), or the backend stops before it. *)
EnqueueFails(r) ==
  /\ Suffer("queue")
  /\ request[r].step = "updated"
  /\ Respond(r)
  /\ UNCHANGED <<columns, jobVars, deaths>>

-----------------------------------------------------------------------------
(* A worker is handed the job. *)
Take(j) ==
  /\ jobState[j] = "waiting"
  /\ jobState' = [jobState EXCEPT ![j] = "active"]
  /\ step' = [step EXCEPT ![j] = "taken"]
  /\ UNCHANGED <<columns, request, jobTask, stalls, historyVars>>

(* It is not ready: deferred/worker_not_ready, and the only attempt fails. *)
TakeNotReady(j) ==
  /\ Suffer("restart")
  /\ jobState[j] = "waiting"
  /\ jobState' = [jobState EXCEPT ![j] = "failed"]
  /\ UNCHANGED <<columns, request, jobTask, step, stalls, deaths>>

(* state.setStatus(taskId, "RUNNING"), whatever the status is by now. *)
MarkRunning(j) ==
  /\ step[j] = "taken"
  /\ status' = [status EXCEPT ![jobTask[j]] = "RUNNING"]
  /\ startedAt' = [startedAt EXCEPT ![jobTask[j]] = TRUE]
  /\ completedAt' = [completedAt EXCEPT ![jobTask[j]] = FALSE]
  /\ step' = [step EXCEPT ![j] = "marked"]
  /\ UNCHANGED <<error, request, jobTask, jobState, stalls, historyVars>>

(* Mutant of Execute: the executor is called outside the try block. *)
ExecuteUncaught(j, outcome) ==
  /\ step[j] = "marked"
  /\ step' = [step EXCEPT ![j] = IF outcome = "failing" THEN "threw" ELSE outcome]
  /\ UNCHANGED <<columns, request, jobTask, jobState, stalls, historyVars>>

(* executor.execute(taskId) resolves or rejects. *)
Execute(j, outcome) ==
  /\ step[j] = "marked"
  /\ step' = [step EXCEPT ![j] = outcome]
  /\ UNCHANGED <<columns, request, jobTask, jobState, stalls, historyVars>>

ReportCompleted(j) ==
  /\ step[j] = "executed"
  /\ status' = [status EXCEPT ![jobTask[j]] = "COMPLETED"]
  /\ completedAt' = [completedAt EXCEPT ![jobTask[j]] = TRUE]
  /\ step' = [step EXCEPT ![j] = "returned"]
  /\ UNCHANGED <<startedAt, error, request, jobTask, jobState, stalls, historyVars>>

(* catch: FAILED with the name of the error, and the error is thrown on. *)
ReportFailed(j) ==
  /\ step[j] = "failing"
  /\ status' = [status EXCEPT ![jobTask[j]] = "FAILED"]
  /\ completedAt' = [completedAt EXCEPT ![jobTask[j]] = TRUE]
  /\ error' = [error EXCEPT ![jobTask[j]] = TRUE]
  /\ step' = [step EXCEPT ![j] = "threw"]
  /\ UNCHANGED <<startedAt, request, jobTask, jobState, stalls, historyVars>>

(* A status update rejects: only that of COMPLETED is inside the try block. *)
UpdateFails(j) ==
  /\ Suffer("database")
  /\ step[j] \in {"taken", "executed", "failing"}
  /\ step' = [step EXCEPT ![j] = IF step[j] = "executed" THEN "failing" ELSE "threw"]
  /\ UNCHANGED <<columns, request, jobTask, jobState, stalls, deaths>>

(* BullMQ records the end of the job. *)
Record(j) ==
  /\ step[j] \in {"returned", "threw"}
  /\ jobState' = [jobState EXCEPT ![j] = IF step[j] = "returned" THEN "completed" ELSE "failed"]
  /\ step' = [step EXCEPT ![j] = "none"]
  /\ UNCHANGED <<columns, request, jobTask, stalls, historyVars>>

(* The worker dies in the middle of the job. *)
Die(j) ==
  /\ deaths < MaxDeaths
  /\ step[j] # "none"
  /\ step' = [step EXCEPT ![j] = "none"]
  /\ deaths' = deaths + 1
  /\ UNCHANGED <<columns, request, jobTask, jobState, stalls, faults>>

(* Another worker finds the stalled job: once it is queued again. *)
TakeBack(j) ==
  /\ jobState[j] = "active"
  /\ step[j] = "none"
  /\ jobState' = [jobState EXCEPT ![j] = IF stalls[j] = 0 THEN "waiting" ELSE "failed"]
  /\ stalls' = [stalls EXCEPT ![j] = 1]
  /\ UNCHANGED <<columns, request, jobTask, step, historyVars>>

HttpStep(r) ==
  \/ \E t \in Tasks, action \in {"queue", "cancel"} : Find(r, t, action)
  \/ Cancel(r) \/ Conflict(r) \/ SetQueued(r) \/ EnqueueFails(r)
  \/ \E j \in Jobs : EnqueueTask(r, j)

HandlerStep(j) ==
  \/ MarkRunning(j) \/ ReportCompleted(j) \/ ReportFailed(j) \/ UpdateFails(j)
  \/ \E outcome \in {"executed", "failing"} : Execute(j, outcome)

JobStep(j) == Take(j) \/ TakeNotReady(j) \/ HandlerStep(j) \/ Record(j) \/ TakeBack(j)

Next ==
  \/ \E t \in Tasks : Create(t)
  \/ \E r \in Requests : HttpStep(r)
  \/ \E j \in Jobs : JobStep(j) \/ Die(j)

Spec == Init /\ [][Next]_vars

(* Requests run to their end, and workers keep taking and finishing jobs. *)
FairSpec ==
  /\ Spec
  /\ \A r \in Requests : WF_vars(Cancel(r) \/ Conflict(r) \/ SetQueued(r)
                                 \/ EnqueueFails(r) \/ \E j \in Jobs : EnqueueTask(r, j))
  /\ \A j \in Jobs : WF_vars(JobStep(j))

-----------------------------------------------------------------------------
(* The writes of a job are still to come, or its handler is between them. *)
Pending(j) == jobState[j] = "waiting" \/ (jobState[j] = "active" /\ step[j] \notin {"returned", "threw"})

(* Over overlapping requests and the death of a worker, a task that says   *)
(* QUEUED or RUNNING is on its way: a request is about to enqueue it, or a *)
(* job carries it.  (stage-12-tasks.md: task state survives restarts.)     *)
ActiveTaskHasJob ==
  (faults \subseteq {"overlap"} /\ deaths <= 1) =>
    \A t \in Tasks : status[t] \in {"QUEUED", "RUNNING"} =>
      \/ \E r \in Requests : request[r].step = "updated" /\ request[r].task = t
      \/ \E j \in Jobs : jobTask[j] = t /\ Pending(j)

Sequential == "overlap" \notin faults /\ deaths = 0

OneRunAtATime ==
  \A i, j \in Jobs : jobTask[i] = jobTask[j] /\ Pending(i) /\ Pending(j) => i = j

ColumnsAgree ==
  \A t \in Tasks :
    /\ status[t] = "COMPLETED" => ~error[t]
    /\ status[t] = "RUNNING" => startedAt[t] /\ ~completedAt[t] /\ ~error[t]
    /\ status[t] \in {"COMPLETED", "FAILED", "CANCELLED"} => completedAt[t]

(* As long as the operator sends one request at a time and no worker dies, *)
(* whatever else fails, a task is never executed by two jobs at once       *)
(* (OneRunAtATime), and what is shown of it fits together (ColumnsAgree):  *)
(* a completed task carries no error of an earlier run, a task that ended  *)
(* has a completion time and one that runs has none.                       *)
SequentialTasks == Sequential => OneRunAtATime /\ ColumnsAgree

(* Every queued task ends, if the queue and the database answer, no worker *)
(* refuses the job, and its job meets one death at most.                   *)
QueuedTaskEnds ==
  \A t \in Tasks : status[t] = "QUEUED" ~>
    \/ status[t] \in {"COMPLETED", "FAILED", "CANCELLED"}
    \/ ~(faults \subseteq {"overlap"} /\ deaths <= 1)

(* stage-12-tasks.md: POST /api/tasks/:id/cancel cancels it, so a worker   *)
(* does not run or complete it afterwards.                                 *)
CancelIsFinal ==
  [][\A t \in Tasks : status[t] = "CANCELLED" => status'[t] \notin {"RUNNING", "COMPLETED"}]_vars
=============================================================================
