-------------------------- MODULE TaskLifecycleProofs --------------------------
(***************************************************************************)
(* Theorems about TaskLifecycle, for any tasks, requests, jobs, deaths and *)
(* faults.                                                                 *)
(***************************************************************************)
EXTENDS TaskLifecycle, TLAPS

(* Whatever is in progress is about a task that exists, and a handler runs *)
(* an active job.                                                          *)
Exists(t) == t \in Tasks /\ status[t] # "ABSENT"

WorkInv ==
  /\ TypeOK
  /\ \A r \in Requests : request[r].step # "none" => Exists(request[r].task)
  /\ \A r \in Requests : request[r].step = "updated" => request[r].action = "queue"
  /\ \A j \in Jobs : /\ jobState[j] # "absent" => Exists(jobTask[j])
                     /\ step[j] # "none" => jobState[j] = "active"

(* A job that was taken back, or waits to be, has cost its workers.        *)
DeathInv ==
  \A j \in Jobs : /\ stalls[j] = 1 => deaths >= 1
                  /\ jobState[j] = "active" /\ step[j] = "none" => deaths >= stalls[j] + 1

(* Task t is on its way. *)
Carried(t) ==
  \/ \E r \in Requests : request[r].step = "updated" /\ request[r].task = t
  \/ \E j \in Jobs : jobTask[j] = t /\ Pending(j)

(* Requests sent one after the other: what a request has read still holds, *)
(* a task that may be queued, or is about to be enqueued, has no job, and  *)
(* a job that is still to run it finds no error.                           *)
OrderedRequests ==
  /\ \A q, r \in Requests : request[q].step # "none" /\ request[r].step # "none" => q = r
  /\ \A r \in Requests :
       request[r].step = "found" /\ request[r].action = "queue" /\ request[r].seen \in Queueable =>
         status[request[r].task] = request[r].seen
  /\ \A r \in Requests : request[r].step = "updated" =>
       /\ status[request[r].task] = "QUEUED" /\ ~error[request[r].task]
       /\ \A j \in Jobs : Pending(j) => jobTask[j] # request[r].task
  /\ \A j \in Jobs : Pending(j) => /\ status[jobTask[j]] \notin Queueable
                                   /\ ~error[jobTask[j]]

InOrder == OrderedRequests /\ OneRunAtATime /\ ColumnsAgree

(* The records a request can be. *)
RequestFields == [step : {"none", "found", "updated"}, action : {"none", "queue", "cancel"},
                  task : Tasks \cup {NoTask}, seen : Statuses]

-----------------------------------------------------------------------------
(* WorkInv holds in every state. *)
LEMMA Working == Spec => []WorkInv
<1>1. Init => WorkInv
  <2> SUFFICES ASSUME Init PROVE WorkInv
    OBVIOUS
  <2>1. TypeOK
    BY DeathAssumption DEF Init, TypeOK, Statuses, NoRequest
  <2> QED
    BY <2>1 DEF Init, WorkInv, NoRequest
<1>2. WorkInv /\ [Next]_vars => WorkInv'
  <2> SUFFICES ASSUME WorkInv, [Next]_vars PROVE WorkInv'
    OBVIOUS
  <2>0. NoRequest \in RequestFields
    BY DEF NoRequest, RequestFields, Statuses
  <2>1. ASSUME NEW t \in Tasks, Create(t) PROVE WorkInv'
    BY <2>1 DEF Create, WorkInv, TypeOK, Exists, Statuses, columns, jobVars, historyVars
  <2>2. ASSUME NEW r \in Requests, NEW t \in Tasks, NEW action \in {"queue", "cancel"}, Find(r, t, action)
        PROVE  WorkInv'
    <3>1. status[t] \in Statuses /\ Exists(t)
      BY <2>2 DEF Find, WorkInv, TypeOK, Exists
    <3>2. request \in [Requests -> RequestFields]
      BY DEF WorkInv, TypeOK, RequestFields
    <3>3. [step |-> "found", action |-> action, task |-> t, seen |-> status[t]] \in RequestFields
      BY <3>1 DEF RequestFields
    <3>4. request' \in [Requests -> RequestFields]
      BY <2>2, <3>2, <3>3 DEF Find
    <3>5. faults' \in SUBSET (Faults \cup {"overlap"})
      BY <2>2 DEF Find, WorkInv, TypeOK
    <3>6. TypeOK'
      BY <2>2, <3>4, <3>5 DEF Find, WorkInv, TypeOK, columns, jobVars, RequestFields
    <3> QED
      BY <2>2, <3>1, <3>2, <3>6 DEF Find, WorkInv, Exists, columns, jobVars
  <2>3. ASSUME NEW r \in Requests, Cancel(r) \/ Conflict(r) \/ SetQueued(r) \/ EnqueueFails(r)
        PROVE  WorkInv'
    <3>1. request \in [Requests -> RequestFields] /\ Exists(request[r].task)
      BY <2>3 DEF Cancel, Conflict, SetQueued, EnqueueFails, WorkInv, TypeOK, RequestFields
    <3>2. [request[r] EXCEPT !.step = "updated"] \in RequestFields
      BY <3>1 DEF RequestFields
    <3>3. request' \in [Requests -> RequestFields]
      BY <2>0, <2>3, <3>1, <3>2 DEF Cancel, Conflict, SetQueued, EnqueueFails, Respond
    <3>4. status' \in [Tasks -> Statuses]
      BY <2>3, <3>1 DEF Cancel, Conflict, SetQueued, EnqueueFails, WorkInv, TypeOK, Statuses, Exists,
         columns
    <3>5. /\ startedAt' \in [Tasks -> BOOLEAN] /\ completedAt' \in [Tasks -> BOOLEAN]
          /\ error' \in [Tasks -> BOOLEAN]
      BY <2>3, <3>1 DEF Cancel, Conflict, SetQueued, EnqueueFails, WorkInv, TypeOK, columns
    <3>6. UNCHANGED <<jobTask, jobState, step, stalls, deaths>>
      BY <2>3 DEF Cancel, Conflict, SetQueued, EnqueueFails, jobVars, historyVars
    <3>7. faults' \in SUBSET (Faults \cup {"overlap"})
      BY <2>3 DEF Cancel, Conflict, SetQueued, EnqueueFails, Suffer, WorkInv, TypeOK, historyVars
    <3>8. TypeOK'
      BY <3>3, <3>4, <3>5, <3>6, <3>7 DEF WorkInv, TypeOK, RequestFields
    <3>9. \A q \in Requests :
            \/ request'[q] = request[q]
            \/ request'[q].step = "none"
            \/ request'[q] = [request[q] EXCEPT !.step = "updated"] /\ request[q].action = "queue"
                /\ request[q].step = "found"
      BY <2>3, <3>1 DEF Cancel, Conflict, SetQueued, EnqueueFails, Respond, NoRequest
    <3>10. \A q \in Requests :
            \/ request'[q] = request[q]
            \/ request'[q].step = "none"
            \/ /\ request'[q].task = request[q].task /\ request'[q].action = "queue"
               /\ request[q].step = "found"
      <4>1. ASSUME NEW q \in Requests, request'[q] = [request[q] EXCEPT !.step = "updated"]
            PROVE  request'[q].task = request[q].task /\ request'[q].action = request[q].action
        BY <3>1, <4>1 DEF RequestFields
      <4> QED
        BY <3>9, <4>1
    <3>11. \A t \in Tasks : status[t] # "ABSENT" => status'[t] # "ABSENT"
      BY <2>3, <3>1 DEF Cancel, Conflict, SetQueued, EnqueueFails, columns, WorkInv, TypeOK
    <3> QED
      BY <3>6, <3>8, <3>10, <3>11 DEF WorkInv, Exists
  <2>4. ASSUME NEW r \in Requests, NEW j \in Jobs, EnqueueTask(r, j) PROVE WorkInv'
    <3>1. request \in [Requests -> RequestFields] /\ Exists(request[r].task)
      BY <2>4 DEF EnqueueTask, WorkInv, TypeOK, RequestFields
    <3>2. request' \in [Requests -> RequestFields]
      BY <2>0, <2>4, <3>1 DEF EnqueueTask, Respond
    <3>3. jobTask' \in [Jobs -> Tasks \cup {NoTask}]
      BY <2>4, <3>1 DEF EnqueueTask, WorkInv, TypeOK, Exists
    <3>4. jobState' \in [Jobs -> {"absent", "waiting", "active", "completed", "failed"}]
      BY <2>4 DEF EnqueueTask, WorkInv, TypeOK
    <3>5. TypeOK'
      BY <2>4, <3>2, <3>3, <3>4
      DEF EnqueueTask, WorkInv, TypeOK, columns, historyVars, RequestFields
    <3>6. \A q \in Requests : request'[q] = request[q] \/ request'[q].step = "none"
      BY <2>4, <3>1 DEF EnqueueTask, Respond, NoRequest
    <3>7. \A k \in Jobs : /\ k # j => jobState'[k] = jobState[k] /\ jobTask'[k] = jobTask[k]
                          /\ k = j => jobTask'[k] = request[r].task /\ step[k] = "none"
      BY <2>4 DEF EnqueueTask, WorkInv, TypeOK
    <3> QED
      BY <2>4, <3>1, <3>5, <3>6, <3>7 DEF EnqueueTask, WorkInv, Exists, columns, jobVars
  <2>5. ASSUME NEW j \in Jobs, Take(j) \/ TakeNotReady(j) \/ TakeBack(j) \/ Record(j)
        PROVE  WorkInv'
    BY <2>5 DEF Take, TakeNotReady, TakeBack, Record, Suffer,
       WorkInv, TypeOK, Exists, Statuses, columns, jobVars, historyVars
  <2>6. ASSUME NEW j \in Jobs, MarkRunning(j) \/ ReportCompleted(j) \/ ReportFailed(j) \/ UpdateFails(j)
        PROVE  WorkInv'
    <3>1. jobState[j] = "active" /\ Exists(jobTask[j])
      BY <2>6 DEF MarkRunning, ReportCompleted, ReportFailed, UpdateFails, WorkInv
    <3>2. /\ status' \in [Tasks -> Statuses]
          /\ \A t \in Tasks : status[t] # "ABSENT" => status'[t] # "ABSENT"
      BY <2>6, <3>1 DEF MarkRunning, ReportCompleted, ReportFailed, UpdateFails, WorkInv, TypeOK,
         Statuses, Exists, columns
    <3>3. /\ startedAt' \in [Tasks -> BOOLEAN] /\ completedAt' \in [Tasks -> BOOLEAN]
          /\ error' \in [Tasks -> BOOLEAN]
      BY <2>6 DEF MarkRunning, ReportCompleted, ReportFailed, UpdateFails, WorkInv, TypeOK, columns
    <3>4. /\ step' \in [Jobs -> {"none", "taken", "marked", "executed", "failing", "returned", "threw"}]
          /\ \A k \in Jobs : k # j => step'[k] = step[k]
      BY <2>6 DEF MarkRunning, ReportCompleted, ReportFailed, UpdateFails, WorkInv, TypeOK
    <3>5. faults' \in SUBSET (Faults \cup {"overlap"})
      BY <2>6 DEF MarkRunning, ReportCompleted, ReportFailed, UpdateFails, Suffer, WorkInv, TypeOK,
         historyVars
    <3>6. UNCHANGED <<request, jobTask, jobState, stalls, deaths>>
      BY <2>6 DEF MarkRunning, ReportCompleted, ReportFailed, UpdateFails, historyVars
    <3> QED
      BY <3>1, <3>2, <3>3, <3>4, <3>5, <3>6 DEF WorkInv, TypeOK, Exists
  <2>7. ASSUME NEW j \in Jobs, NEW outcome \in {"executed", "failing"}, Execute(j, outcome)
        PROVE  WorkInv'
    BY <2>7 DEF Execute, WorkInv, TypeOK, Exists, Statuses, columns, jobVars, historyVars
  <2>8. ASSUME NEW j \in Jobs, Die(j) PROVE WorkInv'
    BY <2>8, DeathAssumption DEF Die, WorkInv, TypeOK, Exists, Statuses, columns
  <2>9. CASE UNCHANGED vars
    BY <2>9 DEF vars, WorkInv, TypeOK, Exists, Statuses, columns, jobVars, historyVars
  <2> QED
    BY <2>1, <2>2, <2>3, <2>4, <2>5, <2>6, <2>7, <2>8, <2>9 DEF Next, HttpStep, JobStep, HandlerStep
<1> QED
  BY <1>1, <1>2, PTL DEF Spec

(* Every variable keeps its type. *)
THEOREM Typing == Spec => []TypeOK
<1>1. WorkInv => TypeOK
  BY DEF WorkInv
<1> QED
  BY <1>1, Working, PTL

-----------------------------------------------------------------------------
(* A job meets no more stalls than workers have died. *)
LEMMA Deaths == Spec => []DeathInv
<1>1. Init => DeathInv
  BY DEF Init, DeathInv
<1>2. WorkInv /\ DeathInv /\ [Next]_vars => DeathInv'
  <2> SUFFICES ASSUME WorkInv, DeathInv, [Next]_vars PROVE DeathInv'
    OBVIOUS
  <2> USE DEF DeathInv, WorkInv, TypeOK
  <2>1. ASSUME NEW t \in Tasks, Create(t) PROVE DeathInv'
    BY <2>1 DEF Create, jobVars, historyVars
  <2>2. ASSUME NEW r \in Requests, HttpStep(r) PROVE DeathInv'
    <3>1. UNCHANGED <<step, stalls, deaths>>
      BY <2>2 DEF HttpStep, Find, Cancel, Conflict, SetQueued, EnqueueFails, EnqueueTask,
         jobVars, historyVars
    <3>2. \A j \in Jobs : jobState'[j] = "active" => jobState[j] = "active"
      BY <2>2 DEF HttpStep, Find, Cancel, Conflict, SetQueued, EnqueueFails, EnqueueTask, jobVars
    <3> QED
      BY <3>1, <3>2
  <2>3. ASSUME NEW j \in Jobs, Take(j) \/ TakeNotReady(j) \/ TakeBack(j) \/ Record(j)
        PROVE  DeathInv'
    BY <2>3 DEF Take, TakeNotReady, TakeBack, Record, jobVars, historyVars
  <2>4. ASSUME NEW j \in Jobs, HandlerStep(j) PROVE DeathInv'
    BY <2>4 DEF HandlerStep, Execute, MarkRunning, ReportCompleted, ReportFailed, UpdateFails,
       historyVars
  <2>5. ASSUME NEW j \in Jobs, Die(j) PROVE DeathInv'
    BY <2>5, DeathAssumption DEF Die
  <2>6. CASE UNCHANGED vars
    BY <2>6 DEF vars, jobVars, historyVars
  <2> QED
    BY <2>1, <2>2, <2>3, <2>4, <2>5, <2>6 DEF Next, JobStep
<1> QED
  BY <1>1, <1>2, Working, PTL DEF Spec

-----------------------------------------------------------------------------
(* What carries a task goes on carrying it. *)
LEMMA StillCarried ==
  ASSUME NEW t, Carried(t),
         \A r \in Requests : request[r].step = "updated" /\ request[r].task = t =>
           request'[r].step = "updated" /\ request'[r].task = t,
         \A j \in Jobs : jobTask[j] = t /\ Pending(j) => jobTask'[j] = t /\ Pending(j)'
  PROVE  Carried(t)'
BY DEF Carried

(* While the queue and the database answer, no worker refuses a job and    *)
(* one worker dies at most, a task that says QUEUED or RUNNING is on its   *)
(* way.                                                                    *)
THEOREM ActiveTaskHasJobHolds == Spec => []ActiveTaskHasJob
<1>1. Init => ActiveTaskHasJob
  BY DEF Init, ActiveTaskHasJob
<1>2. WorkInv /\ DeathInv /\ ActiveTaskHasJob /\ [Next]_vars => ActiveTaskHasJob'
  <2> DEFINE Calm == faults \subseteq {"overlap"} /\ deaths <= 1
             Active(t) == status[t] \in {"QUEUED", "RUNNING"}
  <2> SUFFICES ASSUME WorkInv, DeathInv, ActiveTaskHasJob, [Next]_vars, Calm',
                      NEW t \in Tasks, Active(t)'
               PROVE  Carried(t)'
    BY DEF ActiveTaskHasJob, Carried, Pending
  <2>1. ASSUME Calm, Active(t) PROVE Carried(t)
    BY <2>1 DEF ActiveTaskHasJob, Carried
  <2>2. \A f \in Faults : ~Suffer(f)
    BY FaultAssumption DEF Suffer, FaultKinds
  <2>3. ASSUME NEW s \in Tasks, Create(s) PROVE Carried(t)'
    <3>1. Calm /\ Active(t)
      BY <2>3 DEF Create, historyVars, WorkInv, TypeOK
    <3> QED
      BY <2>1, <2>3, <3>1, StillCarried DEF Create, jobVars, Pending
  <2>4. ASSUME NEW r \in Requests, NEW s \in Tasks, NEW action \in {"queue", "cancel"}, Find(r, s, action)
        PROVE  Carried(t)'
    <3>1. Calm /\ Active(t)
      BY <2>4 DEF Find, columns
    <3>2. \A q \in Requests : request[q].step = "updated" => request'[q] = request[q]
      BY <2>4 DEF Find, WorkInv, TypeOK
    <3> QED
      BY <2>1, <2>4, <3>1, <3>2, StillCarried DEF Find, jobVars, Pending
  <2>5. ASSUME NEW r \in Requests, Cancel(r) \/ Conflict(r) PROVE Carried(t)'
    <3>1. Calm /\ Active(t)
      BY <2>5 DEF Cancel, Conflict, columns, historyVars, WorkInv, TypeOK
    <3>2. \A q \in Requests : request[q].step = "updated" => request'[q] = request[q]
      BY <2>5 DEF Cancel, Conflict, Respond, WorkInv, TypeOK
    <3>3. UNCHANGED <<jobTask, jobState, step>>
      BY <2>5 DEF Cancel, Conflict, jobVars
    <3> QED
      BY <2>1, <3>1, <3>2, <3>3, StillCarried DEF Pending
  <2>6. ASSUME NEW r \in Requests, SetQueued(r) PROVE Carried(t)'
    <3>1. request' = [request EXCEPT ![r].step = "updated"] /\ request[r].step = "found"
      BY <2>6 DEF SetQueued
    <3>2. request'[r].step = "updated" /\ request'[r].task = request[r].task
      BY <3>1 DEF WorkInv, TypeOK
    <3>3. CASE t = request[r].task
      BY <3>2, <3>3 DEF Carried
    <3>4. CASE t # request[r].task
      <4>1. Calm /\ Active(t)
        BY <2>6, <3>4 DEF SetQueued, historyVars, WorkInv, TypeOK
      <4>2. \A q \in Requests : request[q].step = "updated" => request'[q] = request[q]
        BY <3>1 DEF WorkInv, TypeOK
      <4> QED
        BY <2>1, <2>6, <4>1, <4>2, StillCarried DEF SetQueued, jobVars, Pending
    <3> QED
      BY <3>3, <3>4
  <2>7. ASSUME NEW r \in Requests, NEW j \in Jobs, EnqueueTask(r, j) PROVE Carried(t)'
    <3>1. /\ jobState'[j] = "waiting" /\ jobTask'[j] = request[r].task
          /\ \A k \in Jobs \ {j} : jobState'[k] = jobState[k] /\ jobTask'[k] = jobTask[k]
          /\ step' = step
      BY <2>7 DEF EnqueueTask, WorkInv, TypeOK
    <3>2. CASE t = request[r].task
      BY <3>1, <3>2 DEF Carried, Pending
    <3>3. CASE t # request[r].task
      <4>1. Calm /\ Active(t)
        BY <2>7 DEF EnqueueTask, columns, historyVars
      <4>2. \A q \in Requests : q # r => request'[q] = request[q]
        BY <2>7 DEF EnqueueTask, Respond, WorkInv, TypeOK
      <4>3. ~Pending(j)
        BY <2>7 DEF EnqueueTask, Pending
      <4> QED
        BY <2>1, <3>1, <3>3, <4>1, <4>2, <4>3, StillCarried DEF Pending
    <3> QED
      BY <3>2, <3>3
  <2>8. ASSUME NEW j \in Jobs, Take(j) \/ TakeBack(j) \/ Record(j) \/ Die(j)
               \/ (\E outcome \in {"executed", "failing"} : Execute(j, outcome))
        PROVE  Carried(t)'
    <3>1. Calm /\ Active(t)
      <4>1. deaths' \in {deaths, deaths + 1} /\ deaths \in Nat
        BY <2>8, DeathAssumption DEF Take, TakeBack, Record, Die, Execute, historyVars, WorkInv, TypeOK
      <4>2. UNCHANGED <<status, faults>>
        BY <2>8 DEF Take, TakeBack, Record, Die, Execute, columns, historyVars
      <4> QED
        BY <4>1, <4>2
    <3>2. UNCHANGED <<request, jobTask>>
      BY <2>8 DEF Take, TakeBack, Record, Die, Execute
    <3>3. \A k \in Jobs : k # j => jobState'[k] = jobState[k] /\ step'[k] = step[k]
      BY <2>8 DEF Take, TakeBack, Record, Die, Execute, WorkInv, TypeOK
    <3>4. Pending(j) => Pending(j)'
      <4>1. CASE Take(j) \/ Record(j) \/ Die(j) \/ (\E outcome \in {"executed", "failing"} : Execute(j, outcome))
        BY <4>1 DEF Take, Record, Die, Execute, Pending, WorkInv, TypeOK
      <4>2. CASE TakeBack(j)
        <5>1. stalls[j] = 0
          BY <3>1, <4>2 DEF TakeBack, DeathInv, WorkInv, TypeOK
        <5> QED
          BY <4>2, <5>1 DEF TakeBack, Pending, WorkInv, TypeOK
      <4> QED
        BY <2>8, <4>1, <4>2
    <3> QED
      BY <2>1, <3>1, <3>2, <3>3, <3>4, StillCarried DEF Pending
  <2>9. ASSUME NEW j \in Jobs, MarkRunning(j) \/ ReportCompleted(j) \/ ReportFailed(j)
        PROVE  Carried(t)'
    <3>1. UNCHANGED <<request, jobTask, jobState, deaths, faults>> /\ jobState[j] = "active"
      BY <2>9 DEF MarkRunning, ReportCompleted, ReportFailed, WorkInv, historyVars
    <3>2. \A k \in Jobs : k # j => step'[k] = step[k]
      BY <2>9 DEF MarkRunning, ReportCompleted, ReportFailed, WorkInv, TypeOK
    <3>3. CASE t = jobTask[j]
      <4>1. MarkRunning(j)
        BY <2>9, <3>3 DEF ReportCompleted, ReportFailed, WorkInv, TypeOK
      <4>2. Pending(j)'
        BY <3>1, <4>1 DEF MarkRunning, Pending, WorkInv, TypeOK
      <4> QED
        BY <3>1, <3>3, <4>2 DEF Carried
    <3>4. CASE t # jobTask[j]
      <4>1. Calm /\ Active(t)
        BY <2>9, <3>1, <3>4 DEF MarkRunning, ReportCompleted, ReportFailed, WorkInv, TypeOK
      <4> QED
        BY <2>1, <3>1, <3>2, <3>4, <4>1, StillCarried DEF Pending
    <3> QED
      BY <3>3, <3>4
  <2>10. ASSUME NEW r \in Requests, EnqueueFails(r) PROVE Carried(t)'
    BY <2>2, <2>10 DEF EnqueueFails, Suffer
  <2>11. ASSUME NEW j \in Jobs, TakeNotReady(j) \/ UpdateFails(j) PROVE Carried(t)'
    BY <2>2, <2>11 DEF TakeNotReady, UpdateFails, Suffer
  <2>12. CASE UNCHANGED vars
    <3>1. Calm /\ Active(t)
      BY <2>12 DEF vars, columns, historyVars
    <3> QED
      BY <2>1, <2>12, <3>1, StillCarried DEF vars, jobVars, Pending
  <2> QED
    BY <2>3, <2>4, <2>5, <2>6, <2>7, <2>8, <2>9, <2>10, <2>11, <2>12
    DEF Next, HttpStep, JobStep, HandlerStep
<1> QED
  BY <1>1, <1>2, Working, Deaths, PTL DEF Spec

-----------------------------------------------------------------------------
(* As long as requests come one after the other and no worker dies, what   *)
(* they have read still holds when they write, a task has one run to come  *)
(* at most, and its columns agree.                                         *)
LEMMA Ordered == Spec => [](Sequential => InOrder)
<1>1. Init => InOrder
  BY DEF Init, InOrder, OrderedRequests, OneRunAtATime, ColumnsAgree, Pending, NoRequest
<1>2. WorkInv /\ (Sequential => InOrder) /\ [Next]_vars => (Sequential => InOrder)'
  <2> SUFFICES ASSUME WorkInv, Sequential => InOrder, [Next]_vars, Sequential'
               PROVE  InOrder'
    OBVIOUS
  <2>0. InOrder
    <3>1. deaths = 0
      <4>1. deaths' = 0 /\ deaths \in Nat
        BY DeathAssumption DEF Sequential, WorkInv, TypeOK
      <4>2. deaths' \in {deaths, deaths + 1}
        BY <4>1 DEF Next, HttpStep, JobStep, HandlerStep, vars, columns, jobVars, historyVars, Create,
           Find, Cancel, Conflict, SetQueued, EnqueueFails, EnqueueTask, Take, TakeNotReady, MarkRunning,
           Execute, ReportCompleted, ReportFailed, UpdateFails, Record, Die, TakeBack
      <4> QED
        BY <4>1, <4>2
    <3>2. faults \subseteq faults'
      BY DEF Next, HttpStep, JobStep, HandlerStep, vars, columns, jobVars, historyVars, Create,
         Find, Cancel, Conflict, SetQueued, EnqueueFails, EnqueueTask, Take, TakeNotReady, MarkRunning,
         Execute, ReportCompleted, ReportFailed, UpdateFails, Record, Die, TakeBack, Suffer
    <3> QED
      BY <3>1, <3>2 DEF Sequential
  <2>1. ASSUME NEW t \in Tasks, Create(t) PROVE InOrder'
    <3>1. /\ status[t] = "ABSENT" /\ status'[t] = "DRAFT"
          /\ \A s \in Tasks : s # t => status'[s] = status[s]
      BY <2>1 DEF Create, WorkInv, TypeOK
    <3>2. UNCHANGED <<startedAt, completedAt, error, request, jobTask, jobState, step>>
      BY <2>1 DEF Create, jobVars
    <3>3. \A j \in Jobs : Pending(j) => jobTask[j] # t /\ jobTask[j] \in Tasks
      BY <3>1 DEF Pending, WorkInv, Exists
    <3>4. \A r \in Requests : request[r].step # "none" => request[r].task # t /\ request[r].task \in Tasks
      BY <3>1 DEF WorkInv, Exists
    <3>5. OrderedRequests'
      BY <2>0, <3>1, <3>2, <3>3, <3>4 DEF InOrder, OrderedRequests, Pending
    <3>6. OneRunAtATime'
      BY <2>0, <3>2 DEF InOrder, OneRunAtATime, Pending
    <3>7. ColumnsAgree'
      BY <2>0, <3>1, <3>2 DEF InOrder, ColumnsAgree
    <3> QED
      BY <3>5, <3>6, <3>7 DEF InOrder
  <2>2. ASSUME NEW r \in Requests, NEW t \in Tasks, NEW action \in {"queue", "cancel"}, Find(r, t, action)
        PROVE  InOrder'
    <3>1. \A q \in Requests : request[q].step = "none"
      BY <2>2 DEF Find, Sequential
    <3>2. /\ request'[r].step = "found" /\ request'[r].task = t /\ request'[r].seen = status[t]
          /\ \A q \in Requests : q # r => request'[q] = request[q]
      BY <2>2 DEF Find, WorkInv, TypeOK
    <3>3. UNCHANGED <<status, startedAt, completedAt, error, jobTask, jobState, step>>
      BY <2>2 DEF Find, columns, jobVars
    <3>4. OrderedRequests'
      BY <2>0, <3>1, <3>2, <3>3 DEF InOrder, OrderedRequests, Pending
    <3> QED
      BY <2>0, <3>3, <3>4 DEF InOrder, OneRunAtATime, ColumnsAgree, Pending
  <2>3. ASSUME NEW r \in Requests, Cancel(r) PROVE InOrder'
    <3>1. /\ request[r].step = "found" /\ request'[r].step = "none" /\ request[r].task \in Tasks
          /\ \A q \in Requests : q # r => request'[q] = request[q] /\ request[q].step = "none"
      BY <2>0, <2>3 DEF Cancel, Respond, NoRequest, InOrder, OrderedRequests, WorkInv, TypeOK, Exists
    <3>2. /\ status' = [status EXCEPT ![request[r].task] = "CANCELLED"]
          /\ completedAt' = [completedAt EXCEPT ![request[r].task] = TRUE]
          /\ UNCHANGED <<startedAt, error, jobTask, jobState, step>>
      BY <2>3 DEF Cancel, jobVars
    <3>3. OrderedRequests'
      BY <2>0, <3>1, <3>2 DEF InOrder, OrderedRequests, Pending, WorkInv, TypeOK, Queueable
    <3>4. ColumnsAgree'
      BY <2>0, <3>1, <3>2 DEF InOrder, ColumnsAgree, WorkInv, TypeOK
    <3> QED
      BY <2>0, <3>2, <3>3, <3>4 DEF InOrder, OneRunAtATime, Pending
  <2>4. ASSUME NEW r \in Requests, Conflict(r) \/ EnqueueFails(r) PROVE InOrder'
    <3>1. /\ request'[r].step = "none"
          /\ \A q \in Requests : q # r => request'[q] = request[q]
      BY <2>4 DEF Conflict, EnqueueFails, Respond, NoRequest, WorkInv, TypeOK
    <3>2. UNCHANGED <<status, startedAt, completedAt, error, jobTask, jobState, step>>
      BY <2>4 DEF Conflict, EnqueueFails, columns, jobVars
    <3>3. OrderedRequests'
      BY <2>0, <3>1, <3>2 DEF InOrder, OrderedRequests, Pending
    <3> QED
      BY <2>0, <3>2, <3>3 DEF InOrder, OneRunAtATime, ColumnsAgree, Pending
  <2>5. ASSUME NEW r \in Requests, SetQueued(r) PROVE InOrder'
    <3> DEFINE t == request[r].task
    <3>1. /\ request[r].step = "found" /\ t \in Tasks /\ status[t] \in Queueable
          /\ \A q \in Requests : q # r => request[q].step = "none"
      BY <2>0, <2>5 DEF SetQueued, InOrder, OrderedRequests, WorkInv, Exists
    <3>2. /\ request'[r].step = "updated" /\ request'[r].task = t
          /\ \A q \in Requests : q # r => request'[q] = request[q]
      BY <2>5 DEF SetQueued, WorkInv, TypeOK
    <3>3. /\ status'[t] = "QUEUED" /\ ~error'[t]
          /\ \A s \in Tasks : s # t => status'[s] = status[s] /\ error'[s] = error[s]
      BY <2>5, <3>1 DEF SetQueued, WorkInv, TypeOK
    <3>4. UNCHANGED <<startedAt, completedAt, jobTask, jobState, step>>
      BY <2>5 DEF SetQueued, jobVars
    <3>5. \A j \in Jobs : Pending(j) => jobTask[j] # t /\ jobTask[j] \in Tasks
      BY <2>0, <3>1 DEF InOrder, OrderedRequests, Pending, WorkInv, Exists
    <3> HIDE DEF t
    <3>6. OrderedRequests'
      BY <2>0, <3>1, <3>2, <3>3, <3>4, <3>5 DEF InOrder, OrderedRequests, Pending
    <3>7. ColumnsAgree'
      BY <2>0, <3>3, <3>4 DEF InOrder, ColumnsAgree
    <3> QED
      BY <2>0, <3>4, <3>6, <3>7 DEF InOrder, OneRunAtATime, Pending
  <2>6. ASSUME NEW r \in Requests, NEW j \in Jobs, EnqueueTask(r, j) PROVE InOrder'
    <3>1. /\ request[r].step = "updated" /\ request'[r].step = "none"
          /\ \A q \in Requests : q # r => request'[q] = request[q] /\ request[q].step = "none"
      BY <2>0, <2>6 DEF EnqueueTask, Respond, NoRequest, InOrder, OrderedRequests, WorkInv, TypeOK
    <3>2. /\ jobTask'[j] = request[r].task
          /\ \A k \in Jobs : k # j => jobTask'[k] = jobTask[k] /\ (Pending(k)' <=> Pending(k))
      BY <2>6 DEF EnqueueTask, Pending, WorkInv, TypeOK
    <3>3. UNCHANGED <<status, startedAt, completedAt, error>>
      BY <2>6 DEF EnqueueTask, columns
    <3>4. status[request[r].task] = "QUEUED" /\ ~error[request[r].task]
      BY <2>0, <3>1 DEF InOrder, OrderedRequests
    <3>5. OrderedRequests'
      BY <2>0, <3>1, <3>2, <3>3, <3>4 DEF InOrder, OrderedRequests, Queueable
    <3>6. OneRunAtATime'
      BY <2>0, <3>1, <3>2 DEF InOrder, OrderedRequests, OneRunAtATime
    <3> QED
      BY <2>0, <3>3, <3>5, <3>6 DEF InOrder, ColumnsAgree
  <2>7. ASSUME NEW j \in Jobs, Take(j) \/ TakeNotReady(j) \/ TakeBack(j) \/ Record(j) \/ UpdateFails(j)
               \/ (\E outcome \in {"executed", "failing"} : Execute(j, outcome))
        PROVE  InOrder'
    <3>1. UNCHANGED <<status, startedAt, completedAt, error, request, jobTask>>
      BY <2>7 DEF Take, TakeNotReady, TakeBack, Record, UpdateFails, Execute, columns
    <3>2. Pending(j)' => Pending(j)
      BY <2>7 DEF Take, TakeNotReady, TakeBack, Record, UpdateFails, Execute, Pending, WorkInv, TypeOK
    <3>3. \A k \in Jobs : k # j => jobState'[k] = jobState[k] /\ step'[k] = step[k]
      BY <2>7 DEF Take, TakeNotReady, TakeBack, Record, UpdateFails, Execute, WorkInv, TypeOK
    <3>4. \A k \in Jobs : Pending(k)' => Pending(k)
      BY <3>2, <3>3 DEF Pending
    <3> QED
      BY <2>0, <3>1, <3>4 DEF InOrder, OrderedRequests, OneRunAtATime, ColumnsAgree
  <2>8. ASSUME NEW j \in Jobs, MarkRunning(j) \/ ReportCompleted(j) \/ ReportFailed(j)
        PROVE  InOrder'
    <3> DEFINE t == jobTask[j]
    <3>1. Pending(j) /\ t \in Tasks
      BY <2>8 DEF MarkRunning, ReportCompleted, ReportFailed, Pending, WorkInv, Exists
    <3>2. UNCHANGED <<request, jobTask, jobState>>
      BY <2>8 DEF MarkRunning, ReportCompleted, ReportFailed
    <3>3. \A k \in Jobs : Pending(k)' => Pending(k)
      BY <2>8, <3>1, <3>2 DEF MarkRunning, ReportCompleted, ReportFailed, Pending, WorkInv, TypeOK
    <3>4. \A k \in Jobs : Pending(k)' /\ k # j => jobTask[k] # t
      BY <2>0, <3>1, <3>3 DEF InOrder, OneRunAtATime
    <3>5. /\ status[t] \notin Queueable /\ ~error[t]
          /\ \A r \in Requests : request[r].step = "updated" => request[r].task # t
      BY <2>0, <3>1 DEF InOrder, OrderedRequests
    <3>6. \A s \in Tasks : s # t => /\ status'[s] = status[s] /\ startedAt'[s] = startedAt[s]
                                    /\ completedAt'[s] = completedAt[s] /\ error'[s] = error[s]
      BY <2>8, <3>1 DEF MarkRunning, ReportCompleted, ReportFailed, WorkInv, TypeOK
    <3>7. \/ MarkRunning(j) /\ status'[t] = "RUNNING" /\ startedAt'[t] /\ ~completedAt'[t] /\ ~error'[t]
          \/ ReportCompleted(j) /\ status'[t] = "COMPLETED" /\ completedAt'[t] /\ ~error'[t]
          \/ ReportFailed(j) /\ status'[t] = "FAILED" /\ completedAt'[t]
      BY <2>8, <3>1, <3>5 DEF MarkRunning, ReportCompleted, ReportFailed, WorkInv, TypeOK
    <3>8. ReportFailed(j) => ~Pending(j)'
      BY DEF ReportFailed, Pending, WorkInv, TypeOK
    <3>9. \A r \in Requests : request[r].step # "none" => request[r].task \in Tasks
      BY DEF WorkInv, Exists
    <3>10. \A k \in Jobs : Pending(k) => jobTask[k] \in Tasks
      BY DEF WorkInv, Exists, Pending
    <3> HIDE DEF t
    <3>11. OrderedRequests'
      <4>1. \A r \in Requests :
              request[r].step = "found" /\ request[r].action = "queue" /\ request[r].seen \in Queueable =>
                status'[request[r].task] = request[r].seen
        BY <2>0, <3>5, <3>6, <3>9 DEF InOrder, OrderedRequests
      <4>2. \A r \in Requests : request[r].step = "updated" =>
              status'[request[r].task] = "QUEUED" /\ ~error'[request[r].task]
        BY <2>0, <3>5, <3>6, <3>9 DEF InOrder, OrderedRequests
      <4>3. \A k \in Jobs : Pending(k)' =>
              status'[jobTask[k]] \notin Queueable /\ ~error'[jobTask[k]]
        <5> SUFFICES ASSUME NEW k \in Jobs, Pending(k)'
                     PROVE  status'[jobTask[k]] \notin Queueable /\ ~error'[jobTask[k]]
          OBVIOUS
        <5>1. CASE k = j
          BY <3>7, <3>8, <5>1 DEF t, Queueable
        <5>2. CASE k # j
          BY <2>0, <3>3, <3>4, <3>6, <3>10, <5>2 DEF InOrder, OrderedRequests
        <5> QED
          BY <5>1, <5>2
      <4> QED
        BY <2>0, <3>2, <3>3, <4>1, <4>2, <4>3 DEF InOrder, OrderedRequests
    <3>12. OneRunAtATime'
      BY <2>0, <3>2, <3>3 DEF InOrder, OneRunAtATime
    <3>13. ColumnsAgree'
      BY <2>0, <3>6, <3>7 DEF InOrder, ColumnsAgree
    <3> QED
      BY <3>11, <3>12, <3>13 DEF InOrder
  <2>9. ASSUME NEW j \in Jobs, Die(j) PROVE FALSE
    BY <2>9, DeathAssumption DEF Die, Sequential, WorkInv, TypeOK
  <2>10. CASE UNCHANGED vars
    BY <2>0, <2>10 DEF vars, columns, jobVars, InOrder, OrderedRequests, OneRunAtATime, ColumnsAgree, Pending
  <2> QED
    BY <2>1, <2>2, <2>3, <2>4, <2>5, <2>6, <2>7, <2>8, <2>9, <2>10
    DEF Next, HttpStep, JobStep, HandlerStep
<1> QED
  BY <1>1, <1>2, Working, PTL DEF Spec

(* Sequential requests and workers that live: one run of a task at a time, *)
(* and columns that agree.                                                 *)
THEOREM SequentialTasksHolds == Spec => []SequentialTasks
<1>1. (Sequential => InOrder) => SequentialTasks
  BY DEF InOrder, SequentialTasks
<1> QED
  BY <1>1, Ordered, PTL
=============================================================================
