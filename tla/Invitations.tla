------------------------------ MODULE Invitations ------------------------------
(***************************************************************************)
(* Invitation tasks: the imports that fill them, the requests that queue   *)
(* them, and the PROCESS_INVITATION_ITEM jobs that invite their users.     *)
(*                                                                         *)
(* A task may only use the account its target chat belongs to, once        *)
(* (POST /api/invitations/tasks and the unique index of                    *)
(* InvitationTaskAccount), so a job works under the lock of one account;   *)
(* the tasks modelled here are those of one account.                       *)
(*                                                                         *)
(* Queueing looks at no status, so a task may be carried by several jobs.  *)
(* A job reads the users of its task once, before it asks for the lock,    *)
(* and then invites those that were PENDING, with a write before and a     *)
(* write after each call to Telegram.                                      *)
(***************************************************************************)
EXTENDS Integers, FiniteSets

CONSTANTS
  Tasks,
  Users,          \* rows of InvitationUser
  TaskOf,         \* the task a user is imported into
  Jobs,           \* bound: the commands ever enqueued
  NoTask, NoUser,
  Nobody,         \* the account lock is free
  Ghost,          \* the account lock is held by a job that is gone
  TelegramErrors, \* what a call to Telegram may be refused with
  Faults,         \* what may go wrong besides (FaultKinds)
  MaxDeaths       \* bound: how many workers die in the middle of a job

(* "lease": the work takes longer than the lock's time to live;            *)
(* "store": a write to PostgreSQL or the release in Redis fails.           *)
FaultKinds == {"lease", "store"}

ASSUME FaultAssumption == Faults \subseteq FaultKinds
ASSUME TaskOfAssumption == TaskOf \in [Users -> Tasks]
ASSUME NobodyAssumption == Nobody \notin Jobs /\ Ghost \notin Jobs /\ Nobody # Ghost
ASSUME NothingAssumption == NoTask \notin Tasks /\ NoUser \notin Users
ASSUME ErrorAssumption ==
  TelegramErrors \subseteq {"FLOOD_WAIT", "PEER_FLOOD", "USER_PRIVACY_RESTRICTED",
                            "USER_NOT_FOUND", "USER_ALREADY_PARTICIPANT", "TIMEOUT"}
ASSUME DeathAssumption == MaxDeaths \in Nat

VARIABLES
  taskStatus,   \* InvitationTask.status
  userStatus,   \* InvitationUser.status, "ABSENT" before the import
  members,      \* Telegram: the users that are in the target chat
  waiting,      \* Telegram: the account has been told FLOOD_WAIT and must wait
  owner,        \* Redis: whose lease the account lock stores
  jobTask, jobState, stalls,   \* BullMQ
  step,         \* where the handler of each job is
  todo,         \* the users its loop has still to invite
  user,         \* the user it is inviting
  error,        \* the last error Telegram or the database gave it
  failed,       \* its counter failed is positive
  missing,      \* history: whom Telegram reported as missing from a call that returned
  deaths,       \* history: how many workers have died
  faults        \* history: what has gone wrong

queueVars == <<jobTask, jobState, stalls>>
loopVars == <<todo, user, error, failed>>
historyVars == <<missing, deaths, faults>>
vars == <<taskStatus, userStatus, members, waiting, owner, queueVars, step, loopVars, historyVars>>

Errors == TelegramErrors \cup {"DATABASE"}

(* Mutants of Classify: the code of the error is stored as it is; a text   *)
(* that does not spell FLOOD_WAIT; a lost call is taken for a success.     *)
ClassifyRaw(e) == e
ClassifyMisspelt(e) == IF e = "USER_ALREADY_PARTICIPANT" THEN "ALREADY_MEMBER" ELSE "FAILED"
ClassifyHopeful(e) ==
  CASE e = "FLOOD_WAIT" -> "FLOOD_WAIT"
    [] e \in {"USER_ALREADY_PARTICIPANT", "TIMEOUT"} -> "ALREADY_MEMBER"
    [] OTHER -> "FAILED"

(* classifyInvitationError *)
Classify(e) ==
  CASE e = "FLOOD_WAIT" -> "FLOOD_WAIT"
    [] e = "USER_PRIVACY_RESTRICTED" -> "PRIVACY_RESTRICTED"
    [] e = "USER_NOT_FOUND" -> "NOT_FOUND"
    [] e = "USER_ALREADY_PARTICIPANT" -> "ALREADY_MEMBER"
    [] OTHER -> "FAILED"

UserStatuses == {"ABSENT", "PENDING", "PROCESSING", "INVITED", "ALREADY_MEMBER",
                 "PRIVACY_RESTRICTED", "NOT_FOUND", "FLOOD_WAIT", "FAILED"}

TypeOK ==
  /\ taskStatus \in [Tasks -> {"DRAFT", "COMPLETED", "FAILED"}]
  /\ userStatus \in [Users -> UserStatuses]
  /\ members \in SUBSET Users
  /\ missing \in SUBSET Users
  /\ waiting \in BOOLEAN
  /\ owner \in Jobs \cup {Nobody, Ghost}
  /\ jobTask \in [Jobs -> Tasks \cup {NoTask}]
  /\ jobState \in [Jobs -> {"absent", "waiting", "active", "completed", "failed"}]
  /\ stalls \in [Jobs -> 0 .. 1]
  /\ step \in [Jobs -> {"none", "taken", "found", "inviting", "calling", "joined", "refused",
                        "bailing", "closing", "returned", "threw"}]
  /\ todo \in [Jobs -> SUBSET Users]
  /\ user \in [Jobs -> Users \cup {NoUser}]
  /\ error \in [Jobs -> Errors \cup {"none"}]
  /\ failed \in [Jobs -> BOOLEAN]
  /\ deaths \in 0 .. MaxDeaths
  /\ faults \in SUBSET Faults

Init ==
  /\ taskStatus = [t \in Tasks |-> "DRAFT"]
  /\ userStatus = [u \in Users |-> "ABSENT"]
  /\ members \in SUBSET Users
  /\ waiting = FALSE
  /\ owner = Nobody
  /\ jobTask = [j \in Jobs |-> NoTask]
  /\ jobState = [j \in Jobs |-> "absent"]
  /\ stalls = [j \in Jobs |-> 0]
  /\ step = [j \in Jobs |-> "none"]
  /\ todo = [j \in Jobs |-> {}]
  /\ user = [j \in Jobs |-> NoUser]
  /\ error = [j \in Jobs |-> "none"]
  /\ failed = [j \in Jobs |-> FALSE]
  /\ missing = {}
  /\ deaths = 0
  /\ faults = {}

Goto(j, s) == step' = [step EXCEPT ![j] = s]

(* A fault of kind f happens. *)
Suffer(f) ==
  /\ f \in Faults
  /\ faults' = faults \cup {f}

-----------------------------------------------------------------------------
(* POST /api/invitations/import: some rows of a file become PENDING users. *)
Import(t, rows) ==
  /\ rows # {}
  /\ \A u \in rows : TaskOf[u] = t /\ userStatus[u] = "ABSENT"
  /\ userStatus' = [u \in Users |-> IF u \in rows THEN "PENDING" ELSE userStatus[u]]
  /\ UNCHANGED <<taskStatus, members, waiting, owner, queueVars, step, loopVars, historyVars>>

(* POST /api/invitations/tasks/:id/queue of a task that has users. *)
Queue(t, j) ==
  /\ jobState[j] = "absent"
  /\ \E u \in Users : TaskOf[u] = t /\ userStatus[u] # "ABSENT"
  /\ jobState' = [jobState EXCEPT ![j] = "waiting"]
  /\ jobTask' = [jobTask EXCEPT ![j] = t]
  /\ UNCHANGED <<taskStatus, userStatus, members, waiting, owner, stalls, step, loopVars, historyVars>>

(* A worker is handed the job. *)
Take(j) ==
  /\ jobState[j] = "waiting"
  /\ jobState' = [jobState EXCEPT ![j] = "active"]
  /\ Goto(j, "taken")
  /\ UNCHANGED <<taskStatus, userStatus, members, waiting, owner, jobTask, stalls, loopVars, historyVars>>

(* prisma.invitationTask.findUnique, and the filter on its answer. *)
FindTask(j) ==
  /\ step[j] = "taken"
  /\ todo' = [todo EXCEPT ![j] =
       {u \in Users : TaskOf[u] = jobTask[j] /\ userStatus[u] = "PENDING"}]
  /\ Goto(j, "found")
  /\ UNCHANGED <<taskStatus, userStatus, members, waiting, owner, queueVars, user, error,
                 failed, historyVars>>

(* Mutant of Free: the lock lets another job of the same task in. *)
FreeForTheTask(j) == owner = Nobody \/ (owner \in Jobs /\ jobTask[owner] = jobTask[j])

(* SET ... NX finds no key. *)
Free(j) == owner = Nobody

(* lock.acquire() of the account of the task answers a lease. *)
Acquire(j) ==
  /\ step[j] = "found"
  /\ Free(j)
  /\ owner' = j
  /\ Goto(j, "inviting")
  /\ UNCHANGED <<taskStatus, userStatus, members, waiting, queueVars, loopVars, historyVars>>

(* No lease: the account is skipped, and with it the whole list. *)
Skip(j) ==
  /\ step[j] = "found"
  /\ ~Free(j)
  /\ todo' = [todo EXCEPT ![j] = {}]
  /\ Goto(j, "closing")
  /\ UNCHANGED <<taskStatus, userStatus, members, waiting, owner, queueVars, user, error,
                 failed, historyVars>>

(* The next user of the list is PROCESSING; gateway.inviteUser is called. *)
StartUser(j, u) ==
  /\ step[j] = "inviting"
  /\ u \in todo[j]
  /\ userStatus' = [userStatus EXCEPT ![u] = "PROCESSING"]
  /\ todo' = [todo EXCEPT ![j] = @ \ {u}]
  /\ user' = [user EXCEPT ![j] = u]
  /\ Goto(j, "calling")
  /\ UNCHANGED <<taskStatus, members, waiting, owner, queueVars, error, failed, historyVars>>

(* The call returns.  Telegram has let the user in, or its result names    *)
(* the user as one it could not invite: the gateway does not read it.      *)
Invite(j) ==
  /\ step[j] = "calling"
  /\ \/ members' = members \cup {user[j]} /\ UNCHANGED missing
     \/ user[j] \notin members /\ missing' = missing \cup {user[j]} /\ UNCHANGED members
  /\ Goto(j, "joined")
  /\ UNCHANGED <<taskStatus, userStatus, waiting, owner, queueVars, loopVars, deaths, faults>>

(* The call rejects.  A call that is only lost may have been carried out.  *)
InviteFails(j, e) ==
  /\ step[j] = "calling"
  /\ e = "USER_ALREADY_PARTICIPANT" => user[j] \in members
  /\ \/ UNCHANGED members
     \/ e = "TIMEOUT" /\ members' = members \cup {user[j]}
  /\ waiting' = (waiting \/ e = "FLOOD_WAIT")
  /\ error' = [error EXCEPT ![j] = e]
  /\ Goto(j, "refused")
  /\ UNCHANGED <<taskStatus, userStatus, owner, queueVars, todo, user, failed, historyVars>>

ReportInvited(j) ==
  /\ step[j] = "joined"
  /\ userStatus' = [userStatus EXCEPT ![user[j]] = "INVITED"]
  /\ user' = [user EXCEPT ![j] = NoUser]
  /\ Goto(j, "inviting")
  /\ UNCHANGED <<taskStatus, members, waiting, owner, queueVars, todo, error, failed, historyVars>>

(* catch: the classified status, and the loop is left on FLOOD_WAIT only.  *)
ReportRefused(j) ==
  /\ step[j] = "refused"
  /\ userStatus' = [userStatus EXCEPT ![user[j]] = Classify(error[j])]
  /\ failed' = [failed EXCEPT ![j] = TRUE]
  /\ todo' = [todo EXCEPT ![j] = IF Classify(error[j]) = "FLOOD_WAIT" THEN {} ELSE @]
  /\ user' = [user EXCEPT ![j] = NoUser]
  /\ Goto(j, "inviting")
  /\ UNCHANGED <<taskStatus, members, waiting, owner, queueVars, error, historyVars>>

(* finally { lease.release() }, at the end of the list or on an exception. *)
Release(j) ==
  /\ step[j] = "bailing" \/ (step[j] = "inviting" /\ todo[j] = {})
  /\ owner' = IF owner = j THEN Nobody ELSE owner
  /\ Goto(j, IF step[j] = "bailing" THEN "threw" ELSE "closing")
  /\ UNCHANGED <<taskStatus, userStatus, members, waiting, queueVars, loopVars, historyVars>>

CloseTask(j) ==
  /\ step[j] = "closing"
  /\ taskStatus' = [taskStatus EXCEPT ![jobTask[j]] = IF failed[j] THEN "FAILED" ELSE "COMPLETED"]
  /\ Goto(j, "returned")
  /\ UNCHANGED <<userStatus, members, waiting, owner, queueVars, loopVars, historyVars>>

(* PostgreSQL rejects an update: that of INVITED is inside the try block    *)
(* whose catch classifies Telegram's errors, the others throw.             *)
UpdateFails(j) ==
  /\ Suffer("store")
  /\ \/ /\ step[j] = "joined"
        /\ error' = [error EXCEPT ![j] = "DATABASE"]
        /\ Goto(j, "refused")
     \/ /\ step[j] = "refused" \/ (step[j] = "inviting" /\ todo[j] # {})
        /\ Goto(j, "bailing")
        /\ UNCHANGED error
     \/ /\ step[j] = "closing"
        /\ Goto(j, "threw")
        /\ UNCHANGED error
  /\ UNCHANGED <<taskStatus, userStatus, members, waiting, owner, queueVars, todo, user,
                 failed, missing, deaths>>

(* The handler is gone, and what it knew with it. *)
Forget(j) ==
  /\ todo' = [todo EXCEPT ![j] = {}]
  /\ user' = [user EXCEPT ![j] = NoUser]
  /\ error' = [error EXCEPT ![j] = "none"]
  /\ failed' = [failed EXCEPT ![j] = FALSE]
  /\ owner' = IF owner = j THEN Ghost ELSE owner
  /\ UNCHANGED <<taskStatus, userStatus, members, waiting>>

(* The release rejects: the job throws and the lock stays until it expires. *)
ReleaseFails(j) ==
  /\ Suffer("store")
  /\ step[j] = "bailing" \/ (step[j] = "inviting" /\ todo[j] = {})
  /\ Goto(j, "threw")
  /\ Forget(j)
  /\ UNCHANGED <<queueVars, missing, deaths>>

(* BullMQ records the outcome; a job has one attempt. *)
Record(j) ==
  /\ step[j] \in {"returned", "threw"}
  /\ jobState' = [jobState EXCEPT ![j] = IF step[j] = "returned" THEN "completed" ELSE "failed"]
  /\ Goto(j, "none")
  /\ Forget(j)
  /\ UNCHANGED <<jobTask, stalls, historyVars>>

(* The worker dies; another one finds the stalled job, which is handed     *)
(* over once more and fails the second time.                               *)
Die(j) ==
  /\ deaths < MaxDeaths
  /\ step[j] # "none"
  /\ deaths' = deaths + 1
  /\ Goto(j, "none")
  /\ Forget(j)
  /\ UNCHANGED <<queueVars, missing, faults>>

TakeBack(j) ==
  /\ jobState[j] = "active"
  /\ step[j] = "none"
  /\ jobState' = [jobState EXCEPT ![j] = IF stalls[j] = 0 THEN "waiting" ELSE "failed"]
  /\ stalls' = [stalls EXCEPT ![j] = 1]
  /\ UNCHANGED <<taskStatus, userStatus, members, waiting, owner, jobTask, step, loopVars, historyVars>>

(* The time to live of the lock is over: nobody renews it.                 *)
Expire ==
  /\ \/ owner = Ghost /\ UNCHANGED faults
     \/ owner \in Jobs /\ Suffer("lease")
  /\ owner' = Nobody
  /\ UNCHANGED <<taskStatus, userStatus, members, waiting, queueVars, step, loopVars, missing, deaths>>

(* The wait Telegram asked for is over. *)
WaitOver ==
  /\ waiting
  /\ waiting' = FALSE
  /\ UNCHANGED <<taskStatus, userStatus, members, owner, queueVars, step, loopVars, historyVars>>

UserStep(j) ==
  \/ \E u \in Users : StartUser(j, u)
  \/ Invite(j)
  \/ \E e \in TelegramErrors : InviteFails(j, e)
  \/ ReportInvited(j)
  \/ ReportRefused(j)

HandlerStep(j) ==
  \/ FindTask(j) \/ Acquire(j) \/ Skip(j) \/ UserStep(j)
  \/ Release(j) \/ CloseTask(j) \/ UpdateFails(j) \/ ReleaseFails(j)

JobStep(j) == Take(j) \/ HandlerStep(j) \/ Record(j) \/ TakeBack(j)

Next ==
  \/ \E t \in Tasks, rows \in SUBSET Users : Import(t, rows)
  \/ \E t \in Tasks, j \in Jobs : Queue(t, j)
  \/ \E j \in Jobs : JobStep(j) \/ Die(j)
  \/ Expire
  \/ WaitOver

Spec == Init /\ [][Next]_vars

-----------------------------------------------------------------------------
UnderLock == {"inviting", "calling", "joined", "refused", "bailing"}

(* As long as the work fits in the lock's time to live, one job at a time  *)
(* invites through the account, whatever workers die, whatever writes fail *)
(* and however often the same list is queued ...                           *)
OneInviterPerAccount ==
  "lease" \notin faults => \A j \in Jobs : step[j] \in UnderLock => owner = j

(* ... so a user is PROCESSING only while one job is inviting it, although *)
(* the jobs of a task work on lists they read before they had the lock.    *)
ProcessingHasItsJob ==
  (faults = {} /\ deaths = 0) =>
    \A u \in Users :
      userStatus[u] = "PROCESSING" <=> \E j \in Jobs : user[j] = u

(* The table never claims an invitation that Telegram did not carry out,   *)
(* but for the users a call that returned has named as missing.            *)
InvitedIsMember ==
  \A u \in Users :
    userStatus[u] \in {"INVITED", "ALREADY_MEMBER"} => u \in members \/ u \in missing

(* Told FLOOD_WAIT, a job invites nobody else and does not call its task   *)
(* completed.                                                              *)
FloodStopsTheJob ==
  [][\A j \in Jobs : error[j] = "FLOOD_WAIT" =>
       /\ step'[j] # "calling"
       /\ step[j] = "closing" /\ step'[j] = "returned" => taskStatus'[jobTask[j]] = "FAILED"]_vars

(* telegram_vds_full_prompt_updated.txt: after FLOOD_WAIT the account does *)
(* not invite anybody before the time Telegram asked for is over.          *)
FloodWaitIsKept ==
  [][\A j \in Jobs : step[j] = "inviting" /\ step'[j] = "calling" => ~waiting]_vars
=============================================================================
