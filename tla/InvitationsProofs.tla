---------------------------- MODULE InvitationsProofs ---------------------------
(***************************************************************************)
(* Theorems about Invitations, for any tasks, users and jobs, any number   *)
(* of deaths and any faults.                                               *)
(***************************************************************************)
EXTENDS Invitations, TLAPS

(* The steps at which the handler of a job is busy with one user. *)
AtUser(j) == step[j] \in {"calling", "joined", "refused"}

(* What the steps of a handler rely on: it has a user while it is busy     *)
(* with one, its job is active, and a job that was enqueued has a task.    *)
StepInv ==
  /\ TypeOK
  /\ \A j \in Jobs : AtUser(j) => user[j] \in Users
  /\ \A j \in Jobs : step[j] # "none" => jobState[j] = "active"
  /\ \A j \in Jobs : jobState[j] # "absent" => jobTask[j] \in Tasks

(* StepInv holds in every state. *)
LEMMA Steps == Spec => []StepInv
<1>1. Init => StepInv
  <2> SUFFICES ASSUME Init PROVE StepInv
    OBVIOUS
  <2>1. TypeOK
    <3>1. /\ taskStatus \in [Tasks -> {"DRAFT", "COMPLETED", "FAILED"}]
          /\ userStatus \in [Users -> UserStatuses]
      BY DEF Init, UserStatuses
    <3>2. members \in SUBSET Users /\ missing \in SUBSET Users /\ waiting \in BOOLEAN /\ owner \in Jobs \cup {Nobody, Ghost}
      BY DEF Init
    <3>3. /\ jobTask \in [Jobs -> Tasks \cup {NoTask}]
          /\ jobState \in [Jobs -> {"absent", "waiting", "active", "completed", "failed"}]
          /\ stalls \in [Jobs -> 0 .. 1]
      BY DEF Init
    <3>4. /\ step \in [Jobs -> {"none", "taken", "found", "inviting", "calling", "joined", "refused",
                        "bailing", "closing", "returned", "threw"}]
          /\ todo \in [Jobs -> SUBSET Users]
          /\ user \in [Jobs -> Users \cup {NoUser}]
          /\ error \in [Jobs -> Errors \cup {"none"}]
      BY DEF Init
    <3>5. failed \in [Jobs -> BOOLEAN]
      BY Zenon DEF Init
    <3>6. deaths \in 0 .. MaxDeaths /\ faults \in SUBSET Faults
      BY DeathAssumption DEF Init
    <3> QED
      BY <3>1, <3>2, <3>3, <3>4, <3>5, <3>6 DEF TypeOK
  <2>2. \A j \in Jobs : ~AtUser(j) /\ step[j] = "none" /\ jobState[j] = "absent"
    BY DEF Init, AtUser
  <2> QED
    BY <2>1, <2>2 DEF StepInv
<1>2. StepInv /\ [Next]_vars => StepInv'
  <2> SUFFICES ASSUME StepInv, [Next]_vars PROVE StepInv'
    OBVIOUS
  <2> USE TaskOfAssumption, NobodyAssumption, NothingAssumption, FaultAssumption,
          ErrorAssumption, DeathAssumption
      DEF StepInv, TypeOK, AtUser, UserStatuses, Errors, queueVars, loopVars, historyVars
  <2>1. ASSUME NEW t \in Tasks, NEW rows \in SUBSET Users, Import(t, rows) PROVE StepInv'
    BY <2>1 DEF Import
  <2>2. ASSUME NEW t \in Tasks, NEW j \in Jobs, Queue(t, j) PROVE StepInv'
    BY <2>2 DEF Queue
  <2>3. ASSUME NEW j \in Jobs, Take(j) PROVE StepInv'
    BY <2>3 DEF Take, Goto
  <2>4. ASSUME NEW j \in Jobs, FindTask(j) PROVE StepInv'
    BY <2>4 DEF FindTask, Goto
  <2>5. ASSUME NEW j \in Jobs, Acquire(j) PROVE StepInv'
    BY <2>5 DEF Acquire, Goto, Free
  <2>6. ASSUME NEW j \in Jobs, Skip(j) PROVE StepInv'
    BY <2>6 DEF Skip, Goto, Free
  <2>7. ASSUME NEW j \in Jobs, NEW u \in Users, StartUser(j, u) PROVE StepInv'
    BY <2>7 DEF StartUser, Goto
  <2>8. ASSUME NEW j \in Jobs, Invite(j) PROVE StepInv'
    BY <2>8 DEF Invite, Goto
  <2>9. ASSUME NEW j \in Jobs, NEW e \in TelegramErrors, InviteFails(j, e) PROVE StepInv'
    BY <2>9 DEF InviteFails, Goto
  <2>10. ASSUME NEW j \in Jobs, ReportInvited(j) PROVE StepInv'
    BY <2>10 DEF ReportInvited, Goto
  <2>11. ASSUME NEW j \in Jobs, ReportRefused(j) PROVE StepInv'
    BY <2>11 DEF ReportRefused, Goto, Classify
  <2>12. ASSUME NEW j \in Jobs, Release(j) PROVE StepInv'
    BY <2>12 DEF Release, Goto
  <2>13. ASSUME NEW j \in Jobs, CloseTask(j) PROVE StepInv'
    BY <2>13 DEF CloseTask, Goto
  <2>14. ASSUME NEW j \in Jobs, UpdateFails(j) PROVE StepInv'
    BY <2>14 DEF UpdateFails, Goto, Suffer
  <2>15. ASSUME NEW j \in Jobs, ReleaseFails(j) PROVE StepInv'
    BY <2>15 DEF ReleaseFails, Goto, Suffer, Forget
  <2>16. ASSUME NEW j \in Jobs, Record(j) PROVE StepInv'
    BY <2>16 DEF Record, Goto, Forget
  <2>17. ASSUME NEW j \in Jobs, TakeBack(j) PROVE StepInv'
    BY <2>17 DEF TakeBack
  <2>18. ASSUME NEW j \in Jobs, Die(j) PROVE StepInv'
    BY <2>18 DEF Die, Goto, Forget
  <2>19. CASE Expire
    BY <2>19 DEF Expire, Suffer
  <2>20. CASE WaitOver
    BY <2>20 DEF WaitOver
  <2>21. CASE UNCHANGED vars
    BY <2>21 DEF vars, queueVars, loopVars, historyVars
  <2> QED
    BY <2>1, <2>2, <2>3, <2>4, <2>5, <2>6, <2>7, <2>8, <2>9,
       <2>10, <2>11, <2>12, <2>13, <2>14, <2>15, <2>16, <2>17,
       <2>18, <2>19, <2>20, <2>21
       DEF Next, JobStep, HandlerStep, UserStep
<1> QED
  BY <1>1, <1>2, PTL DEF Spec

(* Every variable keeps its type. *)
THEOREM Typing == Spec => []TypeOK
<1>1. StepInv => TypeOK
  BY DEF StepInv
<1> QED
  BY <1>1, Steps, PTL

-----------------------------------------------------------------------------
(* While no lease ran out under a job, whoever works under the lock owns   *)
(* it: the steps between acquire and release leave the owner alone, and    *)
(* the lock of another job is neither released nor taken over.             *)
THEOREM OneInviterPerAccountHolds == Spec => []OneInviterPerAccount
<1>1. Init => OneInviterPerAccount
  BY DEF Init, OneInviterPerAccount, UnderLock
<1>2. StepInv /\ OneInviterPerAccount /\ [Next]_vars => OneInviterPerAccount'
  <2> SUFFICES ASSUME StepInv, OneInviterPerAccount, [Next]_vars PROVE OneInviterPerAccount'
    OBVIOUS
  <2> USE NobodyAssumption
      DEF StepInv, TypeOK, OneInviterPerAccount, UnderLock, queueVars, loopVars, historyVars
  <2>1. ASSUME NEW t \in Tasks, NEW rows \in SUBSET Users, Import(t, rows) PROVE OneInviterPerAccount'
    BY <2>1 DEF Import
  <2>2. ASSUME NEW t \in Tasks, NEW j \in Jobs, Queue(t, j) PROVE OneInviterPerAccount'
    BY <2>2 DEF Queue
  <2>3. ASSUME NEW j \in Jobs, Take(j) PROVE OneInviterPerAccount'
    BY <2>3 DEF Take, Goto
  <2>4. ASSUME NEW j \in Jobs, FindTask(j) PROVE OneInviterPerAccount'
    BY <2>4 DEF FindTask, Goto
  <2>5. ASSUME NEW j \in Jobs, Acquire(j) PROVE OneInviterPerAccount'
    BY <2>5 DEF Acquire, Goto, Free
  <2>6. ASSUME NEW j \in Jobs, Skip(j) PROVE OneInviterPerAccount'
    BY <2>6 DEF Skip, Goto, Free
  <2>7. ASSUME NEW j \in Jobs, NEW u \in Users, StartUser(j, u) PROVE OneInviterPerAccount'
    BY <2>7 DEF StartUser, Goto
  <2>8. ASSUME NEW j \in Jobs, Invite(j) PROVE OneInviterPerAccount'
    BY <2>8 DEF Invite, Goto
  <2>9. ASSUME NEW j \in Jobs, NEW e \in TelegramErrors, InviteFails(j, e) PROVE OneInviterPerAccount'
    BY <2>9 DEF InviteFails, Goto
  <2>10. ASSUME NEW j \in Jobs, ReportInvited(j) PROVE OneInviterPerAccount'
    BY <2>10 DEF ReportInvited, Goto
  <2>11. ASSUME NEW j \in Jobs, ReportRefused(j) PROVE OneInviterPerAccount'
    BY <2>11 DEF ReportRefused, Goto, Classify
  <2>12. ASSUME NEW j \in Jobs, Release(j) PROVE OneInviterPerAccount'
    BY <2>12 DEF Release, Goto
  <2>13. ASSUME NEW j \in Jobs, CloseTask(j) PROVE OneInviterPerAccount'
    BY <2>13 DEF CloseTask, Goto
  <2>14. ASSUME NEW j \in Jobs, UpdateFails(j) PROVE OneInviterPerAccount'
    BY <2>14 DEF UpdateFails, Goto, Suffer
  <2>15. ASSUME NEW j \in Jobs, ReleaseFails(j) PROVE OneInviterPerAccount'
    BY <2>15 DEF ReleaseFails, Goto, Suffer, Forget
  <2>16. ASSUME NEW j \in Jobs, Record(j) PROVE OneInviterPerAccount'
    BY <2>16 DEF Record, Goto, Forget
  <2>17. ASSUME NEW j \in Jobs, TakeBack(j) PROVE OneInviterPerAccount'
    BY <2>17 DEF TakeBack
  <2>18. ASSUME NEW j \in Jobs, Die(j) PROVE OneInviterPerAccount'
    BY <2>18 DEF Die, Goto, Forget
  <2>19. CASE Expire
    BY <2>19 DEF Expire, Suffer
  <2>20. CASE WaitOver
    BY <2>20 DEF WaitOver
  <2>21. CASE UNCHANGED vars
    BY <2>21 DEF vars, queueVars, loopVars, historyVars
  <2> QED
    BY <2>1, <2>2, <2>3, <2>4, <2>5, <2>6, <2>7, <2>8, <2>9,
       <2>10, <2>11, <2>12, <2>13, <2>14, <2>15, <2>16, <2>17,
       <2>18, <2>19, <2>20, <2>21
       DEF Next, JobStep, HandlerStep, UserStep
<1> QED
  BY <1>1, <1>2, Steps, PTL DEF Spec

-----------------------------------------------------------------------------
(* What a handler is about to report is true at Telegram already, or       *)
(* Telegram has told it otherwise in the result it does not read.          *)
OutcomeInv ==
  /\ InvitedIsMember
  /\ \A j \in Jobs : step[j] = "joined" => user[j] \in members \/ user[j] \in missing
  /\ \A j \in Jobs : step[j] = "refused" /\ error[j] = "USER_ALREADY_PARTICIPANT"
                       => user[j] \in members

(* The table never claims an invitation that Telegram did not carry out,   *)
(* whatever dies, expires or fails, but for the users a call that returned *)
(* has named as missing.                                                   *)
THEOREM InvitedIsMemberHolds == Spec => []InvitedIsMember
<1>1. Init => OutcomeInv
  BY DEF Init, OutcomeInv, InvitedIsMember
<1>2. StepInv /\ OutcomeInv /\ [Next]_vars => OutcomeInv'
  <2> SUFFICES ASSUME StepInv, OutcomeInv, [Next]_vars PROVE OutcomeInv'
    OBVIOUS
  <2> USE NothingAssumption
      DEF StepInv, TypeOK, AtUser, OutcomeInv, InvitedIsMember, queueVars, loopVars, historyVars
  <2>1. ASSUME NEW t \in Tasks, NEW rows \in SUBSET Users, Import(t, rows) PROVE OutcomeInv'
    BY <2>1 DEF Import
  <2>2. ASSUME NEW t \in Tasks, NEW j \in Jobs, Queue(t, j) PROVE OutcomeInv'
    BY <2>2 DEF Queue
  <2>3. ASSUME NEW j \in Jobs, Take(j) PROVE OutcomeInv'
    BY <2>3 DEF Take, Goto
  <2>4. ASSUME NEW j \in Jobs, FindTask(j) PROVE OutcomeInv'
    BY <2>4 DEF FindTask, Goto
  <2>5. ASSUME NEW j \in Jobs, Acquire(j) PROVE OutcomeInv'
    BY <2>5 DEF Acquire, Goto, Free
  <2>6. ASSUME NEW j \in Jobs, Skip(j) PROVE OutcomeInv'
    BY <2>6 DEF Skip, Goto, Free
  <2>7. ASSUME NEW j \in Jobs, NEW u \in Users, StartUser(j, u) PROVE OutcomeInv'
    BY <2>7 DEF StartUser, Goto
  <2>8. ASSUME NEW j \in Jobs, Invite(j) PROVE OutcomeInv'
    BY <2>8 DEF Invite, Goto
  <2>9. ASSUME NEW j \in Jobs, NEW e \in TelegramErrors, InviteFails(j, e) PROVE OutcomeInv'
    BY <2>9 DEF InviteFails, Goto
  <2>10. ASSUME NEW j \in Jobs, ReportInvited(j) PROVE OutcomeInv'
    BY <2>10 DEF ReportInvited, Goto
  <2>11. ASSUME NEW j \in Jobs, ReportRefused(j) PROVE OutcomeInv'
    BY <2>11 DEF ReportRefused, Goto, Classify
  <2>12. ASSUME NEW j \in Jobs, Release(j) PROVE OutcomeInv'
    BY <2>12 DEF Release, Goto
  <2>13. ASSUME NEW j \in Jobs, CloseTask(j) PROVE OutcomeInv'
    BY <2>13 DEF CloseTask, Goto
  <2>14. ASSUME NEW j \in Jobs, UpdateFails(j) PROVE OutcomeInv'
    BY <2>14 DEF UpdateFails, Goto, Suffer
  <2>15. ASSUME NEW j \in Jobs, ReleaseFails(j) PROVE OutcomeInv'
    BY <2>15 DEF ReleaseFails, Goto, Suffer, Forget
  <2>16. ASSUME NEW j \in Jobs, Record(j) PROVE OutcomeInv'
    BY <2>16 DEF Record, Goto, Forget
  <2>17. ASSUME NEW j \in Jobs, TakeBack(j) PROVE OutcomeInv'
    BY <2>17 DEF TakeBack
  <2>18. ASSUME NEW j \in Jobs, Die(j) PROVE OutcomeInv'
    BY <2>18 DEF Die, Goto, Forget
  <2>19. CASE Expire
    BY <2>19 DEF Expire, Suffer
  <2>20. CASE WaitOver
    BY <2>20 DEF WaitOver
  <2>21. CASE UNCHANGED vars
    BY <2>21 DEF vars, queueVars, loopVars, historyVars
  <2> QED
    BY <2>1, <2>2, <2>3, <2>4, <2>5, <2>6, <2>7, <2>8, <2>9,
       <2>10, <2>11, <2>12, <2>13, <2>14, <2>15, <2>16, <2>17,
       <2>18, <2>19, <2>20, <2>21
       DEF Next, JobStep, HandlerStep, UserStep
<1>3. OutcomeInv => InvitedIsMember
  BY DEF OutcomeInv
<1> QED
  BY <1>1, <1>2, <1>3, Steps, PTL DEF Spec

-----------------------------------------------------------------------------
(* A job has a user only while it is busy with one.                        *)
UserInv ==
  /\ (faults = {} /\ deaths = 0) => \A j \in Jobs : user[j] # NoUser => AtUser(j)
  /\ ProcessingHasItsJob

(* In a run without faults and deaths the users that are PROCESSING are    *)
(* those of the handlers: the lock leaves at most one handler at a user,   *)
(* so no job writes the outcome of a user another job is inviting.         *)
THEOREM ProcessingHasItsJobHolds == Spec => []ProcessingHasItsJob
<1>1. Init => UserInv
  BY NothingAssumption DEF Init, UserInv, ProcessingHasItsJob, AtUser
<1>2. StepInv /\ OneInviterPerAccount /\ UserInv /\ [Next]_vars => UserInv'
  <2> SUFFICES ASSUME StepInv, OneInviterPerAccount, UserInv, [Next]_vars PROVE UserInv'
    OBVIOUS
  <2> USE NothingAssumption, NobodyAssumption, DeathAssumption
      DEF StepInv, TypeOK, AtUser, UserInv, ProcessingHasItsJob, OneInviterPerAccount,
          UnderLock, queueVars, loopVars, historyVars
  <2>1. ASSUME NEW t \in Tasks, NEW rows \in SUBSET Users, Import(t, rows) PROVE UserInv'
    BY <2>1 DEF Import
  <2>2. ASSUME NEW t \in Tasks, NEW j \in Jobs, Queue(t, j) PROVE UserInv'
    BY <2>2 DEF Queue
  <2>3. ASSUME NEW j \in Jobs, Take(j) PROVE UserInv'
    BY <2>3 DEF Take, Goto
  <2>4. ASSUME NEW j \in Jobs, FindTask(j) PROVE UserInv'
    BY <2>4 DEF FindTask, Goto
  <2>5. ASSUME NEW j \in Jobs, Acquire(j) PROVE UserInv'
    BY <2>5 DEF Acquire, Goto, Free
  <2>6. ASSUME NEW j \in Jobs, Skip(j) PROVE UserInv'
    BY <2>6 DEF Skip, Goto, Free
  <2>7. ASSUME NEW j \in Jobs, NEW u \in Users, StartUser(j, u) PROVE UserInv'
    BY <2>7 DEF StartUser, Goto
  <2>8. ASSUME NEW j \in Jobs, Invite(j) PROVE UserInv'
    BY <2>8 DEF Invite, Goto
  <2>9. ASSUME NEW j \in Jobs, NEW e \in TelegramErrors, InviteFails(j, e) PROVE UserInv'
    BY <2>9 DEF InviteFails, Goto
  <2>10. ASSUME NEW j \in Jobs, ReportInvited(j) PROVE UserInv'
    BY <2>10 DEF ReportInvited, Goto
  <2>11. ASSUME NEW j \in Jobs, ReportRefused(j) PROVE UserInv'
    BY <2>11 DEF ReportRefused, Goto, Classify
  <2>12. ASSUME NEW j \in Jobs, Release(j) PROVE UserInv'
    BY <2>12 DEF Release, Goto
  <2>13. ASSUME NEW j \in Jobs, CloseTask(j) PROVE UserInv'
    BY <2>13 DEF CloseTask, Goto
  <2>14. ASSUME NEW j \in Jobs, UpdateFails(j) PROVE UserInv'
    BY <2>14 DEF UpdateFails, Goto, Suffer
  <2>15. ASSUME NEW j \in Jobs, ReleaseFails(j) PROVE UserInv'
    BY <2>15 DEF ReleaseFails, Goto, Suffer, Forget
  <2>16. ASSUME NEW j \in Jobs, Record(j) PROVE UserInv'
    BY <2>16 DEF Record, Goto, Forget
  <2>17. ASSUME NEW j \in Jobs, TakeBack(j) PROVE UserInv'
    BY <2>17 DEF TakeBack
  <2>18. ASSUME NEW j \in Jobs, Die(j) PROVE UserInv'
    BY <2>18 DEF Die, Goto, Forget
  <2>19. CASE Expire
    BY <2>19 DEF Expire, Suffer
  <2>20. CASE WaitOver
    BY <2>20 DEF WaitOver
  <2>21. CASE UNCHANGED vars
    BY <2>21 DEF vars, queueVars, loopVars, historyVars
  <2> QED
    BY <2>1, <2>2, <2>3, <2>4, <2>5, <2>6, <2>7, <2>8, <2>9,
       <2>10, <2>11, <2>12, <2>13, <2>14, <2>15, <2>16, <2>17,
       <2>18, <2>19, <2>20, <2>21
       DEF Next, JobStep, HandlerStep, UserStep
<1>3. UserInv => ProcessingHasItsJob
  BY DEF UserInv
<1> QED
  BY <1>1, <1>2, <1>3, Steps, OneInviterPerAccountHolds, PTL DEF Spec

-----------------------------------------------------------------------------
(* Once told FLOOD_WAIT a job has nobody left to invite and counts the     *)
(* failure, unless it has not left the catch block or has thrown.          *)
FloodInv ==
  \A j \in Jobs : error[j] = "FLOOD_WAIT" =>
    \/ step[j] \in {"refused", "bailing", "threw", "returned"}
    \/ step[j] \in {"inviting", "closing"} /\ todo[j] = {} /\ failed[j]

(* Told FLOOD_WAIT, a job invites nobody else and does not call its task   *)
(* completed.                                                              *)
THEOREM FloodStopsTheJobHolds == Spec => FloodStopsTheJob
<1>1. Init => FloodInv
  BY DEF Init, FloodInv
<1>2. StepInv /\ FloodInv /\ [Next]_vars => FloodInv'
  <2> SUFFICES ASSUME StepInv, FloodInv, [Next]_vars PROVE FloodInv'
    OBVIOUS
  <2> USE ErrorAssumption
      DEF StepInv, TypeOK, FloodInv, queueVars, loopVars, historyVars
  <2>1. ASSUME NEW t \in Tasks, NEW rows \in SUBSET Users, Import(t, rows) PROVE FloodInv'
    BY <2>1 DEF Import
  <2>2. ASSUME NEW t \in Tasks, NEW j \in Jobs, Queue(t, j) PROVE FloodInv'
    BY <2>2 DEF Queue
  <2>3. ASSUME NEW j \in Jobs, Take(j) PROVE FloodInv'
    BY <2>3 DEF Take, Goto
  <2>4. ASSUME NEW j \in Jobs, FindTask(j) PROVE FloodInv'
    BY <2>4 DEF FindTask, Goto
  <2>5. ASSUME NEW j \in Jobs, Acquire(j) PROVE FloodInv'
    BY <2>5 DEF Acquire, Goto, Free
  <2>6. ASSUME NEW j \in Jobs, Skip(j) PROVE FloodInv'
    BY <2>6 DEF Skip, Goto, Free
  <2>7. ASSUME NEW j \in Jobs, NEW u \in Users, StartUser(j, u) PROVE FloodInv'
    BY <2>7 DEF StartUser, Goto
  <2>8. ASSUME NEW j \in Jobs, Invite(j) PROVE FloodInv'
    BY <2>8 DEF Invite, Goto
  <2>9. ASSUME NEW j \in Jobs, NEW e \in TelegramErrors, InviteFails(j, e) PROVE FloodInv'
    BY <2>9 DEF InviteFails, Goto
  <2>10. ASSUME NEW j \in Jobs, ReportInvited(j) PROVE FloodInv'
    BY <2>10 DEF ReportInvited, Goto
  <2>11. ASSUME NEW j \in Jobs, ReportRefused(j) PROVE FloodInv'
    BY <2>11 DEF ReportRefused, Goto, Classify
  <2>12. ASSUME NEW j \in Jobs, Release(j) PROVE FloodInv'
    BY <2>12 DEF Release, Goto
  <2>13. ASSUME NEW j \in Jobs, CloseTask(j) PROVE FloodInv'
    BY <2>13 DEF CloseTask, Goto
  <2>14. ASSUME NEW j \in Jobs, UpdateFails(j) PROVE FloodInv'
    BY <2>14 DEF UpdateFails, Goto, Suffer
  <2>15. ASSUME NEW j \in Jobs, ReleaseFails(j) PROVE FloodInv'
    BY <2>15 DEF ReleaseFails, Goto, Suffer, Forget
  <2>16. ASSUME NEW j \in Jobs, Record(j) PROVE FloodInv'
    BY <2>16 DEF Record, Goto, Forget
  <2>17. ASSUME NEW j \in Jobs, TakeBack(j) PROVE FloodInv'
    BY <2>17 DEF TakeBack
  <2>18. ASSUME NEW j \in Jobs, Die(j) PROVE FloodInv'
    BY <2>18 DEF Die, Goto, Forget
  <2>19. CASE Expire
    BY <2>19 DEF Expire, Suffer
  <2>20. CASE WaitOver
    BY <2>20 DEF WaitOver
  <2>21. CASE UNCHANGED vars
    BY <2>21 DEF vars, queueVars, loopVars, historyVars
  <2> QED
    BY <2>1, <2>2, <2>3, <2>4, <2>5, <2>6, <2>7, <2>8, <2>9,
       <2>10, <2>11, <2>12, <2>13, <2>14, <2>15, <2>16, <2>17,
       <2>18, <2>19, <2>20, <2>21
       DEF Next, JobStep, HandlerStep, UserStep
<1>3. ASSUME StepInv, FloodInv, [Next]_vars
      PROVE  [\A j \in Jobs : error[j] = "FLOOD_WAIT" =>
               /\ step'[j] # "calling"
               /\ step[j] = "closing" /\ step'[j] = "returned" => taskStatus'[jobTask[j]] = "FAILED"]_vars
  <2> SUFFICES ASSUME NEW i \in Jobs, error[i] = "FLOOD_WAIT"
               PROVE  /\ step'[i] # "calling"
                      /\ step[i] = "closing" /\ step'[i] = "returned" =>
                           taskStatus'[jobTask[i]] = "FAILED"
    OBVIOUS
  <2> DEFINE Stopped == /\ step'[i] # "calling"
                        /\ step[i] = "closing" /\ step'[i] = "returned" =>
                             taskStatus'[jobTask[i]] = "FAILED"
  <2> USE <1>3 DEF StepInv, TypeOK, FloodInv, queueVars, loopVars, historyVars
  <2>1. ASSUME NEW t \in Tasks, NEW rows \in SUBSET Users, Import(t, rows) PROVE Stopped
    BY <2>1 DEF Import
  <2>2. ASSUME NEW t \in Tasks, NEW j \in Jobs, Queue(t, j) PROVE Stopped
    BY <2>2 DEF Queue
  <2>3. ASSUME NEW j \in Jobs, Take(j) PROVE Stopped
    BY <2>3 DEF Take, Goto
  <2>4. ASSUME NEW j \in Jobs, FindTask(j) PROVE Stopped
    BY <2>4 DEF FindTask, Goto
  <2>5. ASSUME NEW j \in Jobs, Acquire(j) PROVE Stopped
    BY <2>5 DEF Acquire, Goto, Free
  <2>6. ASSUME NEW j \in Jobs, Skip(j) PROVE Stopped
    BY <2>6 DEF Skip, Goto, Free
  <2>7. ASSUME NEW j \in Jobs, NEW u \in Users, StartUser(j, u) PROVE Stopped
    BY <2>7 DEF StartUser, Goto
  <2>8. ASSUME NEW j \in Jobs, Invite(j) PROVE Stopped
    BY <2>8 DEF Invite, Goto
  <2>9. ASSUME NEW j \in Jobs, NEW e \in TelegramErrors, InviteFails(j, e) PROVE Stopped
    BY <2>9 DEF InviteFails, Goto
  <2>10. ASSUME NEW j \in Jobs, ReportInvited(j) PROVE Stopped
    BY <2>10 DEF ReportInvited, Goto
  <2>11. ASSUME NEW j \in Jobs, ReportRefused(j) PROVE Stopped
    BY <2>11 DEF ReportRefused, Goto, Classify
  <2>12. ASSUME NEW j \in Jobs, Release(j) PROVE Stopped
    BY <2>12 DEF Release, Goto
  <2>13. ASSUME NEW j \in Jobs, CloseTask(j) PROVE Stopped
    BY <2>13 DEF CloseTask, Goto
  <2>14. ASSUME NEW j \in Jobs, UpdateFails(j) PROVE Stopped
    BY <2>14 DEF UpdateFails, Goto, Suffer
  <2>15. ASSUME NEW j \in Jobs, ReleaseFails(j) PROVE Stopped
    BY <2>15 DEF ReleaseFails, Goto, Suffer, Forget
  <2>16. ASSUME NEW j \in Jobs, Record(j) PROVE Stopped
    BY <2>16 DEF Record, Goto, Forget
  <2>17. ASSUME NEW j \in Jobs, TakeBack(j) PROVE Stopped
    BY <2>17 DEF TakeBack
  <2>18. ASSUME NEW j \in Jobs, Die(j) PROVE Stopped
    BY <2>18 DEF Die, Goto, Forget
  <2>19. CASE Expire
    BY <2>19 DEF Expire, Suffer
  <2>20. CASE WaitOver
    BY <2>20 DEF WaitOver
  <2>21. CASE UNCHANGED vars
    BY <2>21 DEF vars, queueVars, loopVars, historyVars
  <2> QED
    BY <2>1, <2>2, <2>3, <2>4, <2>5, <2>6, <2>7, <2>8, <2>9,
       <2>10, <2>11, <2>12, <2>13, <2>14, <2>15, <2>16, <2>17,
       <2>18, <2>19, <2>20, <2>21
       DEF Next, JobStep, HandlerStep, UserStep
<1> QED
  BY <1>1, <1>2, <1>3, Steps, PTL DEF Spec, FloodStopsTheJob
=============================================================================
