------------------------------ MODULE ContentSync ------------------------------
(***************************************************************************)
(* The content of one Telegram account and its copy in PostgreSQL:         *)
(* LOAD_DIALOGS, LOAD_MESSAGES and LOAD_CONTACTS, which fetch a list and   *)
(* upsert its rows all at once, and SEND_MESSAGE, which sends a message    *)
(* and stores it.  Each handler takes the lock of the account once, for    *)
(* all it does, and never renews it.                                       *)
(*                                                                         *)
(* The three loads have one shape and are modelled by one; what a row      *)
(* holds is the number of the change at Telegram it goes back to.  Each    *)
(* job runs on a worker of its own, and a job whose worker died is         *)
(* delivered once more.  The lock is that of AccountLease, of one account. *)
(***************************************************************************)
EXTENDS Naturals, FiniteSets

CONSTANTS
  Rows,         \* what Telegram has: dialogs, contacts or messages of others
  Loads,        \* bound: the jobs that load them
  Sends,        \* bound: the jobs that send, each naming the message it sends
  MaxVersion,   \* bound: the changes of a row
  Unlocked, Abandoned

ASSUME VersionAssumption == MaxVersion \in Nat
ASSUME ContentAssumption ==
  /\ Rows \cap Sends = {} /\ Loads \cap Sends = {}
  /\ {Unlocked, Abandoned} \cap (Loads \cup Sends) = {}

SyncJobs == Loads \cup Sends
Items == Rows \cup Sends

VARIABLES
  remote,     \* at Telegram: the changes of each item, 0 when there is none
  cache,      \* the row of each item, 0 when there is none
  lock,       \* the job that holds the account, or that nobody does any more
  progress,   \* where the handler of each job is
  upserts,    \* what each job is storing, 0 for an item it is not
  stalls,     \* BullMQ: whether the job was delivered again
  unlocked    \* history: a job went on without the lock

syncVars == <<remote, cache, lock, progress, upserts, stalls, unlocked>>

Versions == 0 .. MaxVersion

SyncTypeOK ==
  /\ remote \in [Items -> Versions]
  /\ cache \in [Items -> Versions]
  /\ lock \in SyncJobs \cup {Unlocked, Abandoned}
  /\ progress \in [SyncJobs -> {"waiting", "locked", "storing", "completed",
                                "deferred", "rejected", "stalled"}]
  /\ upserts \in [SyncJobs -> [Items -> Versions]]
  /\ stalls \in [SyncJobs -> 0 .. 1]
  /\ unlocked \in BOOLEAN

Nothing == [i \in Items |-> 0]

SyncInit ==
  /\ remote = Nothing
  /\ cache = Nothing
  /\ lock = Unlocked
  /\ progress = [j \in SyncJobs |-> "waiting"]
  /\ upserts = [j \in SyncJobs |-> Nothing]
  /\ stalls = [j \in SyncJobs |-> 0]
  /\ unlocked = FALSE

Running(j) == progress[j] \in {"locked", "storing"}

(* finally: the client is disconnected and the lease released, which frees *)
(* the account if the lease is still the one in force.  When Redis does    *)
(* not answer, release() rejects, whatever the outcome would have been,    *)
(* and the lock stays.                                                     *)
Return(j, outcome) ==
  \/ /\ progress' = [progress EXCEPT ![j] = outcome]
     /\ lock' = IF lock = j THEN Unlocked ELSE lock
  \/ /\ progress' = [progress EXCEPT ![j] = "rejected"]
     /\ lock' = IF lock = j THEN Abandoned ELSE lock

-----------------------------------------------------------------------------
(* Somebody else changes a dialog, a contact or a message. *)
Change(r) ==
  /\ remote[r] < MaxVersion
  /\ remote' = [remote EXCEPT ![r] = @ + 1]
  /\ UNCHANGED <<cache, lock, progress, upserts, stalls, unlocked>>

(* Mutant of Take: a lock that cannot be had is no reason not to go on. *)
TakeAnyway(j) ==
  /\ progress' = [progress EXCEPT ![j] = "locked"]
  /\ lock' = IF lock = Unlocked THEN j ELSE lock

(* lock.acquire() without an error: without a lease the job is deferred. *)
Take(j) ==
  IF lock = Unlocked
  THEN lock' = j /\ progress' = [progress EXCEPT ![j] = "locked"]
  ELSE progress' = [progress EXCEPT ![j] = "deferred"] /\ UNCHANGED lock

AcquireLease(j) ==
  /\ progress[j] = "waiting"
  /\ \/ Take(j)
     \/ progress' = [progress EXCEPT ![j] = "rejected"] /\ UNCHANGED lock
  /\ UNCHANGED <<remote, cache, upserts, stalls, unlocked>>

(* loadDialogs, loadMessages, loadContacts: the list arrives, and the      *)
(* upserts of all its rows are started together.                           *)
Load(j) ==
  /\ j \in Loads
  /\ progress[j] = "locked"
  /\ progress' = [progress EXCEPT ![j] = "storing"]
  /\ upserts' = [upserts EXCEPT ![j] = remote]
  /\ UNCHANGED <<remote, cache, lock, stalls, unlocked>>

(* sendMessage: Telegram takes the message, its row is to be stored. *)
SendMessage(j) ==
  /\ j \in Sends
  /\ progress[j] = "locked"
  /\ remote[j] < MaxVersion
  /\ remote' = [remote EXCEPT ![j] = @ + 1]
  /\ progress' = [progress EXCEPT ![j] = "storing"]
  /\ upserts' = [upserts EXCEPT ![j][j] = remote'[j]]
  /\ UNCHANGED <<cache, lock, stalls, unlocked>>

(* No session, no chat, or an error of Telegram, before it has taken the   *)
(* message or, when its answer is lost, after.                             *)
GatewayFails(j) ==
  /\ progress[j] = "locked"
  /\ Return(j, "rejected")
  /\ \/ UNCHANGED remote
     \/ j \in Sends /\ remote[j] < MaxVersion /\ remote' = [remote EXCEPT ![j] = @ + 1]
  /\ UNCHANGED <<cache, upserts, stalls, unlocked>>

(* One upsert is done, in whatever order.  Those of a job that was         *)
(* rejected already go on all the same.                                    *)
Upsert(j, i) ==
  /\ upserts[j][i] > 0
  /\ cache' = [cache EXCEPT ![i] = upserts[j][i]]
  /\ upserts' = [upserts EXCEPT ![j][i] = 0]
  /\ UNCHANGED <<remote, lock, progress, stalls, unlocked>>

(* One upsert is rejected.  The first rejection rejects Promise.all, which *)
(* ends the handler while the other upserts are still under way.           *)
UpsertFails(j, i) ==
  /\ upserts[j][i] > 0
  /\ upserts' = [upserts EXCEPT ![j][i] = 0]
  /\ IF progress[j] = "storing"
     THEN /\ Return(j, "rejected")
          /\ unlocked' = (unlocked \/ upserts'[j] # Nothing)
     ELSE UNCHANGED <<progress, lock, unlocked>>
  /\ UNCHANGED <<remote, cache, stalls>>

(* Mutant of AllStored: the upserts are started and not awaited. *)
StoredUnawaited(j) == TRUE

(* await Promise.all(...) *)
AllStored(j) == upserts[j] = Nothing

Completed(j) ==
  /\ progress[j] = "storing"
  /\ AllStored(j)
  /\ Return(j, "completed")
  /\ UNCHANGED <<remote, cache, upserts, stalls, unlocked>>

-----------------------------------------------------------------------------
(* The lock runs out, under a job that is still at work or after one whose *)
(* worker died.                                                            *)
LeaseRunsOut ==
  /\ lock # Unlocked
  /\ lock' = Unlocked
  /\ unlocked' = (unlocked \/ lock \in SyncJobs)
  /\ UNCHANGED <<remote, cache, progress, upserts, stalls>>

(* The worker of a job dies, with the upserts it had not got an answer to; *)
(* its lock stays.  BullMQ delivers a stalled job once more, and fails it  *)
(* the second time.                                                        *)
WorkerDies(j) ==
  /\ Running(j)
  /\ progress' = [progress EXCEPT ![j] = IF stalls[j] = 0 THEN "waiting" ELSE "stalled"]
  /\ stalls' = [stalls EXCEPT ![j] = 1]
  /\ upserts' = [upserts EXCEPT ![j] = Nothing]
  /\ lock' = IF lock = j THEN Abandoned ELSE lock
  /\ UNCHANGED <<remote, cache, unlocked>>

SyncNext ==
  \/ \E r \in Rows : Change(r)
  \/ \E j \in SyncJobs :
       \/ AcquireLease(j) \/ Load(j) \/ SendMessage(j) \/ GatewayFails(j)
       \/ Completed(j) \/ WorkerDies(j)
       \/ \E i \in Items : Upsert(j, i) \/ UpsertFails(j, i)
  \/ LeaseRunsOut

SyncSpec == SyncInit /\ [][SyncNext]_syncVars

-----------------------------------------------------------------------------
(* The copy never goes back to an older state of Telegram, whichever jobs  *)
(* load at the same time, are refused, rejected or delivered again: a job  *)
(* fetches and stores under one lease.  Only a job that went on without    *)
(* the lock, because it outlived it or because one of its upserts failed   *)
(* before the others were done, can bring an older row back.               *)
NewestSnapshotWins == [][~unlocked => \A i \in Items : cache'[i] >= cache[i]]_syncVars

(* The messages sent for a command. *)
Sent(j) == remote[j]

(* What the outcome of a SEND_MESSAGE says is what happened.  Completed:   *)
(* the message is at Telegram and in the copy.  Deferred: this delivery    *)
(* sent nothing, so if anything was sent the worker of the first one died. *)
(* And a message is sent twice only if a worker died.                      *)
OutcomeIsTrue ==
  \A j \in Sends :
    /\ progress[j] = "completed" => Sent(j) > 0 /\ cache[j] > 0
    /\ Sent(j) <= stalls[j] + (IF progress[j] \in {"waiting", "locked", "deferred"} THEN 0 ELSE 1)
=============================================================================
