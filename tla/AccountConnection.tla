--------------------------- MODULE AccountConnection ---------------------------
(***************************************************************************)
(* How a Telegram account comes to be connected: the requests that create  *)
(* its row and pass on the login code, the CONNECT_ACCOUNT and             *)
(* DISCONNECT_ACCOUNT handlers, the steps of the gateway behind them, and  *)
(* the columns of the row that the operator reads.                         *)
(*                                                                         *)
(* POST /api/accounts/connect creates a new row each time, enqueues the    *)
(* request for a code and only then writes CONNECTING, so the job may be   *)
(* over before that write.  Handlers of one account exclude each other:    *)
(* both renew their lease (module RedisAccountLock).  Connecting a stored  *)
(* session without a code is not modelled: nothing enqueues that command.  *)
(***************************************************************************)
EXTENDS Integers, FiniteSets

CONSTANTS
  Accounts,       \* rows of TelegramAccount
  PhoneOf,        \* the phone, hence the Telegram identity, of each row
  Jobs,           \* bound: the commands ever enqueued
  NoAccount,
  Nobody,         \* the account lock is free
  Ghost,          \* the account lock is held by a job that is gone
  Faults,         \* what may go wrong (FaultKinds)
  MaxDeaths       \* bound: how many workers die in the middle of a job

(* "store": PostgreSQL or Redis rejects a call; "answer": that of Telegram *)
(* to a sign-in it accepted is lost.                                       *)
FaultKinds == {"store", "answer"}

ASSUME PhoneAssumption == DOMAIN PhoneOf = Accounts
ASSUME NobodyAssumption == Nobody \notin Jobs /\ Ghost \notin Jobs /\ Nobody # Ghost
ASSUME NoAccountAssumption == NoAccount \notin Accounts
ASSUME FaultAssumption == Faults \subseteq FaultKinds /\ MaxDeaths \in Nat

VARIABLES
  status, sessionStatus, errorState, telegramId,   \* columns of the row
  session,      \* the row of TelegramSession exists
  attempt,      \* Redis: telegram_auth_attempt:{accountId} exists
  code,         \* Telegram: the login code of the account
  request,      \* where POST /api/accounts/connect is for the row
  owner,        \* Redis: whose lease each account lock stores
  jobKind, jobAccount, jobState, stalls,   \* BullMQ
  step,         \* where the handler of each job is
  deaths,       \* history: how many workers have died
  faults        \* history: what has gone wrong

row == <<status, sessionStatus, errorState, telegramId, session>>
queueVars == <<jobKind, jobAccount, jobState, stalls>>
historyVars == <<deaths, faults>>
vars == <<row, attempt, code, request, owner, queueVars, step, historyVars>>

Kinds == {"request_code", "verify_code", "disconnect"}

TypeOK ==
  /\ status \in [Accounts -> {"ABSENT", "OFFLINE", "CONNECTING", "ONLINE", "TELEGRAM_ERROR"}]
  /\ sessionStatus \in [Accounts -> {"null", "ACTIVE", "INACTIVE"}]
  /\ errorState \in [Accounts -> {"null", "error"}]
  /\ telegramId \in [Accounts -> {"null", "set"}]
  /\ session \in [Accounts -> {"absent", "stored"}]
  /\ attempt \in [Accounts -> {"absent", "stored"}]
  /\ code \in [Accounts -> {"none", "sent", "used"}]
  /\ request \in [Accounts -> {"none", "created", "enqueued", "answered"}]
  /\ owner \in [Accounts -> Jobs \cup {Nobody, Ghost}]
  /\ jobKind \in [Jobs -> {"none"} \cup Kinds]
  /\ jobAccount \in [Jobs -> Accounts \cup {NoAccount}]
  /\ jobState \in [Jobs -> {"absent", "waiting", "active", "completed", "failed"}]
  /\ stalls \in [Jobs -> 0 .. 1]
  /\ step \in [Jobs -> {"none", "taken", "locked", "marked", "coded", "signedIn", "stored",
                        "cleared", "disconnected", "failing", "leaving", "bailing"}]
  /\ deaths \in 0 .. MaxDeaths
  /\ faults \in SUBSET Faults

(* Some accounts have been connected in the past. *)
Init == \E connected \in SUBSET Accounts :
  /\ \A a, b \in connected : PhoneOf[a] = PhoneOf[b] => a = b
  /\ status = [a \in Accounts |-> IF a \in connected THEN "ONLINE" ELSE "ABSENT"]
  /\ sessionStatus = [a \in Accounts |-> IF a \in connected THEN "ACTIVE" ELSE "null"]
  /\ errorState = [a \in Accounts |-> "null"]
  /\ telegramId = [a \in Accounts |-> IF a \in connected THEN "set" ELSE "null"]
  /\ session = [a \in Accounts |-> IF a \in connected THEN "stored" ELSE "absent"]
  /\ attempt = [a \in Accounts |-> "absent"]
  /\ code = [a \in Accounts |-> IF a \in connected THEN "used" ELSE "none"]
  /\ request = [a \in Accounts |-> IF a \in connected THEN "answered" ELSE "none"]
  /\ owner = [a \in Accounts |-> Nobody]
  /\ jobKind = [j \in Jobs |-> "none"]
  /\ jobAccount = [j \in Jobs |-> NoAccount]
  /\ jobState = [j \in Jobs |-> "absent"]
  /\ stalls = [j \in Jobs |-> 0]
  /\ step = [j \in Jobs |-> "none"]
  /\ deaths = 0
  /\ faults = {}

Goto(j, s) == step' = [step EXCEPT ![j] = s]

(* A fault of kind f happens. *)
Suffer(f) ==
  /\ f \in Faults
  /\ faults' = faults \cup {f}

-----------------------------------------------------------------------------
(* commandQueue.enqueue *)
Enqueue(j, a, k) ==
  /\ jobState[j] = "absent"
  /\ jobState' = [jobState EXCEPT ![j] = "waiting"]
  /\ jobKind' = [jobKind EXCEPT ![j] = k]
  /\ jobAccount' = [jobAccount EXCEPT ![j] = a]
  /\ UNCHANGED stalls

(* Mutant of CreateAccount: a status that is not in the enumeration. *)
CreateNew(a) ==
  /\ request[a] = "none"
  /\ request' = [request EXCEPT ![a] = "created"]
  /\ status' = [status EXCEPT ![a] = "NEW"]
  /\ UNCHANGED <<sessionStatus, errorState, telegramId, session, attempt, code, owner,
                 queueVars, step, historyVars>>

(* POST /api/accounts/connect, first await: store.createAccount. *)
CreateAccount(a) ==
  /\ request[a] = "none"
  /\ request' = [request EXCEPT ![a] = "created"]
  /\ status' = [status EXCEPT ![a] = "OFFLINE"]
  /\ UNCHANGED <<sessionStatus, errorState, telegramId, session, attempt, code, owner,
                 queueVars, step, historyVars>>

(* Second await: the command that asks Telegram for a code. *)
RequestCode(a, j) ==
  /\ request[a] = "created"
  /\ request' = [request EXCEPT ![a] = "enqueued"]
  /\ Enqueue(j, a, "request_code")
  /\ UNCHANGED <<row, attempt, code, owner, step, historyVars>>

(* Third await: store.updateAccount, whatever the worker has written since. *)
MarkRequested(a) ==
  /\ request[a] = "enqueued"
  /\ request' = [request EXCEPT ![a] = "answered"]
  /\ status' = [status EXCEPT ![a] = "CONNECTING"]
  /\ UNCHANGED <<sessionStatus, errorState, telegramId, session, attempt, code, owner,
                 queueVars, step, historyVars>>

(* POST /api/accounts/:id/connect/verify and /api/accounts/:id/disconnect  *)
(* only enqueue; one job is kept for the code.                             *)
Command(a, j, k) ==
  /\ request[a] # "none"
  /\ k \in {"verify_code", "disconnect"}
  /\ \/ request[a] # "created"
     \/ Cardinality({i \in Jobs : jobState[i] = "absent"}) > 1
  /\ Enqueue(j, a, k)
  /\ UNCHANGED <<row, attempt, code, request, owner, step, historyVars>>

-----------------------------------------------------------------------------
Take(j) ==
  /\ jobState[j] = "waiting"
  /\ jobState' = [jobState EXCEPT ![j] = "active"]
  /\ Goto(j, "taken")
  /\ UNCHANGED <<row, attempt, code, request, owner, jobKind, jobAccount, stalls, historyVars>>

Acquire(j) ==
  /\ step[j] = "taken"
  /\ owner[jobAccount[j]] = Nobody
  /\ owner' = [owner EXCEPT ![jobAccount[j]] = j]
  /\ Goto(j, "locked")
  /\ UNCHANGED <<row, attempt, code, request, queueVars, historyVars>>

(* deferred/account_locked: the command fails, its job has one attempt. *)
Defer(j) ==
  /\ step[j] = "taken"
  /\ owner[jobAccount[j]] # Nobody
  /\ jobState' = [jobState EXCEPT ![j] = "failed"]
  /\ Goto(j, "none")
  /\ UNCHANGED <<row, attempt, code, request, owner, jobKind, jobAccount, stalls, historyVars>>

(* Mutant of SetStatus: going OFFLINE leaves the session status alone. *)
SetStatusOnly(a, s) ==
  /\ status' = [status EXCEPT ![a] = s]
  /\ errorState' = [errorState EXCEPT ![a] = IF s = "TELEGRAM_ERROR" THEN "error" ELSE "null"]
  /\ sessionStatus' = [sessionStatus EXCEPT ![a] = IF s = "ONLINE" THEN "ACTIVE" ELSE @]
  /\ UNCHANGED <<telegramId, session>>

(* PrismaAccountStatePort.setStatus *)
SetStatus(a, s) ==
  /\ status' = [status EXCEPT ![a] = s]
  /\ errorState' = [errorState EXCEPT ![a] = IF s = "TELEGRAM_ERROR" THEN "error" ELSE "null"]
  /\ sessionStatus' = [sessionStatus EXCEPT ![a] =
       CASE s = "ONLINE" -> "ACTIVE" [] s = "OFFLINE" -> "INACTIVE" [] OTHER -> @]
  /\ UNCHANGED <<telegramId, session>>

(* CONNECT_ACCOUNT begins. *)
MarkConnecting(j) ==
  /\ step[j] = "locked"
  /\ jobKind[j] # "disconnect"
  /\ SetStatus(jobAccount[j], "CONNECTING")
  /\ Goto(j, "marked")
  /\ UNCHANGED <<attempt, code, request, owner, queueVars, historyVars>>

(* requestCode: Telegram sends a code ... *)
SendCode(j) ==
  /\ step[j] = "marked"
  /\ jobKind[j] = "request_code"
  /\ code' = [code EXCEPT ![jobAccount[j]] = "sent"]
  /\ Goto(j, "coded")
  /\ UNCHANGED <<row, attempt, request, owner, queueVars, historyVars>>

(* ... and the attempt is stored; CODE_SENT leaves the status as it is.    *)
SaveAttempt(j) ==
  /\ step[j] = "coded"
  /\ attempt' = [attempt EXCEPT ![jobAccount[j]] = "stored"]
  /\ Goto(j, "leaving")
  /\ UNCHANGED <<row, code, request, owner, queueVars, historyVars>>

(* verifyCode: Telegram accepts the code, which is spent by that. *)
SignIn(j) ==
  /\ step[j] = "marked"
  /\ jobKind[j] = "verify_code"
  /\ attempt[jobAccount[j]] = "stored"
  /\ code[jobAccount[j]] = "sent"
  /\ code' = [code EXCEPT ![jobAccount[j]] = "used"]
  /\ Goto(j, "signedIn")
  /\ UNCHANGED <<row, attempt, request, owner, queueVars, historyVars>>

(* The call times out although Telegram has carried it out. *)
SignInLost(j) ==
  /\ Suffer("answer")
  /\ step[j] = "marked"
  /\ jobKind[j] = "verify_code"
  /\ attempt[jobAccount[j]] = "stored"
  /\ code[jobAccount[j]] = "sent"
  /\ code' = [code EXCEPT ![jobAccount[j]] = "used"]
  /\ Goto(j, "failing")
  /\ UNCHANGED <<row, attempt, request, owner, queueVars, deaths>>

(* Mutant of Duplicate: no unique index. *)
NoUniqueIndex(a) == FALSE

(* The transaction would give two rows the same telegramId. *)
Duplicate(a) ==
  \E b \in Accounts \ {a} : PhoneOf[b] = PhoneOf[a] /\ telegramId[b] = "set"

(* Mutant of StoreSession: an update where there may be no row yet. *)
UpdateSession(j) ==
  /\ step[j] = "signedIn"
  /\ ~Duplicate(jobAccount[j])
  /\ telegramId' = [telegramId EXCEPT ![jobAccount[j]] = "set"]
  /\ sessionStatus' = [sessionStatus EXCEPT ![jobAccount[j]] = "ACTIVE"]
  /\ errorState' = [errorState EXCEPT ![jobAccount[j]] = "null"]
  /\ Goto(j, "stored")
  /\ UNCHANGED <<status, session, attempt, code, request, owner, queueVars, historyVars>>

(* One transaction: the session is upserted, the account updated. *)
StoreSession(j) ==
  /\ step[j] = "signedIn"
  /\ ~Duplicate(jobAccount[j])
  /\ session' = [session EXCEPT ![jobAccount[j]] = "stored"]
  /\ telegramId' = [telegramId EXCEPT ![jobAccount[j]] = "set"]
  /\ sessionStatus' = [sessionStatus EXCEPT ![jobAccount[j]] = "ACTIVE"]
  /\ errorState' = [errorState EXCEPT ![jobAccount[j]] = "null"]
  /\ Goto(j, "stored")
  /\ UNCHANGED <<status, attempt, code, request, owner, queueVars, historyVars>>

ClearAttempt(j) ==
  /\ step[j] = "stored"
  /\ attempt' = [attempt EXCEPT ![jobAccount[j]] = "absent"]
  /\ Goto(j, "cleared")
  /\ UNCHANGED <<row, code, request, owner, queueVars, historyVars>>

MarkOnline(j) ==
  /\ step[j] = "cleared"
  /\ SetStatus(jobAccount[j], "ONLINE")
  /\ Goto(j, "leaving")
  /\ UNCHANGED <<attempt, code, request, owner, queueVars, historyVars>>

(* DISCONNECT_ACCOUNT: gateway.disconnect, whether there is a session or not. *)
Disconnect(j) ==
  /\ step[j] = "locked"
  /\ jobKind[j] = "disconnect"
  /\ Goto(j, "disconnected")
  /\ UNCHANGED <<row, attempt, code, request, owner, queueVars, historyVars>>

MarkOffline(j) ==
  /\ step[j] = "disconnected"
  /\ SetStatus(jobAccount[j], "OFFLINE")
  /\ Goto(j, "leaving")
  /\ UNCHANGED <<attempt, code, request, owner, queueVars, historyVars>>

(* An exception inside the try block: Telegram or the proxy cannot be      *)
(* reached, the attempt has expired, the code is wrong, the telegramId is  *)
(* taken, or a store rejects a call.                                       *)
Fail(j) ==
  /\ \/ step[j] = "marked" /\ UNCHANGED faults
     \/ step[j] = "locked" /\ jobKind[j] = "disconnect" /\ UNCHANGED faults
     \/ step[j] = "signedIn" /\ Duplicate(jobAccount[j]) /\ UNCHANGED faults
     \/ step[j] \in {"coded", "signedIn", "stored", "cleared", "disconnected"} /\ Suffer("store")
  /\ Goto(j, "failing")
  /\ UNCHANGED <<row, attempt, code, request, owner, queueVars, deaths>>

MarkError(j) ==
  /\ step[j] = "failing"
  /\ SetStatus(jobAccount[j], "TELEGRAM_ERROR")
  /\ Goto(j, "bailing")
  /\ UNCHANGED <<attempt, code, request, owner, queueVars, historyVars>>

(* The first CONNECTING and the TELEGRAM_ERROR are written outside of it. *)
FailOutside(j) ==
  /\ Suffer("store")
  /\ step[j] = "failing" \/ (step[j] = "locked" /\ jobKind[j] # "disconnect")
  /\ Goto(j, "bailing")
  /\ UNCHANGED <<row, attempt, code, request, owner, queueVars, deaths>>

(* finally { lease.release() }; BullMQ records the outcome. *)
Finish(j) ==
  /\ step[j] \in {"leaving", "bailing"}
  /\ owner' = [owner EXCEPT ![jobAccount[j]] = Nobody]
  /\ jobState' = [jobState EXCEPT ![j] = IF step[j] = "leaving" THEN "completed" ELSE "failed"]
  /\ Goto(j, "none")
  /\ UNCHANGED <<row, attempt, code, request, jobKind, jobAccount, stalls, historyVars>>

(* The worker dies; its lock waits for its time to be over.                *)
Die(j) ==
  /\ deaths < MaxDeaths
  /\ step[j] # "none"
  /\ deaths' = deaths + 1
  /\ owner' = [a \in Accounts |-> IF owner[a] = j THEN Ghost ELSE owner[a]]
  /\ Goto(j, "none")
  /\ UNCHANGED <<row, attempt, code, request, queueVars, faults>>

TakeBack(j) ==
  /\ jobState[j] = "active"
  /\ step[j] = "none"
  /\ jobState' = [jobState EXCEPT ![j] = IF stalls[j] = 0 THEN "waiting" ELSE "failed"]
  /\ stalls' = [stalls EXCEPT ![j] = 1]
  /\ UNCHANGED <<row, attempt, code, request, owner, jobKind, jobAccount, step, historyVars>>

(* Mutant of LockExpires: the lease of a handler at work runs out. *)
LockLapses(a) ==
  /\ owner[a] # Nobody
  /\ owner' = [owner EXCEPT ![a] = Nobody]
  /\ UNCHANGED <<row, attempt, code, request, queueVars, step, historyVars>>

LockExpires(a) ==
  /\ owner[a] = Ghost
  /\ owner' = [owner EXCEPT ![a] = Nobody]
  /\ UNCHANGED <<row, attempt, code, request, queueVars, step, historyVars>>

AttemptExpires(a) ==
  /\ attempt[a] = "stored"
  /\ attempt' = [attempt EXCEPT ![a] = "absent"]
  /\ UNCHANGED <<row, code, request, owner, queueVars, step, historyVars>>

HttpStep(a) ==
  \/ CreateAccount(a)
  \/ MarkRequested(a)
  \/ \E j \in Jobs : RequestCode(a, j) \/ \E k \in Kinds : Command(a, j, k)

HandlerStep(j) ==
  \/ Acquire(j) \/ Defer(j) \/ MarkConnecting(j)
  \/ SendCode(j) \/ SaveAttempt(j)
  \/ SignIn(j) \/ SignInLost(j) \/ StoreSession(j) \/ ClearAttempt(j) \/ MarkOnline(j)
  \/ Disconnect(j) \/ MarkOffline(j)
  \/ Fail(j) \/ MarkError(j) \/ FailOutside(j)
  \/ Finish(j)

Next ==
  \/ \E a \in Accounts : HttpStep(a) \/ LockExpires(a) \/ AttemptExpires(a)
  \/ \E j \in Jobs : Take(j) \/ HandlerStep(j) \/ Die(j) \/ TakeBack(j)

Spec == Init /\ [][Next]_vars

-----------------------------------------------------------------------------
AtWork(j) == step[j] \notin {"none", "taken"}

(* One handler at a time works on an account, and it holds the lock. *)
OneHandlerPerAccount == \A j \in Jobs : AtWork(j) => owner[jobAccount[j]] = j

(* An account that is shown ONLINE can really be used: its session is      *)
(* stored and its identity known.  An account that is shown OFFLINE is not *)
(* listed with an active session.  Both hold over late writes of the       *)
(* backend, crashes in the middle of a handler, retries and disconnects.   *)
StatusIsTrue ==
  \A a \in Accounts :
    /\ status[a] = "ONLINE" => session[a] = "stored" /\ sessionStatus[a] = "ACTIVE"
                               /\ telegramId[a] = "set"
    /\ status[a] = "OFFLINE" => sessionStatus[a] # "ACTIVE"

(* The same Telegram identity never has sessions in two rows, although     *)
(* connecting the same phone again creates a new row.                      *)
OneSessionPerIdentity ==
  \A a, b \in Accounts :
    session[a] = "stored" /\ session[b] = "stored" /\ PhoneOf[a] = PhoneOf[b] => a = b

(* A sign-in that Telegram accepted is never thrown away as long as stores *)
(* and Telegram answer and no worker dies, unless another row has the      *)
(* identity already.                                                       *)
SignInIsKept ==
  (faults = {} /\ deaths = 0) =>
    \A a \in Accounts : code[a] = "used" =>
      \/ session[a] = "stored"
      \/ \E j \in Jobs : jobAccount[j] = a /\ step[j] = "signedIn"
      \/ Duplicate(a)
=============================================================================
