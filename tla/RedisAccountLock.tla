--------------------------- MODULE RedisAccountLock ---------------------------
(***************************************************************************)
(* The Redis account lock and the command handlers that work under it.     *)
(*                                                                         *)
(* Redis holds one key per account, telegram_account_lock:{accountId},     *)
(* whose value is the token of the lease and which expires by itself.  A   *)
(* worker process handles one command at a time (BullMQ concurrency 1), so *)
(* a worker is also the holder of at most one lease object.                *)
(*                                                                         *)
(* CONNECT_ACCOUNT and DISCONNECT_ACCOUNT go through withAccountLock, which *)
(* renews the lease on an interval and ignores what renew() answers; every *)
(* other handler acquires once and never renews.  No handler looks at its  *)
(* lease again before it calls Telegram or writes to the database.         *)
(*                                                                         *)
(* Only the time a key still has to live is ever read, so time is the      *)
(* countdown pttl (Redis PTTL) instead of a clock, and Tick is the passing *)
(* of one unit of it.                                                      *)
(***************************************************************************)
EXTENDS Integers

CONSTANTS
  Accounts,      \* Telegram accounts
  Workers,       \* telegram-worker processes
  Tokens,        \* `${workerId}:${randomUUID()}` values
  NoToken,       \* the key does not exist / there is no lease object
  NoAccount,     \* the worker handles no command
  Ttl,           \* lockTtlMs, in units of time
  MinRenewal,    \* the 1_000 ms floor of the renewal interval, in the same units
  PunctualWorkers,  \* those whose event loop, and Redis for them, answer within a unit of time
  Nobody,        \* in the port's terms, the owner of a free account
  Orphan         \* and of an account whose worker is gone

ASSUME TtlAssumption == Ttl \in Nat \ {0}
ASSUME MinRenewalAssumption == MinRenewal \in Nat \ {0}
ASSUME PunctualAssumption == PunctualWorkers \subseteq Workers
ASSUME NoTokenAssumption == NoToken \notin Tokens
ASSUME NoAccountAssumption == NoAccount \notin Accounts
ASSUME OwnerAssumption == Nobody \notin Workers /\ Orphan \notin Workers /\ Nobody # Orphan

VARIABLES
  key,        \* Redis: the value stored for each account
  pttl,       \* Redis: the time each key still has to live, 0 when absent
  phase,      \* where each worker's handler is
  account,    \* the account its command names
  lease,      \* the token of its lease object
  kind,       \* whether that handler renews its lease
  due         \* time left until its setInterval callback fires

lockVars == <<key, pttl>>
jobVars == <<phase, account, lease, kind, due>>
vars == <<key, pttl, phase, account, lease, kind, due>>

(* "lifecycle": CONNECT_ACCOUNT, DISCONNECT_ACCOUNT; "once": the other handlers *)
Kinds == {"lifecycle", "once"}

Phases == {"idle", "asking", "granted", "operating", "releasing"}

(* Mutant of RenewalPeriod: the lease is renewed when its time is over. *)
RenewalAtExpiry == Ttl

(* Math.max(1_000, Math.floor(ttlMs / 3)) *)
RenewalPeriod == IF Ttl \div 3 > MinRenewal THEN Ttl \div 3 ELSE MinRenewal

(* Mutant of Fresh: a token that stale lease objects may still carry. *)
FreshInRedis(t) == \A a \in Accounts : key[a] # t

(* randomUUID() returns a token that nothing in the system still refers to. *)
Fresh(t) == (\A a \in Accounts : key[a] # t) /\ (\A w \in Workers : lease[w] # t)

(* Mutant of Holds: the scripts do not compare the token. *)
HoldsAnything(w) == lease[w] # NoToken

(* redis.call('GET', KEYS[1]) == ARGV[1] *)
Holds(w) == lease[w] # NoToken /\ key[account[w]] = lease[w]

(* Mutant of Elapse: nothing stops the countdown. *)
ElapseBelowZero(n) == n - 1

Elapse(n) == IF n > 0 THEN n - 1 ELSE 0

-----------------------------------------------------------------------------
TypeOK ==
  /\ key \in [Accounts -> Tokens \cup {NoToken}]
  /\ pttl \in [Accounts -> 0 .. Ttl]
  /\ phase \in [Workers -> Phases]
  /\ account \in [Workers -> Accounts \cup {NoAccount}]
  /\ lease \in [Workers -> Tokens \cup {NoToken}]
  /\ kind \in [Workers -> {"none"} \cup Kinds]
  /\ due \in [Workers -> 0 .. RenewalPeriod]

Init ==
  /\ key = [a \in Accounts |-> NoToken]
  /\ pttl = [a \in Accounts |-> 0]
  /\ phase = [w \in Workers |-> "idle"]
  /\ account = [w \in Workers |-> NoAccount]
  /\ lease = [w \in Workers |-> NoToken]
  /\ kind = [w \in Workers |-> "none"]
  /\ due = [w \in Workers |-> 0]

(* The handler returns, throws or dies: its lease object is gone. *)
BecomeIdle(w) ==
  /\ phase' = [phase EXCEPT ![w] = "idle"]
  /\ account' = [account EXCEPT ![w] = NoAccount]
  /\ lease' = [lease EXCEPT ![w] = NoToken]
  /\ kind' = [kind EXCEPT ![w] = "none"]
  /\ due' = [due EXCEPT ![w] = 0]

(* A command for account a reaches a handler, which asks for the lock. *)
Begin(w, a, k) ==
  /\ phase[w] = "idle"
  /\ phase' = [phase EXCEPT ![w] = "asking"]
  /\ account' = [account EXCEPT ![w] = a]
  /\ kind' = [kind EXCEPT ![w] = k]
  /\ UNCHANGED <<lockVars, lease, due>>

(* SET key token PX ttl NX finds no key. *)
Acquire(w, t) ==
  /\ phase[w] = "asking"
  /\ key[account[w]] = NoToken
  /\ Fresh(t)
  /\ key' = [key EXCEPT ![account[w]] = t]
  /\ pttl' = [pttl EXCEPT ![account[w]] = Ttl]
  /\ lease' = [lease EXCEPT ![w] = t]
  /\ phase' = [phase EXCEPT ![w] = "granted"]
  /\ UNCHANGED <<account, kind, due>>

(* SET ... NX finds a key: the handler answers deferred/account_locked. *)
Refuse(w) ==
  /\ phase[w] = "asking"
  /\ key[account[w]] # NoToken
  /\ BecomeIdle(w)
  /\ UNCHANGED lockVars

(* The reply OK arrives: the lease object exists and the operation starts; *)
(* withAccountLock also starts its interval.                               *)
Enter(w) ==
  /\ phase[w] = "granted"
  /\ phase' = [phase EXCEPT ![w] = "operating"]
  /\ due' = [due EXCEPT ![w] = IF kind[w] = "lifecycle" THEN RenewalPeriod ELSE 0]
  /\ UNCHANGED <<lockVars, account, lease, kind>>

(* The interval fires: renewScript extends the key only if it still holds  *)
(* this lease's token; the handler carries on whatever the answer is.      *)
Renew(w) ==
  /\ phase[w] = "operating"
  /\ kind[w] = "lifecycle"
  /\ due[w] = 0
  /\ pttl' = IF Holds(w) THEN [pttl EXCEPT ![account[w]] = Ttl] ELSE pttl
  /\ due' = [due EXCEPT ![w] = RenewalPeriod]
  /\ UNCHANGED <<key, phase, account, lease, kind>>

(* Redis cannot be reached: lease.renew().catch(() => undefined). *)
RenewFails(w) ==
  /\ w \notin PunctualWorkers
  /\ phase[w] = "operating"
  /\ kind[w] = "lifecycle"
  /\ due[w] = 0
  /\ due' = [due EXCEPT ![w] = RenewalPeriod]
  /\ UNCHANGED <<lockVars, phase, account, lease, kind>>

(* The operation resolves or rejects: finally { clearInterval; release }. *)
Finish(w) ==
  /\ phase[w] = "operating"
  /\ phase' = [phase EXCEPT ![w] = "releasing"]
  /\ due' = [due EXCEPT ![w] = 0]
  /\ UNCHANGED <<lockVars, account, lease, kind>>

(* releaseScript deletes the key only if it still holds this lease's token. *)
Release(w) ==
  /\ phase[w] = "releasing"
  /\ IF Holds(w)
     THEN /\ key' = [key EXCEPT ![account[w]] = NoToken]
          /\ pttl' = [pttl EXCEPT ![account[w]] = 0]
     ELSE UNCHANGED lockVars
  /\ BecomeIdle(w)

(* The process dies, or the connection to Redis fails in acquire() or in   *)
(* release() and the handler throws: nobody will release this lock, since  *)
(* acquire() is outside the try block and released is set before the call. *)
Abort(w) ==
  /\ phase[w] # "idle"
  /\ BecomeIdle(w)
  /\ UNCHANGED lockVars

(* A unit of time passes; keys whose time is over disappear. *)
Tick ==
  /\ \A w \in PunctualWorkers :
       /\ phase[w] # "granted"
       /\ ~(phase[w] = "operating" /\ kind[w] = "lifecycle" /\ due[w] = 0)
  /\ key' = [a \in Accounts |-> IF pttl[a] <= 1 THEN NoToken ELSE key[a]]
  /\ pttl' = [a \in Accounts |-> Elapse(pttl[a])]
  /\ due' = [w \in Workers |-> Elapse(due[w])]
  /\ UNCHANGED <<phase, account, lease, kind>>

WorkerStep(w) ==
  \/ \E a \in Accounts, k \in Kinds : Begin(w, a, k)
  \/ \E t \in Tokens : Acquire(w, t)
  \/ Refuse(w)
  \/ Enter(w)
  \/ Renew(w)
  \/ RenewFails(w)
  \/ Finish(w)
  \/ Release(w)
  \/ Abort(w)

Next == Tick \/ \E w \in Workers : WorkerStep(w)

Spec == Init /\ [][Next]_vars

(* Time passes, however often a callback that is due now comes before the  *)
(* next unit of it, and a live event loop runs the callbacks that are due. *)
(* Nothing is assumed of the operations themselves: a Telegram call may    *)
(* never return.                                                           *)
Fairness ==
  /\ SF_vars(Tick)
  /\ \A w \in Workers : WF_vars(Enter(w)) /\ WF_vars(Renew(w))

FairSpec == Spec /\ Fairness

-----------------------------------------------------------------------------
(* Two lease objects never carry the same token, a lease object belongs to *)
(* the account its handler works for, and a key exists exactly as long as  *)
(* it has time to live.                                                    *)
LeaseConsistency ==
  /\ \A v, w \in Workers : lease[v] = lease[w] /\ lease[v] # NoToken => v = w
  /\ \A w \in Workers : phase[w] \in {"granted", "operating", "releasing"}
                          <=> lease[w] # NoToken
  /\ \A w \in Workers : phase[w] = "idle" <=> account[w] = NoAccount
  /\ \A w \in Workers, a \in Accounts :
       key[a] = lease[w] /\ lease[w] # NoToken => account[w] = a
  /\ \A a \in Accounts : key[a] = NoToken <=> pttl[a] = 0

(* A lock leaves Redis in two ways only: its time runs out, or the worker  *)
(* whose lease stored it releases it.  In particular a handler that has    *)
(* outlived its lease never deletes or replaces the lock of the worker     *)
(* that took the account over (compare-and-delete in releaseScript).       *)
FreedByExpiryOrOwner ==
  \A a \in Accounts :
    key[a] # NoToken /\ key'[a] # key[a] =>
      /\ key'[a] = NoToken
      /\ \/ pttl[a] = 1 /\ UNCHANGED phase
         \/ \E w \in Workers : /\ phase[w] = "releasing" /\ phase'[w] = "idle"
                               /\ account[w] = a /\ lease[w] = key[a]
OnlyExpiryOrTheOwnerFrees == [][FreedByExpiryOrOwner]_vars

(* The life of a lock that is already there is prolonged only by the       *)
(* handler whose own token it stores: a stale renewal never keeps somebody *)
(* else's lock alive (compare-and-pexpire in renewScript).                 *)
ProlongedByOwner ==
  \A a \in Accounts :
    key[a] # NoToken /\ key'[a] = key[a] /\ pttl'[a] > pttl[a] =>
      \E w \in Workers : /\ phase[w] = "operating" /\ kind[w] = "lifecycle"
                         /\ account[w] = a /\ lease[w] = key[a]
OnlyTheOwnerProlongs == [][ProlongedByOwner]_vars

(* On a punctual worker, a CONNECT_ACCOUNT or DISCONNECT_ACCOUNT handler   *)
(* never works without its lease, although it ignores the answer of        *)
(* renew(): it always has time left when the interval fires.               *)
RenewerKeepsItsLease ==
  \A w \in PunctualWorkers :
    phase[w] = "operating" /\ kind[w] = "lifecycle" =>
      /\ Holds(w)
      /\ pttl[account[w]] > due[w]

(* Hence two lifecycle handlers of punctual workers never work on the same *)
(* account at once, however late the other workers are.                    *)
RenewersExcludeEachOther ==
  \A v, w \in PunctualWorkers :
    /\ phase[v] = "operating" /\ kind[v] = "lifecycle"
    /\ phase[w] = "operating" /\ kind[w] = "lifecycle"
    /\ account[v] = account[w]
    => v = w

(* A lock whose worker died, or lost the connection before it could        *)
(* release, is gone after its time to live without anyone's help.          *)
Orphaned(a) == key[a] # NoToken /\ \A w \in Workers : lease[w] # key[a]
OrphanExpires == \A a \in Accounts : Orphaned(a) ~> key[a] = NoToken

(* CONTEXT.md, invariant 2: one live worker owns a Telegram account at a   *)
(* time, that is, no two workers are in the middle of a Telegram operation *)
(* on the same account.                                                    *)
OneLiveWorkerPerAccount ==
  \A v, w \in Workers :
    /\ phase[v] = "operating" /\ phase[w] = "operating"
    /\ account[v] = account[w]
    => v = w

-----------------------------------------------------------------------------
(* The lock keeps the promise of AccountLockPort. *)
OwnerOf(a) ==
  IF key[a] = NoToken THEN Nobody
  ELSE IF \E w \in Workers : lease[w] = key[a]
       THEN CHOOSE w \in Workers : lease[w] = key[a]
       ELSE Orphan

StandingOf(w) ==
  IF lease[w] = NoToken THEN "none" ELSE IF Holds(w) THEN "live" ELSE "lost"

Port == INSTANCE AccountLease
          WITH owner <- [a \in Accounts |-> OwnerOf(a)],
               standing <- [w \in Workers |-> StandingOf(w)]

(* Seen through the port, Redis grants, frees and expires exactly as the   *)
(* interface says, with any number of stale lease objects around.          *)
ImplementsPort == Port!LeaseSpec
=============================================================================
