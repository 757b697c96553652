----------------------------- MODULE AccountLease -----------------------------
(***************************************************************************)
(* What AccountLockPort (apps/telegram-worker/src/workers/account-lock.ts) *)
(* promises to its callers, whatever stores the lock and whatever clock    *)
(* expires it.                                                             *)
(*                                                                         *)
(* An account has at most one owner.  Ownership is granted only when the   *)
(* account is free, is taken back only by the passing of time, is given    *)
(* back only by the owner itself, and never moves from one worker to       *)
(* another without the account being free in between.  A lease object that *)
(* lost its account stays lost: neither renew() nor release() revives it.  *)
(***************************************************************************)
CONSTANTS
  Accounts,   \* Telegram accounts
  Workers,    \* callers of acquire(), one lease object each
  Nobody,     \* the owner of a free account
  Orphan      \* the owner of an account whose lease object no longer exists

VARIABLES
  owner,      \* who owns each account
  standing    \* the standing of each worker's lease object

leaseVars == <<owner, standing>>

LeaseTypeOK ==
  /\ owner \in [Accounts -> Workers \cup {Nobody, Orphan}]
  /\ standing \in [Workers -> {"none", "live", "lost"}]

LeaseInit ==
  /\ owner = [a \in Accounts |-> Nobody]
  /\ standing = [w \in Workers |-> "none"]

(* acquire() resolves to a lease. *)
Grant(w, a) ==
  /\ owner[a] = Nobody
  /\ standing[w] = "none"
  /\ owner' = [owner EXCEPT ![a] = w]
  /\ standing' = [standing EXCEPT ![w] = "live"]

(* release() by the owner. *)
GiveBack(w, a) ==
  /\ owner[a] = w
  /\ owner' = [owner EXCEPT ![a] = Nobody]
  /\ standing' = [standing EXCEPT ![w] = "none"]

(* The owner disappears without releasing. *)
Abandon(w, a) ==
  /\ owner[a] = w
  /\ owner' = [owner EXCEPT ![a] = Orphan]
  /\ standing' = [standing EXCEPT ![w] = "none"]

(* A lease object that had already lost its account is dropped; release()  *)
(* on it answers false and frees nothing.                                  *)
Forget(w) ==
  /\ standing[w] = "lost"
  /\ standing' = [standing EXCEPT ![w] = "none"]
  /\ UNCHANGED owner

(* The time to live of some locks runs out. *)
Lapse(lapsed) ==
  /\ \A a \in lapsed : owner[a] # Nobody
  /\ owner' = [a \in Accounts |-> IF a \in lapsed THEN Nobody ELSE owner[a]]
  /\ standing' = [w \in Workers |-> IF \E a \in lapsed : owner[a] = w
                                    THEN "lost" ELSE standing[w]]

LeaseNext ==
  \/ \E w \in Workers, a \in Accounts : Grant(w, a) \/ GiveBack(w, a) \/ Abandon(w, a)
  \/ \E w \in Workers : Forget(w)
  \/ \E lapsed \in SUBSET Accounts : Lapse(lapsed)

LeaseSpec == LeaseInit /\ [][LeaseNext]_leaseVars

-----------------------------------------------------------------------------
(* A lease object answers true to renew() and release() exactly while its  *)
(* worker owns an account, and a worker never owns two: what the handlers  *)
(* rely on when they hold one lease at a time.                             *)
LiveMeansOwner ==
  /\ \A w \in Workers : standing[w] = "live" <=> \E a \in Accounts : owner[a] = w
  /\ \A a, b \in Accounts : owner[a] = owner[b] /\ owner[a] \in Workers => a = b

(* Ownership never passes from one worker to another in one step, and an   *)
(* account whose worker vanished is never adopted: it is free in between.  *)
NoHandover ==
  \A a \in Accounts : owner[a] # Nobody /\ owner'[a] # owner[a] =>
    owner'[a] = Nobody \/ (owner'[a] = Orphan /\ owner[a] \in Workers)
NeverHandedOver == [][NoHandover]_leaseVars
=============================================================================
