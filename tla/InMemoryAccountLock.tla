-------------------------- MODULE InMemoryAccountLock --------------------------
(***************************************************************************)
(* InMemoryAccountLockRegistry, the lock of the tests and of a single      *)
(* process.  Unlike Redis it never purges: a record whose time is over     *)
(* stays in the map until another acquire() overwrites it, so expiry is a  *)
(* comparison that every method has to make for itself.  renew() makes it, *)
(* release() does not.                                                     *)
(*                                                                         *)
(* Its callers hold the lease objects and may call renew() and release()   *)
(* at any moment, in any order, any number of times.  Only                 *)
(* expiresAt - now is ever compared with 0, so a record keeps that         *)
(* difference (left), stopped at 0, instead of the two times.              *)
(***************************************************************************)
EXTENDS Integers

CONSTANTS Accounts, Workers, Tokens, NoToken, NoAccount, Nobody, Orphan, Ttl

VARIABLES
  token,      \* the token of each account's record, NoToken when there is none
  left,       \* expiresAt - now of the record, stopped at 0
  lease,      \* the token of each worker's lease object
  account,    \* the accountId of that object
  released    \* the flag the object's closure keeps

vars == <<token, left, lease, account, released>>
registry == <<token, left>>
objects == <<lease, account, released>>

TypeOK ==
  /\ token \in [Accounts -> Tokens \cup {NoToken}]
  /\ left \in [Accounts -> 0 .. Ttl]
  /\ lease \in [Workers -> Tokens \cup {NoToken}]
  /\ account \in [Workers -> Accounts \cup {NoAccount}]
  /\ released \in [Workers -> BOOLEAN]

Init ==
  /\ token = [a \in Accounts |-> NoToken]
  /\ left = [a \in Accounts |-> 0]
  /\ lease = [w \in Workers |-> NoToken]
  /\ account = [w \in Workers |-> NoAccount]
  /\ released = [w \in Workers |-> FALSE]

Fresh(t) == (\A a \in Accounts : token[a] # t) /\ (\A w \in Workers : lease[w] # t)

(* current && current.expiresAt > now *)
Locked(a) == token[a] # NoToken /\ left[a] > 0

(* Mutant of Current: any record of the account passes for its own. *)
CurrentByAccount(w) ==
  /\ lease[w] # NoToken
  /\ ~released[w]
  /\ token[account[w]] # NoToken

(* !released && record && record.token === token && record.workerId === workerId *)
Current(w) ==
  /\ lease[w] # NoToken
  /\ ~released[w]
  /\ token[account[w]] = lease[w]

(* acquire(); when the account is locked it answers undefined. *)
Acquire(w, a, t) ==
  /\ lease[w] = NoToken
  /\ ~Locked(a)
  /\ Fresh(t)
  /\ token' = [token EXCEPT ![a] = t]
  /\ left' = [left EXCEPT ![a] = Ttl]
  /\ lease' = [lease EXCEPT ![w] = t]
  /\ account' = [account EXCEPT ![w] = a]
  /\ released' = [released EXCEPT ![w] = FALSE]

(* Mutant of Renew: record.expiresAt + ttlMs for now + ttlMs, so every     *)
(* renewal adds to what is left.                                           *)
RenewAdds(w) ==
  /\ Current(w)
  /\ left[account[w]] > 0
  /\ left' = [left EXCEPT ![account[w]] = @ + Ttl]
  /\ UNCHANGED <<token, objects>>

(* renew() that answers true; it changes nothing when it answers false. *)
Renew(w) ==
  /\ Current(w)
  /\ left[account[w]] > 0
  /\ left' = [left EXCEPT ![account[w]] = Ttl]
  /\ UNCHANGED <<token, objects>>

(* release() that answers true, also on a record whose time is over. *)
Release(w) ==
  /\ Current(w)
  /\ token' = [token EXCEPT ![account[w]] = NoToken]
  /\ left' = [left EXCEPT ![account[w]] = 0]
  /\ released' = [released EXCEPT ![w] = TRUE]
  /\ UNCHANGED <<lease, account>>

(* The caller drops the lease object, released or not. *)
Discard(w) ==
  /\ lease[w] # NoToken
  /\ lease' = [lease EXCEPT ![w] = NoToken]
  /\ account' = [account EXCEPT ![w] = NoAccount]
  /\ released' = [released EXCEPT ![w] = FALSE]
  /\ UNCHANGED registry

(* The clock advances. *)
Tick ==
  /\ left' = [a \in Accounts |-> IF left[a] > 0 THEN left[a] - 1 ELSE 0]
  /\ UNCHANGED <<token, objects>>

Next ==
  \/ Tick
  \/ \E w \in Workers :
       \/ \E a \in Accounts, t \in Tokens : Acquire(w, a, t)
       \/ Renew(w)
       \/ Release(w)
       \/ Discard(w)

Spec == Init /\ [][Next]_vars

-----------------------------------------------------------------------------
OwnerOf(a) ==
  IF ~Locked(a) THEN Nobody
  ELSE IF \E w \in Workers : lease[w] = token[a]
       THEN CHOOSE w \in Workers : lease[w] = token[a]
       ELSE Orphan

StandingOf(w) ==
  IF lease[w] = NoToken \/ released[w] THEN "none"
  ELSE IF Current(w) /\ Locked(account[w]) THEN "live" ELSE "lost"

Port == INSTANCE AccountLease
          WITH owner <- [a \in Accounts |-> OwnerOf(a)],
               standing <- [w \in Workers |-> StandingOf(w)]

(* The registry of the tests keeps the same promise as Redis: an expired   *)
(* record that is still in the map counts as free, and the lease object    *)
(* that stored it can neither renew it back to life nor, by its late       *)
(* release(), free the account of the worker that took over.               *)
ImplementsPort == Port!LeaseSpec
=============================================================================
