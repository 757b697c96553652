--------------------------- MODULE AccountLockProofs ---------------------------
(***************************************************************************)
(* Proofs about the port of the account lock, AccountLease, and about its  *)
(* Redis adapter, RedisAccountLock, for any sets of accounts, workers and  *)
(* tokens and any time to live.                                            *)
(***************************************************************************)
EXTENDS RedisAccountLock, TLAPS

VARIABLES owner, standing    \* of the port
Lease == INSTANCE AccountLease

(* Every account has a worker, nobody or the orphan mark for an owner, and *)
(* every lease object is none, live or lost.                               *)
LEMMA LeaseTyping == Lease!LeaseSpec => []Lease!LeaseTypeOK
<1> USE DEF Lease!LeaseTypeOK
<1>1. Lease!LeaseInit => Lease!LeaseTypeOK
  BY DEF Lease!LeaseInit
<1>2. Lease!LeaseTypeOK /\ [Lease!LeaseNext]_(Lease!leaseVars) => Lease!LeaseTypeOK'
  BY DEF Lease!LeaseNext, Lease!leaseVars, Lease!Grant, Lease!GiveBack, Lease!Abandon,
     Lease!Forget, Lease!Lapse
<1> QED
  BY <1>1, <1>2, PTL DEF Lease!LeaseSpec

(* A lease is live exactly while its worker owns an account, and then it   *)
(* owns only one.                                                          *)
THEOREM LiveMeansOwnerHolds == Lease!LeaseSpec => []Lease!LiveMeansOwner
<1> USE OwnerAssumption DEF Lease!LiveMeansOwner
<1>1. Lease!LeaseInit => Lease!LiveMeansOwner
  BY DEF Lease!LeaseInit
<1>2. Lease!LeaseTypeOK /\ Lease!LiveMeansOwner /\ [Lease!LeaseNext]_(Lease!leaseVars)
        => Lease!LiveMeansOwner'
  <2> SUFFICES ASSUME Lease!LeaseTypeOK, Lease!LiveMeansOwner, [Lease!LeaseNext]_(Lease!leaseVars)
               PROVE  Lease!LiveMeansOwner'
    OBVIOUS
  <2> USE DEF Lease!LeaseTypeOK
  <2>1. ASSUME NEW w \in Workers, NEW a \in Accounts, Lease!Grant(w, a)
        PROVE  Lease!LiveMeansOwner'
    BY <2>1 DEF Lease!Grant
  <2>2. ASSUME NEW w \in Workers, NEW a \in Accounts, Lease!GiveBack(w, a)
        PROVE  Lease!LiveMeansOwner'
    BY <2>2 DEF Lease!GiveBack
  <2>3. ASSUME NEW w \in Workers, NEW a \in Accounts, Lease!Abandon(w, a)
        PROVE  Lease!LiveMeansOwner'
    BY <2>3 DEF Lease!Abandon
  <2>4. ASSUME NEW w \in Workers, Lease!Forget(w) PROVE Lease!LiveMeansOwner'
    BY <2>4 DEF Lease!Forget
  <2>5. ASSUME NEW lapsed \in SUBSET Accounts, Lease!Lapse(lapsed) PROVE Lease!LiveMeansOwner'
    BY <2>5 DEF Lease!Lapse
  <2>6. CASE UNCHANGED Lease!leaseVars
    BY <2>6 DEF Lease!leaseVars
  <2> QED
    BY <2>1, <2>2, <2>3, <2>4, <2>5, <2>6 DEF Lease!LeaseNext
<1> QED
  BY <1>1, <1>2, LeaseTyping, PTL DEF Lease!LeaseSpec

(* An account is free between two owners, and an orphan is never adopted. *)
THEOREM NeverHandedOverHolds == Lease!LeaseSpec => Lease!NeverHandedOver
<1>1. Lease!LeaseTypeOK /\ [Lease!LeaseNext]_(Lease!leaseVars) => [Lease!NoHandover]_(Lease!leaseVars)
  BY DEF Lease!LeaseTypeOK, Lease!LeaseNext, Lease!leaseVars, Lease!NoHandover, Lease!Grant,
     Lease!GiveBack, Lease!Abandon, Lease!Forget, Lease!Lapse
<1> QED
  BY <1>1, LeaseTyping, PTL DEF Lease!LeaseSpec, Lease!NeverHandedOver

-----------------------------------------------------------------------------
(* The renewal period is a positive whole number of units of time. *)
LEMMA PeriodType == RenewalPeriod \in Nat \ {0}
  BY TtlAssumption, MinRenewalAssumption DEF RenewalPeriod

-----------------------------------------------------------------------------
(* Every variable keeps its type. *)
THEOREM Typing == Spec => []TypeOK
<1>1. Init => TypeOK
  BY PeriodType, TtlAssumption DEF Init, TypeOK, Phases, Kinds
<1>2. TypeOK /\ [Next]_vars => TypeOK'
  <2> SUFFICES ASSUME TypeOK, [Next]_vars PROVE TypeOK'
    OBVIOUS
  <2> USE PeriodType, TtlAssumption DEF TypeOK, Phases, Kinds, lockVars
  <2>1. CASE Tick
    <3>1. key' \in [Accounts -> Tokens \cup {NoToken}]
      BY <2>1 DEF Tick, Elapse
    <3>2. pttl' \in [Accounts -> 0 .. Ttl]
      BY <2>1 DEF Tick, Elapse
    <3>3. due' \in [Workers -> 0 .. RenewalPeriod]
      BY <2>1 DEF Tick, Elapse
    <3>4. QED
      BY <2>1, <3>1, <3>2, <3>3 DEF Tick, Elapse
  <2>2. ASSUME NEW w \in Workers, WorkerStep(w) PROVE TypeOK'
    <3>1. ASSUME NEW a \in Accounts, NEW k \in Kinds, Begin(w, a, k)
          PROVE TypeOK'
      BY <3>1 DEF Begin
    <3>2. ASSUME NEW t \in Tokens, Acquire(w, t) PROVE TypeOK'
      BY <3>2, Ttl \in 0 .. Ttl DEF Acquire
    <3>3. CASE Refuse(w)
      BY <3>3 DEF Refuse, BecomeIdle
    <3>4. CASE Enter(w)
      BY <3>4 DEF Enter
    <3>5. CASE Renew(w)
      BY <3>5, Ttl \in 0 .. Ttl, RenewalPeriod \in 0 .. RenewalPeriod DEF Renew
    <3>6. CASE RenewFails(w)
      BY <3>6 DEF RenewFails
    <3>7. CASE Finish(w)
      BY <3>7 DEF Finish
    <3>8. CASE Release(w)
      BY <3>8 DEF Release, BecomeIdle
    <3>9. CASE Abort(w)
      BY <3>9 DEF Abort, BecomeIdle
    <3> QED
      BY <2>2, <3>1, <3>2, <3>3, <3>4, <3>5, <3>6, <3>7, <3>8, <3>9 DEF WorkerStep
  <2>3. CASE UNCHANGED vars
    BY <2>3 DEF vars
  <2> QED
    BY <2>1, <2>2, <2>3 DEF Next
<1> QED
  BY <1>1, <1>2, PTL DEF Spec

-----------------------------------------------------------------------------
(* Tokens identify leases, and a key lives exactly as long as its time. *)
LEMMA Consistency == Spec => []LeaseConsistency
<1>1. Init => LeaseConsistency
  BY NoTokenAssumption, NoAccountAssumption DEF Init, LeaseConsistency
<1>2. TypeOK /\ LeaseConsistency /\ [Next]_vars => LeaseConsistency'
  <2> SUFFICES ASSUME TypeOK, LeaseConsistency, [Next]_vars PROVE LeaseConsistency'
    OBVIOUS
  <2> USE NoTokenAssumption, NoAccountAssumption, TtlAssumption
      DEF TypeOK, LeaseConsistency, lockVars, Phases, Kinds
  <2>1. CASE Tick
    BY <2>1 DEF Tick, Elapse
  <2>2. ASSUME NEW w \in Workers, WorkerStep(w) PROVE LeaseConsistency'
    <3>1. ASSUME NEW a \in Accounts, NEW k \in Kinds, Begin(w, a, k)
          PROVE LeaseConsistency'
      BY <3>1 DEF Begin
    <3>2. ASSUME NEW t \in Tokens, Acquire(w, t) PROVE LeaseConsistency'
      BY <3>2 DEF Acquire, Fresh
    <3>3. CASE Refuse(w)
      BY <3>3 DEF Refuse, BecomeIdle
    <3>4. CASE Enter(w)
      BY <3>4 DEF Enter
    <3>5. CASE Renew(w)
      BY <3>5 DEF Renew, Holds
    <3>6. CASE RenewFails(w)
      BY <3>6 DEF RenewFails
    <3>7. CASE Finish(w)
      BY <3>7 DEF Finish
    <3>8. CASE Release(w)
      BY <3>8 DEF Release, BecomeIdle, Holds
    <3>9. CASE Abort(w)
      BY <3>9 DEF Abort, BecomeIdle
    <3> QED
      BY <2>2, <3>1, <3>2, <3>3, <3>4, <3>5, <3>6, <3>7, <3>8, <3>9 DEF WorkerStep
  <2>3. CASE UNCHANGED vars
    BY <2>3 DEF vars
  <2> QED
    BY <2>1, <2>2, <2>3 DEF Next
<1> QED
  BY <1>1, <1>2, Typing, PTL DEF Spec

-----------------------------------------------------------------------------
(* A key is removed by its time running out or by the release of the lease *)
(* that stored it, and never by a stale handler.                           *)
THEOREM OnlyExpiryOrTheOwnerFreesHolds == Spec => OnlyExpiryOrTheOwnerFrees
<1>1. TypeOK /\ LeaseConsistency /\ [Next]_vars => [FreedByExpiryOrOwner]_vars
  <2> SUFFICES ASSUME TypeOK, LeaseConsistency, Next,
                      NEW a \in Accounts, key[a] # NoToken, key'[a] # key[a]
               PROVE  /\ key'[a] = NoToken
                      /\ \/ pttl[a] = 1 /\ UNCHANGED phase
                         \/ \E w \in Workers :
                              /\ phase[w] = "releasing" /\ phase'[w] = "idle"
                              /\ account[w] = a /\ lease[w] = key[a]
    BY DEF FreedByExpiryOrOwner
  <2> USE NoTokenAssumption, NoAccountAssumption, TtlAssumption
      DEF TypeOK, LeaseConsistency, lockVars
  <2>1. CASE Tick
    BY <2>1 DEF Tick, Elapse
  <2>2. ASSUME NEW w \in Workers, WorkerStep(w)
        PROVE  /\ key'[a] = NoToken
               /\ phase[w] = "releasing" /\ phase'[w] = "idle"
               /\ account[w] = a /\ lease[w] = key[a]
    <3>1. ASSUME NEW t \in Tokens, Acquire(w, t) PROVE FALSE
      BY <3>1 DEF Acquire
    <3>2. CASE Release(w)
      BY <3>2 DEF Release, BecomeIdle, Holds
    <3>3. ASSUME key' = key PROVE FALSE
      BY <3>3
    <3> QED
      BY <2>2, <3>1, <3>2, <3>3
      DEF WorkerStep, Begin, Refuse, Enter, Renew, RenewFails, Finish, Abort
  <2> QED
    BY <2>1, <2>2 DEF Next
<1> QED
  BY <1>1, Typing, Consistency, PTL DEF Spec, OnlyExpiryOrTheOwnerFrees

(* A key that is not replaced lives longer only by a renewal of the lease  *)
(* whose token it holds.                                                   *)
THEOREM OnlyTheOwnerProlongsHolds == Spec => OnlyTheOwnerProlongs
<1>1. TypeOK /\ LeaseConsistency /\ [Next]_vars => [ProlongedByOwner]_vars
  <2> SUFFICES ASSUME TypeOK, LeaseConsistency, Next, NEW a \in Accounts,
                      key[a] # NoToken, key'[a] = key[a], pttl'[a] > pttl[a]
               PROVE  \E w \in Workers :
                        /\ phase[w] = "operating" /\ kind[w] = "lifecycle"
                        /\ account[w] = a /\ lease[w] = key[a]
    BY DEF ProlongedByOwner
  <2> USE NoTokenAssumption, NoAccountAssumption, TtlAssumption
      DEF TypeOK, LeaseConsistency, lockVars
  <2>1. CASE Tick
    BY <2>1 DEF Tick, Elapse
  <2>2. ASSUME NEW w \in Workers, WorkerStep(w)
        PROVE  /\ phase[w] = "operating" /\ kind[w] = "lifecycle"
               /\ account[w] = a /\ lease[w] = key[a]
    <3>1. ASSUME NEW t \in Tokens, Acquire(w, t) PROVE FALSE
      BY <3>1 DEF Acquire
    <3>2. CASE Renew(w)
      BY <3>2 DEF Renew, Holds
    <3>3. CASE Release(w)
      BY <3>3 DEF Release, Holds
    <3>4. ASSUME pttl' = pttl PROVE FALSE
      BY <3>4
    <3> QED
      BY <2>2, <3>1, <3>2, <3>3, <3>4
      DEF WorkerStep, Begin, Refuse, Enter, RenewFails, Finish, Abort
  <2> QED
    BY <2>1, <2>2 DEF Next
<1> QED
  BY <1>1, Typing, Consistency, PTL DEF Spec, OnlyTheOwnerProlongs

-----------------------------------------------------------------------------
(* The strengthening that carries RenewerKeepsItsLease: from the moment SET *)
(* answers OK the key has its full life, and from then on the next renewal *)
(* is always due strictly before the key dies.                             *)
RenewalInv ==
  \A w \in PunctualWorkers :
    kind[w] = "lifecycle" =>
      /\ phase[w] = "granted" => Holds(w) /\ pttl[account[w]] = Ttl
      /\ phase[w] = "operating" => Holds(w) /\ pttl[account[w]] > due[w]

(* If the renewal period is shorter than the time to live, a lifecycle     *)
(* handler of a punctual worker never outlives its lease.                  *)
THEOREM RenewerKeepsItsLeaseHolds ==
  ASSUME RenewalPeriod < Ttl
  PROVE  Spec => []RenewerKeepsItsLease
<1>1. Init => RenewalInv
  BY PunctualAssumption DEF Init, RenewalInv
<1>2. TypeOK /\ LeaseConsistency /\ RenewalInv /\ [Next]_vars => RenewalInv'
  <2> SUFFICES ASSUME TypeOK, LeaseConsistency, RenewalInv, [Next]_vars,
                      NEW v \in PunctualWorkers, kind'[v] = "lifecycle"
               PROVE  /\ phase'[v] = "granted" => Holds(v)' /\ (pttl[account[v]] = Ttl)'
                      /\ phase'[v] = "operating" => Holds(v)' /\ (pttl[account[v]] > due[v])'
    BY DEF RenewalInv
  <2> DEFINE Goal ==
        /\ phase'[v] = "granted" => Holds(v)' /\ (pttl[account[v]] = Ttl)'
        /\ phase'[v] = "operating" => Holds(v)' /\ (pttl[account[v]] > due[v])'
  <2> USE PeriodType, PunctualAssumption, NoTokenAssumption, NoAccountAssumption,
          TtlAssumption
      DEF TypeOK, LeaseConsistency, RenewalInv, Holds, lockVars, Phases, Kinds
  <2>1. CASE Tick
    BY <2>1 DEF Tick, Elapse
  <2>2. ASSUME NEW w \in Workers, WorkerStep(w) PROVE Goal
    <3>1. ASSUME NEW a \in Accounts, NEW k \in Kinds, Begin(w, a, k) PROVE Goal
      BY <3>1 DEF Begin
    <3>2. ASSUME NEW t \in Tokens, Acquire(w, t) PROVE Goal
      BY <3>2 DEF Acquire, Fresh
    <3>3. CASE Refuse(w)
      BY <3>3 DEF Refuse, BecomeIdle
    <3>4. CASE Enter(w)
      BY <3>4 DEF Enter
    <3>5. CASE Renew(w)
      BY <3>5 DEF Renew
    <3>6. CASE RenewFails(w)
      BY <3>6 DEF RenewFails
    <3>7. CASE Finish(w)
      BY <3>7 DEF Finish
    <3>8. CASE Release(w)
      BY <3>8 DEF Release, BecomeIdle
    <3>9. CASE Abort(w)
      BY <3>9 DEF Abort, BecomeIdle
    <3> QED
      BY <2>2, <3>1, <3>2, <3>3, <3>4, <3>5, <3>6, <3>7, <3>8, <3>9 DEF WorkerStep
  <2>3. CASE UNCHANGED vars
    BY <2>3 DEF vars
  <2> QED
    BY <2>1, <2>2, <2>3 DEF Next
<1>3. RenewalInv => RenewerKeepsItsLease
  BY DEF RenewalInv, RenewerKeepsItsLease
<1> QED
  BY <1>1, <1>2, <1>3, Typing, Consistency, PTL DEF Spec

(* Under the same condition two lifecycle handlers of punctual workers     *)
(* never work on the same account at the same time, whatever the other     *)
(* handlers and workers do.                                                *)
THEOREM RenewersExcludeEachOtherHolds ==
  ASSUME RenewalPeriod < Ttl
  PROVE  Spec => []RenewersExcludeEachOther
<1>1. LeaseConsistency /\ RenewerKeepsItsLease => RenewersExcludeEachOther
  BY PunctualAssumption DEF LeaseConsistency, RenewerKeepsItsLease, RenewersExcludeEachOther, Holds
<1> QED
  BY <1>1, Consistency, RenewerKeepsItsLeaseHolds, PTL

-----------------------------------------------------------------------------
(* What the refinement mapping says of a consistent state: the worker the  *)
(* port calls the owner is the one whose lease holds the key's token.      *)
MappingFacts ==
  /\ \A a \in Accounts : OwnerOf(a) = Nobody <=> key[a] = NoToken
  /\ \A a \in Accounts, w \in Workers :
       OwnerOf(a) = w <=> lease[w] # NoToken /\ key[a] = lease[w]
  /\ \A a \in Accounts : key[a] # NoToken /\ (\A w \in Workers : lease[w] # key[a])
       => OwnerOf(a) = Orphan

(* What the refinement mapping makes of a consistent state: the owner of a  *)
(* key is the worker whose lease stored it, or the orphan mark.             *)
LEMMA MappingLemma == LeaseConsistency => MappingFacts
<1> SUFFICES ASSUME LeaseConsistency PROVE MappingFacts
  OBVIOUS
<1>1. ASSUME NEW a \in Accounts, NEW w \in Workers, lease[w] # NoToken, key[a] = lease[w]
      PROVE  OwnerOf(a) = w
  BY <1>1 DEF OwnerOf, LeaseConsistency
<1>2. ASSUME NEW a \in Accounts, key[a] # NoToken, \A w \in Workers : lease[w] # key[a]
      PROVE  OwnerOf(a) = Orphan
  BY <1>2 DEF OwnerOf
<1>3. QED
  BY <1>1, <1>2, OwnerAssumption DEF MappingFacts, OwnerOf

(* The same facts after a step. *)
LEMMA MappingLemmaPrimed == LeaseConsistency' => MappingFacts'
<1> SUFFICES ASSUME LeaseConsistency' PROVE MappingFacts'
  OBVIOUS
<1>1. ASSUME NEW a \in Accounts, NEW w \in Workers, lease'[w] # NoToken, key'[a] = lease'[w]
      PROVE  OwnerOf(a)' = w
  BY <1>1 DEF OwnerOf, LeaseConsistency
<1>2. ASSUME NEW a \in Accounts, key'[a] # NoToken, \A w \in Workers : lease'[w] # key'[a]
      PROVE  OwnerOf(a)' = Orphan
  BY <1>2 DEF OwnerOf
<1>3. QED
  BY <1>1, <1>2, OwnerAssumption DEF MappingFacts, OwnerOf

(* The Redis lock implements AccountLockPort: every step of a handler, of  *)
(* Redis and of time is a step of the port or leaves the port's view alone. *)
THEOREM ImplementsPortHolds == Spec => ImplementsPort
<1> DEFINE owners == [a \in Accounts |-> OwnerOf(a)]
           standings == [w \in Workers |-> StandingOf(w)]
<1>1. Init => Port!LeaseInit
  BY DEF Init, Port!LeaseInit, OwnerOf, StandingOf
<1>2. TypeOK /\ LeaseConsistency /\ LeaseConsistency' /\ [Next]_vars
        => [Port!LeaseNext]_(Port!leaseVars)
  <2> SUFFICES ASSUME TypeOK, LeaseConsistency, LeaseConsistency', [Next]_vars
               PROVE  Port!LeaseNext \/ UNCHANGED <<owners, standings>>
    BY DEF Port!leaseVars
  <2>0. MappingFacts /\ MappingFacts'
    BY MappingLemma, MappingLemmaPrimed
  <2> USE <2>0, NoTokenAssumption, NoAccountAssumption, OwnerAssumption DEF lockVars
  <2>1. ASSUME key' = key, lease' = lease, account' = account
        PROVE  UNCHANGED <<owners, standings>>
    BY <2>1 DEF OwnerOf, StandingOf, Holds
  <2>2. CASE Tick
    <3> DEFINE lapsed == {a \in Accounts : key[a] # NoToken /\ key'[a] = NoToken}
    <3>1. \A a \in Accounts : key'[a] = IF a \in lapsed THEN NoToken ELSE key[a]
      BY <2>2 DEF Tick, Elapse, TypeOK, LeaseConsistency
    <3>2. lease' = lease /\ account' = account
      BY <2>2 DEF Tick, Elapse
    <3>3. \A a \in lapsed : OwnerOf(a) # Nobody
      BY DEF MappingFacts
    <3>4. \A a \in Accounts : OwnerOf(a)' = IF a \in lapsed THEN Nobody ELSE OwnerOf(a)
      BY <3>1, <3>2 DEF OwnerOf
    <3>5. \A w \in Workers : StandingOf(w)' = IF \E a \in lapsed : OwnerOf(a) = w
                                              THEN "lost" ELSE StandingOf(w)
      BY <3>1, <3>2 DEF StandingOf, Holds, MappingFacts, LeaseConsistency, TypeOK
    <3>6. Port!Lapse(lapsed)
      BY <3>3, <3>4, <3>5 DEF Port!Lapse
    <3> QED
      BY <3>6 DEF Port!LeaseNext
  <2>3. ASSUME NEW w \in Workers, WorkerStep(w)
        PROVE  Port!LeaseNext \/ UNCHANGED <<owners, standings>>
    <3>1. ASSUME NEW t \in Tokens, Acquire(w, t) PROVE Port!LeaseNext
      <4>1. PICK b \in Accounts : /\ account[w] = b /\ lease[w] = NoToken
                                 /\ key[b] = NoToken
        BY <3>1 DEF Acquire, LeaseConsistency, TypeOK
      <4>2. /\ key' = [key EXCEPT ![b] = t]
            /\ lease' = [lease EXCEPT ![w] = t]
            /\ account' = account
            /\ \A a \in Accounts : key[a] # t
            /\ \A v \in Workers : lease[v] # t
        BY <3>1, <4>1 DEF Acquire, Fresh
      <4>3. OwnerOf(b)' = w
        BY <4>1, <4>2 DEF MappingFacts, TypeOK
      <4>4. ASSUME NEW a \in Accounts, a # b PROVE OwnerOf(a)' = OwnerOf(a)
        <5>1. key'[a] = key[a]
          BY <4>2, <4>4 DEF TypeOK
        <5>2. ASSUME NEW v \in Workers, key[a] # NoToken
              PROVE  lease'[v] = key[a] <=> lease[v] = key[a]
          BY <4>1, <4>2, <5>2 DEF TypeOK
        <5> QED
          BY <5>1, <5>2 DEF MappingFacts, TypeOK
      <4>5. \A v \in Workers : StandingOf(v)' = IF v = w THEN "live" ELSE StandingOf(v)
        BY <4>1, <4>2 DEF StandingOf, Holds, LeaseConsistency, TypeOK
      <4>6. owners[b] = Nobody /\ standings[w] = "none"
        BY <4>1 DEF OwnerOf, StandingOf
      <4>7. owners' = [owners EXCEPT ![b] = w] /\ standings' = [standings EXCEPT ![w] = "live"]
        BY <4>3, <4>4, <4>5
      <4>8. Port!Grant(w, b)
        BY <4>6, <4>7 DEF Port!Grant
      <4> QED
        BY <4>8 DEF Port!LeaseNext
    <3>2. CASE BecomeIdle(w) /\ UNCHANGED lockVars
      <4>1. /\ lease' = [lease EXCEPT ![w] = NoToken]
            /\ account' = [account EXCEPT ![w] = NoAccount]
            /\ key' = key
        BY <3>2 DEF BecomeIdle
      <4>2. \A v \in Workers : StandingOf(v)' = IF v = w THEN "none" ELSE StandingOf(v)
        BY <4>1 DEF StandingOf, Holds, TypeOK
      <4>3. ASSUME NEW a \in Accounts, OwnerOf(a) # w PROVE OwnerOf(a)' = OwnerOf(a)
        <5>1. ASSUME NEW v \in Workers, key[a] # NoToken
              PROVE  lease'[v] = key[a] <=> lease[v] = key[a]
          BY <4>1, <4>3, <5>1 DEF MappingFacts, TypeOK
        <5> QED
          BY <4>1, <5>1 DEF MappingFacts, TypeOK
      <4>4. CASE lease[w] = NoToken
        BY <4>1, <4>2, <4>3, <4>4 DEF MappingFacts, StandingOf
      <4>5. CASE Holds(w)
        <5>1. PICK b \in Accounts : account[w] = b /\ lease[w] # NoToken /\ key[b] = lease[w]
          BY <4>5 DEF Holds, LeaseConsistency, TypeOK
        <5>2. \A a \in Accounts : OwnerOf(a) = w <=> a = b
          BY <5>1 DEF MappingFacts, LeaseConsistency
        <5>3. OwnerOf(b)' = Orphan
          BY <4>1, <5>1 DEF MappingFacts, LeaseConsistency, TypeOK
        <5>4. /\ owners' = [owners EXCEPT ![b] = Orphan]
              /\ standings' = [standings EXCEPT ![w] = "none"]
          BY <4>2, <4>3, <5>2, <5>3
        <5>5. Port!Abandon(w, b)
          BY <5>2, <5>4 DEF Port!Abandon
        <5> QED
          BY <5>5 DEF Port!LeaseNext
      <4>6. CASE lease[w] # NoToken /\ ~Holds(w)
        <5>1. \A a \in Accounts : OwnerOf(a) # w
          BY <4>6 DEF MappingFacts, LeaseConsistency, Holds
        <5>2. Port!Forget(w)
          BY <4>2, <4>3, <4>6, <5>1 DEF Port!Forget, StandingOf
        <5> QED
          BY <5>2 DEF Port!LeaseNext
      <4> QED
        BY <4>4, <4>5, <4>6
    <3>3. CASE Release(w) /\ Holds(w)
      <4>1. PICK b \in Accounts : account[w] = b /\ lease[w] # NoToken /\ key[b] = lease[w]
        BY <3>3 DEF Holds, LeaseConsistency, TypeOK
      <4>2. /\ lease' = [lease EXCEPT ![w] = NoToken]
            /\ account' = [account EXCEPT ![w] = NoAccount]
            /\ key' = [key EXCEPT ![b] = NoToken]
        BY <3>3, <4>1 DEF Release, BecomeIdle
      <4>3. \A v \in Workers : StandingOf(v)' = IF v = w THEN "none" ELSE StandingOf(v)
        BY <4>1, <4>2 DEF StandingOf, Holds, LeaseConsistency, TypeOK
      <4>4. OwnerOf(b)' = Nobody
        BY <4>1, <4>2 DEF OwnerOf, TypeOK
      <4>5. ASSUME NEW a \in Accounts, a # b PROVE OwnerOf(a)' = OwnerOf(a)
        <5>1. key'[a] = key[a]
          BY <4>2, <4>5 DEF TypeOK
        <5>2. ASSUME NEW v \in Workers, key[a] # NoToken
              PROVE  lease'[v] = key[a] <=> lease[v] = key[a]
          BY <4>1, <4>2, <4>5, <5>2 DEF LeaseConsistency, TypeOK
        <5> QED
          BY <5>1, <5>2 DEF MappingFacts, TypeOK
      <4>6. owners[b] = w
        BY <4>1 DEF MappingFacts
      <4>7. /\ owners' = [owners EXCEPT ![b] = Nobody]
            /\ standings' = [standings EXCEPT ![w] = "none"]
        BY <4>3, <4>4, <4>5
      <4>8. Port!GiveBack(w, b)
        BY <4>6, <4>7 DEF Port!GiveBack
      <4> QED
        BY <4>8 DEF Port!LeaseNext
    <3>4. CASE key' = key /\ lease' = lease /\ account' = account
      BY <2>1, <3>4
    <3>5. ASSUME NEW a \in Accounts, NEW k \in Kinds, Begin(w, a, k)
          PROVE  UNCHANGED <<owners, standings>>
      <4>1. lease[w] = NoToken /\ lease' = lease /\ key' = key
        BY <3>5 DEF Begin, LeaseConsistency, TypeOK
      <4>2. \A v \in Workers : v # w => account'[v] = account[v]
        BY <3>5 DEF Begin, TypeOK
      <4> QED
        BY <4>1, <4>2 DEF OwnerOf, StandingOf, Holds
    <3> QED
      BY <2>3, <3>1, <3>2, <3>3, <3>4, <3>5
      DEF WorkerStep, Refuse, Enter, Renew, RenewFails, Finish, Release, Abort
  <2> QED
    BY <2>1, <2>2, <2>3 DEF Next, vars
<1> QED
  BY <1>1, <1>2, Typing, Consistency, PTL DEF Spec, ImplementsPort, Port!LeaseSpec
=============================================================================
