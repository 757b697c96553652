------------------------ MODULE AccountConnectionProofs ------------------------
(***************************************************************************)
(* Theorems about AccountConnection, for any rows, phones and jobs, any    *)
(* number of deaths and any faults.                                        *)
(***************************************************************************)
EXTENDS AccountConnection, TLAPS

(* A job that was enqueued has an account whose row exists, a handler runs *)
(* an active job, and a handler that is at work owns the lock.             *)
WorkInv ==
  /\ TypeOK
  /\ \A j \in Jobs : jobState[j] # "absent" =>
       jobAccount[j] \in Accounts /\ request[jobAccount[j]] # "none"
  /\ \A j \in Jobs : step[j] # "none" => jobState[j] = "active"
  /\ OneHandlerPerAccount

(* WorkInv holds in every state. *)
LEMMA Work == Spec => []WorkInv
<1>1. Init => WorkInv
  <2> SUFFICES ASSUME NEW connected \in SUBSET Accounts,
                      status = [a \in Accounts |-> IF a \in connected THEN "ONLINE" ELSE "ABSENT"],
                      sessionStatus = [a \in Accounts |-> IF a \in connected THEN "ACTIVE" ELSE "null"],
                      errorState = [a \in Accounts |-> "null"],
                      telegramId = [a \in Accounts |-> IF a \in connected THEN "set" ELSE "null"],
                      session = [a \in Accounts |-> IF a \in connected THEN "stored" ELSE "absent"],
                      attempt = [a \in Accounts |-> "absent"],
                      code = [a \in Accounts |-> IF a \in connected THEN "used" ELSE "none"],
                      request = [a \in Accounts |-> IF a \in connected THEN "answered" ELSE "none"],
                      owner = [a \in Accounts |-> Nobody],
                      jobKind = [j \in Jobs |-> "none"],
                      jobAccount = [j \in Jobs |-> NoAccount],
                      jobState = [j \in Jobs |-> "absent"],
                      stalls = [j \in Jobs |-> 0],
                      step = [j \in Jobs |-> "none"],
                      deaths = 0,
                      faults = {}
               PROVE  WorkInv
    BY DEF Init
  <2>1. TypeOK
    BY FaultAssumption DEF TypeOK, Kinds
  <2> QED
    BY <2>1 DEF WorkInv, OneHandlerPerAccount, AtWork
<1>2. WorkInv /\ [Next]_vars => WorkInv'
  <2> SUFFICES ASSUME WorkInv, [Next]_vars PROVE WorkInv'
    OBVIOUS
  <2> USE NobodyAssumption, NoAccountAssumption, FaultAssumption
      DEF WorkInv, TypeOK, OneHandlerPerAccount, AtWork, row, queueVars, historyVars
  <2>1. ASSUME NEW a \in Accounts, CreateAccount(a) PROVE WorkInv'
    BY <2>1 DEF CreateAccount
  <2>2. ASSUME NEW a \in Accounts, NEW j \in Jobs, RequestCode(a, j) PROVE WorkInv'
    BY <2>2 DEF RequestCode, Enqueue, Kinds
  <2>3. ASSUME NEW a \in Accounts, MarkRequested(a) PROVE WorkInv'
    BY <2>3 DEF MarkRequested
  <2>4. ASSUME NEW a \in Accounts, NEW j \in Jobs, NEW k \in Kinds, Command(a, j, k) PROVE WorkInv'
    BY <2>4 DEF Command, Enqueue
  <2>5. ASSUME NEW a \in Accounts, LockExpires(a) PROVE WorkInv'
    BY <2>5 DEF LockExpires
  <2>6. ASSUME NEW a \in Accounts, AttemptExpires(a) PROVE WorkInv'
    BY <2>6 DEF AttemptExpires
  <2>7. ASSUME NEW j \in Jobs, Take(j) PROVE WorkInv'
    BY <2>7 DEF Take, Goto
  <2>8. ASSUME NEW j \in Jobs, Acquire(j) PROVE WorkInv'
    BY <2>8 DEF Acquire, Goto
  <2>9. ASSUME NEW j \in Jobs, Defer(j) PROVE WorkInv'
    BY <2>9 DEF Defer, Goto
  <2>10. ASSUME NEW j \in Jobs, MarkConnecting(j) PROVE WorkInv'
    BY <2>10 DEF MarkConnecting, Goto, SetStatus
  <2>11. ASSUME NEW j \in Jobs, SendCode(j) PROVE WorkInv'
    BY <2>11 DEF SendCode, Goto
  <2>12. ASSUME NEW j \in Jobs, SaveAttempt(j) PROVE WorkInv'
    BY <2>12 DEF SaveAttempt, Goto
  <2>13. ASSUME NEW j \in Jobs, SignIn(j) PROVE WorkInv'
    BY <2>13 DEF SignIn, Goto
  <2>14. ASSUME NEW j \in Jobs, SignInLost(j) PROVE WorkInv'
    BY <2>14 DEF SignInLost, Goto, Suffer
  <2>15. ASSUME NEW j \in Jobs, StoreSession(j) PROVE WorkInv'
    BY <2>15 DEF StoreSession, Goto
  <2>16. ASSUME NEW j \in Jobs, ClearAttempt(j) PROVE WorkInv'
    BY <2>16 DEF ClearAttempt, Goto
  <2>17. ASSUME NEW j \in Jobs, MarkOnline(j) PROVE WorkInv'
    BY <2>17 DEF MarkOnline, Goto, SetStatus
  <2>18. ASSUME NEW j \in Jobs, Disconnect(j) PROVE WorkInv'
    BY <2>18 DEF Disconnect, Goto
  <2>19. ASSUME NEW j \in Jobs, MarkOffline(j) PROVE WorkInv'
    BY <2>19 DEF MarkOffline, Goto, SetStatus
  <2>20. ASSUME NEW j \in Jobs, Fail(j) PROVE WorkInv'
    BY <2>20 DEF Fail, Goto, Suffer
  <2>21. ASSUME NEW j \in Jobs, MarkError(j) PROVE WorkInv'
    BY <2>21 DEF MarkError, Goto, SetStatus
  <2>22. ASSUME NEW j \in Jobs, FailOutside(j) PROVE WorkInv'
    BY <2>22 DEF FailOutside, Goto, Suffer
  <2>23. ASSUME NEW j \in Jobs, Finish(j) PROVE WorkInv'
    BY <2>23 DEF Finish, Goto
  <2>24. ASSUME NEW j \in Jobs, Die(j) PROVE WorkInv'
    BY <2>24 DEF Die, Goto
  <2>25. ASSUME NEW j \in Jobs, TakeBack(j) PROVE WorkInv'
    BY <2>25 DEF TakeBack
  <2>26. CASE UNCHANGED vars
    BY <2>26 DEF vars
  <2> QED
    BY <2>1, <2>2, <2>3, <2>4, <2>5, <2>6, <2>7, <2>8, <2>9,
       <2>10, <2>11, <2>12, <2>13, <2>14, <2>15, <2>16, <2>17,
       <2>18, <2>19, <2>20, <2>21, <2>22, <2>23, <2>24, <2>25,
       <2>26
       DEF Next, HttpStep, HandlerStep
<1> QED
  BY <1>1, <1>2, PTL DEF Spec

(* Every variable keeps its type. *)
THEOREM Typing == Spec => []TypeOK
<1>1. WorkInv => TypeOK
  BY DEF WorkInv
<1> QED
  BY <1>1, Work, PTL

(* A handler at work on an account is the owner of its lock, so there is   *)
(* one at a time: a dead handler leaves its lease to nobody, and a lease   *)
(* of a handler that is alive is renewed.                                  *)
THEOREM OneHandlerPerAccountHolds == Spec => []OneHandlerPerAccount
<1>1. WorkInv => OneHandlerPerAccount
  BY DEF WorkInv
<1> QED
  BY <1>1, Work, PTL

-----------------------------------------------------------------------------
(* The columns of a row while its handler is at work: a session is stored  *)
(* with its identity, in one transaction; from CONNECTING on the row is    *)
(* not OFFLINE; and a row nobody asked for has no session status.          *)
RowInv ==
  /\ StatusIsTrue
  /\ \A a \in Accounts : session[a] = "stored" <=> telegramId[a] = "set"
  /\ \A a \in Accounts : request[a] = "none" => sessionStatus[a] = "null"
  /\ \A j \in Jobs : step[j] \in {"marked", "coded", "signedIn", "stored", "cleared"} =>
       status[jobAccount[j]] = "CONNECTING"
  /\ \A j \in Jobs : step[j] \in {"stored", "cleared"} => session[jobAccount[j]] = "stored"

(* RowInv holds in every state. *)
LEMMA Rows == Spec => []RowInv
<1>1. Init => RowInv
  BY DEF Init, RowInv, StatusIsTrue
<1>2. WorkInv /\ RowInv /\ [Next]_vars => RowInv'
  <2> SUFFICES ASSUME WorkInv, RowInv, [Next]_vars PROVE RowInv'
    OBVIOUS
  <2> USE DEF WorkInv, TypeOK, OneHandlerPerAccount, AtWork, RowInv, StatusIsTrue, row,
              queueVars, historyVars
  <2>1. ASSUME NEW a \in Accounts, CreateAccount(a) PROVE RowInv'
    BY <2>1 DEF CreateAccount
  <2>2. ASSUME NEW a \in Accounts, NEW j \in Jobs, RequestCode(a, j) PROVE RowInv'
    BY <2>2 DEF RequestCode, Enqueue, Kinds
  <2>3. ASSUME NEW a \in Accounts, MarkRequested(a) PROVE RowInv'
    BY <2>3 DEF MarkRequested
  <2>4. ASSUME NEW a \in Accounts, NEW j \in Jobs, NEW k \in Kinds, Command(a, j, k) PROVE RowInv'
    BY <2>4 DEF Command, Enqueue
  <2>5. ASSUME NEW a \in Accounts, LockExpires(a) PROVE RowInv'
    BY <2>5 DEF LockExpires
  <2>6. ASSUME NEW a \in Accounts, AttemptExpires(a) PROVE RowInv'
    BY <2>6 DEF AttemptExpires
  <2>7. ASSUME NEW j \in Jobs, Take(j) PROVE RowInv'
    BY <2>7 DEF Take, Goto
  <2>8. ASSUME NEW j \in Jobs, Acquire(j) PROVE RowInv'
    BY <2>8 DEF Acquire, Goto
  <2>9. ASSUME NEW j \in Jobs, Defer(j) PROVE RowInv'
    BY <2>9 DEF Defer, Goto
  <2>10. ASSUME NEW j \in Jobs, MarkConnecting(j) PROVE RowInv'
    BY <2>10 DEF MarkConnecting, Goto, SetStatus
  <2>11. ASSUME NEW j \in Jobs, SendCode(j) PROVE RowInv'
    BY <2>11 DEF SendCode, Goto
  <2>12. ASSUME NEW j \in Jobs, SaveAttempt(j) PROVE RowInv'
    BY <2>12 DEF SaveAttempt, Goto
  <2>13. ASSUME NEW j \in Jobs, SignIn(j) PROVE RowInv'
    BY <2>13 DEF SignIn, Goto
  <2>14. ASSUME NEW j \in Jobs, SignInLost(j) PROVE RowInv'
    BY <2>14 DEF SignInLost, Goto, Suffer
  <2>15. ASSUME NEW j \in Jobs, StoreSession(j) PROVE RowInv'
    BY <2>15 DEF StoreSession, Goto
  <2>16. ASSUME NEW j \in Jobs, ClearAttempt(j) PROVE RowInv'
    BY <2>16 DEF ClearAttempt, Goto
  <2>17. ASSUME NEW j \in Jobs, MarkOnline(j) PROVE RowInv'
    BY <2>17 DEF MarkOnline, Goto, SetStatus
  <2>18. ASSUME NEW j \in Jobs, Disconnect(j) PROVE RowInv'
    BY <2>18 DEF Disconnect, Goto
  <2>19. ASSUME NEW j \in Jobs, MarkOffline(j) PROVE RowInv'
    BY <2>19 DEF MarkOffline, Goto, SetStatus
  <2>20. ASSUME NEW j \in Jobs, Fail(j) PROVE RowInv'
    BY <2>20 DEF Fail, Goto, Suffer
  <2>21. ASSUME NEW j \in Jobs, MarkError(j) PROVE RowInv'
    BY <2>21 DEF MarkError, Goto, SetStatus
  <2>22. ASSUME NEW j \in Jobs, FailOutside(j) PROVE RowInv'
    BY <2>22 DEF FailOutside, Goto, Suffer
  <2>23. ASSUME NEW j \in Jobs, Finish(j) PROVE RowInv'
    BY <2>23 DEF Finish, Goto
  <2>24. ASSUME NEW j \in Jobs, Die(j) PROVE RowInv'
    BY <2>24 DEF Die, Goto
  <2>25. ASSUME NEW j \in Jobs, TakeBack(j) PROVE RowInv'
    BY <2>25 DEF TakeBack
  <2>26. CASE UNCHANGED vars
    BY <2>26 DEF vars
  <2> QED
    BY <2>1, <2>2, <2>3, <2>4, <2>5, <2>6, <2>7, <2>8, <2>9,
       <2>10, <2>11, <2>12, <2>13, <2>14, <2>15, <2>16, <2>17,
       <2>18, <2>19, <2>20, <2>21, <2>22, <2>23, <2>24, <2>25,
       <2>26
       DEF Next, HttpStep, HandlerStep
<1> QED
  BY <1>1, <1>2, Work, PTL DEF Spec

(* An account that is shown ONLINE has its session and its identity, one   *)
(* that is shown OFFLINE is not listed with an active session.             *)
THEOREM StatusIsTrueHolds == Spec => []StatusIsTrue
<1>1. RowInv => StatusIsTrue
  BY DEF RowInv
<1> QED
  BY <1>1, Rows, PTL

-----------------------------------------------------------------------------
(* The same Telegram identity never has sessions in two rows: the unique   *)
(* index on telegramId and the transaction that writes it with the session *)
(* are enough.                                                             *)
THEOREM OneSessionPerIdentityHolds == Spec => []OneSessionPerIdentity
<1>1. Init => OneSessionPerIdentity
  BY DEF Init, OneSessionPerIdentity
<1>2. WorkInv /\ RowInv /\ OneSessionPerIdentity /\ [Next]_vars => OneSessionPerIdentity'
  <2> SUFFICES ASSUME WorkInv, RowInv, OneSessionPerIdentity, [Next]_vars
               PROVE  OneSessionPerIdentity'
    OBVIOUS
  <2> USE DEF WorkInv, TypeOK, RowInv, OneSessionPerIdentity, row
  <2>1. CASE \E j \in Jobs : StoreSession(j)
    BY <2>1 DEF StoreSession, Duplicate
  <2>2. CASE UNCHANGED session
    BY <2>2
  <2> QED
    BY <2>1, <2>2
       DEF Next, HttpStep, HandlerStep, vars, SetStatus, CreateAccount, RequestCode, MarkRequested,
           Command, LockExpires, AttemptExpires, Take, Acquire, Defer, MarkConnecting, SendCode,
           SaveAttempt, SignIn, SignInLost, ClearAttempt, MarkOnline, Disconnect, MarkOffline,
           Fail, MarkError, FailOutside, Finish, Die, TakeBack
<1> QED
  BY <1>1, <1>2, Work, Rows, PTL DEF Spec

-----------------------------------------------------------------------------
(* A sign-in that Telegram accepted ends in a stored session, or another   *)
(* row has the identity: between the two calls nobody else touches the     *)
(* account, and an identity is never given up.                             *)
THEOREM SignInIsKeptHolds == Spec => []SignInIsKept
<1>1. Init => SignInIsKept
  BY DEF Init, SignInIsKept
<1>2. WorkInv /\ SignInIsKept /\ [Next]_vars => SignInIsKept'
  <2> SUFFICES ASSUME WorkInv, SignInIsKept, [Next]_vars PROVE SignInIsKept'
    OBVIOUS
  <2> USE FaultAssumption
      DEF WorkInv, TypeOK, SignInIsKept, Duplicate, row, queueVars, historyVars
  <2>1. ASSUME NEW a \in Accounts, CreateAccount(a) PROVE SignInIsKept'
    BY <2>1 DEF CreateAccount
  <2>2. ASSUME NEW a \in Accounts, NEW j \in Jobs, RequestCode(a, j) PROVE SignInIsKept'
    BY <2>2 DEF RequestCode, Enqueue, Kinds
  <2>3. ASSUME NEW a \in Accounts, MarkRequested(a) PROVE SignInIsKept'
    BY <2>3 DEF MarkRequested
  <2>4. ASSUME NEW a \in Accounts, NEW j \in Jobs, NEW k \in Kinds, Command(a, j, k) PROVE SignInIsKept'
    BY <2>4 DEF Command, Enqueue
  <2>5. ASSUME NEW a \in Accounts, LockExpires(a) PROVE SignInIsKept'
    BY <2>5 DEF LockExpires
  <2>6. ASSUME NEW a \in Accounts, AttemptExpires(a) PROVE SignInIsKept'
    BY <2>6 DEF AttemptExpires
  <2>7. ASSUME NEW j \in Jobs, Take(j) PROVE SignInIsKept'
    BY <2>7 DEF Take, Goto
  <2>8. ASSUME NEW j \in Jobs, Acquire(j) PROVE SignInIsKept'
    BY <2>8 DEF Acquire, Goto
  <2>9. ASSUME NEW j \in Jobs, Defer(j) PROVE SignInIsKept'
    BY <2>9 DEF Defer, Goto
  <2>10. ASSUME NEW j \in Jobs, MarkConnecting(j) PROVE SignInIsKept'
    BY <2>10 DEF MarkConnecting, Goto, SetStatus
  <2>11. ASSUME NEW j \in Jobs, SendCode(j) PROVE SignInIsKept'
    BY <2>11 DEF SendCode, Goto
  <2>12. ASSUME NEW j \in Jobs, SaveAttempt(j) PROVE SignInIsKept'
    BY <2>12 DEF SaveAttempt, Goto
  <2>13. ASSUME NEW j \in Jobs, SignIn(j) PROVE SignInIsKept'
    BY <2>13 DEF SignIn, Goto
  <2>14. ASSUME NEW j \in Jobs, SignInLost(j) PROVE SignInIsKept'
    BY <2>14 DEF SignInLost, Goto, Suffer
  <2>15. ASSUME NEW j \in Jobs, StoreSession(j) PROVE SignInIsKept'
    BY <2>15 DEF StoreSession, Goto
  <2>16. ASSUME NEW j \in Jobs, ClearAttempt(j) PROVE SignInIsKept'
    BY <2>16 DEF ClearAttempt, Goto
  <2>17. ASSUME NEW j \in Jobs, MarkOnline(j) PROVE SignInIsKept'
    BY <2>17 DEF MarkOnline, Goto, SetStatus
  <2>18. ASSUME NEW j \in Jobs, Disconnect(j) PROVE SignInIsKept'
    BY <2>18 DEF Disconnect, Goto
  <2>19. ASSUME NEW j \in Jobs, MarkOffline(j) PROVE SignInIsKept'
    BY <2>19 DEF MarkOffline, Goto, SetStatus
  <2>20. ASSUME NEW j \in Jobs, Fail(j) PROVE SignInIsKept'
    BY <2>20 DEF Fail, Goto, Suffer
  <2>21. ASSUME NEW j \in Jobs, MarkError(j) PROVE SignInIsKept'
    BY <2>21 DEF MarkError, Goto, SetStatus
  <2>22. ASSUME NEW j \in Jobs, FailOutside(j) PROVE SignInIsKept'
    BY <2>22 DEF FailOutside, Goto, Suffer
  <2>23. ASSUME NEW j \in Jobs, Finish(j) PROVE SignInIsKept'
    BY <2>23 DEF Finish, Goto
  <2>24. ASSUME NEW j \in Jobs, Die(j) PROVE SignInIsKept'
    BY <2>24 DEF Die, Goto
  <2>25. ASSUME NEW j \in Jobs, TakeBack(j) PROVE SignInIsKept'
    BY <2>25 DEF TakeBack
  <2>26. CASE UNCHANGED vars
    BY <2>26 DEF vars
  <2> QED
    BY <2>1, <2>2, <2>3, <2>4, <2>5, <2>6, <2>7, <2>8, <2>9,
       <2>10, <2>11, <2>12, <2>13, <2>14, <2>15, <2>16, <2>17,
       <2>18, <2>19, <2>20, <2>21, <2>22, <2>23, <2>24, <2>25,
       <2>26
       DEF Next, HttpStep, HandlerStep
<1> QED
  BY <1>1, <1>2, Work, PTL DEF Spec
=============================================================================
