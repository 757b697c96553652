---------------------------- MODULE StoredDataProofs ----------------------------
(***************************************************************************)
(* Theorems about the components of StoredData, for any users, refresh     *)
(* tokens, requests, telegramIds, accounts, jobs, files and chats, and any *)
(* size of a page.  Each component has its theorems under its own          *)
(* specification; those at the end are about all of them together.         *)
(***************************************************************************)
EXTENDS StoredData, FiniteSetTheorems, SequenceTheorems, WellFoundedInduction, TLAPS

(* Every request but a registration acts for a user, a rotation has a      *)
(* token that was issued, a deletion has a user to delete, and a token     *)
(* that was issued has a user and a login.                                 *)
Issued(t) == t \in RefreshTokens /\ session[t] # "unused"

Acts ==
  /\ \A r \in Requests :
       /\ phase[r] \notin {"idle", "counted"} => caller[r] \in Users
       /\ phase[r] \in {"found", "spent", "known"} => Issued(presented[r])
       /\ phase[r] = "deleting" => target[r] \in Users
  /\ \A t \in RefreshTokens :
       IF Issued(t) THEN holder[t] \in Users /\ Issued(login[t]) ELSE holder[t] = NoUser

ActorInv == SessionsTypeOK /\ Acts

(* While one deletion is in progress, whoever asked for it exists and is   *)
(* not the one to go.                                                      *)
DeletionInv ==
  /\ users \subseteq born
  /\ ~crossed => \A r \in Requests : phase[r] = "deleting" =>
       /\ caller[r] \in users /\ caller[r] # target[r]
       /\ \A q \in Requests : phase[q] = "deleting" => q = r
  /\ SomebodyIsLeft

(* Request r rotates a token: it has read it, or has spent it and owes     *)
(* its login another.                                                      *)
Rotates(r) == phase[r] \in {"found", "spent", "known"}

(* A login that is not forked is at one place: in one live token, in one   *)
(* request that has read it, or in one that owes the next.                 *)
RotationInv ==
  /\ \A q, r \in Requests :
       Rotates(q) /\ Rotates(r) /\ login[presented[q]] = login[presented[r]] =>
         q = r \/ login[presented[r]] \in forked
  /\ \A r \in Requests, s \in RefreshTokens :
       Rotates(r) /\ session[s] = "live" /\ login[s] = login[presented[r]] =>
         (phase[r] = "found" /\ s = presented[r]) \/ login[s] \in forked
  /\ OneTokenPerLogin

-----------------------------------------------------------------------------
(* ActorInv holds in every state. *)
LEMMA Actors == SessionsSpec => []ActorInv
<1>1. SessionsInit => ActorInv
  <2>1. SessionsInit => SessionsTypeOK
    BY DEF SessionsInit, SessionsTypeOK, Phases
  <2>2. SessionsInit => Acts
    BY DEF SessionsInit, Acts, Issued
  <2> QED
    BY <2>1, <2>2 DEF ActorInv
<1>2. ActorInv /\ [SessionsNext]_sessionVars => ActorInv'
  <2> SUFFICES ASSUME SessionsTypeOK, Acts, [SessionsNext]_sessionVars PROVE ActorInv'
    BY DEF ActorInv
  <2> USE DEF rows, requests, histories, sessionVars, Begin, Advance, Answered, Insert, Issued
  <2>1. ASSUME NEW r \in Requests, Register(r) \/ Verify(r) \/ WrongPassword(r) \/ FindUser(r)
       PROVE  ActorInv'
    <3>1. SessionsTypeOK'
      BY <2>1 DEF Register, Verify, WrongPassword, FindUser, SessionsTypeOK, Phases
    <3>2. Acts'
      BY <2>1 DEF Register, Verify, WrongPassword, FindUser, Acts, SessionsTypeOK
    <3> QED
      BY <3>1, <3>2 DEF ActorInv
  <2>2. ASSUME NEW r \in Requests, Spend(r)
       PROVE  ActorInv'
    <3>1. SessionsTypeOK'
      BY <2>2 DEF Spend, SessionsTypeOK, Phases
    <3>2. Acts'
      BY <2>2 DEF Spend, Acts, SessionsTypeOK
    <3> QED
      BY <3>1, <3>2 DEF ActorInv
  <2>3. ASSUME NEW r \in Requests, RevokeAll(r)
       PROVE  ActorInv'
    <3>1. SessionsTypeOK'
      BY <2>3 DEF RevokeAll, SessionsTypeOK, Phases
    <3>2. Acts'
      BY <2>3 DEF RevokeAll, Acts, SessionsTypeOK
    <3> QED
      BY <3>1, <3>2 DEF ActorInv
  <2>4. ASSUME NEW r \in Requests, Invalidate(r)
       PROVE  ActorInv'
    <3>1. SessionsTypeOK'
      BY <2>4 DEF Invalidate, SessionsTypeOK, Phases, Acts
    <3>2. Acts'
      BY <2>4 DEF Invalidate, Acts, SessionsTypeOK
    <3> QED
      BY <3>1, <3>2 DEF ActorInv
  <2>5. ASSUME NEW r \in Requests, DeleteRow(r)
       PROVE  ActorInv'
    <3>1. SessionsTypeOK'
      BY <2>5 DEF DeleteRow, SessionsTypeOK, Phases
    <3>2. Acts'
      BY <2>5, UsersAssumption DEF DeleteRow, Acts, SessionsTypeOK
    <3> QED
      BY <3>1, <3>2 DEF ActorInv
  <2>6. ASSUME NEW r \in Requests, NEW u \in Users, CreateOwner(r, u)
       PROVE  ActorInv'
    <3>1. SessionsTypeOK'
      BY <2>6 DEF CreateOwner, SessionsTypeOK, Phases
    <3>2. Acts'
      BY <2>6 DEF CreateOwner, Acts, SessionsTypeOK
    <3> QED
      BY <3>1, <3>2 DEF ActorInv
  <2>7. ASSUME NEW r \in Requests, NEW u \in Users, Login(r, u) \/ Logout(r, u)
       PROVE  ActorInv'
    <3>1. SessionsTypeOK'
      BY <2>7 DEF Login, Logout, SessionsTypeOK, Phases
    <3>2. Acts'
      BY <2>7 DEF Login, Logout, Acts, SessionsTypeOK
    <3> QED
      BY <3>1, <3>2 DEF ActorInv
  <2>8. ASSUME NEW r \in Requests, NEW a \in Users, NEW u \in Users, Delete(r, a, u)
       PROVE  ActorInv'
    <3>1. SessionsTypeOK'
      BY <2>8 DEF Delete, SessionsTypeOK, Phases
    <3>2. Acts'
      BY <2>8 DEF Delete, Acts, SessionsTypeOK
    <3> QED
      BY <3>1, <3>2 DEF ActorInv
  <2>9. ASSUME NEW r \in Requests, NEW t \in RefreshTokens, StoreSession(r, t)
       PROVE  ActorInv'
    <3>1. SessionsTypeOK'
      BY <2>9 DEF StoreSession, SessionsTypeOK, Phases, Acts
    <3>2. Acts'
      BY <2>9 DEF StoreSession, Acts, SessionsTypeOK, Phases
    <3> QED
      BY <3>1, <3>2 DEF ActorInv
  <2>10. ASSUME NEW r \in Requests, NEW t \in RefreshTokens, Refresh(r, t)
        PROVE  ActorInv'
    <3>1. SessionsTypeOK'
      BY <2>10 DEF Refresh, Redeemable, SessionsTypeOK, Phases, Acts
    <3>2. Acts'
      BY <2>10 DEF Refresh, Redeemable, Acts, SessionsTypeOK, Phases
    <3> QED
      BY <3>1, <3>2 DEF ActorInv
  <2>11. ASSUME NEW a \in Users, NEW u \in Users, CreateUser(a, u)
        PROVE  ActorInv'
    <3>1. SessionsTypeOK'
      BY <2>11 DEF CreateUser, SessionsTypeOK, Phases
    <3>2. Acts'
      BY <2>11 DEF CreateUser, Acts, SessionsTypeOK
    <3> QED
      BY <3>1, <3>2 DEF ActorInv
  <2>12. ASSUME NEW t \in RefreshTokens, SessionExpires(t)
        PROVE  ActorInv'
    <3>1. SessionsTypeOK'
      BY <2>12 DEF SessionExpires, SessionsTypeOK, Phases
    <3>2. Acts'
      BY <2>12 DEF SessionExpires, Acts, SessionsTypeOK
    <3> QED
      BY <3>1, <3>2 DEF ActorInv
  <2>13. CASE Restart
    <3>1. SessionsTypeOK'
      BY <2>13 DEF Restart, SessionsTypeOK, Phases
    <3>2. Acts'
      BY <2>13 DEF Restart, Acts, SessionsTypeOK
    <3> QED
      BY <3>1, <3>2 DEF ActorInv
  <2>14. CASE UNCHANGED sessionVars
    <3>1. SessionsTypeOK'
      BY <2>14 DEF SessionsTypeOK, Phases
    <3>2. Acts'
      BY <2>14 DEF Acts, SessionsTypeOK
    <3> QED
      BY <3>1, <3>2 DEF ActorInv
  <2> QED
    BY <2>1, <2>2, <2>3, <2>4, <2>5, <2>6, <2>7, <2>8, <2>9, <2>10, <2>11, <2>12, <2>13, <2>14
       DEF SessionsNext
<1> QED
  BY <1>1, <1>2, PTL DEF SessionsSpec

(* Every variable keeps its type. *)
THEOREM SessionsTyping == SessionsSpec => []SessionsTypeOK
<1>1. ActorInv => SessionsTypeOK
  BY DEF ActorInv
<1> QED
  BY <1>1, Actors, PTL

-----------------------------------------------------------------------------
(* DeletionInv and RotationInv are inductive relative to ActorInv. *)
LEMMA DeletionStep == ActorInv /\ DeletionInv /\ [SessionsNext]_sessionVars => DeletionInv'
<1> SUFFICES ASSUME SessionsTypeOK, Acts, DeletionInv, [SessionsNext]_sessionVars
             PROVE  DeletionInv'
  BY DEF ActorInv
<1> USE DEF DeletionInv, SomebodyIsLeft, SessionsTypeOK, rows, requests, histories, sessionVars,
            Begin, Advance, Answered, Insert
<1>1. ASSUME NEW r \in Requests, NEW u \in Users, CreateOwner(r, u)
      PROVE  DeletionInv'
  BY <1>1 DEF CreateOwner
<1>2. ASSUME NEW a \in Users, NEW u \in Users, CreateUser(a, u)
      PROVE  DeletionInv'
  BY <1>2 DEF CreateUser
<1>3. ASSUME NEW r \in Requests, NEW a \in Users, NEW u \in Users, Delete(r, a, u)
      PROVE  DeletionInv'
  BY <1>3 DEF Delete, MayDelete, Authenticated
<1>4. ASSUME NEW r \in Requests, DeleteRow(r)
      PROVE  DeletionInv'
  <2>1. users' \subseteq born' /\ born' = born /\ crossed' = crossed
    BY <1>4 DEF DeleteRow
  <2>2. crossed \/ caller[r] \in users'
    BY <1>4 DEF DeleteRow
  <2>3. crossed \/ \A q \in Requests : phase'[q] # "deleting"
    BY <1>4 DEF DeleteRow
  <2> QED
    BY <2>1, <2>2, <2>3
<1>5. ASSUME NEW r \in Requests,
             Register(r) \/ Verify(r) \/ WrongPassword(r) \/ Spend(r) \/ FindUser(r)
               \/ RevokeAll(r) \/ Invalidate(r)
      PROVE  DeletionInv'
  BY <1>5 DEF Register, Verify, WrongPassword, Spend, FindUser, RevokeAll, Invalidate
<1>6. ASSUME NEW r \in Requests, NEW u \in Users, Login(r, u) \/ Logout(r, u)
      PROVE  DeletionInv'
  BY <1>6 DEF Login, Logout
<1>7. ASSUME NEW r \in Requests, NEW t \in RefreshTokens, StoreSession(r, t) \/ Refresh(r, t)
      PROVE  DeletionInv'
  BY <1>7 DEF StoreSession, Refresh
<1>8. ASSUME NEW t \in RefreshTokens, SessionExpires(t)
      PROVE  DeletionInv'
  BY <1>8 DEF SessionExpires
<1>9. CASE Restart
  BY <1>9 DEF Restart
<1>10. CASE UNCHANGED sessionVars
  BY <1>10
<1> QED
  BY <1>1, <1>2, <1>3, <1>4, <1>5, <1>6, <1>7, <1>8, <1>9, <1>10 DEF SessionsNext

(* Once somebody registered there is somebody left, unless two deletions   *)
(* of users were in progress at once: whoever deletes is not deleted by    *)
(* anybody else meanwhile.                                                 *)
THEOREM SomebodyIsLeftHolds == SessionsSpec => []SomebodyIsLeft
<1>1. SessionsInit => DeletionInv
  BY DEF SessionsInit, DeletionInv, SomebodyIsLeft
<1>2. DeletionInv => SomebodyIsLeft
  BY DEF DeletionInv
<1> QED
  BY <1>1, <1>2, Actors, DeletionStep, PTL DEF SessionsSpec

-----------------------------------------------------------------------------
(* Every step keeps RotationInv. *)
LEMMA RotationStep == ActorInv /\ RotationInv /\ [SessionsNext]_sessionVars => RotationInv'
<1> SUFFICES ASSUME SessionsTypeOK, Acts, RotationInv, [SessionsNext]_sessionVars
             PROVE  RotationInv'
  BY DEF ActorInv
<1> USE DEF RotationInv, OneTokenPerLogin, Rotates, SessionsTypeOK, rows, requests, histories,
            sessionVars, Begin, Advance, Answered, Insert
<1>1. ASSUME NEW r \in Requests, NEW t \in RefreshTokens, Refresh(r, t)
      PROVE  RotationInv'
  BY <1>1 DEF Refresh, Redeemable
<1>2. ASSUME NEW r \in Requests, Spend(r)
      PROVE  RotationInv'
  BY <1>2 DEF Spend
<1>3. ASSUME NEW r \in Requests, NEW t \in RefreshTokens, StoreSession(r, t)
      PROVE  RotationInv'
  <2>1. /\ \A s \in RefreshTokens \ {t} : session'[s] = session[s] /\ login'[s] = login[s]
        /\ session[t] = "unused" /\ forked' = forked
    BY <1>3 DEF StoreSession
  <2>2. \A s \in RefreshTokens : Issued(s) => s # t /\ Issued(login[s])
    BY <2>1 DEF Acts, Issued
  <2>3. \A q \in Requests : Rotates(q)' =>
          /\ q # r /\ Rotates(q) /\ phase'[q] = phase[q] /\ presented'[q] = presented[q]
          /\ presented[q] \in RefreshTokens /\ Issued(presented[q])
    BY <1>3 DEF StoreSession, Acts, Issued
  <2>4. CASE caller[r] \notin users
    BY <1>3, <2>1, <2>3, <2>4 DEF StoreSession
  <2>5. CASE caller[r] \in users /\ phase[r] = "verified"
    <3>1. session'[t] = "live" /\ login'[t] = t
      BY <1>3, <2>5 DEF StoreSession
    <3>2. \A s \in RefreshTokens : Issued(s) => login[s] # t
      BY <2>1, <2>2 DEF Issued
    <3> QED
      BY <2>1, <2>2, <2>3, <3>1, <3>2 DEF Issued
  <2>6. CASE caller[r] \in users /\ phase[r] = "known"
    <3>1. session'[t] = "live" /\ login'[t] = login[presented[r]] /\ Rotates(r)
      BY <1>3, <2>6 DEF StoreSession
    <3> QED
      BY <2>1, <2>2, <2>3, <2>6, <3>1 DEF Issued
  <2> QED
    BY <1>3, <2>4, <2>5, <2>6 DEF StoreSession
<1>4. ASSUME NEW r \in Requests, FindUser(r)
      PROVE  RotationInv'
  BY <1>4 DEF FindUser
<1>5. ASSUME NEW r \in Requests, RevokeAll(r) \/ DeleteRow(r)
      PROVE  RotationInv'
  BY <1>5 DEF RevokeAll, DeleteRow
<1>6. ASSUME NEW r \in Requests, Register(r) \/ Verify(r) \/ WrongPassword(r) \/ Invalidate(r)
      PROVE  RotationInv'
  BY <1>6 DEF Register, Verify, WrongPassword, Invalidate
<1>7. ASSUME NEW r \in Requests, NEW u \in Users,
             CreateOwner(r, u) \/ Login(r, u) \/ Logout(r, u) \/ \E a \in Users : Delete(r, a, u)
      PROVE  RotationInv'
  BY <1>7 DEF CreateOwner, Login, Logout, Delete
<1>8. ASSUME NEW a \in Users, NEW u \in Users, CreateUser(a, u)
      PROVE  RotationInv'
  BY <1>8 DEF CreateUser
<1>9. ASSUME NEW t \in RefreshTokens, SessionExpires(t)
      PROVE  RotationInv'
  BY <1>9 DEF SessionExpires
<1>10. CASE Restart
  BY <1>10 DEF Restart
<1>11. CASE UNCHANGED sessionVars
  BY <1>11
<1> QED
  BY <1>1, <1>2, <1>3, <1>4, <1>5, <1>6, <1>7, <1>8, <1>9, <1>10, <1>11 DEF SessionsNext

(* A login has one refresh token that works, unless two rotations read it  *)
(* at once: the old one is spent before the next is owed.                  *)
THEOREM OneTokenPerLoginHolds == SessionsSpec => []OneTokenPerLogin
<1>1. SessionsInit => RotationInv
  BY DEF SessionsInit, RotationInv, OneTokenPerLogin, Rotates
<1>2. RotationInv => OneTokenPerLogin
  BY DEF RotationInv
<1> QED
  BY <1>1, <1>2, Actors, RotationStep, PTL DEF SessionsSpec
(* The order of the listing follows the cursor, except among rows that     *)
(* share their place in it.                                                *)
OrderInv ==
  /\ listing = "contacts" => \A r \in listed : r.key = r.id
  /\ listing = "messages" => \A r, s \in listed : r.id = s.id => r = s
  /\ \A r, s \in listed : r.id < s.id => r.key <= s.key

(* What was shown is not below the cursor, and what is wanted and was not  *)
(* shown is, except for ties.                                              *)
CursorInv ==
  /\ wanted \subseteq listed /\ shown \subseteq listed /\ twice \subseteq shown
  /\ walk = "none" => before = 0
  /\ walk # "done" /\ before = 0 => shown = {}
  /\ walk = "paging" /\ before # 0 => \A r \in shown : before <= r.id \/ Tied(r)
  /\ walk = "paging" => \A r \in wanted : r \in shown \/ Tied(r) \/ Below(r)
  /\ WalkSeesAll

WalkInv ==
  /\ ListingTypeOK
  /\ IsFiniteSet(listed)
  /\ OrderInv
  /\ CursorInv

-----------------------------------------------------------------------------
(* A page that is not full holds all rows below the cursor. *)
LEMMA ShortPage ==
  ASSUME NEW rest, IsFiniteSet(rest), NEW slice, FirstOf(rest, slice), Cardinality(slice) # Limit
  PROVE  slice = rest
<1>1. slice \in SUBSET rest
  BY DEF FirstOf
<1>2. Cardinality(slice) = Cardinality(rest)
  BY DEF FirstOf
<1> QED
  BY <1>1, <1>2, FS_Subset

(* Rows with different places in the order and different ids are ordered   *)
(* alike by both.                                                          *)
LEMMA SameOrder ==
  ASSUME ListingTypeOK, OrderInv, NEW r \in listed, NEW s \in listed, r # s, ~Tied(r),
         s.key >= r.key
  PROVE  s.id > r.id
<1>1. r.key \in Nat /\ s.key \in Nat /\ r.id \in Nat /\ s.id \in Nat
  BY ListingAssumption DEF ListingTypeOK, ListedRows
<1>2. s.key # r.key
  BY DEF Tied
<1>3. s.id # r.id
  BY <1>2 DEF OrderInv, ListingTypeOK
<1>4. ~(s.id < r.id)
  BY <1>1, <1>2 DEF OrderInv
<1> QED
  BY <1>1, <1>3, <1>4

-----------------------------------------------------------------------------
(* A row that is stored keeps the order, and ties only add up. *)
LEMMA StoreKeepsWalkInv ==
  ASSUME WalkInv, NEW r \in ListedRows, StoreListed(r)
  PROVE  WalkInv'
<1> USE DEF WalkInv, StoreListed
<1>1. ListingTypeOK'
  BY DEF ListingTypeOK
<1>2. IsFiniteSet(listed')
  BY FS_AddElement
<1>3. OrderInv'
  <2>1. r.id \in Nat /\ r.key \in Nat /\ \A s \in listed : s.id \in Nat /\ s.key \in Nat
    BY ListingAssumption DEF ListingTypeOK, ListedRows
  <2>2. CASE listing = "contacts"
    BY <2>1, <2>2 DEF Orderly, OrderInv
  <2>3. CASE listing = "messages"
    BY <2>1, <2>3 DEF Orderly, OrderInv
  <2> QED
    BY <2>2, <2>3 DEF ListingTypeOK
<1>4. CursorInv'
  <2>1. \A s : Tied(s) => Tied(s)'
    BY DEF Tied
  <2> QED
    BY <2>1 DEF CursorInv, WalkSeesAll, Below
<1> QED
  BY <1>1, <1>2, <1>3, <1>4

(* A page moves the cursor down past what it shows, and past nothing else. *)
LEMMA PageKeepsCursorInv ==
  ASSUME WalkInv, NEW slice \in SUBSET listed, Page(slice)
  PROVE  CursorInv'
<1> DEFINE rest == {r \in listed : Below(r)}
<1> USE DEF WalkInv
<1>1. /\ shown' = shown \cup slice /\ twice' = twice \cup (shown \cap slice)
      /\ walk = "paging" /\ UNCHANGED <<listing, listed, wanted>>
      /\ FirstOf(rest, slice) /\ slice \subseteq rest
  BY DEF Page, FirstOf
<1>2. \A r : Tied(r)' <=> Tied(r)
  BY <1>1 DEF Tied
<1>3. before \in Nat /\ \A r \in listed : r.id \in Nat /\ r.id # 0
  <2>1. before \in Ids \cup {0} /\ \A r \in listed : r.id \in Ids
    BY DEF ListingTypeOK, ListedRows
  <2>2. \A i \in Ids : i \in Nat /\ i # 0
    BY ListingAssumption
  <2> QED
    BY <2>1, <2>2
<1>4. \A r \in twice' : Tied(r)
  <2> SUFFICES ASSUME NEW r \in shown \cap slice PROVE Tied(r)
    BY <1>1 DEF CursorInv, WalkSeesAll
  <2>1. before # 0 /\ r.id < before /\ r \in listed
    BY <1>1 DEF CursorInv, Below
  <2> QED
    BY <1>1, <1>3, <2>1 DEF CursorInv
<1>5. CASE Cardinality(slice) # Limit
  <2>1. walk' = "done" /\ UNCHANGED before
    BY <1>5 DEF Page
  <2>2. slice = rest
    BY <1>1, <1>5, ShortPage, FS_Subset
  <2>3. \A r \in wanted : r \in shown' \/ Tied(r)
    BY <1>1, <2>2 DEF CursorInv
  <2> QED
    BY <1>1, <1>2, <1>4, <2>1, <2>3 DEF CursorInv, WalkSeesAll
<1>6. CASE Cardinality(slice) = Limit
  <2>1. PICK l \in slice : LastOf(slice, l) /\ before' = l.id /\ walk' = walk
    BY <1>6 DEF Page
  <2>2. \A r \in slice : l.id <= r.id \/ Tied(r)
    <3> SUFFICES ASSUME NEW r \in slice, r # l, ~Tied(r) PROVE l.id <= r.id
      BY <1>1, <1>3
    <3>1. r \in listed /\ l \in listed
      OBVIOUS
    <3>2. r.key \in Nat /\ l.key \in Nat /\ r.id \in Nat /\ l.id \in Nat
      BY <3>1, ListingAssumption DEF ListingTypeOK, ListedRows
    <3>3. l.key <= r.key /\ r.key # l.key
      BY <2>1, <3>1 DEF LastOf, Tied
    <3> QED
      BY <3>1, <3>2, <3>3 DEF OrderInv
  <2>3. \A r \in shown' : before' <= r.id \/ Tied(r)
    BY <1>1, <1>3, <2>1, <2>2 DEF CursorInv, Below
  <2>4. \A r \in wanted : r \in shown' \/ Tied(r) \/ r.id < before'
    <3> SUFFICES ASSUME NEW r \in wanted, r \notin shown', ~Tied(r) PROVE r.id < before'
      OBVIOUS
    <3>1. r \in rest \ slice
      BY <1>1 DEF CursorInv
    <3>2. l.key >= r.key /\ l # r
      BY <1>1, <2>1, <3>1 DEF FirstOf
    <3>3. l.id > r.id
      BY <1>1, <2>1, <3>1, <3>2, SameOrder
    <3> QED
      BY <1>1, <1>3, <2>1, <3>1, <3>3
  <2> QED
    BY <1>1, <1>2, <1>3, <1>4, <2>1, <2>3, <2>4 DEF CursorInv, WalkSeesAll, Below
<1> QED
  BY <1>5, <1>6

(* WalkInv holds in every state. *)
LEMMA Walks == ListingSpec => []WalkInv
<1>1. ListingInit => WalkInv
  BY FS_EmptySet DEF ListingInit, WalkInv, ListingTypeOK, OrderInv, CursorInv, WalkSeesAll
<1>2. WalkInv /\ [ListingNext]_listingVars => WalkInv'
  <2> SUFFICES ASSUME WalkInv, [ListingNext]_listingVars PROVE WalkInv'
    OBVIOUS
  <2>1. ASSUME NEW r \in ListedRows, StoreListed(r) PROVE WalkInv'
    BY <2>1, StoreKeepsWalkInv
  <2>2. CASE BeginWalk
    BY <2>2 DEF BeginWalk, WalkInv, ListingTypeOK, OrderInv, CursorInv, WalkSeesAll, Tied, Below
  <2>3. ASSUME NEW slice \in SUBSET listed, Page(slice) PROVE WalkInv'
    <3>1. ListingTypeOK'
      BY <2>3 DEF Page, LastOf, WalkInv, ListingTypeOK, ListedRows
    <3>2. IsFiniteSet(listed') /\ OrderInv'
      BY <2>3 DEF Page, WalkInv, OrderInv
    <3> QED
      BY <2>3, <3>1, <3>2, PageKeepsCursorInv DEF WalkInv
  <2>4. CASE UNCHANGED listingVars
    BY <2>4 DEF listingVars, WalkInv, ListingTypeOK, OrderInv, CursorInv, WalkSeesAll, Tied, Below
  <2> QED
    BY <2>1, <2>2, <2>3, <2>4 DEF ListingNext
<1> QED
  BY <1>1, <1>2, PTL DEF ListingSpec

(* Every variable keeps its type. *)
THEOREM ListingTyping == ListingSpec => []ListingTypeOK
<1>1. WalkInv => ListingTypeOK
  BY DEF WalkInv
<1> QED
  BY <1>1, Walks, PTL

(* A walk over the pages shows every row there was when it began, and none *)
(* twice, except rows that share their place in the order: the cursor      *)
(* passes a row only when a page shows it.                                 *)
THEOREM WalkSeesAllHolds == ListingSpec => []WalkSeesAll
<1>1. WalkInv => WalkSeesAll
  BY DEF WalkInv, CursorInv
<1> QED
  BY <1>1, Walks, PTL
-----------------------------------------------------------------------------
(* A message that is being stored is at Telegram, and its row is there or  *)
(* still to be written: a job of which an upsert failed is not storing any *)
(* more.                                                                   *)
MessageInv ==
  /\ SyncTypeOK
  /\ \A j \in Sends : progress[j] = "storing" =>
       remote[j] > 0 /\ (upserts[j][j] > 0 \/ cache[j] > 0)
  /\ OutcomeIsTrue

(* Nothing is stored or about to be that Telegram did not have.  As long   *)
(* as no job went on without the lock, whoever is at work holds it, only   *)
(* who is at work stores anything, and what it stores is not older than    *)
(* the copy.                                                               *)
SnapshotInv ==
  /\ \A i \in Items : cache[i] <= remote[i]
  /\ \A j \in SyncJobs, i \in Items : upserts[j][i] <= remote[i]
  /\ ~unlocked => \A j \in SyncJobs :
       /\ Running(j) => lock = j
       /\ \A i \in Items : upserts[j][i] > 0 => progress[j] = "storing" /\ upserts[j][i] >= cache[i]

-----------------------------------------------------------------------------
(* MessageInv holds in every state. *)
LEMMA Messages == SyncSpec => []MessageInv
<1>1. SyncInit => MessageInv
  <2> SUFFICES ASSUME SyncInit PROVE MessageInv
    OBVIOUS
  <2>1. Nothing \in [Items -> Versions] /\ Sends \subseteq SyncJobs /\ Sends \subseteq Items
    BY VersionAssumption DEF Nothing, Versions, SyncJobs, Items
  <2>2. SyncTypeOK
    <3>1. stalls \in [SyncJobs -> 0 .. 1]
      BY DEF SyncInit
    <3>2. upserts \in [SyncJobs -> [Items -> Versions]]
      BY <2>1 DEF SyncInit
    <3> QED
      BY <2>1, <3>1, <3>2 DEF SyncInit, SyncTypeOK
  <2> QED
    BY <2>1, <2>2 DEF SyncInit, MessageInv, OutcomeIsTrue, Sent, Nothing
<1>2. MessageInv /\ [SyncNext]_syncVars => MessageInv'
  <2> SUFFICES ASSUME MessageInv, [SyncNext]_syncVars PROVE MessageInv'
    OBVIOUS
  <2> USE VersionAssumption DEF MessageInv, SyncTypeOK, OutcomeIsTrue, Sent, Versions
  <2>1. ASSUME NEW r \in Rows, Change(r) PROVE MessageInv'
    <3>1. r \in Items /\ \A j \in Sends : j # r /\ j \in Items /\ j \in SyncJobs
      BY ContentAssumption DEF Items, SyncJobs
    <3>2. remote'[r] = remote[r] + 1 /\ \A i \in Items \ {r} : remote'[i] = remote[i]
      BY <2>1, <3>1 DEF Change
    <3>3. SyncTypeOK'
      BY <2>1, <3>1 DEF Change
    <3> QED
      BY <2>1, <3>1, <3>2, <3>3 DEF Change
  <2>2. ASSUME NEW j \in SyncJobs, AcquireLease(j) PROVE MessageInv'
    <3>1. SyncTypeOK'
      BY <2>2 DEF AcquireLease, Take
    <3>2. /\ progress[j] = "waiting" /\ progress'[j] \in {"locked", "deferred", "rejected"}
          /\ \A k \in SyncJobs \ {j} : progress'[k] = progress[k]
          /\ UNCHANGED <<remote, cache, upserts, stalls>>
      BY <2>2 DEF AcquireLease, Take
    <3>3. Sends \subseteq SyncJobs
      BY DEF SyncJobs
    <3>4. \A k \in Sends : progress'[k] = "storing" => progress[k] = "storing"
      BY <3>2, <3>3
    <3>5. \A k \in Sends : progress'[k] = "completed" => progress[k] = "completed"
      BY <3>2, <3>3
    <3>6. \A k \in Sends : progress[k] \in {"waiting", "locked", "deferred"} \/
                           progress'[k] \notin {"waiting", "locked", "deferred"}
      BY <3>2, <3>3
    <3>7. \A k \in Sends : stalls[k] \in Nat /\ remote[k] \in Nat
      BY <3>3 DEF Items
    <3> QED
      BY <3>1, <3>2, <3>4, <3>5, <3>6, <3>7
  <2>3. ASSUME NEW j \in SyncJobs, Load(j) PROVE MessageInv'
    <3>1. SyncTypeOK'
      BY <2>3 DEF Load
    <3>2. j \notin Sends
      BY <2>3, ContentAssumption DEF Load
    <3> QED
      BY <2>3, <3>1, <3>2 DEF Load, SyncJobs, Items
  <2>4. ASSUME NEW j \in SyncJobs, SendMessage(j) PROVE MessageInv'
    <3>1. j \in Items /\ remote[j] \in Nat /\ remote'[j] = remote[j] + 1
      BY <2>4 DEF SendMessage, Items
    <3>2. SyncTypeOK'
      BY <2>4, <3>1 DEF SendMessage
    <3>3. upserts'[j][j] = remote'[j] /\ progress'[j] = "storing"
      BY <2>4, <3>1 DEF SendMessage
    <3>4. \A k \in SyncJobs \ {j} :
            progress'[k] = progress[k] /\ upserts'[k] = upserts[k]
      BY <2>4 DEF SendMessage
    <3>5. \A i \in Items \ {j} : remote'[i] = remote[i]
      BY <2>4 DEF SendMessage
    <3> QED
      BY <2>4, <3>1, <3>2, <3>3, <3>4, <3>5 DEF SendMessage, SyncJobs, Items
  <2>5. ASSUME NEW j \in SyncJobs, GatewayFails(j) PROVE MessageInv'
    <3>1. SyncTypeOK'
      <4>1. progress' = [progress EXCEPT ![j] = "rejected"] /\ lock' \in {lock, Unlocked, Abandoned}
        BY <2>5 DEF GatewayFails, Return
      <4>2. remote' \in [Items -> Versions]
        BY <2>5 DEF GatewayFails, Items
      <4> QED
        BY <2>5, <4>1, <4>2 DEF GatewayFails
    <3>2. progress[j] = "locked" /\ progress'[j] = "rejected"
      BY <2>5 DEF GatewayFails, Return
    <3>3. \A k \in SyncJobs \ {j} : progress'[k] = progress[k]
      BY <2>5 DEF GatewayFails, Return
    <3>4. j \in Sends => remote'[j] <= remote[j] + 1
      BY <2>5 DEF GatewayFails, Items
    <3>5. \A i \in Items \ {j} : remote'[i] = remote[i]
      BY <2>5 DEF GatewayFails
    <3> QED
      BY <2>5, <3>1, <3>2, <3>3, <3>4, <3>5 DEF GatewayFails, SyncJobs, Items
  <2>6. ASSUME NEW j \in SyncJobs, Completed(j) PROVE MessageInv'
    <3>1. progress' \in {[progress EXCEPT ![j] = "completed"], [progress EXCEPT ![j] = "rejected"]}
            /\ lock' \in {lock, Unlocked, Abandoned} /\ progress[j] = "storing"
            /\ UNCHANGED <<remote, cache, upserts, stalls, unlocked>>
      BY <2>6 DEF Completed, Return
    <3>2. SyncTypeOK'
      BY <3>1
    <3>3. j \in Sends => remote[j] > 0 /\ cache[j] > 0
      BY <2>6, <3>1 DEF Completed, AllStored, Nothing, Items
    <3> QED
      BY <3>1, <3>2, <3>3 DEF SyncJobs, Items
  <2>7. ASSUME NEW j \in SyncJobs, WorkerDies(j) PROVE MessageInv'
    <3>1. progress[j] \in {"locked", "storing"} /\ progress'[j] \in {"waiting", "stalled"}
            /\ (progress'[j] = "waiting" => stalls[j] = 0) /\ stalls'[j] = 1
            /\ (progress'[j] = "stalled" => stalls[j] = 1)
      BY <2>7 DEF WorkerDies, Running
    <3>2. \A k \in SyncJobs \ {j} :
            progress'[k] = progress[k] /\ upserts'[k] = upserts[k] /\ stalls'[k] = stalls[k]
      BY <2>7 DEF WorkerDies
    <3>3. SyncTypeOK'
      <4>1. Nothing \in [Items -> Versions]
        BY DEF Nothing
      <4>2. progress' \in {[progress EXCEPT ![j] = "waiting"], [progress EXCEPT ![j] = "stalled"]}
              /\ lock' \in {lock, Abandoned}
        BY <2>7 DEF WorkerDies
      <4> QED
        BY <2>7, <4>1, <4>2 DEF WorkerDies
    <3>4. UNCHANGED <<remote, cache>>
      BY <2>7 DEF WorkerDies
    <3> QED
      BY <3>1, <3>2, <3>3, <3>4 DEF SyncJobs, Items
  <2>8. ASSUME NEW j \in SyncJobs, NEW i \in Items, Upsert(j, i) PROVE MessageInv'
    <3>1. cache'[i] > 0 /\ \A k \in Items \ {i} : cache'[k] = cache[k]
      BY <2>8 DEF Upsert
    <3>2. \A q \in SyncJobs, k \in Items : upserts'[q][k] = upserts[q][k] \/ k = i
      BY <2>8 DEF Upsert
    <3>3. SyncTypeOK'
      BY <2>8 DEF Upsert
    <3>4. UNCHANGED <<remote, progress, stalls>>
      BY <2>8 DEF Upsert
    <3> QED
      BY <3>1, <3>2, <3>3, <3>4 DEF SyncJobs, Items
  <2>9. ASSUME NEW j \in SyncJobs, NEW i \in Items, UpsertFails(j, i) PROVE MessageInv'
    <3>1. /\ UNCHANGED <<remote, cache, stalls>>
          /\ upserts' = [upserts EXCEPT ![j][i] = 0]
      BY <2>9 DEF UpsertFails
    <3>2. \A q \in SyncJobs \ {j} : upserts'[q] = upserts[q]
      BY <3>1
    <3>3. IF progress[j] = "storing" THEN progress' = [progress EXCEPT ![j] = "rejected"]
                                     ELSE progress' = progress
      BY <2>9 DEF UpsertFails, Return
    <3>4. SyncTypeOK'
      <4>1. lock' \in {lock, Unlocked, Abandoned} /\ unlocked' \in BOOLEAN
        BY <2>9 DEF UpsertFails, Return
      <4> QED
        BY <3>1, <3>3, <4>1
    <3> QED
      BY <3>1, <3>2, <3>3, <3>4 DEF SyncJobs, Items
  <2>10. CASE LeaseRunsOut
    BY <2>10 DEF LeaseRunsOut
  <2>11. CASE UNCHANGED syncVars
    BY <2>11 DEF syncVars
  <2> QED
    BY <2>1, <2>2, <2>3, <2>4, <2>5, <2>6, <2>7, <2>8, <2>9, <2>10, <2>11 DEF SyncNext
<1> QED
  BY <1>1, <1>2, PTL DEF SyncSpec

(* What the outcome of a SEND_MESSAGE says is what happened: one that      *)
(* completed is at Telegram and in the copy, one that was deferred was not *)
(* sent by this delivery, and none is sent twice unless a worker died.     *)
THEOREM OutcomeIsTrueHolds == SyncSpec => []OutcomeIsTrue
<1>1. MessageInv => OutcomeIsTrue
  BY DEF MessageInv
<1> QED
  BY <1>1, Messages, PTL

-----------------------------------------------------------------------------
(* SnapshotInv is inductive relative to the types, *)
LEMMA SnapshotStep == SyncTypeOK /\ SnapshotInv /\ [SyncNext]_syncVars => SnapshotInv'
<1> SUFFICES ASSUME SyncTypeOK, SnapshotInv, [SyncNext]_syncVars PROVE SnapshotInv'
  OBVIOUS
<1> USE VersionAssumption DEF SnapshotInv, SyncTypeOK, Versions, Running
<1>1. ASSUME NEW r \in Rows, Change(r) PROVE SnapshotInv'
  <2>1. \A i \in Items : remote'[i] >= remote[i]
    BY <1>1 DEF Change, Items
  <2> QED
    BY <1>1, <2>1 DEF Change, Items
<1>2. ASSUME NEW j \in SyncJobs, AcquireLease(j) PROVE SnapshotInv'
  <2>1. j \notin {Unlocked, Abandoned} /\ \A k \in SyncJobs : k # Unlocked
    BY ContentAssumption DEF SyncJobs
  <2>2. progress[j] = "waiting" /\ UNCHANGED <<remote, cache, upserts, unlocked>>
    BY <1>2 DEF AcquireLease
  <2>3. /\ \A k \in SyncJobs \ {j} : progress'[k] = progress[k]
        /\ progress'[j] \in {"locked", "deferred", "rejected"}
        /\ progress'[j] = "locked" => lock = Unlocked /\ lock' = j
        /\ progress'[j] # "locked" => lock' = lock
    BY <1>2 DEF AcquireLease, Take
  <2> QED
    BY <2>1, <2>2, <2>3
<1>3. ASSUME NEW j \in SyncJobs, Load(j) PROVE SnapshotInv'
  <2>1. /\ progress[j] = "locked" /\ progress'[j] = "storing" /\ upserts'[j] = remote
        /\ \A k \in SyncJobs \ {j} : progress'[k] = progress[k] /\ upserts'[k] = upserts[k]
        /\ UNCHANGED <<remote, cache, lock, unlocked>>
    BY <1>3 DEF Load
  <2> QED
    BY <2>1
<1>4. ASSUME NEW j \in SyncJobs, SendMessage(j) PROVE SnapshotInv'
  <2>1. /\ j \in Items /\ progress[j] = "locked" /\ progress'[j] = "storing"
        /\ remote'[j] = remote[j] + 1 /\ upserts'[j][j] = remote'[j]
        /\ UNCHANGED <<cache, lock, unlocked>>
    BY <1>4 DEF SendMessage, Items
  <2>2. /\ \A i \in Items \ {j} : remote'[i] = remote[i] /\ upserts'[j][i] = upserts[j][i]
        /\ \A k \in SyncJobs \ {j} : progress'[k] = progress[k] /\ upserts'[k] = upserts[k]
    BY <1>4, <2>1 DEF SendMessage
  <2>3. \A i \in Items : remote'[i] >= remote[i] /\ remote'[i] \in Nat
    BY <2>1, <2>2
  <2>4. \A i \in Items : cache'[i] <= remote'[i]
    BY <2>1, <2>3
  <2>5. \A q \in SyncJobs, i \in Items :
          upserts'[q][i] = upserts[q][i] \/ (q = j /\ i = j /\ upserts'[q][i] = remote'[i])
    BY <2>1, <2>2
  <2>6. \A q \in SyncJobs, i \in Items : upserts'[q][i] <= remote'[i]
    BY <2>3, <2>5
  <2>7. ASSUME ~unlocked, NEW q \in SyncJobs, NEW i \in Items, upserts'[q][i] > 0
        PROVE  progress'[q] = "storing" /\ upserts'[q][i] >= cache'[i]
    BY <2>1, <2>2, <2>4, <2>5, <2>7
  <2> QED
    BY <2>1, <2>2, <2>4, <2>6, <2>7
<1>5. ASSUME NEW j \in SyncJobs, GatewayFails(j) PROVE SnapshotInv'
  <2>1. /\ progress[j] = "locked" /\ progress'[j] = "rejected"
        /\ lock' \in {lock, Unlocked, Abandoned} /\ (lock # j => lock' = lock)
        /\ UNCHANGED <<cache, upserts, unlocked>>
    BY <1>5 DEF GatewayFails, Return
  <2>2. \A k \in SyncJobs \ {j} : progress'[k] = progress[k]
    BY <1>5 DEF GatewayFails, Return
  <2>3. \A i \in Items : remote'[i] >= remote[i]
    BY <1>5 DEF GatewayFails
  <2>4. \A i \in Items : remote'[i] \in Nat
    BY <1>5 DEF GatewayFails
  <2> QED
    BY <2>1, <2>2, <2>3, <2>4
<1>6. ASSUME NEW j \in SyncJobs, Completed(j) PROVE SnapshotInv'
  <2>1. /\ progress[j] = "storing" /\ upserts[j] = Nothing
        /\ progress'[j] \in {"completed", "rejected"}
        /\ lock' \in {lock, Unlocked, Abandoned} /\ (lock # j => lock' = lock)
        /\ UNCHANGED <<remote, cache, upserts, unlocked>>
    BY <1>6 DEF Completed, Return, AllStored
  <2>2. \A k \in SyncJobs \ {j} : progress'[k] = progress[k]
    BY <1>6 DEF Completed, Return
  <2> QED
    BY <2>1, <2>2 DEF Nothing
<1>7. ASSUME NEW j \in SyncJobs, WorkerDies(j) PROVE SnapshotInv'
  <2>1. /\ progress'[j] \in {"waiting", "stalled"} /\ upserts'[j] = Nothing
        /\ (lock # j => lock' = lock)
        /\ \A k \in SyncJobs \ {j} : progress'[k] = progress[k] /\ upserts'[k] = upserts[k]
        /\ UNCHANGED <<remote, cache, unlocked>>
    BY <1>7 DEF WorkerDies
  <2> QED
    BY <2>1 DEF Nothing
<1>8. ASSUME NEW j \in SyncJobs, NEW i \in Items, Upsert(j, i) PROVE SnapshotInv'
  <2>1. /\ upserts[j][i] > 0 /\ cache'[i] = upserts[j][i] /\ upserts'[j][i] = 0
        /\ \A k \in Items \ {i} : cache'[k] = cache[k] /\ upserts'[j][k] = upserts[j][k]
        /\ \A k \in SyncJobs \ {j} : upserts'[k] = upserts[k]
        /\ UNCHANGED <<remote, lock, progress, unlocked>>
    BY <1>8 DEF Upsert
  <2>2. upserts[j][i] \in Nat /\ upserts[j][i] <= remote[i]
    BY <2>1
  <2>3. ASSUME ~unlocked, NEW k \in SyncJobs \ {j} PROVE upserts[k][i] = 0
    <3>1. progress[j] = "storing" /\ lock = j
      BY <2>1, <2>3
    <3>2. ~(upserts[k][i] > 0) /\ upserts[k][i] \in Nat
      BY <2>3, <3>1
    <3> QED
      BY <3>2
  <2>4. \A k \in Items : cache'[k] <= remote'[k]
    BY <2>1, <2>2
  <2>5. \A q \in SyncJobs, k \in Items : upserts'[q][k] \in {upserts[q][k], 0}
    BY <2>1
  <2>6. \A q \in SyncJobs, k \in Items : upserts'[q][k] <= remote'[k]
    BY <2>1, <2>5
  <2>7. ASSUME ~unlocked, NEW q \in SyncJobs, NEW k \in Items, upserts'[q][k] > 0
        PROVE  progress[q] = "storing" /\ upserts'[q][k] >= cache'[k]
    <3>1. k # i
      BY <2>1, <2>3, <2>7
    <3> QED
      BY <2>1, <2>7, <3>1
  <2> QED
    BY <2>1, <2>4, <2>6, <2>7
<1>9. ASSUME NEW j \in SyncJobs, NEW i \in Items, UpsertFails(j, i) PROVE SnapshotInv'
  <2>1. /\ upserts[j][i] > 0 /\ upserts'[j][i] = 0
        /\ \A k \in Items \ {i} : upserts'[j][k] = upserts[j][k]
        /\ \A k \in SyncJobs \ {j} : upserts'[k] = upserts[k]
        /\ UNCHANGED <<remote, cache>>
    BY <1>9 DEF UpsertFails
  <2>2. CASE progress[j] = "storing"
    <3>1. /\ progress'[j] = "rejected" /\ \A k \in SyncJobs \ {j} : progress'[k] = progress[k]
          /\ lock # j => lock' = lock
          /\ unlocked' = (unlocked \/ upserts'[j] # Nothing)
      BY <1>9, <2>2 DEF UpsertFails, Return
    <3>2. ~unlocked' => \A k \in Items : upserts'[j][k] = 0
      BY <3>1 DEF Nothing
    <3> QED
      BY <2>1, <3>1, <3>2
  <2>3. CASE progress[j] # "storing"
    BY <1>9, <2>1, <2>3 DEF UpsertFails
  <2> QED
    BY <2>2, <2>3
<1>10. CASE LeaseRunsOut
  <2>1. UNCHANGED <<remote, cache, progress, upserts>> /\ unlocked' = (unlocked \/ lock \in SyncJobs)
    BY <1>10 DEF LeaseRunsOut
  <2> QED
    BY <2>1
<1>11. CASE UNCHANGED syncVars
  BY <1>11 DEF syncVars
<1> QED
  BY <1>1, <1>2, <1>3, <1>4, <1>5, <1>6, <1>7, <1>8, <1>9, <1>10, <1>11 DEF SyncNext

(* and holds in every state. *)
LEMMA Snapshots == SyncSpec => [](SyncTypeOK /\ SnapshotInv)
<1>1. SyncInit => SnapshotInv
  BY DEF SyncInit, SnapshotInv, Nothing, Running
<1>2. MessageInv => SyncTypeOK
  BY DEF MessageInv
<1> QED
  BY <1>1, <1>2, SnapshotStep, Messages, PTL DEF SyncSpec

(* The copy never goes back to an older state of Telegram: as long as no   *)
(* job went on without the lock, what is stored is not older than what was *)
(* there, because one job at a time has anything to store.                 *)
THEOREM NewestSnapshotWinsHolds == SyncSpec => NewestSnapshotWins
<1>1. SyncTypeOK /\ SnapshotInv /\ [SyncNext]_syncVars
        => [~unlocked => \A i \in Items : cache'[i] >= cache[i]]_syncVars
  <2> SUFFICES ASSUME SyncTypeOK, SnapshotInv, SyncNext, ~unlocked, NEW k \in Items
               PROVE  cache'[k] >= cache[k]
    BY DEF syncVars
  <2>1. cache[k] \in Nat
    BY VersionAssumption DEF SyncTypeOK, Versions
  <2>2. ASSUME NEW j \in SyncJobs, NEW i \in Items, Upsert(j, i) PROVE cache'[k] >= cache[k]
    BY <2>1, <2>2, VersionAssumption DEF Upsert, SnapshotInv, SyncTypeOK, Versions
  <2>3. (\A j \in SyncJobs, i \in Items : ~Upsert(j, i)) => cache' = cache
    BY DEF SyncNext, Change, AcquireLease, Load, SendMessage, GatewayFails, Completed, WorkerDies,
           UpsertFails, LeaseRunsOut
  <2> QED
    BY <2>1, <2>2, <2>3
<1> QED
  BY <1>1, Snapshots, PTL DEF SyncSpec, NewestSnapshotWins

-----------------------------------------------------------------------------
(* A set of natural numbers that is not empty has a least element. *)
LEMMA LeastNatural ==
  ASSUME NEW T \in SUBSET Nat, T # {}
  PROVE  \E x \in T : \A y \in T : x <= y
<1> DEFINE R == OpToRel(<, Nat)
<1>1. IsWellFoundedOn(R, Nat)
  BY NatLessThanWellFounded
<1>2. \A x, y \in Nat : y < x => <<y, x>> \in R
  BY DEF OpToRel
<1> HIDE DEF R
<1>3. PICK x \in T : \A y \in T : ~(<<y, x>> \in R)
  BY <1>1, WFMin
<1>4. \A y \in T : ~(y < x)
  BY <1>2, <1>3
<1> QED
  BY <1>4

(* Induction over the rows of a file, with a set in the place of the       *)
(* predicate.                                                              *)
LEMMA RowInduction ==
  ASSUME NEW S, NEW m \in Nat, 0 \in S,
         \A n \in 0 .. m : n \in S /\ n < m => n + 1 \in S
  PROVE  0 .. m \subseteq S
<1> DEFINE T == (0 .. m) \ S
<1>1. SUFFICES ASSUME T # {} PROVE FALSE
  OBVIOUS
<1>2. PICK x \in T : \A y \in T : x <= y
  <2>1. T \in SUBSET Nat
    OBVIOUS
  <2> HIDE DEF T
  <2> QED
    BY <1>1, <2>1, LeastNatural
<1>3. x # 0 /\ x \in Nat
  BY <1>2
<1> QED
  BY <1>2, <1>3

-----------------------------------------------------------------------------
(* The state of the loop after n rows of a file: every row that is not     *)
(* empty was counted once, and the rows kept have the names seen, each     *)
(* once.                                                                   *)
Parses == [seen : SUBSET Names, rows : Seq(FileRows), invalid : Nat, duplicate : Nat]

Filled(f, n) == {i \in 1 .. n : f[i].cell # "blank"}

Tally(f, n, parse) ==
  /\ parse \in Parses
  /\ Cardinality(Filled(f, n)) = Len(parse.rows) + parse.invalid + parse.duplicate
  /\ parse.seen = {parse.rows[i].cell : i \in DOMAIN parse.rows}
  /\ \A i, j \in DOMAIN parse.rows : parse.rows[i].cell = parse.rows[j].cell => i = j

(* While an import is under way there is room for it, and what was stored  *)
(* adds up.                                                                *)
ImportInv ==
  /\ ImportTypeOK
  /\ upload # "none" => Len(imports) < MaxImports
  /\ ImportsAddUp

-----------------------------------------------------------------------------
NoRows == [seen |-> {}, rows |-> <<>>, invalid |-> 0, duplicate |-> 0]

(* Parsing(f) is what its definition says, which a definition by recursion *)
(* is not by itself: there is a function that satisfies it.                *)
LEMMA ParsingIsDefined ==
  ASSUME NEW f, Len(f) \in Nat
  PROVE  Parsing(f) = [n \in 0 .. Len(f) |-> IF n = 0 THEN NoRows
                                             ELSE ReadRow(Parsing(f)[n - 1], f[n])]
<1> DEFINE Loop(g, m) == g = [n \in 0 .. m |-> IF n = 0 THEN NoRows ELSE ReadRow(g[n - 1], f[n])]
           S == {m \in Nat : \E g : Loop(g, m)}
<1>1. 0 \in S
  <2>1. Loop([n \in 0 .. 0 |-> NoRows], 0)
    OBVIOUS
  <2> QED
    BY <2>1
<1>2. ASSUME NEW m \in 0 .. Len(f), m \in S, m < Len(f) PROVE m + 1 \in S
  <2>1. PICK g : Loop(g, m)
    BY <1>2
  <2> DEFINE h == [n \in 0 .. m + 1 |-> IF n <= m THEN g[n] ELSE ReadRow(g[m], f[n])]
  <2>2. \A n \in 0 .. m + 1 : h[n] = IF n = 0 THEN NoRows ELSE ReadRow(h[n - 1], f[n])
    <3> SUFFICES ASSUME NEW n \in 0 .. m + 1
                 PROVE  h[n] = IF n = 0 THEN NoRows ELSE ReadRow(h[n - 1], f[n])
      OBVIOUS
    <3>1. CASE n <= m
      <4>1. g[n] = IF n = 0 THEN NoRows ELSE ReadRow(g[n - 1], f[n])
        BY <2>1, <3>1
      <4>2. n # 0 => h[n - 1] = g[n - 1]
        BY <3>1
      <4>3. h[n] = g[n]
        BY <3>1
      <4> QED
        BY <4>1, <4>2, <4>3
    <3>2. CASE n = m + 1
      <4>1. h[n - 1] = g[m] /\ h[n] = ReadRow(g[m], f[n]) /\ n # 0
        BY <3>2
      <4> QED
        BY <4>1
    <3> QED
      BY <3>1, <3>2
  <2>3. Loop(h, m + 1)
    BY <2>2
  <2> HIDE DEF h, Loop
  <2>4. \E g1 : Loop(g1, m + 1)
    BY <2>3
  <2> QED
    BY <2>4
<1>3. Len(f) \in S
  <2> HIDE DEF S
  <2>1. 0 .. Len(f) \subseteq S
    BY <1>1, <1>2, RowInduction
  <2> QED
    BY <2>1
<1>4. \E g : Loop(g, Len(f))
  BY <1>3
<1>5. Parsing(f) = CHOOSE g : Loop(g, Len(f))
  BY DEF Parsing, NoRows
<1>6. Loop(Parsing(f), Len(f))
  <2> HIDE DEF Loop
  <2> QED
    BY <1>4, <1>5
<1> QED
  BY <1>6

(* One more row keeps the tally. *)
LEMMA ReadingARow ==
  ASSUME NEW f \in Files, NEW n \in 0 .. Len(f), n < Len(f), NEW parse, Tally(f, n, parse)
  PROVE  Tally(f, n + 1, ReadRow(parse, f[n + 1]))
<1> DEFINE row == f[n + 1]
           next == ReadRow(parse, row)
           k == Len(parse.rows)
<1>0. Len(f) \in Nat /\ n \in Nat
  BY ImportAssumption DEF Files
<1>1. row \in FileRows /\ row.cell \in Names \cup Defects
  BY DEF Files, FileRows
<1>2. /\ parse \in Parses /\ parse.rows \in Seq(FileRows) /\ k \in Nat
      /\ parse.invalid \in Nat /\ parse.duplicate \in Nat
      /\ DOMAIN parse.rows = 1 .. k
  BY DEF Tally, Parses
<1>3. IsFiniteSet(Filled(f, n)) /\ Cardinality(Filled(f, n)) \in Nat
  <2>1. IsFiniteSet(1 .. n)
    BY <1>0, FS_Interval
  <2>2. Filled(f, n) \in SUBSET (1 .. n)
    BY DEF Filled
  <2>3. IsFiniteSet(Filled(f, n))
    BY <2>1, <2>2, FS_Subset
  <2> QED
    BY <2>3, FS_CardinalityType
<1>4. Filled(f, n + 1) = IF row.cell = "blank" THEN Filled(f, n) ELSE Filled(f, n) \cup {n + 1}
  BY DEF Filled
<1>5. n + 1 \notin Filled(f, n)
  BY DEF Filled
<1>6. Cardinality(Filled(f, n + 1)) =
        IF row.cell = "blank" THEN Cardinality(Filled(f, n)) ELSE Cardinality(Filled(f, n)) + 1
  BY <1>3, <1>4, <1>5, FS_AddElement
<1>7. /\ Cardinality(Filled(f, n)) = k + parse.invalid + parse.duplicate
      /\ k \in Nat /\ parse.invalid \in Nat /\ parse.duplicate \in Nat
  BY <1>2 DEF Tally
<1>8. CASE row.cell = "blank"
  <2>1. row.cell \notin parse.seen
    BY <1>2, <1>8, ImportAssumption DEF Parses, Defects
  <2>2. next = parse
    BY <1>8, <2>1 DEF ReadRow
  <2>3. Cardinality(Filled(f, n + 1)) = Cardinality(Filled(f, n))
    BY <1>6, <1>8
  <2> QED
    BY <2>2, <2>3 DEF Tally
<1>9. CASE row.cell \in {"missing", "invalid"}
  <2>1. row.cell \notin parse.seen
    BY <1>2, <1>9, ImportAssumption DEF Parses, Defects
  <2>2. next = [parse EXCEPT !.invalid = @ + 1]
    BY <1>9, <2>1 DEF ReadRow
  <2>3. /\ next \in Parses /\ next.rows = parse.rows /\ next.seen = parse.seen
        /\ next.invalid = parse.invalid + 1 /\ next.duplicate = parse.duplicate
    BY <1>2, <2>2 DEF Parses
  <2>4. row.cell # "blank"
    BY <1>9
  <2> HIDE DEF next, row, k
  <2>5. Len(next.rows) = k
    BY <2>3 DEF k
  <2>6. Cardinality(Filled(f, n + 1)) = Cardinality(Filled(f, n)) + 1
    BY <1>6, <2>4
  <2>7. Cardinality(Filled(f, n + 1)) = Len(next.rows) + next.invalid + next.duplicate
    <3>1. Len(next.rows) + next.invalid + next.duplicate = k + (parse.invalid + 1) + parse.duplicate
      BY <2>3, <2>5
    <3>2. Cardinality(Filled(f, n + 1)) = k + parse.invalid + parse.duplicate + 1
      BY <1>7, <2>6
    <3>3. k + (parse.invalid + 1) + parse.duplicate = k + parse.invalid + parse.duplicate + 1
      BY <1>7
    <3> QED
      BY <3>1, <3>2, <3>3
  <2>8. Tally(f, n + 1, next)
    BY <2>3, <2>7 DEF Tally
  <2> QED
    BY <2>8 DEF next, row
<1>10. CASE row.cell \in parse.seen
  <2>1. row.cell \notin Defects
    BY <1>2, <1>10, ImportAssumption DEF Parses
  <2>2. next = [parse EXCEPT !.duplicate = @ + 1]
    BY <1>10, <2>1 DEF ReadRow, Defects
  <2>3. /\ next \in Parses /\ next.rows = parse.rows /\ next.seen = parse.seen
        /\ next.invalid = parse.invalid /\ next.duplicate = parse.duplicate + 1
    BY <1>2, <2>2 DEF Parses
  <2>4. row.cell # "blank"
    BY <2>1 DEF Defects
  <2> HIDE DEF next, row, k
  <2>5. Len(next.rows) = k
    BY <2>3 DEF k
  <2>6. Cardinality(Filled(f, n + 1)) = Cardinality(Filled(f, n)) + 1
    BY <1>6, <2>4
  <2>7. Cardinality(Filled(f, n + 1)) = Len(next.rows) + next.invalid + next.duplicate
    <3>1. Len(next.rows) + next.invalid + next.duplicate = k + parse.invalid + (parse.duplicate + 1)
      BY <2>3, <2>5
    <3>2. Cardinality(Filled(f, n + 1)) = k + parse.invalid + parse.duplicate + 1
      BY <1>7, <2>6
    <3>3. k + parse.invalid + (parse.duplicate + 1) = k + parse.invalid + parse.duplicate + 1
      BY <1>7
    <3> QED
      BY <3>1, <3>2, <3>3
  <2>8. Tally(f, n + 1, next)
    BY <2>3, <2>7 DEF Tally
  <2> QED
    BY <2>8 DEF next, row
<1>11. CASE row.cell \notin Defects \cup parse.seen
  <2>1. next = [parse EXCEPT !.seen = @ \cup {row.cell}, !.rows = Append(@, row)]
    BY <1>11 DEF ReadRow, Defects
  <2>2. /\ next \in Parses /\ next.rows = Append(parse.rows, row)
        /\ next.seen = parse.seen \cup {row.cell}
        /\ next.invalid = parse.invalid /\ next.duplicate = parse.duplicate
    <3>1. parse.rows \in Seq(FileRows) /\ Append(parse.rows, row) \in Seq(FileRows)
      BY <1>1, <1>2
    <3>2. parse.seen \cup {row.cell} \in SUBSET Names
      BY <1>1, <1>2, <1>11 DEF Parses
    <3> HIDE DEF next, row, k
    <3> QED
      BY <1>2, <2>1, <3>1, <3>2 DEF Parses
  <2>3. row.cell # "blank"
    BY <1>11 DEF Defects
  <2>4. /\ Len(next.rows) = k + 1 /\ DOMAIN next.rows = 1 .. k + 1
        /\ next.rows[k + 1] = row
        /\ \A i \in 1 .. k : next.rows[i] = parse.rows[i]
    BY <1>1, <1>2, <2>2
  <2>5. parse.seen = {parse.rows[i].cell : i \in 1 .. k} /\ row.cell \notin parse.seen
    BY <1>2, <1>11 DEF Tally
  <2>6. \A i \in 1 .. k : parse.rows[i].cell # row.cell
    BY <2>5
  <2> HIDE DEF next, row, k
  <2>7. \A i, j \in 1 .. k + 1 : next.rows[i].cell = next.rows[j].cell => i = j
    <3> SUFFICES ASSUME NEW i \in 1 .. k + 1, NEW j \in 1 .. k + 1,
                        next.rows[i].cell = next.rows[j].cell
                 PROVE  i = j
      OBVIOUS
    <3>1. CASE i \in 1 .. k /\ j \in 1 .. k
      BY <1>2, <2>4, <3>1 DEF Tally
    <3>2. CASE i = k + 1 /\ j \in 1 .. k
      BY <2>4, <2>6, <3>2
    <3>3. CASE j = k + 1 /\ i \in 1 .. k
      BY <2>4, <2>6, <3>3
    <3> QED
      BY <1>2, <3>1, <3>2, <3>3
  <2>8. next.seen = {next.rows[i].cell : i \in 1 .. k + 1}
    BY <1>2, <2>2, <2>4, <2>5
  <2>9. Cardinality(Filled(f, n + 1)) = Len(next.rows) + next.invalid + next.duplicate
    <3>0. Cardinality(Filled(f, n + 1)) = Cardinality(Filled(f, n)) + 1
      BY <1>6, <2>3
    <3>1. Len(next.rows) + next.invalid + next.duplicate = (k + 1) + parse.invalid + parse.duplicate
      BY <2>2, <2>4
    <3>2. Cardinality(Filled(f, n + 1)) = k + parse.invalid + parse.duplicate + 1
      BY <1>7, <3>0
    <3>3. (k + 1) + parse.invalid + parse.duplicate = k + parse.invalid + parse.duplicate + 1
      <4>1. \A a, b, c \in Nat : (a + 1) + b + c = a + b + c + 1
        OBVIOUS
      <4> QED
        BY <1>7, <4>1
    <3> QED
      BY <3>1, <3>2, <3>3
  <2> QED
    BY <2>2, <2>4, <2>7, <2>8, <2>9 DEF Tally, next, row
<1> QED
  BY <1>1, <1>8, <1>9, <1>10, <1>11 DEF Defects

(* So the parse of a file adds up, whatever its rows are. *)
LEMMA ParseAddsUp ==
  ASSUME NEW f \in Files
  PROVE  Tally(f, Len(f), ParseRows(f))
<1> DEFINE S == {n \in 0 .. Len(f) : Tally(f, n, Parsing(f)[n])}
<1>1. Len(f) \in Nat
  BY ImportAssumption DEF Files
<1>2. /\ Parsing(f)[0] = NoRows
      /\ \A n \in 0 .. Len(f) : n < Len(f) => Parsing(f)[n + 1] = ReadRow(Parsing(f)[n], f[n + 1])
  BY <1>1, ParsingIsDefined
<1>3. Tally(f, 0, NoRows)
  <2>1. Filled(f, 0) = {}
    BY DEF Filled
  <2>2. /\ NoRows.rows = <<>> /\ NoRows.seen = {} /\ NoRows.invalid = 0 /\ NoRows.duplicate = 0
        /\ NoRows \in Parses
    BY DEF NoRows, Parses
  <2>3. Cardinality(Filled(f, 0)) = 0
    BY <2>1, FS_EmptySet
  <2>4. Len(NoRows.rows) = 0 /\ DOMAIN NoRows.rows = {}
    BY <2>2
  <2> QED
    BY <2>2, <2>3, <2>4 DEF Tally
<1>4. 0 \in S
  BY <1>1, <1>2, <1>3
<1>5. ASSUME NEW n \in 0 .. Len(f), n \in S, n < Len(f) PROVE n + 1 \in S
  BY <1>1, <1>2, <1>5, ReadingARow
<1>6. Len(f) \in S
  <2> HIDE DEF S
  <2>1. 0 .. Len(f) \subseteq S
    BY <1>1, <1>4, <1>5, RowInduction
  <2> QED
    BY <1>1, <2>1
<1> QED
  BY <1>6 DEF ParseRows

-----------------------------------------------------------------------------
(* A commit adds the users of one import and leaves those of the others    *)
(* alone.                                                                  *)
LEMMA CommitAddsUp ==
  ASSUME ImportInv, Commit
  PROVE  ImportInv'
<1>1. PICK n : n = Len(imports) + 1
  OBVIOUS
<1> DEFINE parse == ParseRows(file)
           k == Len(parse.rows)
           m == Len(invitees)
           new == [total |-> TotalRows(file), valid |-> k,
                   invalid |-> parse.invalid, duplicate |-> parse.duplicate]
           stored == [i \in DOMAIN parse.rows |-> [import |-> n, name |-> parse.rows[i].cell,
                                                   id |-> parse.rows[i].id]]
<1>2. /\ file \in Files /\ imports \in Seq(Summary) /\ Len(imports) < MaxImports
      /\ invitees \in Seq([import : 1 .. MaxImports, name : Names, id : {"digits", "text"}])
  BY DEF ImportInv, ImportTypeOK, Commit
<1>3. /\ imports' = Append(imports, new) /\ invitees' = invitees \o stored
      /\ upload' = "none" /\ file' = <<>>
  BY <1>1 DEF Commit
<1>4. Tally(file, Len(file), parse)
  BY <1>2, ParseAddsUp
<1>5. /\ parse.rows \in Seq(FileRows) /\ k \in Nat /\ DOMAIN parse.rows = 1 .. k
      /\ parse.invalid \in Nat /\ parse.duplicate \in Nat
  BY <1>4 DEF Tally, Parses
<1>6. \A i \in 1 .. k : parse.rows[i].id = "digits" /\ parse.rows[i].cell \in Names
  <2>1. \A i \in 1 .. k : parse.rows[i].cell \in parse.seen
    BY <1>4, <1>5 DEF Tally
  <2>2. parse.seen \subseteq Names
    BY <1>4 DEF Tally, Parses
  <2>3. Storable(file)
    BY DEF Commit
  <2> QED
    BY <1>5, <2>1, <2>2, <2>3 DEF Storable
<1>7. \A i, j \in 1 .. k : parse.rows[i].cell = parse.rows[j].cell => i = j
  BY <1>4, <1>5 DEF Tally
<1>8. TotalRows(file) = k + parse.invalid + parse.duplicate
  <2>1. Filled(file, Len(file)) = {i \in DOMAIN file : file[i].cell # "blank"}
    <3>1. DOMAIN file = 1 .. Len(file)
      BY <1>2, ImportAssumption DEF Files
    <3> QED
      BY <3>1 DEF Filled
  <2> QED
    BY <1>4, <2>1 DEF TotalRows, Tally
<1>9. /\ m \in Nat /\ Len(imports) \in Nat /\ n \in 1 .. MaxImports
      /\ DOMAIN invitees = 1 .. m /\ DOMAIN imports = 1 .. Len(imports)
  BY <1>1, <1>2, ImportAssumption
<1>10. new \in Summary
  BY <1>5, <1>8 DEF Summary
<1>11. stored \in Seq([import : 1 .. MaxImports, name : Names, id : {"digits", "text"}])
         /\ Len(stored) = k
  <2>1. stored \in [1 .. k -> [import : 1 .. MaxImports, name : Names, id : {"digits", "text"}]]
    BY <1>5, <1>6, <1>9
  <2> QED
    BY <1>5, <2>1
<1>12. \A i \in 1 .. k : stored[i].import = n /\ stored[i].name = parse.rows[i].cell
                         /\ stored[i].id = "digits"
  BY <1>5, <1>6
<1> HIDE DEF parse, k, m, new, stored
<1>13. ImportTypeOK'
  <2>1. imports' \in Seq(Summary) /\ Len(imports') = n
    BY <1>1, <1>2, <1>3, <1>10
  <2>2. <<>> \in Files
    BY ImportAssumption, EmptySeq DEF Files
  <2>3. invitees' \in Seq([import : 1 .. MaxImports, name : Names, id : {"digits", "text"}])
    BY <1>2, <1>3, <1>11
  <2> QED
    BY <1>3, <1>9, <2>1, <2>2, <2>3 DEF ImportTypeOK
<1>14. /\ DOMAIN imports' = 1 .. n /\ imports'[n] = new
       /\ \A i \in 1 .. Len(imports) : imports'[i] = imports[i]
  BY <1>1, <1>2, <1>3, <1>9, <1>10
<1>15. /\ DOMAIN invitees' = 1 .. m + k
       /\ \A i \in 1 .. m : invitees'[i] = invitees[i]
       /\ \A i \in m + 1 .. m + k : invitees'[i] = stored[i - m]
  <2> DEFINE T == [import : 1 .. MaxImports, name : Names, id : {"digits", "text"}]
  <2>1. /\ invitees' = invitees \o stored /\ Len(invitees) = m /\ Len(stored) = k
        /\ invitees \in Seq(T) /\ stored \in Seq(T)
    BY <1>2, <1>3, <1>11 DEF m
  <2> HIDE DEF T
  <2>2. /\ Len(invitees') = m + k
        /\ \A i \in 1 .. m + k : invitees'[i] = IF i <= m THEN invitees[i] ELSE stored[i - m]
    BY <2>1, ConcatProperties
  <2>3. DOMAIN invitees' = 1 .. m + k
    BY <2>1, <2>2, ConcatProperties, LenProperties
  <2>4. \A i \in 1 .. m : i \in 1 .. m + k /\ i <= m
    BY <1>5, <1>9
  <2>5. \A i \in m + 1 .. m + k : i \in 1 .. m + k /\ ~(i <= m)
    BY <1>5, <1>9
  <2> QED
    BY <2>2, <2>3, <2>4, <2>5
<1>16. \A i \in 1 .. m : invitees[i].import \in 1 .. Len(imports) /\ invitees[i].id = "digits"
  BY <1>9 DEF ImportInv, ImportsAddUp
<1>17. \A i \in m + 1 .. m + k : invitees'[i].import = n /\ invitees'[i].id = "digits"
                                 /\ invitees'[i].name = parse.rows[i - m].cell
  <2> SUFFICES ASSUME NEW i \in m + 1 .. m + k
               PROVE  invitees'[i].import = n /\ invitees'[i].id = "digits"
                        /\ invitees'[i].name = parse.rows[i - m].cell
    OBVIOUS
  <2>1. i - m \in 1 .. k
    BY <1>5, <1>9
  <2> QED
    BY <1>12, <1>15, <2>1
<1>18. ASSUME NEW q \in 1 .. Len(imports) PROVE RowsOf(q)' = RowsOf(q)
  BY <1>1, <1>5, <1>9, <1>15, <1>17, <1>18 DEF RowsOf
<1>19. RowsOf(n)' = m + 1 .. m + k
  <2>1. \A i \in 1 .. m : invitees'[i].import # n
    BY <1>1, <1>9, <1>15, <1>16
  <2>2. \A i \in 1 .. m + k : i \in 1 .. m \/ i \in m + 1 .. m + k
    BY <1>5, <1>9
  <2>3. m + 1 .. m + k \subseteq 1 .. m + k
    BY <1>5, <1>9
  <2>4. RowsOf(n)' = {i \in 1 .. m + k : invitees'[i].import = n}
    BY <1>1, <1>15 DEF RowsOf
  <2> QED
    BY <1>17, <2>1, <2>2, <2>3, <2>4
<1>20. Cardinality(m + 1 .. m + k) = k
  BY <1>5, <1>9, FS_Interval
<1>21. ImportsAddUp'
  <2>1. ASSUME NEW q \in 1 .. Len(imports)
        PROVE  /\ imports'[q].total = imports'[q].valid + imports'[q].invalid + imports'[q].duplicate
               /\ imports'[q].valid = Cardinality(RowsOf(q)')
               /\ \A i, j \in RowsOf(q)' : invitees'[i].name = invitees'[j].name => i = j
    <3>1. \A i \in RowsOf(q) : i \in 1 .. m
      BY <1>9 DEF RowsOf
    <3> QED
      BY <1>9, <1>14, <1>15, <1>18, <2>1, <3>1 DEF ImportInv, ImportsAddUp
  <2>2. /\ imports'[n].total = imports'[n].valid + imports'[n].invalid + imports'[n].duplicate
        /\ imports'[n].valid = Cardinality(RowsOf(n)')
    BY <1>8, <1>14, <1>19, <1>20 DEF new
  <2>3. \A i, j \in RowsOf(n)' : invitees'[i].name = invitees'[j].name => i = j
    <3> SUFFICES ASSUME NEW i \in m + 1 .. m + k, NEW j \in m + 1 .. m + k,
                        invitees'[i].name = invitees'[j].name
                 PROVE  i = j
      BY <1>19
    <3>1. i - m \in 1 .. k /\ j - m \in 1 .. k
      BY <1>5, <1>9
    <3>2. i - m = j - m
      BY <1>7, <1>17, <3>1
    <3> QED
      BY <1>9, <3>2
  <2>4. \A i \in 1 .. m + k : invitees'[i].import \in 1 .. n /\ invitees'[i].id = "digits"
    BY <1>1, <1>5, <1>9, <1>15, <1>16, <1>17
  <2>5. \A q \in 1 .. n : q = n \/ q \in 1 .. Len(imports)
    BY <1>1, <1>9
  <2>6. \A q \in 1 .. n :
          /\ imports'[q].total = imports'[q].valid + imports'[q].invalid + imports'[q].duplicate
          /\ imports'[q].valid = Cardinality(RowsOf(q)')
          /\ \A i, j \in RowsOf(q)' : invitees'[i].name = invitees'[j].name => i = j
    BY <2>1, <2>2, <2>3, <2>5
  <2> QED
    BY <1>14, <1>15, <2>4, <2>6 DEF ImportsAddUp
<1> QED
  BY <1>3, <1>13, <1>21 DEF ImportInv

(* ImportInv holds in every state. *)
LEMMA Imports == ImportSpec => []ImportInv
<1>1. ImportInit => ImportInv
  <2> SUFFICES ASSUME ImportInit PROVE ImportInv
    OBVIOUS
  <2>1. <<>> \in Files
    BY ImportAssumption, EmptySeq DEF Files
  <2> QED
    BY <2>1, ImportAssumption DEF ImportInit, ImportInv, ImportTypeOK, ImportsAddUp
<1>2. ImportInv /\ [ImportNext]_importVars => ImportInv'
  <2> SUFFICES ASSUME ImportInv, [ImportNext]_importVars PROVE ImportInv'
    OBVIOUS
  <2>1. CASE Commit
    BY <2>1, CommitAddsUp
  <2>2. ASSUME UNCHANGED <<imports, invitees>> PROVE ImportsAddUp'
    <3>1. \A n : RowsOf(n)' = RowsOf(n)
      BY <2>2 DEF RowsOf
    <3> QED
      BY <2>2, <3>1 DEF ImportInv, ImportsAddUp
  <2>3. ASSUME NEW f \in Files, Upload(f) PROVE ImportInv'
    BY <2>2, <2>3 DEF Upload, ImportInv, ImportTypeOK
  <2>4. CASE InsertSummary
    BY <2>2, <2>4 DEF InsertSummary, ImportInv, ImportTypeOK
  <2>5. CASE RollBack
    <3>1. <<>> \in Files
      BY ImportAssumption, EmptySeq DEF Files
    <3> QED
      BY <2>2, <2>5, <3>1 DEF RollBack, ImportInv, ImportTypeOK
  <2>6. CASE UNCHANGED importVars
    BY <2>2, <2>6 DEF importVars, ImportInv, ImportTypeOK
  <2> QED
    BY <2>1, <2>3, <2>4, <2>5, <2>6 DEF ImportNext
<1> QED
  BY <1>1, <1>2, PTL DEF ImportSpec

(* What the operator is told of an import is what the task got from it,    *)
(* for a file of any length: the parse counts each row that is not empty   *)
(* once, and a commit stores the summary and exactly the rows it counted   *)
(* as valid.                                                               *)
THEOREM ImportsAddUpHolds == ImportSpec => []ImportsAddUp
<1>1. ImportInv => ImportsAddUp
  BY DEF ImportInv
<1> QED
  BY <1>1, Imports, PTL

-----------------------------------------------------------------------------
Latest(calls) == calls[Len(calls)]

(* The name shown is that of the chat opened last, and once its messages   *)
(* have arrived they are shown, or what is shown came after the answer to  *)
(* a later call.                                                           *)
ChatInv ==
  /\ opens = <<>> => selected = NoChat /\ messages = NoChat
  /\ opens # <<>> =>
       /\ selected = Latest(opens).chat
       /\ Latest(opens).state = "answered" => messages = selected \/ "opens" \in overtaken

(* The list asked for last was asked for after the last change the page    *)
(* was told of, so what the backend answers has that change.               *)
ListInv ==
  /\ mine <= revision
  /\ \A n \in DOMAIN changes : changes[n].revision <= revision
  /\ reloads = <<>> => mine = 0
  /\ reloads # <<>> =>
       /\ Latest(reloads).state \in {"served", "answered"} => Latest(reloads).revision >= mine
       /\ Latest(reloads).state = "answered" =>
            items = Latest(reloads).revision \/ "reloads" \in overtaken

(* Unless two messages were being sent at once, those before the last have *)
(* their answers, and the text of the last is in the input until its own   *)
(* answer arrives or the user types.                                       *)
DraftInv ==
  /\ ~overlapped => \A n \in DOMAIN sends : sends[n].state \in Outstanding => n = Len(sends)
  /\ sends # <<>> /\ Latest(sends).state # "answered" =>
       draft = Latest(sends).text \/ typed \/ overlapped

-----------------------------------------------------------------------------
OpenCalls == [chat : Chats, state : CallStates]
SendCalls == [text : Drafts, state : CallStates]
ListCalls == [revision : Revisions, state : CallStates]

(* One call of a list of calls is replaced, *)
LEMMA Replacing ==
  ASSUME NEW T, NEW calls \in Seq(T), NEW n \in DOMAIN calls, NEW x \in T,
         NEW next, next = [calls EXCEPT ![n] = x]
  PROVE  /\ next \in Seq(T) /\ Len(next) = Len(calls) /\ DOMAIN next = DOMAIN calls
         /\ next[n] = x /\ \A m \in DOMAIN calls : m # n => next[m] = calls[m]
         /\ Len(calls) \in DOMAIN calls /\ calls # <<>> /\ next # <<>>
<1>1. /\ DOMAIN calls = 1 .. Len(calls) /\ Len(calls) \in Nat /\ n \in 1 .. Len(calls)
      /\ calls \in [1 .. Len(calls) -> T]
  OBVIOUS
<1>2. next \in [1 .. Len(calls) -> T]
  BY <1>1
<1>3. next \in Seq(T) /\ Len(next) = Len(calls) /\ DOMAIN next = DOMAIN calls
  BY <1>1, <1>2
<1> QED
  BY <1>1, <1>3

(* or one is added. *)
LEMMA Adding ==
  ASSUME NEW T, NEW calls \in Seq(T), NEW x \in T, NEW next, next = Append(calls, x)
  PROVE  /\ next \in Seq(T) /\ Len(next) = Len(calls) + 1
         /\ DOMAIN next = DOMAIN calls \cup {Len(next)} /\ Len(next) \notin DOMAIN calls
         /\ next[Len(next)] = x /\ \A m \in DOMAIN calls : next[m] = calls[m]
         /\ next # <<>>
  OBVIOUS

(* What a call that is answered, served or failed becomes. *)
LEMMA Marking ==
  ASSUME ConsoleTypeOK, NEW s \in CallStates
  PROVE  /\ \A n \in DOMAIN opens :
              /\ [opens[n] EXCEPT !.state = s] \in OpenCalls
              /\ [opens[n] EXCEPT !.state = s].state = s
              /\ [opens[n] EXCEPT !.state = s].chat = opens[n].chat
         /\ \A n \in DOMAIN sends :
              /\ [sends[n] EXCEPT !.state = s] \in SendCalls
              /\ [sends[n] EXCEPT !.state = s].state = s
              /\ [sends[n] EXCEPT !.state = s].text = sends[n].text
         /\ \A calls \in {changes, reloads} : \A n \in DOMAIN calls :
              /\ [calls[n] EXCEPT !.state = s] \in ListCalls
              /\ [calls[n] EXCEPT !.state = s].state = s
              /\ [calls[n] EXCEPT !.state = s].revision = calls[n].revision
<1>1. /\ opens \in Seq(OpenCalls) /\ sends \in Seq(SendCalls)
      /\ changes \in Seq(ListCalls) /\ reloads \in Seq(ListCalls)
  BY DEF ConsoleTypeOK, OpenCalls, SendCalls, ListCalls
<1>2. \A n \in DOMAIN opens : opens[n] \in OpenCalls
  BY <1>1
<1>3. \A n \in DOMAIN sends : sends[n] \in SendCalls
  BY <1>1
<1>4. \A calls \in {changes, reloads} : \A n \in DOMAIN calls : calls[n] \in ListCalls
  BY <1>1
<1> QED
  BY <1>2, <1>3, <1>4 DEF OpenCalls, SendCalls, ListCalls

(* A page that is mounted is as new. *)
LEMMA Mounting ==
  ASSUME ConsoleTypeOK, NEW p \in {"login", "accounts", "chats", "proxies"}, Mount(p),
         revision' \in Revisions, accessToken' \in {"none", "valid", "expired"},
         logins' \in SUBSET {"mounted", "left"}
  PROVE  ConsoleTypeOK' /\ ChatInv' /\ ListInv' /\ DraftInv'
<1> DEFINE first == <<[revision |-> 0, state |-> Asked]>>
<1>1. 0 \in Revisions /\ revision' >= 0
  BY RevisionAssumption DEF Revisions
<1>2. [revision |-> 0, state |-> Asked] \in ListCalls /\ Asked \notin {"served", "answered"}
  BY <1>1 DEF Asked, ListCalls, CallStates, Outstanding
<1>3. first \in Seq(ListCalls) /\ Len(first) = 1 /\ first[1].state = Asked
  BY <1>2
<1>4. reloads' \in {first, <<>>}
  BY DEF Mount
<1>5. reloads' \in Seq(ListCalls)
  <2> HIDE DEF first
  <2> QED
    BY <1>3, <1>4, EmptySeq
<1>6. ConsoleTypeOK'
  <2>1. opens' \in Seq(OpenCalls) /\ sends' \in Seq(SendCalls) /\ changes' \in Seq(ListCalls)
    BY DEF Mount
  <2>2. /\ page' \in {"login", "accounts", "chats", "proxies"}
        /\ selected' \in Chats \cup {NoChat} /\ messages' \in Chats \cup {NoChat}
        /\ draft' \in Drafts \cup {NoDraft}
        /\ items' \in Revisions /\ mine' \in Revisions
        /\ overtaken' \in SUBSET {"opens", "reloads"} /\ overlapped' \in BOOLEAN /\ typed' \in BOOLEAN
    BY <1>1 DEF Mount
  <2> QED
    BY <1>5, <2>1, <2>2 DEF ConsoleTypeOK, OpenCalls, SendCalls, ListCalls
<1>7. ChatInv'
  BY DEF Mount, ChatInv
<1>8. ListInv'
  <2>1. mine' = 0 /\ changes' = <<>>
    BY DEF Mount
  <2>2. reloads' # <<>> => Latest(reloads').state = Asked
    BY <1>3, <1>4 DEF Latest
  <2> HIDE DEF first
  <2> QED
    BY <1>1, <1>2, <2>1, <2>2 DEF ListInv, Latest
<1>9. DraftInv'
  BY DEF Mount, DraftInv
<1> QED
  BY <1>6, <1>7, <1>8, <1>9

ConsoleInv == ConsoleTypeOK /\ ChatInv /\ ListInv /\ DraftInv

(* What an action leaves alone stays as it was. *)
LEMMA Untouched ==
  ASSUME ConsoleInv
  PROVE  /\ /\ UNCHANGED <<opens, selected, messages>>
            /\ "opens" \in overtaken => "opens" \in overtaken'
            => ChatInv'
         /\ /\ UNCHANGED <<revision, listVars>>
            /\ "reloads" \in overtaken => "reloads" \in overtaken'
            => ListInv'
         /\ (UNCHANGED <<draft, sends, overlapped, typed>>) => DraftInv'
  BY DEF ConsoleInv, ChatInv, ListInv, DraftInv, Latest, listVars

(* The calls of a page have the types of their fields. *)
LEMMA Calls ==
  ASSUME ConsoleTypeOK
  PROVE  /\ opens \in Seq(OpenCalls) /\ sends \in Seq(SendCalls)
         /\ changes \in Seq(ListCalls) /\ reloads \in Seq(ListCalls)
  BY DEF ConsoleTypeOK, OpenCalls, SendCalls, ListCalls

(* The types are kept if each variable that changes keeps its own. *)
LEMMA TypesKept ==
  ASSUME ConsoleTypeOK, UNCHANGED page,
         accessToken' \in {"none", "valid", "expired"}, logins' \in SUBSET {"mounted", "left"},
         selected' \in Chats \cup {NoChat}, messages' \in Chats \cup {NoChat},
         draft' \in Drafts \cup {NoDraft},
         opens' \in Seq(OpenCalls), sends' \in Seq(SendCalls),
         changes' \in Seq(ListCalls), reloads' \in Seq(ListCalls),
         revision' \in Revisions, items' \in Revisions, mine' \in Revisions,
         overtaken' \in SUBSET {"opens", "reloads"}, overlapped' \in BOOLEAN, typed' \in BOOLEAN
  PROVE  ConsoleTypeOK'
  BY DEF ConsoleTypeOK, OpenCalls, SendCalls, ListCalls

(* What ConsoleTypeOK says of each variable, with the records named. *)
LEMMA ConsoleTypes ==
  ASSUME ConsoleTypeOK
  PROVE  /\ accessToken \in {"none", "valid", "expired"} /\ logins \in SUBSET {"mounted", "left"}
         /\ selected \in Chats \cup {NoChat} /\ messages \in Chats \cup {NoChat}
         /\ draft \in Drafts \cup {NoDraft}
         /\ revision \in Revisions /\ items \in Revisions /\ mine \in Revisions
         /\ revision \in Nat /\ items \in Nat /\ mine \in Nat
         /\ overtaken \in SUBSET {"opens", "reloads"} /\ overlapped \in BOOLEAN /\ typed \in BOOLEAN
  BY RevisionAssumption DEF ConsoleTypeOK, Revisions

-----------------------------------------------------------------------------
(* Logging in, going to another page, and a token that expires. *)
LEMMA LoginKeepsConsoleInv ==
  ASSUME ConsoleInv
  PROVE  /\ \A p \in {"login", "accounts", "chats", "proxies"} : Visit(p) => ConsoleInv'
         /\ \A l \in logins : LoginArrives(l) \/ LoginFails(l) => ConsoleInv'
         /\ SubmitLogin \/ TokenExpires => ConsoleInv'
<1>1. ConsoleTypeOK
  BY DEF ConsoleInv
<1>2. ASSUME NEW p \in {"login", "accounts", "chats", "proxies"}, Visit(p) PROVE ConsoleInv'
  BY <1>1, <1>2, ConsoleTypes, Mounting DEF Visit, ConsoleInv
<1>3. ASSUME NEW l \in logins, LoginArrives(l) PROVE ConsoleInv'
  BY <1>1, <1>3, ConsoleTypes, Mounting DEF LoginArrives, ConsoleInv
<1>4. ASSUME UNCHANGED <<page, chatVars, revision, listVars, overtaken>>,
             accessToken' \in {"none", "valid", "expired"}, logins' \in SUBSET {"mounted", "left"}
      PROVE  ConsoleInv'
  <2>1. ChatInv' /\ ListInv' /\ DraftInv'
    BY <1>4, Untouched DEF chatVars
  <2>2. ConsoleTypeOK'
    BY <1>1, <1>4, ConsoleTypes, Calls, TypesKept DEF chatVars, listVars
  <2> QED
    BY <2>1, <2>2 DEF ConsoleInv
<1>5. ASSUME NEW l \in logins, LoginFails(l) PROVE ConsoleInv'
  BY <1>1, <1>4, <1>5, ConsoleTypes DEF LoginFails
<1>6. CASE SubmitLogin
  BY <1>1, <1>4, <1>6, ConsoleTypes DEF SubmitLogin
<1>7. CASE TokenExpires
  BY <1>1, <1>4, <1>7, ConsoleTypes DEF TokenExpires
<1> QED
  BY <1>2, <1>3, <1>5, <1>6, <1>7

(* A chat is opened, and its messages arrive. *)
LEMMA OpeningKeepsConsoleInv ==
  ASSUME ConsoleInv
  PROVE  /\ \A c \in Chats : OpenChat(c) => ConsoleInv'
         /\ \A n \in DOMAIN opens : OpenArrives(n) => ConsoleInv'
<1>1. ConsoleTypeOK /\ ChatInv
  BY DEF ConsoleInv
<1>2. opens \in Seq(OpenCalls)
  BY <1>1, Calls
<1>3. ASSUME NEW c \in Chats, OpenChat(c) PROVE ConsoleInv'
  <2> DEFINE x == [chat |-> c, state |-> Asked]
  <2>1. x \in OpenCalls /\ x.chat = c /\ x.state # "answered"
    BY DEF OpenCalls, CallStates, Outstanding, Asked
  <2>2. opens' = Append(opens, x) /\ selected' = c
    BY <1>3 DEF OpenChat
  <2>3. UNCHANGED <<page, accessToken, logins, messages, draft, sends, overlapped, typed, revision,
                    listVars, overtaken>>
    BY <1>3 DEF OpenChat
  <2> HIDE DEF x
  <2>4. opens' \in Seq(OpenCalls) /\ Latest(opens') = x /\ opens' # <<>>
    BY <1>2, <2>1, <2>2, Adding DEF Latest
  <2>5. ConsoleTypeOK'
    BY <1>1, <2>2, <2>3, <2>4, ConsoleTypes, Calls, TypesKept DEF listVars
  <2>6. ChatInv'
    BY <2>1, <2>2, <2>4 DEF ChatInv, Latest
  <2> QED
    BY <2>3, <2>5, <2>6, Untouched DEF ConsoleInv
<1>4. ASSUME NEW n \in DOMAIN opens, OpenArrives(n) PROVE ConsoleInv'
  <2> DEFINE x == [opens[n] EXCEPT !.state = "answered"]
  <2>1. x \in OpenCalls /\ x.state = "answered" /\ x.chat = opens[n].chat
    BY <1>1, Marking DEF CallStates
  <2>2. opens' = [opens EXCEPT ![n] = x] /\ messages' = opens[n].chat
    BY <1>4 DEF OpenArrives
  <2>3. UNCHANGED <<page, accessToken, logins, selected, draft, sends, overlapped, typed, revision,
                    listVars>>
    BY <1>4 DEF OpenArrives
  <2>4. /\ overtaken' \in {overtaken \cup {"opens"}, overtaken \ {"opens"}}
        /\ (\E m \in n + 1 .. Len(opens) : opens[m].state = "answered") => "opens" \in overtaken'
    BY <1>4 DEF OpenArrives, Shows
  <2> HIDE DEF x
  <2>5. /\ opens' \in Seq(OpenCalls) /\ Len(opens') = Len(opens) /\ opens'[n] = x
        /\ \A m \in DOMAIN opens : m # n => opens'[m] = opens[m]
        /\ Len(opens) \in DOMAIN opens /\ opens # <<>> /\ opens' # <<>>
    BY <1>2, <2>1, <2>2, Replacing
  <2>6. opens[n].chat \in Chats
    <3>1. opens[n] \in OpenCalls
      BY <1>2
    <3> QED
      BY <3>1 DEF OpenCalls
  <2>7. ConsoleTypeOK'
    BY <1>1, <2>2, <2>3, <2>4, <2>5, <2>6, ConsoleTypes, Calls, TypesKept DEF listVars
  <2>8. ChatInv'
    <3>1. CASE n = Len(opens)
      BY <1>1, <2>1, <2>2, <2>3, <2>5, <3>1 DEF ChatInv, Latest
    <3>2. CASE n # Len(opens)
      <4>1. Len(opens) \in n + 1 .. Len(opens)
        BY <1>2, <3>2
      <4>2. Latest(opens') = Latest(opens)
        BY <2>5, <3>2 DEF Latest
      <4> QED
        BY <1>1, <2>3, <2>4, <2>5, <4>1, <4>2 DEF ChatInv, Latest
    <3> QED
      BY <3>1, <3>2
  <2>9. ListInv' /\ DraftInv'
    BY <2>3, <2>4, Untouched
  <2> QED
    BY <2>7, <2>8, <2>9 DEF ConsoleInv
<1> QED
  BY <1>3, <1>4

(* A text is typed, sent, and taken. *)
LEMMA SendingKeepsConsoleInv ==
  ASSUME ConsoleInv
  PROVE  /\ \A d \in Drafts : TypeDraft(d) => ConsoleInv'
         /\ Send => ConsoleInv'
         /\ \A n \in DOMAIN sends : SendArrives(n) => ConsoleInv'
<1>1. ConsoleTypeOK /\ DraftInv
  BY DEF ConsoleInv
<1>2. sends \in Seq(SendCalls) /\ Len(sends) \in Nat /\ DOMAIN sends = 1 .. Len(sends)
  BY <1>1, Calls
<1>3. ASSUME NEW d \in Drafts, TypeDraft(d) PROVE ConsoleInv'
  <2>1. draft' = d /\ typed' = TRUE
          /\ UNCHANGED <<page, accessToken, logins, selected, messages, opens, sends, overlapped,
                         revision, listVars, overtaken>>
    BY <1>3 DEF TypeDraft
  <2>2. ConsoleTypeOK'
    BY <1>1, <2>1, ConsoleTypes, Calls, TypesKept DEF listVars
  <2>3. DraftInv'
    BY <1>1, <2>1 DEF DraftInv
  <2> QED
    BY <2>1, <2>2, <2>3, Untouched DEF ConsoleInv
<1>4. CASE Send
  <2> DEFINE x == [text |-> draft, state |-> Asked]
  <2>1. x \in SendCalls /\ x.text = draft
    BY <1>1, <1>4, ConsoleTypes DEF Send, SendCalls, CallStates, Outstanding, Asked
  <2>2. /\ sends' = Append(sends, x) /\ typed' = FALSE
        /\ overlapped' = (overlapped \/ \E n \in DOMAIN sends : sends[n].state \in Outstanding)
    BY <1>4 DEF Send
  <2>3. UNCHANGED <<page, accessToken, logins, selected, messages, draft, opens, revision, listVars,
                    overtaken>>
    BY <1>4 DEF Send
  <2> HIDE DEF x
  <2>4. /\ sends' \in Seq(SendCalls) /\ Latest(sends') = x
        /\ DOMAIN sends' = DOMAIN sends \cup {Len(sends')}
        /\ \A m \in DOMAIN sends : sends'[m] = sends[m]
    BY <1>2, <2>1, <2>2, Adding DEF Latest
  <2>5. ConsoleTypeOK'
    BY <1>1, <2>2, <2>3, <2>4, ConsoleTypes, Calls, TypesKept DEF listVars
  <2>6. DraftInv'
    BY <2>1, <2>2, <2>3, <2>4 DEF DraftInv, Latest
  <2> QED
    BY <2>3, <2>5, <2>6, Untouched DEF ConsoleInv
<1>5. ASSUME NEW n \in DOMAIN sends, SendArrives(n) PROVE ConsoleInv'
  <2> DEFINE x == [sends[n] EXCEPT !.state = "answered"]
  <2>1. x \in SendCalls /\ x.state = "answered"
    BY <1>1, Marking DEF CallStates
  <2>2. sends' = [sends EXCEPT ![n] = x] /\ draft' = NoDraft /\ sends[n].state = "asked"
    BY <1>5 DEF SendArrives
  <2>3. UNCHANGED <<page, accessToken, logins, selected, messages, opens, overlapped, typed, revision,
                    listVars, overtaken>>
    BY <1>5 DEF SendArrives
  <2> HIDE DEF x
  <2>4. /\ sends' \in Seq(SendCalls) /\ Len(sends') = Len(sends) /\ DOMAIN sends' = DOMAIN sends
        /\ sends'[n] = x /\ \A m \in DOMAIN sends : m # n => sends'[m] = sends[m]
    BY <1>2, <2>1, <2>2, Replacing
  <2>5. ConsoleTypeOK'
    BY <1>1, <2>2, <2>3, <2>4, ConsoleTypes, Calls, TypesKept DEF listVars
  <2>6. DraftInv'
    <3>1. overlapped \/ n = Len(sends)
      BY <1>1, <2>2 DEF DraftInv, Outstanding
    <3> QED
      BY <1>1, <2>1, <2>3, <2>4, <3>1 DEF DraftInv, Latest, Outstanding
  <2> QED
    BY <2>3, <2>5, <2>6, Untouched DEF ConsoleInv
<1> QED
  BY <1>3, <1>4, <1>5

(* A row is changed, the change carried out and answered, the list loaded  *)
(* anew.                                                                   *)
LEMMA ChangingKeepsConsoleInv ==
  ASSUME ConsoleInv
  PROVE  /\ ChangeList \/ OthersChange => ConsoleInv'
         /\ \A n \in DOMAIN changes : ServeChange(n) \/ ChangeArrives(n) => ConsoleInv'
<1>1. ConsoleTypeOK /\ ListInv
  BY DEF ConsoleInv
<1>2. changes \in Seq(ListCalls) /\ reloads \in Seq(ListCalls)
  BY <1>1, Calls
<1>3. \A n \in DOMAIN changes : changes[n].revision \in Revisions /\ changes[n].revision \in Nat
  <2>1. \A n \in DOMAIN changes : changes[n] \in ListCalls
    BY <1>2
  <2> QED
    BY <2>1, RevisionAssumption DEF ListCalls, Revisions
<1>4. 0 \in Revisions /\ [revision |-> 0, state |-> Asked] \in ListCalls
        /\ Asked \notin {"served", "answered"}
  BY RevisionAssumption DEF Revisions, Asked, ListCalls, CallStates, Outstanding
<1>5. revision \in Nat /\ mine \in Nat /\ \A n \in DOMAIN reloads : reloads[n].revision \in Nat
  <2>1. \A n \in DOMAIN reloads : reloads[n] \in ListCalls
    BY <1>2
  <2> QED
    BY <1>1, <2>1, RevisionAssumption, ConsoleTypes DEF ListCalls, Revisions
<1>6. CASE ChangeList
  <2> DEFINE x == [revision |-> 0, state |-> Asked]
  <2>1. changes' = Append(changes, x) /\ UNCHANGED <<page, accessToken, logins, chatVars, revision,
                                                     items, reloads, mine, overtaken>>
    BY <1>6 DEF ChangeList
  <2>2. x \in ListCalls /\ x.revision = 0
    BY <1>4
  <2> HIDE DEF x
  <2>3. /\ changes' \in Seq(ListCalls) /\ DOMAIN changes' = DOMAIN changes \cup {Len(changes')}
        /\ changes'[Len(changes')] = x /\ \A m \in DOMAIN changes : changes'[m] = changes[m]
    BY <1>2, <2>1, <2>2, Adding
  <2>4. ConsoleTypeOK'
    BY <1>1, <2>1, <2>3, ConsoleTypes, Calls, TypesKept DEF chatVars
  <2>5. ListInv'
    BY <1>1, <1>5, <2>1, <2>2, <2>3 DEF ListInv, Latest
  <2> QED
    BY <2>1, <2>4, <2>5, Untouched DEF ConsoleInv, chatVars
<1>7. CASE OthersChange
  <2>1. revision' = revision + 1 /\ revision' \in Revisions
          /\ UNCHANGED <<page, accessToken, logins, chatVars, listVars, overtaken>>
    BY <1>1, <1>7, ConsoleTypes, RevisionAssumption DEF OthersChange, Revisions
  <2>2. ConsoleTypeOK'
    BY <1>1, <2>1, ConsoleTypes, Calls, TypesKept DEF chatVars, listVars
  <2>3. ListInv'
    BY <1>1, <1>3, <1>5, <2>1 DEF ListInv, Latest, listVars
  <2> QED
    BY <2>1, <2>2, <2>3, Untouched DEF ConsoleInv, chatVars
<1>8. ASSUME NEW n \in DOMAIN changes, ServeChange(n) PROVE ConsoleInv'
  <2> DEFINE x == [revision |-> revision', state |-> "served"]
  <2>1. /\ revision' = revision + 1 /\ revision' \in Revisions /\ changes' = [changes EXCEPT ![n] = x]
        /\ UNCHANGED <<page, accessToken, logins, chatVars, items, reloads, mine, overtaken>>
    BY <1>1, <1>8, ConsoleTypes, RevisionAssumption DEF ServeChange, Revisions
  <2>2. x \in ListCalls /\ x.revision = revision'
    BY <2>1 DEF ListCalls, CallStates, Outstanding
  <2> HIDE DEF x
  <2>3. /\ changes' \in Seq(ListCalls) /\ DOMAIN changes' = DOMAIN changes
        /\ changes'[n] = x /\ \A m \in DOMAIN changes : m # n => changes'[m] = changes[m]
    BY <1>2, <2>1, <2>2, Replacing
  <2>4. ConsoleTypeOK'
    BY <1>1, <2>1, <2>3, ConsoleTypes, Calls, TypesKept DEF chatVars
  <2>5. \A m \in DOMAIN changes' : changes'[m].revision <= revision'
    BY <1>1, <1>3, <1>5, <2>1, <2>2, <2>3 DEF ListInv
  <2>6. ListInv'
    BY <1>1, <1>5, <2>1, <2>5 DEF ListInv, Latest
  <2> QED
    BY <2>1, <2>4, <2>6, Untouched DEF ConsoleInv, chatVars
<1>9. ASSUME NEW n \in DOMAIN changes, ChangeArrives(n) PROVE ConsoleInv'
  <2> DEFINE x == [changes[n] EXCEPT !.state = "answered"]
             y == [revision |-> 0, state |-> Asked]
  <2>1. /\ changes' = [changes EXCEPT ![n] = x] /\ reloads' = Append(reloads, y)
        /\ UNCHANGED <<page, accessToken, logins, chatVars, revision, items, overtaken>>
    BY <1>9 DEF ChangeArrives, Reload
  <2>2. x \in ListCalls /\ x.revision = changes[n].revision
    BY <1>1, Marking DEF CallStates
  <2>3. y \in ListCalls /\ y.state \notin {"served", "answered"}
    BY <1>4
  <2>4. mine' \in {mine, changes[n].revision}
    BY <1>9 DEF ChangeArrives
  <2> HIDE DEF x, y
  <2>5. /\ changes' \in Seq(ListCalls) /\ DOMAIN changes' = DOMAIN changes
        /\ changes'[n] = x /\ \A m \in DOMAIN changes : m # n => changes'[m] = changes[m]
    BY <1>2, <2>1, <2>2, Replacing
  <2>6. reloads' \in Seq(ListCalls) /\ reloads' # <<>> /\ Latest(reloads') = y
    BY <1>2, <2>1, <2>3, Adding DEF Latest
  <2>7. ConsoleTypeOK'
    BY <1>1, <1>3, <2>1, <2>4, <2>5, <2>6, ConsoleTypes, Calls, TypesKept DEF chatVars
  <2>8. mine' <= revision' /\ \A m \in DOMAIN changes' : changes'[m].revision <= revision'
    BY <1>1, <1>3, <1>5, <2>1, <2>2, <2>4, <2>5 DEF ListInv
  <2>9. ListInv'
    BY <2>3, <2>6, <2>8 DEF ListInv, Latest
  <2> QED
    BY <2>1, <2>7, <2>9, Untouched DEF ConsoleInv, chatVars
<1> QED
  BY <1>6, <1>7, <1>8, <1>9

(* The backend serves a list, or its answer arrives. *)
LEMMA LoadingKeepsConsoleInv ==
  ASSUME ConsoleInv, NEW n \in DOMAIN reloads, ServeLoad(n) \/ LoadArrives(n)
  PROVE  ConsoleInv'
<1>1. ConsoleTypeOK /\ ListInv
  BY DEF ConsoleInv
<1>2. reloads \in Seq(ListCalls) /\ Len(reloads) \in Nat /\ DOMAIN reloads = 1 .. Len(reloads)
  BY <1>1, Calls
<1>3. revision \in Revisions /\ revision \in Nat /\ mine \in Nat
  BY <1>1, ConsoleTypes
<1>4. CASE ServeLoad(n)
  <2> DEFINE x == [revision |-> revision, state |-> "served"]
  <2>1. reloads' = [reloads EXCEPT ![n] = x] /\ reloads[n].state = "asked"
          /\ UNCHANGED <<page, accessToken, logins, chatVars, revision, items, changes, mine,
                         overtaken>>
    BY <1>4 DEF ServeLoad
  <2>2. x \in ListCalls /\ x.revision = revision /\ x.state = "served"
    BY <1>3 DEF ListCalls, CallStates, Outstanding
  <2> HIDE DEF x
  <2>3. /\ reloads' \in Seq(ListCalls) /\ Len(reloads') = Len(reloads)
        /\ reloads'[n] = x /\ \A m \in DOMAIN reloads : m # n => reloads'[m] = reloads[m]
        /\ Len(reloads) \in DOMAIN reloads /\ reloads # <<>> /\ reloads' # <<>>
    BY <1>2, <2>1, <2>2, Replacing
  <2>4. ConsoleTypeOK'
    BY <1>1, <2>1, <2>3, ConsoleTypes, Calls, TypesKept DEF chatVars
  <2>5. ListInv'
    <3>1. CASE n = Len(reloads)
      BY <1>1, <1>3, <2>1, <2>2, <2>3, <3>1 DEF ListInv, Latest
    <3>2. CASE n # Len(reloads)
      BY <1>1, <2>1, <2>3, <3>2 DEF ListInv, Latest
    <3> QED
      BY <3>1, <3>2
  <2> QED
    BY <2>1, <2>4, <2>5, Untouched DEF ConsoleInv, chatVars
<1>5. CASE LoadArrives(n)
  <2> DEFINE x == [reloads[n] EXCEPT !.state = "answered"]
  <2>1. /\ reloads' = [reloads EXCEPT ![n] = x] /\ reloads[n].state = "served"
        /\ items' = reloads[n].revision
        /\ UNCHANGED <<page, accessToken, logins, chatVars, revision, changes, mine>>
    BY <1>5 DEF LoadArrives
  <2>2. /\ overtaken' \in {overtaken \cup {"reloads"}, overtaken \ {"reloads"}}
        /\ (\E m \in n + 1 .. Len(reloads) : reloads[m].state = "answered") => "reloads" \in overtaken'
    BY <1>5 DEF LoadArrives, Shows
  <2>3. x \in ListCalls /\ x.revision = reloads[n].revision /\ x.state = "answered"
    BY <1>1, Marking DEF CallStates
  <2> HIDE DEF x
  <2>4. /\ reloads' \in Seq(ListCalls) /\ Len(reloads') = Len(reloads)
        /\ reloads'[n] = x /\ \A m \in DOMAIN reloads : m # n => reloads'[m] = reloads[m]
        /\ Len(reloads) \in DOMAIN reloads /\ reloads # <<>> /\ reloads' # <<>>
    BY <1>2, <2>1, <2>3, Replacing
  <2>5. reloads[n].revision \in Revisions
    <3>1. reloads[n] \in ListCalls
      BY <1>2
    <3> QED
      BY <3>1 DEF ListCalls
  <2>6. ConsoleTypeOK'
    BY <1>1, <2>1, <2>2, <2>4, <2>5, ConsoleTypes, Calls, TypesKept DEF chatVars
  <2>7. ListInv'
    <3>1. CASE n = Len(reloads)
      BY <1>1, <2>1, <2>3, <2>4, <3>1 DEF ListInv, Latest
    <3>2. CASE n # Len(reloads)
      <4>1. Len(reloads) \in n + 1 .. Len(reloads)
        BY <1>2, <3>2
      <4>2. Latest(reloads') = Latest(reloads)
        BY <2>4, <3>2 DEF Latest
      <4> QED
        BY <1>1, <2>1, <2>2, <2>4, <4>1, <4>2 DEF ListInv, Latest
    <3> QED
      BY <3>1, <3>2
  <2>8. ChatInv' /\ DraftInv'
    BY <2>1, <2>2, Untouched DEF chatVars
  <2> QED
    BY <2>6, <2>7, <2>8 DEF ConsoleInv
<1> QED
  BY <1>4, <1>5

(* A call that fails changes nothing that is shown. *)
LEMMA FailingKeepsConsoleInv ==
  ASSUME ConsoleInv, CallFails
  PROVE  ConsoleInv'
<1>1. ConsoleTypeOK /\ ChatInv /\ ListInv /\ DraftInv
  BY DEF ConsoleInv
<1>2. UNCHANGED <<page, accessToken, logins, selected, messages, draft, overlapped, typed, revision,
                  items, mine, overtaken>>
  BY DEF CallFails
<1>3. ASSUME NEW n \in DOMAIN opens, opens' = Failed(opens, n), UNCHANGED <<sends, changes, reloads>>
      PROVE  ConsoleInv'
  <2> DEFINE x == [opens[n] EXCEPT !.state = "failed"]
  <2>1. x \in OpenCalls /\ x.state = "failed" /\ x.chat = opens[n].chat
    BY <1>1, Marking DEF CallStates
  <2>2. opens' = [opens EXCEPT ![n] = x]
    BY <1>3 DEF Failed
  <2> HIDE DEF x
  <2>3. /\ opens' \in Seq(OpenCalls) /\ Len(opens') = Len(opens) /\ opens'[n] = x
        /\ \A m \in DOMAIN opens : m # n => opens'[m] = opens[m]
        /\ Len(opens) \in DOMAIN opens /\ opens # <<>> /\ opens' # <<>>
    BY <1>1, <2>1, <2>2, Calls, Replacing
  <2>4. ConsoleTypeOK'
    BY <1>1, <1>2, <1>3, <2>3, ConsoleTypes, Calls, TypesKept
  <2>5. ChatInv'
    BY <1>1, <1>2, <2>1, <2>3 DEF ChatInv, Latest
  <2> QED
    BY <1>2, <1>3, <2>4, <2>5, Untouched DEF ConsoleInv, listVars
<1>4. ASSUME NEW n \in DOMAIN sends, sends' = Failed(sends, n), UNCHANGED <<opens, changes, reloads>>,
             Fails(sends, n)
      PROVE  ConsoleInv'
  <2> DEFINE x == [sends[n] EXCEPT !.state = "failed"]
  <2>1. x \in SendCalls /\ x.state = "failed" /\ x.text = sends[n].text
    BY <1>1, Marking DEF CallStates
  <2>2. sends' = [sends EXCEPT ![n] = x]
    BY <1>4 DEF Failed
  <2> HIDE DEF x
  <2>3. /\ sends' \in Seq(SendCalls) /\ Len(sends') = Len(sends) /\ DOMAIN sends' = DOMAIN sends
        /\ sends'[n] = x /\ \A m \in DOMAIN sends : m # n => sends'[m] = sends[m]
        /\ Len(sends) \in DOMAIN sends /\ sends # <<>>
    BY <1>1, <2>1, <2>2, Calls, Replacing
  <2>4. ConsoleTypeOK'
    BY <1>1, <1>2, <1>4, <2>3, ConsoleTypes, Calls, TypesKept
  <2>5. DraftInv'
    BY <1>1, <1>2, <1>4, <2>1, <2>3 DEF DraftInv, Latest, Fails, Outstanding
  <2> QED
    BY <1>2, <1>4, <2>4, <2>5, Untouched DEF ConsoleInv, listVars
<1>5. ASSUME NEW n \in DOMAIN changes, changes' = Failed(changes, n), UNCHANGED <<opens, sends, reloads>>
      PROVE  ConsoleInv'
  <2> DEFINE x == [changes[n] EXCEPT !.state = "failed"]
  <2>1. x \in ListCalls /\ x.revision = changes[n].revision
    BY <1>1, Marking DEF CallStates
  <2>2. changes' = [changes EXCEPT ![n] = x]
    BY <1>5 DEF Failed
  <2> HIDE DEF x
  <2>3. /\ changes' \in Seq(ListCalls) /\ DOMAIN changes' = DOMAIN changes
        /\ changes'[n] = x /\ \A m \in DOMAIN changes : m # n => changes'[m] = changes[m]
    BY <1>1, <2>1, <2>2, Calls, Replacing
  <2>4. ConsoleTypeOK'
    BY <1>1, <1>2, <1>5, <2>3, ConsoleTypes, Calls, TypesKept
  <2>5. ListInv'
    BY <1>1, <1>2, <1>5, <2>1, <2>3 DEF ListInv, Latest
  <2> QED
    BY <1>2, <1>5, <2>4, <2>5, Untouched DEF ConsoleInv
<1>6. ASSUME NEW n \in DOMAIN reloads, reloads' = Failed(reloads, n), UNCHANGED <<opens, sends, changes>>
      PROVE  ConsoleInv'
  <2> DEFINE x == [reloads[n] EXCEPT !.state = "failed"]
  <2>1. x \in ListCalls /\ x.state = "failed"
    BY <1>1, Marking DEF CallStates
  <2>2. reloads' = [reloads EXCEPT ![n] = x]
    BY <1>6 DEF Failed
  <2> HIDE DEF x
  <2>3. /\ reloads' \in Seq(ListCalls) /\ Len(reloads') = Len(reloads)
        /\ reloads'[n] = x /\ \A m \in DOMAIN reloads : m # n => reloads'[m] = reloads[m]
        /\ Len(reloads) \in DOMAIN reloads /\ reloads # <<>> /\ reloads' # <<>>
    BY <1>1, <2>1, <2>2, Calls, Replacing
  <2>4. ConsoleTypeOK'
    BY <1>1, <1>2, <1>6, <2>3, ConsoleTypes, Calls, TypesKept
  <2>5. ListInv'
    BY <1>1, <1>2, <1>6, <2>1, <2>3 DEF ListInv, Latest
  <2> QED
    BY <1>2, <1>6, <2>4, <2>5, Untouched DEF ConsoleInv
<1> QED
  BY <1>3, <1>4, <1>5, <1>6 DEF CallFails

-----------------------------------------------------------------------------
(* ConsoleInv holds in every state. *)
LEMMA Consoles == ConsoleSpec => []ConsoleInv
<1>1. ConsoleInit => ConsoleInv
  <2> SUFFICES ASSUME ConsoleInit PROVE ConsoleInv
    OBVIOUS
  <2>1. 0 \in Revisions
    BY RevisionAssumption DEF Revisions
  <2>2. ConsoleTypeOK
    <3>1. /\ opens \in Seq(OpenCalls) /\ sends \in Seq(SendCalls)
          /\ changes \in Seq(ListCalls) /\ reloads \in Seq(ListCalls)
      BY EmptySeq DEF ConsoleInit
    <3> QED
      BY <2>1, <3>1 DEF ConsoleInit, ConsoleTypeOK, OpenCalls, SendCalls, ListCalls
  <2> QED
    BY <2>2 DEF ConsoleInit, ConsoleInv, ChatInv, ListInv, DraftInv
<1>2. ConsoleInv /\ [ConsoleNext]_consoleVars => ConsoleInv'
  <2> SUFFICES ASSUME ConsoleInv, [ConsoleNext]_consoleVars PROVE ConsoleInv'
    OBVIOUS
  <2>1. CASE UNCHANGED consoleVars
    <3>1. ConsoleTypeOK
      BY DEF ConsoleInv
    <3>2. ConsoleTypeOK'
      BY <2>1, <3>1, ConsoleTypes, Calls, TypesKept DEF consoleVars, chatVars, listVars
    <3> QED
      BY <2>1, <3>2, Untouched DEF ConsoleInv, consoleVars, chatVars
  <2> QED
    BY <2>1, LoginKeepsConsoleInv, OpeningKeepsConsoleInv, SendingKeepsConsoleInv,
       ChangingKeepsConsoleInv, LoadingKeepsConsoleInv, FailingKeepsConsoleInv DEF ConsoleNext
<1> QED
  BY <1>1, <1>2, PTL DEF ConsoleSpec

(* What a page shows is right once its requests are done, however many of  *)
(* them failed, unless the last one failed or what is shown is an answer   *)
(* that came after that to a later request.                                *)
THEOREM PagesAgreeHolds == ConsoleSpec => []PagesAgree
<1>1. ConsoleInv => PagesAgree
  <2> SUFFICES ASSUME ConsoleInv PROVE ChatsAgree /\ ListAgrees
    BY DEF PagesAgree
  <2>1. ConsoleTypeOK /\ ChatInv /\ ListInv
    BY DEF ConsoleInv
  <2>2. ASSUME NEW T, NEW calls \in Seq(T), calls # <<>> PROVE Len(calls) \in DOMAIN calls
    BY <2>2
  <2>3. ChatsAgree
    <3> SUFFICES ASSUME Quiet(opens), ~LastFailed(opens) PROVE messages = selected \/ "opens" \in overtaken
      BY DEF ChatsAgree
    <3>1. CASE opens = <<>>
      BY <2>1, <3>1 DEF ChatInv
    <3>2. CASE opens # <<>>
      <4>1. Len(opens) \in DOMAIN opens /\ Latest(opens) \in OpenCalls
        BY <2>1, <2>2, <3>2, Calls DEF Latest
      <4>2. Latest(opens).state = "answered"
        BY <3>2, <4>1 DEF Quiet, Fails, LastFailed, Latest, OpenCalls, CallStates
      <4> QED
        BY <2>1, <3>2, <4>2 DEF ChatInv
    <3> QED
      BY <3>1, <3>2
  <2>4. ListAgrees
    <3> SUFFICES ASSUME Quiet(reloads), ~LastFailed(reloads)
                 PROVE  items >= mine \/ "reloads" \in overtaken
      BY DEF ListAgrees
    <3>1. CASE reloads = <<>>
      BY <2>1, <3>1, ConsoleTypes DEF ListInv
    <3>2. CASE reloads # <<>>
      <4>1. Len(reloads) \in DOMAIN reloads /\ Latest(reloads) \in ListCalls
        BY <2>1, <2>2, <3>2, Calls DEF Latest
      <4>2. Latest(reloads).state = "answered"
        BY <3>2, <4>1 DEF Quiet, Fails, LastFailed, Latest, ListCalls, CallStates
      <4> QED
        BY <2>1, <3>2, <4>2 DEF ListInv
    <3> QED
      BY <3>1, <3>2
  <2> QED
    BY <2>3, <2>4
<1> QED
  BY <1>1, Consoles, PTL

(* A message that could not be sent is still in the input, unless the user *)
(* typed something else or two messages were being sent at once.           *)
THEOREM SubmittedTextIsKeptHolds == ConsoleSpec => []SubmittedTextIsKept
<1>1. ConsoleInv => SubmittedTextIsKept
  BY DEF ConsoleInv, DraftInv, SubmittedTextIsKept, LastFailed, Latest
<1> QED
  BY <1>1, Consoles, PTL

-----------------------------------------------------------------------------
(* A behaviour of all the parts is one of each of them. *)
LEMMA DataComponents ==
  DataSpec => SessionsSpec /\ SyncSpec /\ ListingSpec /\ ImportSpec /\ ConsoleSpec
<1>1. DataInit => SessionsInit /\ SyncInit /\ ListingInit /\ ImportInit /\ ConsoleInit
  BY DEF DataInit
<1> USE DEF DataNext, dataVars
<1>2. [DataNext]_dataVars => [SessionsNext]_sessionVars
  OBVIOUS
<1>3. [DataNext]_dataVars => [SyncNext]_syncVars
  OBVIOUS
<1>4. [DataNext]_dataVars => [ListingNext]_listingVars
  OBVIOUS
<1>5. [DataNext]_dataVars => [ImportNext]_importVars
  OBVIOUS
<1>6. [DataNext]_dataVars => [ConsoleNext]_consoleVars
  OBVIOUS
<1> QED
  BY <1>1, <1>2, <1>3, <1>4, <1>5, <1>6, PTL
     DEF DataSpec, SessionsSpec, SyncSpec, ListingSpec, ImportSpec, ConsoleSpec

(* Every variable of every part keeps its type. *)
THEOREM DataTypeOKHolds == DataSpec => []DataTypeOK
<1> DEFINE PartOK == part \in Parts
<1>1. DataInit => PartOK
  BY DEF DataInit
<1>2. PartOK /\ [DataNext]_dataVars => PartOK'
  BY DEF DataNext, dataVars
<1>3. DataSpec => []PartOK
  BY <1>1, <1>2, PTL DEF DataSpec
<1>4. PartOK /\ SessionsTypeOK /\ MessageInv /\ ListingTypeOK /\ ImportInv /\ ConsoleInv => DataTypeOK
  BY DEF DataTypeOK, MessageInv, ImportInv, ConsoleInv
<1> QED
  BY <1>3, <1>4, DataComponents, SessionsTyping, Messages, ListingTyping, Imports, Consoles, PTL

(* What was proved of each part holds of all of them together, which is    *)
(* what the model checker runs.                                            *)
THEOREM StoredDataIsSafe ==
  DataSpec => /\ [](OneTokenPerLogin /\ SomebodyIsLeft /\ OutcomeIsTrue /\ WalkSeesAll
                      /\ ImportsAddUp /\ PagesAgree /\ SubmittedTextIsKept)
              /\ NewestSnapshotWins
BY DataComponents, OneTokenPerLoginHolds, SomebodyIsLeftHolds, OutcomeIsTrueHolds,
   WalkSeesAllHolds, ImportsAddUpHolds, PagesAgreeHolds, SubmittedTextIsKeptHolds,
   NewestSnapshotWinsHolds, PTL
=============================================================================
