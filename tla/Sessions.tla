------------------------------- MODULE Sessions -------------------------------
(***************************************************************************)
(* The users of the backend and their sessions: registration, login, the   *)
(* rotation of refresh tokens, logout, and the creation and deletion of    *)
(* users by other users.                                                   *)
(*                                                                         *)
(* Every await of a handler is a step, so the requests interleave between  *)
(* their reads and writes of PostgreSQL.  A session row is named by its    *)
(* refresh token, and tokens and users are numbered as they are created.   *)
(* An access token is held by every user that was given a session, until   *)
(* he stops using it; it is checked against invalidatedUsers, a set in     *)
(* memory that a restart empties.  Passwords, their reset and the roles    *)
(* are left out: who may log in or manage users is the environment's       *)
(* choice.                                                                 *)
(***************************************************************************)
EXTENDS Naturals

CONSTANTS
  Users,          \* bound: the users ever created
  RefreshTokens,  \* bound: the refresh tokens ever issued
  Requests,       \* bound: the requests in progress at the same time
  NoUser,
  NoSession

ASSUME UsersAssumption == Users \subseteq Nat /\ NoUser \notin Users
ASSUME TokensAssumption == RefreshTokens \subseteq Nat /\ NoSession \notin RefreshTokens

VARIABLES
  users,              \* rows of User
  invalidatedUsers,   \* in memory: the users that logged out
  session,            \* the row of UserSession of each refresh token
  holder,             \* its user
  phase,              \* where the handler of each request is
  caller,             \* the user it acts for
  presented,          \* the refresh token it was called with
  target,             \* the user it is to delete
  born,               \* history: the users that have existed
  login,              \* history: the token of the login each token goes back to
  forked,             \* history: the logins with two rotations of a token at once
  crossed             \* history: two deletions of users were in progress at once

rows == <<users, session, holder>>
requests == <<phase, caller, presented, target>>
histories == <<born, login, forked, crossed>>
sessionVars == <<rows, invalidatedUsers, requests, histories>>

Phases == {"idle", "counted", "identified", "verified", "found", "spent", "known",
           "leaving", "left", "deleting"}

SessionsTypeOK ==
  /\ users \in SUBSET Users
  /\ invalidatedUsers \in SUBSET Users
  /\ session \in [RefreshTokens -> {"unused", "live", "ended", "deleted"}]
  /\ holder \in [RefreshTokens -> Users \cup {NoUser}]
  /\ phase \in [Requests -> Phases]
  /\ caller \in [Requests -> Users \cup {NoUser}]
  /\ presented \in [Requests -> RefreshTokens \cup {NoSession}]
  /\ target \in [Requests -> Users \cup {NoUser}]
  /\ born \in SUBSET Users
  /\ login \in [RefreshTokens -> RefreshTokens \cup {NoSession}]
  /\ forked \in SUBSET RefreshTokens
  /\ crossed \in BOOLEAN

SessionsInit ==
  /\ users = {}
  /\ invalidatedUsers = {}
  /\ session = [t \in RefreshTokens |-> "unused"]
  /\ holder = [t \in RefreshTokens |-> NoUser]
  /\ phase = [r \in Requests |-> "idle"]
  /\ caller = [r \in Requests |-> NoUser]
  /\ presented = [r \in Requests |-> NoSession]
  /\ target = [r \in Requests |-> NoUser]
  /\ born = {}
  /\ login = [t \in RefreshTokens |-> NoSession]
  /\ forked = {}
  /\ crossed = FALSE

(* Request r begins in phase p on behalf of user u. *)
Begin(r, p, u) ==
  /\ phase[r] = "idle"
  /\ phase' = [phase EXCEPT ![r] = p]
  /\ caller' = [caller EXCEPT ![r] = u]

Advance(r, from, to) ==
  /\ phase[r] = from
  /\ phase' = [phase EXCEPT ![r] = to]
  /\ UNCHANGED <<caller, presented, target>>

(* Request r is answered, with success or not. *)
Answered(r) ==
  /\ phase' = [phase EXCEPT ![r] = "idle"]
  /\ caller' = [caller EXCEPT ![r] = NoUser]
  /\ presented' = [presented EXCEPT ![r] = NoSession]
  /\ target' = [target EXCEPT ![r] = NoUser]

(* authenticateAccess: the user was given a token, has not logged out of    *)
(* this process and still exists.                                          *)
Authenticated(u) ==
  /\ \E t \in RefreshTokens : holder[t] = u
  /\ u \notin invalidatedUsers
  /\ u \in users

Insert(u) ==
  /\ u \in Users \ born
  /\ \A v \in Users \ born : u <= v
  /\ users' = users \cup {u}
  /\ born' = born \cup {u}

-----------------------------------------------------------------------------
(* POST /api/auth/register: only while there is no user. *)
Register(r) ==
  /\ users = {}
  /\ Begin(r, "counted", NoUser)
  /\ UNCHANGED <<rows, invalidatedUsers, presented, target, histories>>

(* createUser: the address may be taken by now, which ends the request. *)
CreateOwner(r, u) ==
  /\ phase[r] = "counted"
  /\ \/ /\ Insert(u)
        /\ phase' = [phase EXCEPT ![r] = "verified"]
        /\ caller' = [caller EXCEPT ![r] = u]
        /\ UNCHANGED <<presented, target>>
     \/ users # {} /\ Answered(r) /\ UNCHANGED <<users, born>>
  /\ UNCHANGED <<session, holder, invalidatedUsers, login, forked, crossed>>

(* POST /api/auth/login: the user is found by its address. *)
Login(r, u) ==
  /\ u \in users
  /\ Begin(r, "identified", u)
  /\ UNCHANGED <<rows, invalidatedUsers, presented, target, histories>>

(* The password matches: tokens() first clears the mark of the logout. *)
Verify(r) ==
  /\ Advance(r, "identified", "verified")
  /\ invalidatedUsers' = invalidatedUsers \ {caller[r]}
  /\ UNCHANGED <<rows, histories>>

WrongPassword(r) ==
  /\ phase[r] = "identified"
  /\ Answered(r)
  /\ UNCHANGED <<rows, invalidatedUsers, histories>>

(* createSession, then the response with both tokens.  The row of a user   *)
(* that is gone is refused by its foreign key.                             *)
StoreSession(r, t) ==
  /\ phase[r] \in {"verified", "known"}
  /\ session[t] = "unused"
  /\ \A s \in RefreshTokens : session[s] = "unused" => t <= s
  /\ Answered(r)
  /\ IF caller[r] \in users
     THEN /\ session' = [session EXCEPT ![t] = "live"]
          /\ holder' = [holder EXCEPT ![t] = caller[r]]
          /\ login' = [login EXCEPT ![t] = IF phase[r] = "known" THEN login[presented[r]] ELSE t]
     ELSE UNCHANGED <<session, holder, login>>
  /\ UNCHANGED <<users, invalidatedUsers, born, forked, crossed>>

-----------------------------------------------------------------------------
(* Mutant of Redeemable: revokedAt is not looked at. *)
RedeemableForever(t) == session[t] \in {"live", "ended"}

(* The session is stored, neither revoked nor expired. *)
Redeemable(t) == session[t] = "live"

(* rotateRefresh, first await: findSession. *)
Refresh(r, t) ==
  /\ Redeemable(t)
  /\ Begin(r, "found", holder[t])
  /\ presented' = [presented EXCEPT ![r] = t]
  /\ forked' = IF \E q \in Requests : phase[q] = "found" /\ presented[q] = t
               THEN forked \cup {login[t]} ELSE forked
  /\ UNCHANGED <<rows, invalidatedUsers, target, born, login, crossed>>

(* revokeSession; the update of a row that is gone is rejected. *)
Spend(r) ==
  /\ phase[r] = "found"
  /\ IF session[presented[r]] = "deleted"
     THEN Answered(r) /\ UNCHANGED session
     ELSE /\ Advance(r, "found", "spent")
          /\ session' = [session EXCEPT ![presented[r]] = "ended"]
  /\ UNCHANGED <<users, holder, invalidatedUsers, histories>>

(* findUserById; without a user there is no new session. *)
FindUser(r) ==
  /\ phase[r] = "spent"
  /\ IF caller[r] \in users THEN Advance(r, "spent", "known") ELSE Answered(r)
  /\ UNCHANGED <<rows, invalidatedUsers, histories>>

-----------------------------------------------------------------------------
(* POST /api/auth/logout *)
Logout(r, u) ==
  /\ Authenticated(u)
  /\ Begin(r, "leaving", u)
  /\ UNCHANGED <<rows, invalidatedUsers, presented, target, histories>>

(* revokeSessionsForUser: one updateMany. *)
RevokeAll(r) ==
  /\ Advance(r, "leaving", "left")
  /\ session' = [t \in RefreshTokens |-> IF holder[t] = caller[r] /\ session[t] = "live"
                                  THEN "ended" ELSE session[t]]
  /\ UNCHANGED <<users, holder, invalidatedUsers, histories>>

Invalidate(r) ==
  /\ phase[r] = "left"
  /\ invalidatedUsers' = invalidatedUsers \cup {caller[r]}
  /\ Answered(r)
  /\ UNCHANGED <<rows, histories>>

-----------------------------------------------------------------------------
(* POST /api/users *)
CreateUser(a, u) ==
  /\ Authenticated(a)
  /\ Insert(u)
  /\ UNCHANGED <<session, holder, invalidatedUsers, requests, login, forked, crossed>>

(* Mutant of MayDelete: nobody is kept from deleting himself. *)
MayDeleteAnybody(a, u) == Authenticated(a) /\ u \in users

MayDelete(a, u) == Authenticated(a) /\ u \in users /\ u # a

(* DELETE /api/users/{id}: both users are looked up. *)
Delete(r, a, u) ==
  /\ MayDelete(a, u)
  /\ Begin(r, "deleting", a)
  /\ target' = [target EXCEPT ![r] = u]
  /\ crossed' = (crossed \/ \E q \in Requests : phase[q] = "deleting")
  /\ UNCHANGED <<rows, invalidatedUsers, presented, born, login, forked>>

(* deleteUser: the sessions go with the row.  Deleting one that is gone is *)
(* rejected and changes nothing.                                           *)
DeleteRow(r) ==
  /\ phase[r] = "deleting"
  /\ users' = users \ {target[r]}
  /\ session' = [t \in RefreshTokens |-> IF holder[t] = target[r] THEN "deleted" ELSE session[t]]
  /\ Answered(r)
  /\ UNCHANGED <<holder, invalidatedUsers, histories>>

-----------------------------------------------------------------------------
(* A session reaches the end of its time. *)
SessionExpires(t) ==
  /\ session[t] = "live"
  /\ session' = [session EXCEPT ![t] = "ended"]
  /\ UNCHANGED <<users, holder, invalidatedUsers, requests, histories>>

(* The process ends and starts anew: the requests in progress stop where   *)
(* they are, and nobody is remembered as logged out.                       *)
Restart ==
  /\ invalidatedUsers' = {}
  /\ phase' = [r \in Requests |-> "idle"]
  /\ caller' = [r \in Requests |-> NoUser]
  /\ presented' = [r \in Requests |-> NoSession]
  /\ target' = [r \in Requests |-> NoUser]
  /\ UNCHANGED <<rows, histories>>

SessionsNext ==
  \/ \E r \in Requests :
       \/ Register(r) \/ Verify(r) \/ WrongPassword(r) \/ Spend(r) \/ FindUser(r)
       \/ RevokeAll(r) \/ Invalidate(r) \/ DeleteRow(r)
       \/ \E u \in Users : \/ CreateOwner(r, u) \/ Login(r, u) \/ Logout(r, u)
                           \/ \E a \in Users : Delete(r, a, u)
       \/ \E t \in RefreshTokens : StoreSession(r, t) \/ Refresh(r, t)
  \/ \E a, u \in Users : CreateUser(a, u)
  \/ \E t \in RefreshTokens : SessionExpires(t)
  \/ Restart

SessionsSpec == SessionsInit /\ [][SessionsNext]_sessionVars

-----------------------------------------------------------------------------
(* A login has one refresh token that works: rotation spends the old one   *)
(* before it issues the next, whatever logs out, expires, is deleted or    *)
(* crashes in between.  Only two rotations that both read the token before *)
(* either revoked it (security.ts does not lock the row) may fork a login. *)
OneTokenPerLogin ==
  \A s, t \in RefreshTokens :
    session[s] = "live" /\ session[t] = "live" /\ login[s] = login[t] =>
      s = t \/ login[t] \in forked

(* Users can only be deleted by each other, so once somebody registered    *)
(* there is always somebody left, and registration, which makes whoever    *)
(* comes first the owner, stays closed; except that two users who delete   *)
(* each other at the same time both succeed.                               *)
SomebodyIsLeft == born # {} => users # {} \/ crossed
=============================================================================
