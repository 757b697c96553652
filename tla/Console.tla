-------------------------------- MODULE Console --------------------------------
(***************************************************************************)
(* The pages of the console in the browser and their requests.  A handler  *)
(* of a page awaits its answer and then sets the state of the page,        *)
(* whatever other handlers did meanwhile: no page numbers, cancels or      *)
(* serialises its requests, and only login and registration disable their  *)
(* button.  Two pages stand for all: ChatsPage, which opens chats and      *)
(* sends messages, and a page like ProxiesPage, which changes rows of the  *)
(* backend and loads their list anew after each change.  The others only   *)
(* load a list.                                                            *)
(*                                                                         *)
(* A page that is left forgets its state, and the answers to its requests  *)
(* have no effect any more.  The list of chats is left out.                *)
(***************************************************************************)
EXTENDS Naturals, Sequences

CONSTANTS
  Chats, NoChat,
  Drafts, NoDraft,
  MaxCalls,     \* bound: the requests a page makes, the loads of lists apart
  MaxRevision   \* bound: the changes of the list in the backend

ASSUME RevisionAssumption == MaxRevision \in Nat

VARIABLES
  page,         \* the page that is mounted
  accessToken,  \* localStorage: the access token, and whether it is still good
  logins,       \* logins under way: of this page, or of one that was left
  selected,     \* ChatsPage: the chat whose name is shown,
  messages,     \* the chat whose messages are shown,
  draft,        \* and the text of the input
  opens,        \* its calls of openChat, oldest first
  sends,        \* its calls of send
  revision,     \* the backend: how often the list has changed
  items,        \* ProxiesPage: the revision it shows
  changes,      \* its calls of create, importBulk, test and remove
  reloads,      \* its calls of load
  mine,         \* history: the last revision it was told it made
  overtaken,    \* history: of which calls the answer shown came after that to a
                \* later one
  overlapped,   \* history: two messages were being sent at once
  typed         \* history: the draft was edited since the last send

chatVars == <<selected, messages, draft, opens, sends, overlapped, typed>>
listVars == <<items, changes, reloads, mine>>
consoleVars == <<page, accessToken, logins, chatVars, revision, listVars, overtaken>>

Revisions == 0 .. MaxRevision
Outstanding == {"asked", "served", "refused"}
CallStates == Outstanding \cup {"answered", "failed"}

ConsoleTypeOK ==
  /\ page \in {"login", "accounts", "chats", "proxies"}
  /\ accessToken \in {"none", "valid", "expired"}
  /\ logins \in SUBSET {"mounted", "left"}
  /\ selected \in Chats \cup {NoChat} /\ messages \in Chats \cup {NoChat}
  /\ draft \in Drafts \cup {NoDraft}
  /\ opens \in Seq([chat : Chats, state : CallStates])
  /\ sends \in Seq([text : Drafts, state : CallStates])
  /\ revision \in Revisions /\ items \in Revisions /\ mine \in Revisions
  /\ \A calls \in {changes, reloads} : calls \in Seq([revision : Revisions, state : CallStates])
  /\ overtaken \in SUBSET {"opens", "reloads"}
  /\ overlapped \in BOOLEAN /\ typed \in BOOLEAN

-----------------------------------------------------------------------------
(* createApiClient: a request carries the access token of the moment; the  *)
(* backend refuses one without a token, or with one that has expired.  The *)
(* refresh token is stored and never used.                                 *)
Asked == IF accessToken = "valid" THEN "asked" ELSE "refused"

(* The initial state of the components; ProxiesPage and AccountsPage begin *)
(* with a load.                                                            *)
Mount(p) ==
  /\ page' = p
  /\ selected' = NoChat /\ messages' = NoChat /\ draft' = NoDraft
  /\ opens' = <<>> /\ sends' = <<>>
  /\ items' = 0 /\ changes' = <<>>
  /\ reloads' = IF p \in {"accounts", "proxies"}
                THEN <<[revision |-> 0, state |-> Asked]>> ELSE <<>>
  /\ mine' = 0
  /\ overtaken' = {} /\ overlapped' = FALSE /\ typed' = FALSE

ConsoleInit ==
  /\ page = "login" /\ accessToken = "none" /\ logins = {}
  /\ selected = NoChat /\ messages = NoChat /\ draft = NoDraft
  /\ opens = <<>> /\ sends = <<>>
  /\ revision = 0
  /\ items = 0 /\ changes = <<>> /\ reloads = <<>>
  /\ mine = 0
  /\ overtaken = {} /\ overlapped = FALSE /\ typed = FALSE

Visit(p) ==
  /\ p # page
  /\ Mount(p)
  /\ logins' = IF logins = {} THEN {} ELSE {"left"}
  /\ UNCHANGED <<accessToken, revision>>

(* submit() of LoginPage and RegisterPage. *)
SubmitLogin ==
  /\ page = "login"
  /\ "mounted" \notin logins
  /\ logins' = logins \cup {"mounted"}
  /\ UNCHANGED <<page, accessToken, chatVars, revision, listVars, overtaken>>

(* Both tokens are stored and the router goes to the accounts, also when   *)
(* the page of the login was left meanwhile.                               *)
LoginArrives(l) ==
  /\ l \in logins
  /\ accessToken' = "valid"
  /\ Mount("accounts")
  /\ logins' = IF logins = {l} THEN {} ELSE {"left"}
  /\ UNCHANGED revision

LoginFails(l) ==
  /\ l \in logins
  /\ logins' = logins \ {l}
  /\ UNCHANGED <<page, accessToken, chatVars, revision, listVars, overtaken>>

TokenExpires ==
  /\ accessToken = "valid"
  /\ accessToken' = "expired"
  /\ UNCHANGED <<page, logins, chatVars, revision, listVars, overtaken>>

-----------------------------------------------------------------------------
MayCall(p) == page = p /\ Len(opens) + Len(sends) + Len(changes) < MaxCalls

(* openChat up to its await. *)
OpenChat(c) ==
  /\ MayCall("chats")
  /\ selected' = c
  /\ opens' = Append(opens, [chat |-> c, state |-> Asked])
  /\ UNCHANGED <<page, accessToken, logins, messages, draft, sends, overlapped, typed, revision,
                 listVars, overtaken>>

(* The answer to calls[n], which is shown from now on. *)
Shows(kind, calls, n) ==
  overtaken' = IF \E m \in n + 1 .. Len(calls) : calls[m].state = "answered"
               THEN overtaken \cup {kind} ELSE overtaken \ {kind}

(* setMessages(result.items) *)
OpenArrives(n) ==
  /\ opens[n].state = "asked"
  /\ opens' = [opens EXCEPT ![n].state = "answered"]
  /\ messages' = opens[n].chat
  /\ Shows("opens", opens, n)
  /\ UNCHANGED <<page, accessToken, logins, selected, draft, sends, overlapped, typed, revision,
                 listVars>>

(* The input is there while a chat is selected. *)
TypeDraft(d) ==
  /\ page = "chats"
  /\ selected # NoChat
  /\ draft' = d
  /\ typed' = TRUE
  /\ UNCHANGED <<page, accessToken, logins, selected, messages, opens, sends, overlapped, revision,
                 listVars, overtaken>>

(* Mutant of Send: the input is emptied before the answer. *)
SendAndForget ==
  /\ MayCall("chats")
  /\ selected # NoChat /\ draft # NoDraft
  /\ sends' = Append(sends, [text |-> draft, state |-> Asked])
  /\ draft' = NoDraft
  /\ overlapped' = (overlapped \/ \E n \in DOMAIN sends : sends[n].state \in Outstanding)
  /\ typed' = FALSE
  /\ UNCHANGED <<page, accessToken, logins, selected, messages, opens, revision, listVars,
                 overtaken>>

(* send() up to its await. *)
Send ==
  /\ MayCall("chats")
  /\ selected # NoChat /\ draft # NoDraft
  /\ sends' = Append(sends, [text |-> draft, state |-> Asked])
  /\ overlapped' = (overlapped \/ \E n \in DOMAIN sends : sends[n].state \in Outstanding)
  /\ typed' = FALSE
  /\ UNCHANGED <<page, accessToken, logins, selected, messages, draft, opens, revision, listVars,
                 overtaken>>

(* setDraft(""), whatever the draft is by now. *)
SendArrives(n) ==
  /\ sends[n].state = "asked"
  /\ sends' = [sends EXCEPT ![n].state = "answered"]
  /\ draft' = NoDraft
  /\ UNCHANGED <<page, accessToken, logins, selected, messages, opens, overlapped, typed, revision,
                 listVars, overtaken>>

-----------------------------------------------------------------------------
(* create, importBulk, test or remove up to the await of the request. *)
ChangeList ==
  /\ MayCall("proxies")
  /\ changes' = Append(changes, [revision |-> 0, state |-> Asked])
  /\ UNCHANGED <<page, accessToken, logins, chatVars, revision, items, reloads, mine, overtaken>>

(* The backend carries it out, *)
ServeChange(n) ==
  /\ changes[n].state = "asked"
  /\ revision < MaxRevision
  /\ revision' = revision + 1
  /\ changes' = [changes EXCEPT ![n] = [revision |-> revision', state |-> "served"]]
  /\ UNCHANGED <<page, accessToken, logins, chatVars, items, reloads, mine, overtaken>>

(* Mutant of Reload: the list is not loaded anew. *)
KeepList == UNCHANGED reloads

Reload == reloads' = Append(reloads, [revision |-> 0, state |-> Asked])

(* and the answer is followed by await load(). *)
ChangeArrives(n) ==
  /\ changes[n].state = "served"
  /\ changes' = [changes EXCEPT ![n].state = "answered"]
  /\ mine' = IF changes[n].revision > mine THEN changes[n].revision ELSE mine
  /\ Reload
  /\ UNCHANGED <<page, accessToken, logins, chatVars, revision, items, overtaken>>

ServeLoad(n) ==
  /\ reloads[n].state = "asked"
  /\ reloads' = [reloads EXCEPT ![n] = [revision |-> revision, state |-> "served"]]
  /\ UNCHANGED <<page, accessToken, logins, chatVars, revision, items, changes, mine, overtaken>>

(* setItems(result.items) *)
LoadArrives(n) ==
  /\ reloads[n].state = "served"
  /\ reloads' = [reloads EXCEPT ![n].state = "answered"]
  /\ items' = reloads[n].revision
  /\ Shows("reloads", reloads, n)
  /\ UNCHANGED <<page, accessToken, logins, chatVars, revision, changes, mine>>

(* Somebody else changes the list. *)
OthersChange ==
  /\ revision < MaxRevision
  /\ revision' = revision + 1
  /\ UNCHANGED <<page, accessToken, logins, chatVars, listVars, overtaken>>

(* A request is refused or lost: the catch of every handler only sets the  *)
(* status line.                                                            *)
Fails(calls, n) == calls[n].state \in Outstanding
Failed(calls, n) == [calls EXCEPT ![n].state = "failed"]

CallFails ==
  /\ \/ \E n \in DOMAIN opens : Fails(opens, n) /\ opens' = Failed(opens, n)
                                                /\ UNCHANGED <<sends, changes, reloads>>
     \/ \E n \in DOMAIN sends : Fails(sends, n) /\ sends' = Failed(sends, n)
                                                /\ UNCHANGED <<opens, changes, reloads>>
     \/ \E n \in DOMAIN changes : Fails(changes, n) /\ changes' = Failed(changes, n)
                                                    /\ UNCHANGED <<opens, sends, reloads>>
     \/ \E n \in DOMAIN reloads : Fails(reloads, n) /\ reloads' = Failed(reloads, n)
                                                    /\ UNCHANGED <<opens, sends, changes>>
  /\ UNCHANGED <<page, accessToken, logins, selected, messages, draft, overlapped, typed, revision,
                 items, mine, overtaken>>

ConsoleNext ==
  \/ \E p \in {"login", "accounts", "chats", "proxies"} : Visit(p)
  \/ SubmitLogin \/ TokenExpires
  \/ \E l \in logins : LoginArrives(l) \/ LoginFails(l)
  \/ \E c \in Chats : OpenChat(c)
  \/ \E d \in Drafts : TypeDraft(d)
  \/ \E n \in DOMAIN opens : OpenArrives(n)
  \/ \E n \in DOMAIN sends : SendArrives(n)
  \/ Send \/ ChangeList \/ OthersChange
  \/ \E n \in DOMAIN changes : ServeChange(n) \/ ChangeArrives(n)
  \/ \E n \in DOMAIN reloads : ServeLoad(n) \/ LoadArrives(n)
  \/ CallFails

ConsoleSpec == ConsoleInit /\ [][ConsoleNext]_consoleVars

-----------------------------------------------------------------------------
Quiet(calls) == \A n \in DOMAIN calls : ~Fails(calls, n)
LastFailed(calls) == calls # <<>> /\ calls[Len(calls)].state = "failed"

(* When nothing is under way, the messages shown are those of the chat     *)
(* whose name is shown.                                                    *)
ChatsAgree ==
  Quiet(opens) => messages = selected \/ "opens" \in overtaken \/ LastFailed(opens)

(* When nothing is under way, the list shows what the user has changed.    *)
ListAgrees ==
  Quiet(reloads) => items >= mine \/ "reloads" \in overtaken \/ LastFailed(reloads)

(* What a page shows is right in the end, however its requests interleave, *)
(* fail, or are made while the token expires.  A load that failed, or that *)
(* was answered out of turn, is made good by the next one that arrives; so *)
(* a page shows the messages of one chat under the name of another, or a   *)
(* list without a change that was confirmed, only if its last request      *)
(* failed or what it shows is an answer that came after that to a later    *)
(* request.                                                                *)
PagesAgree == ChatsAgree /\ ListAgrees

(* A message that could not be sent is still in the input, to be sent      *)
(* again, unless the user has typed something else since, or two messages  *)
(* were being sent at once: then the answer to one empties the input of    *)
(* the other.                                                              *)
SubmittedTextIsKept ==
  LastFailed(sends) => draft = sends[Len(sends)].text \/ typed \/ overlapped
=============================================================================
