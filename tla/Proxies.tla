-------------------------------- MODULE Proxies --------------------------------
(***************************************************************************)
(* The proxy manager: proxies are created, imported, disabled, deleted and *)
(* tested, one by one or all in turn.  A test reads the rows first, waits  *)
(* for the network, and writes each result by the id it has read.          *)
(*                                                                         *)
(* NetworkProxyChecker is modelled by the events of its socket: the other  *)
(* end answers, rejects the credentials, refuses the connection, stays     *)
(* silent, or accepts the connection and closes it without a word.  HTTPS  *)
(* is checked like HTTP.  An id is never used again, but the address of a  *)
(* row that was deleted may come back under a new one.  PATCH, which       *)
(* leaves the status alone, and the assignment to accounts are left out.   *)
(***************************************************************************)
EXTENDS FiniteSets

CONSTANTS
  ProxyIds,   \* bound: the rows ever created
  Addresses,  \* hosts with a port
  Tests,      \* bound: the test requests in progress at the same time
  NoProxy

ASSUME NoProxyAssumption == NoProxy \notin ProxyIds

Protocols == {"HTTP", "SOCKS5"}
Peers == {"answers", "rejects", "refuses", "silent", "hangsUp"}
Verdicts == {"ONLINE", "AUTHENTICATION_ERROR", "TIMEOUT", "OFFLINE"}

VARIABLES
  proxyStatus,  \* the status column, "ABSENT" and "DELETED" without a row
  protocol,     \* the protocol column
  address,      \* the columns host and port, NoProxy before there is a row
  lines,        \* an import: the proxies of the lines not yet read
  remaining,    \* the proxies a test has read and not yet checked
  testing,      \* the one it checks now
  peer,         \* how the other end behaves in this check
  socket,       \* the socket of this check
  verdict       \* the outcome of this check

proxyRows == <<proxyStatus, protocol, address>>
check == <<testing, peer, socket, verdict>>
proxyVars == <<proxyRows, lines, remaining, check>>

ProxiesTypeOK ==
  /\ proxyStatus \in [ProxyIds -> Verdicts \cup {"ABSENT", "UNKNOWN", "DISABLED", "DELETED"}]
  /\ protocol \in [ProxyIds -> Protocols]
  /\ address \in [ProxyIds -> Addresses \cup {NoProxy}]
  /\ lines \in SUBSET (Addresses \X Protocols)
  /\ remaining \in [Tests -> SUBSET ProxyIds]
  /\ testing \in [Tests -> ProxyIds \cup {NoProxy}]
  /\ peer \in [Tests -> Peers \cup {"none"}]
  /\ socket \in [Tests -> {"none", "connecting", "open", "closed"}]
  /\ verdict \in [Tests -> Verdicts \cup {"none"}]

ProxiesInit ==
  /\ proxyStatus = [p \in ProxyIds |-> "ABSENT"]
  /\ protocol = [p \in ProxyIds |-> "HTTP"]
  /\ address = [p \in ProxyIds |-> NoProxy]
  /\ lines = {}
  /\ remaining = [t \in Tests |-> {}]
  /\ testing = [t \in Tests |-> NoProxy]
  /\ peer = [t \in Tests |-> "none"]
  /\ socket = [t \in Tests |-> "none"]
  /\ verdict = [t \in Tests |-> "none"]

Stored == {p \in ProxyIds : proxyStatus[p] \notin {"ABSENT", "DELETED"}}

-----------------------------------------------------------------------------
(* @@unique([host, port, protocol]) *)
Taken(a, k) == \E p \in Stored : address[p] = a /\ protocol[p] = k

InsertProxy(p, a, k) ==
  /\ proxyStatus[p] = "ABSENT"
  /\ ~Taken(a, k)
  /\ address' = [address EXCEPT ![p] = a]
  /\ proxyStatus' = [proxyStatus EXCEPT ![p] = "UNKNOWN"]
  /\ protocol' = [protocol EXCEPT ![p] = k]

(* POST /api/proxies; one that is taken is refused. *)
CreateProxy(p, a, k) ==
  /\ InsertProxy(p, a, k)
  /\ UNCHANGED <<lines, remaining, check>>

(* What parseProxyLine makes of the lines of a text, which has one         *)
(* protocol: the proxies of those it can read.  The others are only        *)
(* counted.                                                                *)
Texts == {as \X {k} : as \in SUBSET Addresses \ {{}}, k \in Protocols}

(* POST /api/proxies/import *)
ImportProxies(text) ==
  /\ lines = {}
  /\ lines' = text
  /\ UNCHANGED <<proxyRows, remaining, check>>

(* One line after the other is stored, as a new row.  The unique index     *)
(* refuses one that is taken with an error that is not the PROXY_EXISTS    *)
(* the loop looks for: the import ends there, and keeps what it has        *)
(* stored.                                                                 *)
ImportLine(a, k) ==
  /\ <<a, k>> \in lines
  /\ \/ (\E p \in ProxyIds : InsertProxy(p, a, k)) /\ lines' = lines \ {<<a, k>>}
     \/ Taken(a, k) /\ lines' = {} /\ UNCHANGED proxyRows
  /\ UNCHANGED <<remaining, check>>

Disable(p) ==
  /\ p \in Stored
  /\ proxyStatus' = [proxyStatus EXCEPT ![p] = "DISABLED"]
  /\ UNCHANGED <<protocol, address, lines, remaining, check>>

DeleteProxy(p) ==
  /\ p \in Stored
  /\ proxyStatus' = [proxyStatus EXCEPT ![p] = "DELETED"]
  /\ UNCHANGED <<protocol, address, lines, remaining, check>>

-----------------------------------------------------------------------------
Idle(t) == remaining[t] = {} /\ testing[t] = NoProxy

(* POST /api/proxies/{id}/test and /api/proxies/test-all read the rows. *)
Test(t) ==
  /\ Idle(t)
  /\ Stored # {}
  /\ \E ps \in {{p} : p \in Stored} \cup {Stored} : remaining' = [remaining EXCEPT ![t] = ps]
  /\ UNCHANGED <<proxyRows, lines, check>>

(* check() of the next proxy: the socket starts to connect, with a timer. *)
StartCheck(t, p) ==
  /\ testing[t] = NoProxy
  /\ p \in remaining[t]
  /\ testing' = [testing EXCEPT ![t] = p]
  /\ remaining' = [remaining EXCEPT ![t] = @ \ {p}]
  /\ \E k \in Peers : peer' = [peer EXCEPT ![t] = k]
  /\ socket' = [socket EXCEPT ![t] = "connecting"]
  /\ UNCHANGED <<proxyRows, lines, verdict>>

Connect(t) ==
  /\ socket[t] = "connecting"
  /\ peer[t] # "refuses"
  /\ socket' = [socket EXCEPT ![t] = "open"]
  /\ UNCHANGED <<proxyRows, lines, remaining, testing, peer, verdict>>

(* The check settles; with its socket goes its timer. *)
Settles(t, v) ==
  /\ socket' = [socket EXCEPT ![t] = "closed"]
  /\ verdict' = [verdict EXCEPT ![t] = v]
  /\ UNCHANGED <<proxyRows, lines, remaining, testing, peer>>

(* The status for the code an error carries; NoCode stands for none.       *)
StatusOf(code) ==
  CASE code = "proxy_auth" -> "AUTHENTICATION_ERROR"
    [] code \in {"ETIMEDOUT", "timeout"} -> "TIMEOUT"
    [] OTHER -> "OFFLINE"

(* The first byte of the answer, or status 407.  The error of checkHttp    *)
(* has a code, that of checkSocks5 only a message.                         *)
Reply(t) ==
  /\ socket[t] = "open"
  /\ \/ peer[t] = "answers" /\ Settles(t, "ONLINE")
     \/ /\ peer[t] = "rejects"
        /\ Settles(t, StatusOf(IF protocol[testing[t]] = "HTTP" THEN "proxy_auth" ELSE "NoCode"))

(* The network reports an error, which has a code of its own. *)
NetworkError(t) ==
  /\ socket[t] = "connecting"
  /\ peer[t] = "refuses"
  /\ Settles(t, StatusOf("ECONNREFUSED"))

(* The other end closes the connection.  To a request of http that is an   *)
(* error; a plain socket only emits end and close, and checkSocks5 listens *)
(* to neither, so its promise stays unsettled.                             *)
HangsUp(t) ==
  /\ socket[t] = "open"
  /\ peer[t] = "hangsUp"
  /\ IF protocol[testing[t]] = "HTTP"
     THEN Settles(t, StatusOf("ECONNRESET"))
     ELSE /\ socket' = [socket EXCEPT ![t] = "closed"]
          /\ UNCHANGED <<proxyRows, lines, remaining, testing, peer, verdict>>

(* Mutant of TimerRuns: only an open socket is timed. *)
TimerRunsWhenOpen(t) == socket[t] = "open"

TimerRuns(t) == socket[t] \in {"connecting", "open"}

(* Nothing happened for timeoutMs: the socket is destroyed with            *)
(* new Error("timeout"), which has a message and no code.                  *)
TimesOut(t) ==
  /\ TimerRuns(t)
  /\ peer[t] = "silent"
  /\ Settles(t, StatusOf("NoCode"))

(* updateProxy with the result.  The row may be gone, which ends the whole *)
(* request with the proxies that were still to be checked.                 *)
Record(t) ==
  /\ verdict[t] # "none"
  /\ IF testing[t] \in Stored
     THEN /\ proxyStatus' = [proxyStatus EXCEPT ![testing[t]] = verdict[t]]
          /\ UNCHANGED remaining
     ELSE /\ remaining' = [remaining EXCEPT ![t] = {}]
          /\ UNCHANGED proxyStatus
  /\ testing' = [testing EXCEPT ![t] = NoProxy]
  /\ peer' = [peer EXCEPT ![t] = "none"]
  /\ socket' = [socket EXCEPT ![t] = "none"]
  /\ verdict' = [verdict EXCEPT ![t] = "none"]
  /\ UNCHANGED <<protocol, address, lines>>

SocketEvent(t) == Reply(t) \/ NetworkError(t) \/ HangsUp(t) \/ TimesOut(t)

ProxiesNext ==
  \/ \E a \in Addresses, k \in Protocols :
       ImportLine(a, k) \/ \E p \in ProxyIds : CreateProxy(p, a, k)
  \/ \E p \in ProxyIds : Disable(p) \/ DeleteProxy(p)
  \/ \E text \in Texts : ImportProxies(text)
  \/ \E t \in Tests :
       \/ Test(t) \/ Connect(t) \/ SocketEvent(t) \/ Record(t)
       \/ \E p \in ProxyIds : StartCheck(t, p)

(* The event loop runs the continuations, a peer does sooner or later what *)
(* it is going to do, and the timer ends the wait for one that does        *)
(* nothing.                                                                *)
ProxiesFairness ==
  \A t \in Tests :
    /\ WF_proxyVars(\E p \in ProxyIds : StartCheck(t, p))
    /\ WF_proxyVars(peer[t] # "silent" /\ Connect(t))
    /\ WF_proxyVars(SocketEvent(t))
    /\ WF_proxyVars(Record(t))

ProxiesSpec == ProxiesInit /\ [][ProxiesNext]_proxyVars
ProxiesFairSpec == ProxiesSpec /\ ProxiesFairness

-----------------------------------------------------------------------------
(* checkSocks5 waits for a connection that is no more. *)
Forsaken(t) == socket[t] = "closed" /\ verdict[t] = "none"

(* A test, also of all proxies, ends whatever is disabled or deleted while *)
(* it runs and whatever the other ends do, unless one of them closes a     *)
(* SOCKS5 connection without a word.                                       *)
TestsEnd == \A t \in Tests : ~Idle(t) ~> (Idle(t) \/ Forsaken(t))

Promised ==
  [answers |-> "ONLINE", rejects |-> "AUTHENTICATION_ERROR", refuses |-> "OFFLINE",
   silent |-> "TIMEOUT", hangsUp |-> "OFFLINE"]

(* "The production checker has bounded timeouts and classifies online,     *)
(* offline, timeout, and authentication failures" (docs/development.md).   *)
ChecksAreClassified ==
  \A t \in Tests, k \in Peers :
    (socket[t] = "connecting" /\ peer[t] = k) ~> verdict[t] = Promised[k]
=============================================================================
