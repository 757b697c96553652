------------------------- MODULE BackendServicesProofs -------------------------
(***************************************************************************)
(* Theorems about the process of the backend and its proxy manager, for    *)
(* any connections, signals, proxies and tests.                            *)
(***************************************************************************)
EXTENDS BackendServices, TLAPS

(* A check has an outcome only while its request is probing, and during    *)
(* the request whatever is up, or answered, has been seen to be up.        *)
ProbeInv ==
  /\ TypeOK
  /\ \A c \in Connections, k \in Checks :
       /\ step[c] = "probing" /\ up[k] => k \in seen[c]
       /\ outcome[c][k] = "ok" => k \in seen[c]
       /\ outcome[c][k] # "none" => step[c] = "probing"

(* Until the callback of close() runs the queue is open; nobody waits any  *)
(* more when it is closed, and no connection is kept.                      *)
ShutdownInv ==
  /\ server \in {"listening", "closing"} => queue = "open"
  /\ WaitingClientsAreServed

Inv == ProbeInv /\ ShutdownInv

(* Inv holds in every state. *)
LEMMA Invariance == Spec => []Inv
<1>1. Init => Inv
  <2> SUFFICES ASSUME Init PROVE Inv
    OBVIOUS
  <2>1. TypeOK
    BY DEF Init, TypeOK, Pending, Steps
  <2>2. \A c \in Connections, k \in Checks : step[c] = "none" /\ outcome[c][k] = "none"
    BY DEF Init
  <2>3. ShutdownInv
    BY DEF Init, ShutdownInv, WaitingClientsAreServed
  <2> QED
    BY <2>1, <2>2, <2>3 DEF Inv, ProbeInv
<1>2. Inv /\ [Next]_vars => Inv'
  <2> SUFFICES ASSUME Inv, [Next]_vars PROVE Inv'
    OBVIOUS
  <2> USE DEF Inv, ProbeInv, ShutdownInv, TypeOK, WaitingClientsAreServed, Checks, Pending,
              Steps, probeVars
  <2>1. ASSUME NEW c \in Connections, Request(c) PROVE Inv'
    BY <2>1 DEF Request, Accept
  <2>2. ASSUME NEW c \in Connections, NEW s \in Steps \ {"none", "probing"},
               step[c] \notin {"none", "probing"}, Goto(c, s)
        PROVE  Inv'
    BY <2>2 DEF Goto
  <2>3. ASSUME NEW c \in Connections, NEW s \in {"ok", "unavailable", "error"}, Answer(c, s)
        PROVE  Inv'
    BY <2>3 DEF Answer
  <2>4. ASSUME NEW c \in Connections, HandlerStep(c) PROVE Inv'
    BY <2>2, <2>3, <2>4
    DEF HandlerStep, Authenticate, BodyBreaks, Store, Respond, TestEnds, Enqueue
  <2>5. ASSUME NEW c \in Connections, BodyRead(c) \/ Forsake(c) PROVE Inv'
    BY <2>2, <2>5 DEF BodyRead, Forsake
  <2>6. ASSUME NEW c \in Connections, DependencyFails(c) PROVE Inv'
    BY <2>3, <2>6 DEF DependencyFails
  <2>7. ASSUME NEW c \in Connections, HangUp(c) PROVE Inv'
    BY <2>7 DEF HangUp
  <2>8. ASSUME NEW c \in Connections, IdleEnds(c) PROVE Inv'
    BY <2>8 DEF IdleEnds
  <2>9. ASSUME NEW c \in Connections, Unsubscribe(c) PROVE Inv'
    BY <2>9 DEF Unsubscribe
  <2>10. ASSUME NEW c \in Connections, Probe(c) PROVE Inv'
    BY <2>10 DEF Probe, Accept
  <2>11. ASSUME NEW c \in Connections, Report(c) PROVE Inv'
    BY <2>3, <2>11 DEF Report
  <2>12. ASSUME NEW c \in Connections, NEW k \in Checks, CheckStep(c, k) PROVE Inv'
    <3>1. CASE Pass(c, k)
      BY <3>1 DEF Pass, Settle
    <3>2. CASE Reject(c, k)
      BY <3>2 DEF Reject, Settle
    <3>3. CASE Timeout(c, k)
      BY <3>3 DEF Timeout, Late, Settle
    <3> QED
      BY <2>12, <3>1, <3>2, <3>3 DEF CheckStep
  <2>13. CASE LinkUp
    BY <2>13 DEF LinkUp
  <2>14. CASE LinkDown
    BY <2>14 DEF LinkDown
  <2>15. ASSUME NEW k \in Checks, Toggle(k) PROVE Inv'
    BY <2>15 DEF Toggle
  <2>16. ASSUME NEW s \in Signals, Signal(s) PROVE Inv'
    BY <2>16 DEF Signal
  <2>17. ASSUME NEW s \in Signals, Kill(s) PROVE Inv'
    BY <2>17 DEF Kill
  <2>18. CASE CloseQueue
    BY <2>18 DEF CloseQueue, Drained
  <2>19. CASE UNCHANGED vars
    BY <2>19 DEF vars
  <2> QED
    BY <2>1, <2>4, <2>5, <2>6, <2>7, <2>8, <2>9, <2>10, <2>11, <2>12, <2>13,
       <2>14, <2>15, <2>16, <2>17, <2>18, <2>19
       DEF Next
<1> QED
  BY <1>1, <1>2, PTL DEF Spec

(* Every variable keeps its type. *)
THEOREM Typing == Spec => []TypeOK
<1>1. Inv => TypeOK
  BY DEF Inv, ProbeInv
<1> QED
  BY <1>1, Invariance, PTL

(* A shutdown never takes the queue away from a request somebody waits     *)
(* for, or may still make on a connection that was kept.                   *)
THEOREM WaitingClientsAreServedHolds == Spec => []WaitingClientsAreServed
<1>1. Inv => WaitingClientsAreServed
  BY DEF Inv, ShutdownInv
<1> QED
  BY <1>1, Invariance, PTL

-----------------------------------------------------------------------------
(* A report of readiness is earned by every dependency while the request   *)
(* was running: only Report writes it, and only when all checks are ok.    *)
THEOREM ReadyIsEarnedHolds == Spec => ReadyIsEarned
<1>1. ASSUME Inv, [Next]_vars
      PROVE  [\A c \in Connections :
                step[c] = "probing" /\ step'[c] = "none" /\ status'[c] = "ok" =>
                  seen[c] = Checks]_vars
  <2> SUFFICES ASSUME NEW d \in Connections, Next,
                      step[d] = "probing", step'[d] = "none", status'[d] = "ok"
               PROVE  seen[d] = Checks
    BY <1>1
  <2>1. step \in [Connections -> Steps]
    BY <1>1 DEF Inv, ProbeInv, TypeOK
  <2>2. status \in [Connections -> {"none", "ok", "unavailable", "error"}]
    BY <1>1 DEF Inv, ProbeInv, TypeOK
  <2>3. ASSUME NEW c \in Connections, HandlerStep(c) \/ DependencyFails(c) PROVE FALSE
    <3>1. step[c] # "probing" /\ \A e \in Connections \ {c} : step'[e] = step[e]
      BY <2>1, <2>3
      DEF HandlerStep, DependencyFails, Authenticate, BodyBreaks, Store, Respond, TestEnds,
          Enqueue, Goto, Answer
    <3> QED
      BY <3>1
  <2>4. PICK c \in Connections : c = d /\ Report(c)
    BY <2>1, <2>3
    DEF Next, Request, BodyRead, Forsake, Goto, HangUp, IdleEnds, Unsubscribe, Probe, Accept,
        Report, Answer, CheckStep, Pass, Reject, Timeout, Settle, LinkUp, LinkDown, Toggle,
        Signal, Kill, CloseQueue
  <2>5. \A k \in Checks : outcome[d][k] = "ok"
    BY <2>2, <2>4 DEF Report, Ready, Answer
  <2>6. seen[d] \in SUBSET Checks
    BY <1>1 DEF Inv, ProbeInv, TypeOK
  <2> QED
    BY <1>1, <2>5, <2>6 DEF Inv, ProbeInv
<1> QED
  BY <1>1, Invariance, PTL DEF Spec, ReadyIsEarned

-----------------------------------------------------------------------------
(* A test checks a proxy that has had a row, with a socket; a check whose  *)
(* verdict is in has closed it; one whose socket closed without a verdict  *)
(* is of a SOCKS5 proxy that hung up.                                      *)
CheckInv ==
  \A t \in Tests :
    /\ \A p \in remaining[t] : proxyStatus[p] # "ABSENT"
    /\ testing[t] = NoProxy => peer[t] = "none" /\ socket[t] = "none" /\ verdict[t] = "none"
    /\ testing[t] # NoProxy =>
         /\ proxyStatus[testing[t]] # "ABSENT"
         /\ peer[t] # "none" /\ socket[t] # "none"
    /\ verdict[t] # "none" => socket[t] = "closed"
    /\ Forsaken(t) => peer[t] = "hangsUp" /\ protocol[testing[t]] = "SOCKS5"

ProxiesInv == ProxiesTypeOK /\ CheckInv

(* A check settles with a verdict, and closes its socket. *)
LEMMA Settling ==
  ASSUME ProxiesInv, NEW t \in Tests, NEW v \in Verdicts, Settles(t, v), socket[t] \in {"connecting", "open"}
  PROVE  ProxiesInv'
<1>1. testing[t] # NoProxy /\ v # "none"
  BY DEF ProxiesInv, CheckInv, Verdicts
<1>2. ProxiesTypeOK'
  BY DEF Settles, ProxiesInv, ProxiesTypeOK, proxyRows
<1>3. CheckInv'
  BY <1>1 DEF Settles, ProxiesInv, ProxiesTypeOK, CheckInv, Forsaken, proxyRows
<1> QED
  BY <1>2, <1>3 DEF ProxiesInv

(* A row appears. *)
LEMMA Inserting ==
  ASSUME ProxiesInv, NEW p \in ProxyIds, NEW a \in Addresses, NEW k \in Protocols,
         InsertProxy(p, a, k), lines' \in SUBSET (Addresses \X Protocols),
         UNCHANGED <<remaining, check>>
  PROVE  ProxiesInv'
<1>1. ProxiesTypeOK'
  BY DEF InsertProxy, ProxiesInv, ProxiesTypeOK, check
<1>2. CheckInv'
  <2>1. \A q \in ProxyIds : proxyStatus[q] # "ABSENT" =>
          proxyStatus'[q] = proxyStatus[q] /\ protocol'[q] = protocol[q]
    BY DEF InsertProxy, ProxiesInv, ProxiesTypeOK
  <2>2. \A t \in Tests : remaining[t] \subseteq ProxyIds /\ (testing[t] # NoProxy => testing[t] \in ProxyIds)
    BY DEF ProxiesInv, ProxiesTypeOK
  <2>3. \A t \in Tests : Forsaken(t) => testing[t] # NoProxy
    BY DEF ProxiesInv, CheckInv, Forsaken
  <2> QED
    BY <2>1, <2>2, <2>3 DEF ProxiesInv, CheckInv, Forsaken, check
<1> QED
  BY <1>1, <1>2 DEF ProxiesInv

(* ProxiesInv holds in every state. *)
LEMMA Proxying == ProxiesSpec => []ProxiesInv
<1>1. ProxiesInit => ProxiesInv
  BY DEF ProxiesInit, ProxiesInv, ProxiesTypeOK, CheckInv, Forsaken, Protocols
<1>2. ProxiesInv /\ [ProxiesNext]_proxyVars => ProxiesInv'
  <2> SUFFICES ASSUME ProxiesInv, [ProxiesNext]_proxyVars PROVE ProxiesInv'
    OBVIOUS
  <2>1. ASSUME NEW p \in ProxyIds, NEW a \in Addresses, NEW k \in Protocols, CreateProxy(p, a, k)
        PROVE  ProxiesInv'
    BY <2>1, Inserting DEF CreateProxy, ProxiesInv, ProxiesTypeOK
  <2>2. ASSUME NEW a \in Addresses, NEW k \in Protocols, ImportLine(a, k) PROVE ProxiesInv'
    <3>1. lines' \in SUBSET (Addresses \X Protocols) /\ UNCHANGED <<remaining, check>>
      BY <2>2 DEF ImportLine, ProxiesInv, ProxiesTypeOK
    <3>2. ASSUME NEW p \in ProxyIds, InsertProxy(p, a, k) PROVE ProxiesInv'
      BY <3>1, <3>2, Inserting
    <3>3. CASE UNCHANGED proxyRows
      BY <3>1, <3>3 DEF ProxiesInv, ProxiesTypeOK, CheckInv, Forsaken, proxyRows, check
    <3> QED
      BY <2>2, <3>2, <3>3 DEF ImportLine
  <2>3. ASSUME NEW p \in ProxyIds, Disable(p) \/ DeleteProxy(p) PROVE ProxiesInv'
    <3>1. /\ UNCHANGED <<protocol, address, lines, remaining, testing, peer, socket, verdict>>
          /\ proxyStatus' \in [ProxyIds -> Verdicts \cup {"ABSENT", "UNKNOWN", "DISABLED", "DELETED"}]
          /\ \A q \in ProxyIds : proxyStatus[q] # "ABSENT" => proxyStatus'[q] # "ABSENT"
      BY <2>3 DEF Disable, DeleteProxy, check, ProxiesInv, ProxiesTypeOK
    <3>2. ProxiesTypeOK'
      BY <3>1 DEF ProxiesInv, ProxiesTypeOK
    <3>3. CheckInv'
      BY <3>1 DEF ProxiesInv, ProxiesTypeOK, CheckInv, Forsaken
    <3> QED
      BY <3>2, <3>3 DEF ProxiesInv
  <2>4. ASSUME NEW text \in Texts, ImportProxies(text) PROVE ProxiesInv'
    BY <2>4 DEF ImportProxies, Texts, ProxiesInv, ProxiesTypeOK, CheckInv, Forsaken, proxyRows, check
  <2>5. ASSUME NEW t \in Tests, Test(t) PROVE ProxiesInv'
    <3>1. PICK ps \in {{p} : p \in Stored} \cup {Stored} : remaining' = [remaining EXCEPT ![t] = ps]
      BY <2>5 DEF Test
    <3>2. ps \subseteq Stored /\ Stored \subseteq ProxyIds
      BY DEF Stored
    <3>3. UNCHANGED <<proxyRows, lines, check>>
      BY <2>5 DEF Test
    <3>4. ProxiesTypeOK'
      BY <3>1, <3>2, <3>3 DEF ProxiesInv, ProxiesTypeOK, proxyRows, check
    <3>5. CheckInv'
      BY <3>1, <3>2, <3>3 DEF ProxiesInv, ProxiesTypeOK, CheckInv, Forsaken, Stored, proxyRows, check
    <3> QED
      BY <3>4, <3>5 DEF ProxiesInv
  <2>6. ASSUME NEW t \in Tests, NEW p \in ProxyIds, StartCheck(t, p) PROVE ProxiesInv'
    <3>1. PICK k \in Peers : peer' = [peer EXCEPT ![t] = k]
      BY <2>6 DEF StartCheck
    <3>2. ProxiesTypeOK'
      BY <2>6, <3>1 DEF StartCheck, ProxiesInv, ProxiesTypeOK, proxyRows
    <3>3. CheckInv'
      BY <2>6, <3>1, NoProxyAssumption
      DEF StartCheck, ProxiesInv, ProxiesTypeOK, CheckInv, Forsaken, Peers, proxyRows
    <3> QED
      BY <3>2, <3>3 DEF ProxiesInv
  <2>7. ASSUME NEW t \in Tests, Connect(t) PROVE ProxiesInv'
    BY <2>7 DEF Connect, ProxiesInv, ProxiesTypeOK, CheckInv, Forsaken, proxyRows
  <2>8. ASSUME NEW t \in Tests, SocketEvent(t) PROVE ProxiesInv'
    <3>1. \A code : StatusOf(code) \in Verdicts
      BY DEF StatusOf, Verdicts
    <3>2. CASE Reply(t)
      BY <3>1, <3>2, Settling DEF Reply, Verdicts
    <3>3. CASE NetworkError(t)
      BY <3>1, <3>3, Settling DEF NetworkError
    <3>4. CASE TimesOut(t)
      BY <3>1, <3>4, Settling DEF TimesOut, TimerRuns
    <3>5. CASE HangsUp(t) /\ protocol[testing[t]] = "HTTP"
      BY <3>1, <3>5, Settling DEF HangsUp
    <3>6. CASE HangsUp(t) /\ protocol[testing[t]] # "HTTP"
      <4>1. testing[t] \in ProxyIds /\ protocol[testing[t]] = "SOCKS5" /\ peer[t] = "hangsUp"
        BY <3>6 DEF HangsUp, ProxiesInv, ProxiesTypeOK, CheckInv, Protocols
      <4>2. socket' = [socket EXCEPT ![t] = "closed"]
            /\ UNCHANGED <<proxyRows, lines, remaining, testing, peer, verdict>>
        BY <3>6 DEF HangsUp
      <4>3. ProxiesTypeOK'
        BY <4>2 DEF ProxiesInv, ProxiesTypeOK, proxyRows
      <4>4. CheckInv'
        BY <3>6, <4>1, <4>2 DEF HangsUp, ProxiesInv, ProxiesTypeOK, CheckInv, Forsaken, proxyRows
      <4> QED
        BY <4>3, <4>4 DEF ProxiesInv
    <3> QED
      BY <2>8, <3>2, <3>3, <3>4, <3>5, <3>6 DEF SocketEvent
  <2>9. ASSUME NEW t \in Tests, Record(t) PROVE ProxiesInv'
    <3>1. /\ UNCHANGED <<protocol, address, lines>>
          /\ testing' = [testing EXCEPT ![t] = NoProxy]
          /\ peer' = [peer EXCEPT ![t] = "none"]
          /\ socket' = [socket EXCEPT ![t] = "none"]
          /\ verdict' = [verdict EXCEPT ![t] = "none"]
      BY <2>9 DEF Record
    <3>2. /\ remaining' \in [Tests -> SUBSET ProxyIds]
          /\ \A s \in Tests : remaining'[s] \subseteq remaining[s]
      BY <2>9 DEF Record, ProxiesInv, ProxiesTypeOK
    <3>3. verdict[t] \in Verdicts
      BY <2>9 DEF Record, ProxiesInv, ProxiesTypeOK
    <3>4. /\ proxyStatus' \in [ProxyIds -> Verdicts \cup {"ABSENT", "UNKNOWN", "DISABLED", "DELETED"}]
          /\ \A q \in ProxyIds : proxyStatus[q] # "ABSENT" => proxyStatus'[q] # "ABSENT"
      BY <2>9, <3>3 DEF Record, ProxiesInv, ProxiesTypeOK, Verdicts
    <3>5. ProxiesTypeOK'
      BY <3>1, <3>2, <3>4 DEF ProxiesInv, ProxiesTypeOK
    <3>6. CheckInv'
      BY <3>1, <3>2, <3>4 DEF ProxiesInv, ProxiesTypeOK, CheckInv, Forsaken
    <3> QED
      BY <3>5, <3>6 DEF ProxiesInv
  <2>10. CASE UNCHANGED proxyVars
    BY <2>10 DEF proxyVars, proxyRows, check, ProxiesInv, ProxiesTypeOK, CheckInv, Forsaken
  <2> QED
    BY <2>1, <2>2, <2>3, <2>4, <2>5, <2>6, <2>7, <2>8, <2>9, <2>10 DEF ProxiesNext
<1> QED
  BY <1>1, <1>2, PTL DEF ProxiesSpec

(* Only a SOCKS5 proxy that accepts a connection and hangs up without a    *)
(* word leaves a test waiting for a socket that is no more.                *)
THEOREM OnlyHungUpSocksForsakes ==
  ProxiesSpec => [](\A t \in Tests : Forsaken(t) =>
                      peer[t] = "hangsUp" /\ protocol[testing[t]] = "SOCKS5")
<1>1. ProxiesInv => \A t \in Tests : Forsaken(t) =>
                      peer[t] = "hangsUp" /\ protocol[testing[t]] = "SOCKS5"
  BY DEF ProxiesInv, CheckInv
<1> QED
  BY <1>1, Proxying, PTL

-----------------------------------------------------------------------------
(* The process and the proxy manager keep their types, side by side. *)
THEOREM ServicesTypeOKHolds == ServicesSpec => []ServicesTypeOK
<1> DEFINE PartOK == part \in {"process", "proxies"}
<1>1. ServicesInit => PartOK /\ Init /\ ProxiesInit
  BY DEF ServicesInit
<1>2. PartOK /\ [ServicesNext]_serviceVars => PartOK'
  BY DEF ServicesNext, serviceVars
<1>3. [ServicesNext]_serviceVars => [Next]_vars
  BY DEF ServicesNext, serviceVars
<1>4. [ServicesNext]_serviceVars => [ProxiesNext]_proxyVars
  BY DEF ServicesNext, serviceVars
<1>5. ServicesSpec => []PartOK /\ Spec /\ ProxiesSpec
  BY <1>1, <1>2, <1>3, <1>4, PTL DEF ServicesSpec, Spec, ProxiesSpec
<1>6. PartOK /\ TypeOK /\ ProxiesInv => ServicesTypeOK
  BY DEF ServicesTypeOK, ProxiesInv
<1> QED
  BY <1>5, <1>6, Typing, Proxying, PTL
=============================================================================
