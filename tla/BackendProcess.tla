----------------------------- MODULE BackendProcess -----------------------------
(***************************************************************************)
(* The backend process: its HTTP server, the readiness checks of           *)
(* PostgreSQL and Redis with their time limit, and the shutdown that       *)
(* closes the server, waits for its connections and then closes the queue. *)
(*                                                                         *)
(* The server does not await its handlers (void apiController.handle), so  *)
(* a handler outlives the connection of a client that hangs up, and        *)
(* server.close() does not wait for it.  A connection is kept alive after  *)
(* an answer.  server.close() ends those that are idle at that moment; one *)
(* that was busy may carry further requests until its client or Node's     *)
(* keepAliveTimeout ends it.  A stream of events is a response that never  *)
(* ends, the body of a request is awaited from its client without a time   *)
(* limit (that of Node is checked by a timer which close() clears), and so *)
(* is the check of a proxy, which need not settle (module Proxies).        *)
(***************************************************************************)

CONSTANTS
  Connections,    \* bound: the connections open at the same time
  Signals         \* the signals that end the process

Checks == {"database", "redis"}
Pending == {"connecting", "asked"}
Steps == {"none", "authenticating", "receiving", "storing", "testing", "forsaken",
          "enqueueing", "streaming", "probing"}

VARIABLES
  server,     \* the HTTP server
  handlers,   \* the signals whose handler has not been used
  queue,      \* BullMQ: the connection of the command queue
  client,     \* the other end of each connection
  step,       \* where the handler of its request is
  outcome,    \* of each check of a readiness request
  status,     \* of the last response on each connection
  up,         \* whether PostgreSQL and Redis answer
  link,       \* ioredis: the status of the connection for the probe
  seen        \* history: what has been up since the readiness request began

probeVars == <<up, link, seen>>
vars == <<server, handlers, queue, client, step, outcome, status, probeVars>>

TypeOK ==
  /\ server \in {"listening", "closing", "closed", "killed"}
  /\ handlers \in SUBSET Signals
  /\ queue \in {"open", "closed"}
  /\ client \in [Connections -> {"away", "waiting", "idle", "gone"}]
  /\ step \in [Connections -> Steps]
  /\ outcome \in [Connections -> [Checks -> Pending \cup {"none", "ok", "down", "timeout"}]]
  /\ status \in [Connections -> {"none", "ok", "unavailable", "error"}]
  /\ up \in [Checks -> BOOLEAN]
  /\ link \in {"wait", "connecting", "ready", "reconnecting"}
  /\ seen \in [Connections -> SUBSET Checks]

Init ==
  /\ server = "listening"
  /\ handlers = Signals
  /\ queue = "open"
  /\ client = [c \in Connections |-> "away"]
  /\ step = [c \in Connections |-> "none"]
  /\ outcome = [c \in Connections |-> [k \in Checks |-> "none"]]
  /\ status = [c \in Connections |-> "none"]
  /\ up \in [Checks -> BOOLEAN]
  /\ link = "wait"
  /\ seen = [c \in Connections |-> {}]

-----------------------------------------------------------------------------
(* A request to /api or to /health/ready comes in, on a new connection or  *)
(* on one that was kept.                                                   *)
Accept(c, s) ==
  /\ step[c] = "none"
  /\ client[c] = "idle" \/ (client[c] = "away" /\ server = "listening")
  /\ client' = [client EXCEPT ![c] = "waiting"]
  /\ step' = [step EXCEPT ![c] = s]
  /\ status' = [status EXCEPT ![c] = "none"]
  /\ UNCHANGED <<server, handlers, queue>>

(* The response ends the request, and the connection is kept if there      *)
(* still is one.                                                           *)
Answer(c, s) ==
  /\ server # "killed"
  /\ status' = [status EXCEPT ![c] = s]
  /\ step' = [step EXCEPT ![c] = "none"]
  /\ client' = [client EXCEPT ![c] = IF @ = "waiting" THEN "idle" ELSE "away"]
  /\ outcome' = [outcome EXCEPT ![c] = [k \in Checks |-> "none"]]
  /\ seen' = [seen EXCEPT ![c] = {}]
  /\ UNCHANGED <<server, handlers, queue, up, link>>

(* The client, or the network, does not wait for the answer. *)
HangUp(c) ==
  /\ server # "killed"
  /\ client[c] = "waiting"
  /\ step[c] # "streaming"
  /\ client' = [client EXCEPT ![c] = "gone"]
  /\ UNCHANGED <<server, handlers, queue, step, outcome, status, probeVars>>

(* A connection that is kept ends: its client closes it, or                *)
(* keepAliveTimeout is over.                                               *)
IdleEnds(c) ==
  /\ server # "killed"
  /\ client[c] = "idle"
  /\ client' = [client EXCEPT ![c] = "away"]
  /\ UNCHANGED <<server, handlers, queue, step, outcome, status, probeVars>>

Goto(c, s) ==
  /\ server # "killed"
  /\ step' = [step EXCEPT ![c] = s]
  /\ UNCHANGED <<server, handlers, queue, client, outcome, status, probeVars>>

-----------------------------------------------------------------------------
(* A request to /api: those of /api/auth begin with their body, the others *)
(* with currentUser.                                                       *)
Request(c) ==
  /\ \E s \in {"authenticating", "receiving"} : Accept(c, s)
  /\ UNCHANGED <<outcome, probeVars>>

(* PostgreSQL knows the user.  The request has a body to be read, or not,  *)
(* or is for the stream of events: GET /api/events subscribes to the hub,  *)
(* its handler is done, and the response stays open.                       *)
Authenticate(c) ==
  /\ step[c] = "authenticating"
  /\ up["database"]
  /\ \E s \in {"receiving", "storing", "streaming"} : Goto(c, s)

(* The client closes the stream, and that ends the subscription.           *)
Unsubscribe(c) ==
  /\ server # "killed"
  /\ step[c] = "streaming"
  /\ step' = [step EXCEPT ![c] = "none"]
  /\ client' = [client EXCEPT ![c] = "away"]
  /\ UNCHANGED <<server, handlers, queue, outcome, status, probeVars>>

(* await body(request): the client has sent all of it, *)
BodyRead(c) ==
  /\ step[c] = "receiving"
  /\ client[c] = "waiting"
  /\ Goto(c, "storing")

(* or is gone, and the loop over the chunks throws. *)
BodyBreaks(c) ==
  /\ step[c] = "receiving"
  /\ client[c] = "gone"
  /\ Answer(c, "error")

(* The rows are read or written; a command has to follow, or the proxies   *)
(* that were read are tested.                                              *)
Store(c) ==
  /\ step[c] = "storing"
  /\ up["database"]
  /\ \E s \in {"enqueueing", "testing"} : Goto(c, s)

(* The checks of the proxies have settled and are recorded ...             *)
TestEnds(c) ==
  /\ step[c] = "testing"
  /\ up["database"]
  /\ \E s \in {"ok", "error"} : Answer(c, s)

(* ... unless one of them waits for a SOCKS5 proxy that has hung up.       *)
Forsake(c) ==
  /\ step[c] = "testing"
  /\ Goto(c, "forsaken")

(* A request that enqueues nothing, or is refused. *)
Respond(c) ==
  /\ step[c] \in {"authenticating", "storing"}
  /\ up["database"]
  /\ \E s \in {"ok", "error"} : Answer(c, s)

(* commandQueue.enqueue rejects when the queue is closed: 500. *)
Enqueue(c) ==
  /\ step[c] = "enqueueing"
  /\ up["redis"] \/ queue = "closed"
  /\ Answer(c, IF queue = "open" THEN "ok" ELSE "error")

(* PostgreSQL or Redis rejects what it was asked, which it need not when   *)
(* it is away: 500.                                                        *)
DependencyFails(c) ==
  /\ step[c] \in {"authenticating", "storing", "testing", "enqueueing"}
  /\ Answer(c, "error")

-----------------------------------------------------------------------------
(* getReadiness: all checks start.  The first check of Redis connects, one *)
(* that finds the connection being made leaves its PING in the queue.      *)
Probe(c) ==
  /\ Accept(c, "probing")
  /\ outcome' = [outcome EXCEPT ![c] =
       [k \in Checks |-> IF k = "redis" /\ link = "wait" THEN "connecting" ELSE "asked"]]
  /\ link' = IF link = "wait" THEN "connecting" ELSE link
  /\ seen' = [seen EXCEPT ![c] = {k \in Checks : up[k]}]
  /\ UNCHANGED up

(* The answer of check k is s, if it comes in time.  Promise.race drops    *)
(* the answers that come late.                                             *)
Settle(c, k, s) ==
  /\ server # "killed"
  /\ outcome[c][k] \in Pending
  /\ outcome' = [outcome EXCEPT ![c][k] = s]
  /\ UNCHANGED <<server, handlers, queue, client, step, status, probeVars>>

Pass(c, k) ==
  /\ outcome[c][k] = "asked"
  /\ up[k]
  /\ k = "redis" => link = "ready"
  /\ Settle(c, k, "ok")

(* The query is rejected, or the PING after one retry. *)
Reject(c, k) ==
  /\ outcome[c][k] = "asked"
  /\ Settle(c, k, "down")

(* Mutant of Late: there is no timer for a check that never answers. *)
Untimed(c, k) == FALSE

Late(c, k) == outcome[c][k] \in Pending

Timeout(c, k) ==
  /\ Late(c, k)
  /\ Settle(c, k, "timeout")

(* Mutant of Ready: only a check that failed counts against it. *)
NoneDown(c) == \A k \in Checks : outcome[c][k] # "down"

Ready(c) == \A k \in Checks : outcome[c][k] = "ok"

(* Promise.all: the report is written when every check has an outcome. *)
Report(c) ==
  /\ step[c] = "probing"
  /\ \A k \in Checks : outcome[c][k] \notin Pending
  /\ Answer(c, IF Ready(c) THEN "ok" ELSE "unavailable")

(* The connection to Redis is made: connect() resolves, PING follows. *)
LinkUp ==
  /\ server # "killed"
  /\ link \in {"connecting", "reconnecting"}
  /\ up["redis"]
  /\ link' = "ready"
  /\ outcome' = [c \in Connections |->
       [outcome[c] EXCEPT !["redis"] = IF @ = "connecting" THEN "asked" ELSE @]]
  /\ UNCHANGED <<server, handlers, queue, client, step, status, up, seen>>

(* Mutant of LinkDown: no retry, the connection is given up. *)
LinkEnds ==
  /\ server # "killed"
  /\ link \in {"connecting", "ready"}
  /\ ~up["redis"]
  /\ link' = "end"
  /\ UNCHANGED <<server, handlers, queue, client, step, outcome, status, up, seen>>

(* It cannot be made or is lost: connect() rejects, ioredis tries again.   *)
LinkDown ==
  /\ server # "killed"
  /\ link \in {"connecting", "ready"}
  /\ ~up["redis"]
  /\ link' = "reconnecting"
  /\ outcome' = [c \in Connections |->
       [outcome[c] EXCEPT !["redis"] = IF @ = "connecting" THEN "down" ELSE @]]
  /\ UNCHANGED <<server, handlers, queue, client, step, status, up, seen>>

(* PostgreSQL or Redis goes, or comes back. *)
Toggle(k) ==
  /\ server # "killed"
  /\ up' = [up EXCEPT ![k] = ~@]
  /\ seen' = [c \in Connections |->
       IF step[c] = "probing" /\ ~up[k] THEN seen[c] \cup {k} ELSE seen[c]]
  /\ UNCHANGED <<server, handlers, queue, client, step, outcome, status, link>>

-----------------------------------------------------------------------------
(* process.once(s, shutdown): the first signal closes the server, which    *)
(* ends the connections that are idle; a different second one changes      *)
(* nothing.                                                                *)
Signal(s) ==
  /\ server # "killed"
  /\ s \in handlers
  /\ handlers' = handlers \ {s}
  /\ IF server = "listening"
     THEN /\ server' = "closing"
          /\ client' = [c \in Connections |-> IF client[c] = "idle" THEN "away" ELSE client[c]]
     ELSE UNCHANGED <<server, client>>
  /\ UNCHANGED <<queue, step, outcome, status, probeVars>>

(* The same signal again finds no handler: the process ends at once, and   *)
(* nothing is left of it but the rows and commands.                        *)
Kill(s) ==
  /\ server # "killed"
  /\ s \notin handlers
  /\ server' = "killed"
  /\ client' = [c \in Connections |-> "away"]
  /\ step' = [c \in Connections |-> "none"]
  /\ outcome' = [c \in Connections |-> [k \in Checks |-> "none"]]
  /\ status' = [c \in Connections |-> "none"]
  /\ seen' = [c \in Connections |-> {}]
  /\ link' = "wait"
  /\ UNCHANGED <<handlers, queue, up>>

(* Mutant of Drained: the callback does not wait for the connections. *)
DrainedAtOnce == TRUE

Drained == \A c \in Connections : client[c] \in {"away", "gone"}

(* The callback of server.close(): no connection is left. *)
CloseQueue ==
  /\ server = "closing"
  /\ Drained
  /\ server' = "closed"
  /\ queue' = "closed"
  /\ UNCHANGED <<handlers, client, step, outcome, status, probeVars>>

(* What a handler goes on to when what it awaits has come.                 *)
HandlerStep(c) ==
  \/ Authenticate(c) \/ BodyBreaks(c) \/ Store(c) \/ Respond(c) \/ TestEnds(c) \/ Enqueue(c)

CheckStep(c, k) == Pass(c, k) \/ Reject(c, k) \/ Timeout(c, k)

Next ==
  \/ \E c \in Connections :
       \/ Request(c) \/ BodyRead(c) \/ HandlerStep(c) \/ Forsake(c) \/ DependencyFails(c)
       \/ HangUp(c) \/ IdleEnds(c) \/ Unsubscribe(c)
       \/ Probe(c) \/ Report(c) \/ \E k \in Checks : CheckStep(c, k)
  \/ LinkUp \/ LinkDown
  \/ \E k \in Checks : Toggle(k)
  \/ \E s \in Signals : Signal(s) \/ Kill(s)
  \/ CloseQueue

Spec == Init /\ [][Next]_vars

(* The event loop runs the timers and callbacks that are due, and a        *)
(* dependency that is up answers the handlers.  Nothing is assumed of      *)
(* clients, of dependencies that are away, or of the checks: a body need   *)
(* not arrive, a stream not be closed, a proxy check not settle.           *)
Fairness ==
  /\ WF_vars(CloseQueue)
  /\ \A c \in Connections :
       /\ WF_vars(HandlerStep(c))
       /\ WF_vars(IdleEnds(c))
       /\ WF_vars(Report(c))
       /\ WF_vars(\E k \in Checks : Timeout(c, k))

FairSpec == Spec /\ Fairness

-----------------------------------------------------------------------------
(* A shutdown never takes the queue away from a request somebody waits     *)
(* for, or may still make on a connection that was kept: only the handler  *)
(* of a client that hung up may find it closed.                            *)
WaitingClientsAreServed ==
  queue = "closed" => \A c \in Connections : client[c] \notin {"waiting", "idle"}

(* A report of readiness is earned by every dependency while the request   *)
(* was running: it does not rest on an answer to an earlier request, on    *)
(* one that came too late, or on none at all.                              *)
ReadyIsEarned ==
  [][\A c \in Connections :
       step[c] = "probing" /\ step'[c] = "none" /\ status'[c] = "ok" => seen[c] = Checks]_vars

(* The request on a connection waits for somebody outside of the process   *)
(* who may never come, while its client waits for the answer.              *)
Held(c) ==
  /\ client[c] = "waiting"
  /\ \/ step[c] \in {"streaming", "receiving", "forsaken"}
     \/ step[c] \in {"authenticating", "storing", "testing"} /\ ~up["database"]
     \/ step[c] = "enqueueing" /\ ~up["redis"]

AsksAgain(c) == client[c] = "idle" /\ client'[c] = "waiting"

(* A shutdown ends, even while a dependency that does not answer is being  *)
(* probed and though idle connections were busy when it began.  One that   *)
(* never ends is held up for good by a client that keeps a stream of       *)
(* events open, never completes a body or goes on asking on a connection   *)
(* it kept, by the test of a proxy that hung up, or by a handler whose     *)
(* dependency is away again and again.                                     *)
ShutdownEnds ==
  <>[](server = "closing") =>
    \E c \in Connections : []<>Held(c) \/ []<><<AsksAgain(c)>>_vars
=============================================================================
