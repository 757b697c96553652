----------------------------- MODULE LocalDelivery -----------------------------
(***************************************************************************)
(* The delivery of commands without Redis: InMemoryCommandQueue of the     *)
(* backend, InMemoryCommandConsumer of the worker, and start(), stop() and *)
(* processCommand() of TelegramWorker as they use it.  Whoever composes    *)
(* the two takes commands from the queue and pushes them (external).       *)
(*                                                                         *)
(* start() calls are numbered; one that is overtaken by stop() goes on, so *)
(* several can be at work; stop() is called once at a time.  The clear()   *)
(* of the queue is called by nobody.                                       *)
(* A worker that is not ready answers at once, in the same turn of the    *)
(* event loop.                                                             *)
(***************************************************************************)
EXTENDS Naturals, Sequences

CONSTANTS
  Commands,
  MaxStarts   \* bound: the calls of start()

Starts == 1 .. MaxStarts

VARIABLES
  queued,     \* InMemoryCommandQueue: pending
  seenIds,    \* and the ids it has seen
  pending,    \* InMemoryCommandConsumer: pending
  handler,    \* whether it has a handler
  closed,
  start,      \* where each call of start() is
  carrying,   \* the command the flush of each start() awaits, or none
  closing,    \* stop() is between its two parts
  running,    \* TelegramWorker: started
  ready,      \* lifecycle = "ready"
  subscribed, \* whether it keeps a subscription
  answer      \* what has become of each command

queueVars == <<queued, seenIds>>
consumerVars == <<pending, handler, closed, carrying>>
workerVars == <<start, closing, running, ready, subscribed>>
deliveryVars == <<queueVars, consumerVars, workerVars, answer>>

Outcomes == {"completed", "deferred", "rejected"}

DeliveryTypeOK ==
  /\ queued \in Seq(Commands) /\ pending \in Seq(Commands)
  /\ seenIds \in SUBSET Commands
  /\ handler \in BOOLEAN /\ closed \in BOOLEAN
  /\ start \in [Starts -> {"none", "starting", "flushing", "over"}]
  /\ carrying \in [Starts -> SUBSET Commands]
  /\ closing \in BOOLEAN /\ running \in BOOLEAN /\ ready \in BOOLEAN /\ subscribed \in BOOLEAN
  /\ answer \in [Commands -> Outcomes \cup {"none", "handling"}]

LocalInit ==
  /\ queued = <<>> /\ pending = <<>>
  /\ seenIds = {}
  /\ handler = FALSE /\ closed = FALSE
  /\ start = [n \in Starts |-> "none"]
  /\ carrying = [n \in Starts |-> {}]
  /\ closing = FALSE /\ running = FALSE /\ ready = FALSE /\ subscribed = FALSE
  /\ answer = [c \in Commands |-> "none"]

-----------------------------------------------------------------------------
(* Mutant of New: a command that was dequeued may be enqueued again. *)
NewUnlessQueued(c) == \A i \in DOMAIN queued : queued[i] # c

New(c) == c \notin seenIds

(* InMemoryCommandQueue.enqueue; an id it has seen is refused. *)
EnqueueLocal(c) ==
  /\ New(c)
  /\ seenIds' = seenIds \cup {c}
  /\ queued' = Append(queued, c)
  /\ UNCHANGED <<consumerVars, workerVars, answer>>

(* processCommand of a worker that is not ready defers, otherwise it       *)
(* dispatches.                                                             *)
Hand(c) ==
  answer' = [answer EXCEPT ![c] = IF running /\ ready THEN "handling" ELSE "deferred"]

(* CommandRouter.dispatch ends: rejected for an unknown type or when the   *)
(* handler throws, deferred without a handler or by the handler.           *)
Dispatched(c, outcome) ==
  /\ answer[c] = "handling"
  /\ answer' = [answer EXCEPT ![c] = outcome]
  /\ UNCHANGED <<queueVars, consumerVars, workerVars>>

Listening == handler /\ ~closed

(* dequeue, and push: to the handler, or to the commands that wait for one. *)
Push(c) ==
  /\ queued # <<>> /\ c = Head(queued)
  /\ queued' = Tail(queued)
  /\ IF Listening
     THEN Hand(c) /\ UNCHANGED pending
     ELSE pending' = Append(pending, c) /\ UNCHANGED answer
  /\ UNCHANGED <<seenIds, handler, closed, carrying, workerVars>>

-----------------------------------------------------------------------------
(* start() up to the await of its first heartbeat. *)
StartLocal(n) ==
  /\ ~running
  /\ start[n] = "none"
  /\ \A m \in 1 .. n - 1 : start[m] # "none"
  /\ start' = [start EXCEPT ![n] = "starting"]
  /\ running' = TRUE /\ ready' = FALSE
  /\ UNCHANGED <<queueVars, consumerVars, closing, subscribed, answer>>

(* consume() up to its flush, whatever stop() did meanwhile. *)
ConsumeLocal(n) ==
  /\ start[n] = "starting"
  /\ start' = [start EXCEPT ![n] = "flushing"]
  /\ handler' = TRUE /\ closed' = FALSE
  /\ UNCHANGED <<queueVars, pending, carrying, closing, running, ready, subscribed, answer>>

(* Mutant of TakeFirst: the command is only removed when it is answered. *)
LookAtFirst(n, c) ==
  /\ carrying' = [carrying EXCEPT ![n] = {c}]
  /\ UNCHANGED pending

(* this.pending.shift() *)
TakeFirst(n, c) ==
  /\ carrying' = [carrying EXCEPT ![n] = {c}]
  /\ pending' = Tail(pending)

(* flush(): one round of its loop, up to the await of the handler. *)
Flush(n, c) ==
  /\ start[n] = "flushing" /\ carrying[n] = {}
  /\ ~closed
  /\ pending # <<>> /\ c = Head(pending)
  /\ TakeFirst(n, c)
  /\ Hand(c)
  /\ UNCHANGED <<queueVars, handler, closed, workerVars>>

(* The handler has answered. *)
FlushGoesOn(n) ==
  /\ \E c \in carrying[n] : answer[c] # "handling"
  /\ carrying' = [carrying EXCEPT ![n] = {}]
  /\ UNCHANGED <<queueVars, pending, handler, closed, workerVars, answer>>

(* Mutant of BacklogDone: flush() hands over one command. *)
BacklogBegun == TRUE

BacklogDone == pending = <<>> \/ closed

(* consume() returns its subscription, and start() makes the worker ready, *)
(* whatever stop() did meanwhile.                                          *)
BecomeReadyLocal(n) ==
  /\ start[n] = "flushing" /\ carrying[n] = {}
  /\ BacklogDone
  /\ start' = [start EXCEPT ![n] = "over"]
  /\ subscribed' = TRUE
  /\ ready' = TRUE
  /\ UNCHANGED <<queueVars, consumerVars, closing, running, answer>>

(* stop() up to its first await. *)
StopLocal ==
  /\ running
  /\ ~closing
  /\ closing' = TRUE
  /\ ready' = FALSE
  /\ UNCHANGED <<queueVars, consumerVars, start, running, subscribed, answer>>

(* The rest of stop(): the subscription, if there is one by now, is closed. *)
StopEnds ==
  /\ closing
  /\ closing' = FALSE
  /\ IF subscribed THEN closed' = TRUE /\ handler' = FALSE ELSE UNCHANGED <<closed, handler>>
  /\ subscribed' = FALSE
  /\ running' = FALSE /\ ready' = FALSE
  /\ UNCHANGED <<queueVars, pending, carrying, start, answer>>

LocalNext ==
  \/ \E c \in Commands :
       \/ EnqueueLocal(c) \/ Push(c)
       \/ \E outcome \in Outcomes : Dispatched(c, outcome)
       \/ \E n \in Starts : Flush(n, c)
  \/ \E n \in Starts : StartLocal(n) \/ ConsumeLocal(n) \/ FlushGoesOn(n) \/ BecomeReadyLocal(n)
  \/ StopLocal \/ StopEnds

LocalSpec == LocalInit /\ [][LocalNext]_deliveryVars

-----------------------------------------------------------------------------
(* No command is stranded in the consumer: while it has a handler that     *)
(* push() would hand the next command to, somebody is emptying the backlog *)
(* of the older ones.                                                      *)
NoneIsStranded == Listening /\ pending # <<>> => \E n \in Starts : start[n] = "flushing"

Waits(c) == \E commands \in {queued, pending} : \E i \in DOMAIN commands : commands[i] = c

(* How far the caller of enqueue() would say that the command has come. *)
Progress(c) ==
  IF answer[c] # "none" /\ Waits(c) THEN "again"
  ELSE IF answer[c] = "handling" THEN "handling"
  ELSE IF answer[c] # "none" THEN "answered"
  ELSE IF c \notin seenIds THEN "new"
  ELSE IF Waits(c) THEN "waiting" ELSE "lost"

Delivery == INSTANCE CommandDelivery
              WITH delivery <- [c \in Commands |-> Progress(c)]

(* Every command that is accepted is waiting, in a handler or answered: it *)
(* is never lost, nor handed over twice, nor waiting to be when it was     *)
(* handed over, while consumers come and go and two flushes of the same    *)
(* backlog are at work.                                                    *)
ImplementsDelivery == Delivery!DeliverySpec
=============================================================================
