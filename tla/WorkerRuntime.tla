----------------------------- MODULE WorkerRuntime -----------------------------
(***************************************************************************)
(* One telegram-worker process: main() and TelegramWorker.start/stop, the  *)
(* heartbeat loop, and the BullMQ consumer that hands it commands, over    *)
(* restarts.                                                               *)
(*                                                                         *)
(* start() and each stop() are sequences of awaits, and so is a heartbeat: *)
(* between two of their steps any other callback may run.  The consumer    *)
(* hands over a job as soon as the BullMQ Worker object exists, which is   *)
(* before the worker is ready; BullMQ runs one job at a time, gives a job  *)
(* one attempt, and hands over a second time a job whose worker died.      *)
(*                                                                         *)
(* The time of a heartbeat matters only to tell one life of the process    *)
(* from the next, so emittedAt is the number of the life.                  *)
(***************************************************************************)
EXTENDS Integers

CONSTANTS
  Commands,       \* command envelopes, by id
  Signals,        \* termination signals with a handler: SIGINT, SIGTERM
  NoBeat,         \* no heartbeat
  MaxLives,       \* bound: how often the process is started
  StartMayFail,   \* the consumer may report an error before it is ready
  RedisMayFail    \* publishing a heartbeat may fail

ASSUME LivesAssumption == MaxLives \in Nat \ {0}
ASSUME FlagsAssumption == StartMayFail \in BOOLEAN /\ RedisMayFail \in BOOLEAN
ASSUME StarterAssumption == "start" \notin Signals

VARIABLES
  job,            \* BullMQ: the state of each command's job
  stalls,         \* BullMQ: how often the job was taken back from a dead worker
  life,           \* number of the current life of the process
  main,           \* where main() is
  stop,           \* where the stop() of each signal is
  started, lifecycle, activeJobs, subscribed,   \* fields of TelegramWorker
  consumer,       \* the BullMQ Worker object
  call,           \* the processor callback of each job in this process
  timer,          \* HeartbeatLoop.timer is set
  inFlight,       \* the heartbeat being published
  awaiting,       \* who awaits that publication
  portsClosed,    \* a shutdown has closed Redis, the gateway and Prisma
  beat,           \* Redis: the last heartbeat, expires after 45 s
  publishError,   \* heartbeatPublishError is set
  dispatched      \* history: the commands a handler was ever entered for

queueVars == <<job, stalls>>
procVars == <<started, lifecycle, subscribed>>
loopVars == <<timer, inFlight, awaiting>>
vars == <<job, stalls, life, main, stop, started, lifecycle, activeJobs, subscribed,
          consumer, call, timer, inFlight, awaiting, portsClosed, beat, publishError,
          dispatched>>

Lifecycles == {"starting", "ready", "draining", "offline"}
Beats == [lifecycle : Lifecycles, activeJobs : Nat, emittedAt : 1 .. MaxLives]
Callers == {"start"} \cup Signals

TypeOK ==
  /\ job \in [Commands -> {"absent", "waiting", "active", "completed", "failed"}]
  /\ stalls \in [Commands -> 0 .. 1]
  /\ life \in 0 .. MaxLives
  /\ main \in {"down", "starting", "consuming", "greeting", "running", "failing", "failed"}
  /\ stop \in [Signals -> {"none", "draining", "closing", "farewell", "stopped"}]
  /\ started \in BOOLEAN
  /\ lifecycle \in Lifecycles
  /\ activeJobs \in Nat
  /\ subscribed \in BOOLEAN
  /\ consumer \in {"none", "open", "closing"}
  /\ call \in [Commands -> {"none", "handling", "succeeded", "threw"}]
  /\ timer \in BOOLEAN
  /\ inFlight \in Beats \cup {NoBeat}
  /\ awaiting \in SUBSET Callers
  /\ portsClosed \in BOOLEAN
  /\ beat \in Beats \cup {NoBeat}
  /\ publishError \in BOOLEAN
  /\ dispatched \in SUBSET Commands

Init ==
  /\ job = [c \in Commands |-> "absent"]
  /\ stalls = [c \in Commands |-> 0]
  /\ life = 0
  /\ main = "down"
  /\ stop = [s \in Signals |-> "none"]
  /\ started = FALSE
  /\ lifecycle = "offline"
  /\ activeJobs = 0
  /\ subscribed = FALSE
  /\ consumer = "none"
  /\ call = [c \in Commands |-> "none"]
  /\ timer = FALSE
  /\ inFlight = NoBeat
  /\ awaiting = {}
  /\ portsClosed = FALSE
  /\ beat = NoBeat
  /\ publishError = FALSE
  /\ dispatched = {}

-----------------------------------------------------------------------------
(* HeartbeatLoop.tick(): a snapshot with lifecycle l is taken, unless one  *)
(* is being published; then that older one is all the callers wait for.    *)
HeartbeatTick(callers, l) ==
  /\ inFlight' = IF inFlight = NoBeat
                 THEN [lifecycle |-> l, activeJobs |-> activeJobs, emittedAt |-> life']
                 ELSE inFlight
  /\ awaiting' = awaiting \cup callers

(* The interval fires. *)
TimerFires ==
  /\ timer
  /\ inFlight = NoBeat
  /\ life' = life
  /\ HeartbeatTick({}, lifecycle)
  /\ UNCHANGED <<queueVars, main, stop, procVars, activeJobs, consumer, call, timer,
                 portsClosed, beat, publishError, dispatched>>

(* heartbeatPort.publish() resolves. *)
Publish ==
  /\ inFlight # NoBeat
  /\ ~portsClosed
  /\ beat' = inFlight
  /\ inFlight' = NoBeat
  /\ awaiting' = {}
  /\ UNCHANGED <<queueVars, life, main, stop, procVars, activeJobs, consumer, call, timer,
                 portsClosed, publishError, dispatched>>

(* It rejects: onPublishError notes it for health(), for good. *)
PublishFails ==
  /\ inFlight # NoBeat
  /\ RedisMayFail \/ portsClosed
  /\ publishError' = TRUE
  /\ inFlight' = NoBeat
  /\ awaiting' = {}
  /\ UNCHANGED <<queueVars, life, main, stop, procVars, activeJobs, consumer, call, timer,
                 portsClosed, beat, dispatched>>

(* The heartbeat key expires when nothing refreshes it. *)
BeatExpires ==
  /\ beat # NoBeat
  /\ ~timer \/ RedisMayFail
  /\ beat' = NoBeat
  /\ UNCHANGED <<queueVars, life, main, stop, procVars, activeJobs, consumer, call, loopVars,
                 portsClosed, publishError, dispatched>>

-----------------------------------------------------------------------------
(* main() runs start(): the worker announces itself as starting. *)
Boot ==
  /\ main = "down"
  /\ life < MaxLives
  /\ life' = life + 1
  /\ main' = "starting"
  /\ started' = TRUE
  /\ lifecycle' = "starting"
  /\ HeartbeatTick({"start"}, "starting")
  /\ UNCHANGED <<queueVars, stop, activeJobs, subscribed, consumer, call, timer,
                 portsClosed, beat, publishError, dispatched>>

(* commandConsumer.consume() creates the BullMQ Worker. *)
Consume ==
  /\ main = "starting"
  /\ "start" \notin awaiting
  /\ main' = "consuming"
  /\ consumer' = "open"
  /\ UNCHANGED <<queueVars, life, stop, procVars, activeJobs, call, loopVars,
                 portsClosed, beat, publishError, dispatched>>

(* The consumer emits "ready". *)
BecomeReady ==
  /\ main = "consuming"
  /\ main' = "greeting"
  /\ subscribed' = TRUE
  /\ lifecycle' = "ready"
  /\ timer' = TRUE
  /\ life' = life
  /\ HeartbeatTick({"start"}, "ready")
  /\ UNCHANGED <<queueVars, stop, started, activeJobs, consumer, call,
                 portsClosed, beat, publishError, dispatched>>

(* start() returns and main() installs the signal handlers. *)
StartReturns ==
  /\ main = "greeting"
  /\ "start" \notin awaiting
  /\ main' = "running"
  /\ UNCHANGED <<queueVars, life, stop, procVars, activeJobs, consumer, call, loopVars,
                 portsClosed, beat, publishError, dispatched>>

(* The consumer emits "error" first: start() gives up without closing the  *)
(* BullMQ Worker it has created.                                           *)
ConsumeFails ==
  /\ StartMayFail
  /\ main = "consuming"
  /\ main' = "failing"
  /\ started' = FALSE
  /\ lifecycle' = "offline"
  /\ life' = life
  /\ HeartbeatTick({"start"}, "offline")
  /\ UNCHANGED <<queueVars, stop, activeJobs, subscribed, consumer, call, timer,
                 portsClosed, beat, publishError, dispatched>>

(* main() sets process.exitCode; the open connections keep the process up. *)
StartThrows ==
  /\ main = "failing"
  /\ "start" \notin awaiting
  /\ main' = "failed"
  /\ UNCHANGED <<queueVars, life, stop, procVars, activeJobs, consumer, call, loopVars,
                 portsClosed, beat, publishError, dispatched>>

-----------------------------------------------------------------------------
(* shutdown(signal) calls stop().  (The last life is not asked to stop.) *)
Signal(s) ==
  /\ main = "running"
  /\ life < MaxLives
  /\ stop[s] = "none"
  /\ started
  /\ stop' = [stop EXCEPT ![s] = "draining"]
  /\ lifecycle' = "draining"
  /\ timer' = FALSE
  /\ life' = life
  /\ HeartbeatTick({s}, "draining")
  /\ UNCHANGED <<queueVars, main, started, activeJobs, subscribed, consumer, call,
                 portsClosed, beat, publishError, dispatched>>

(* stop() of a worker that is not started returns at once, and shutdown    *)
(* goes on to close the ports.                                             *)
SignalAfterStop(s) ==
  /\ main = "running"
  /\ stop[s] = "none"
  /\ ~started
  /\ stop' = [stop EXCEPT ![s] = "stopped"]
  /\ portsClosed' = TRUE
  /\ UNCHANGED <<queueVars, life, main, procVars, activeJobs, consumer, call, loopVars,
                 beat, publishError, dispatched>>

(* stop() takes the subscription and closes it, which lets the consumer    *)
(* hand over no further job.                                               *)
CloseConsumer(s) ==
  /\ stop[s] = "draining"
  /\ s \notin awaiting
  /\ subscribed
  /\ subscribed' = FALSE
  /\ consumer' = "closing"
  /\ stop' = [stop EXCEPT ![s] = "closing"]
  /\ UNCHANGED <<queueVars, life, main, started, lifecycle, activeJobs, call, loopVars,
                 portsClosed, beat, publishError, dispatched>>

(* Mutant of GoOffline: the last snapshot is taken before setLifecycle(). *)
FarewellTooEarly(s) ==
  /\ started' = FALSE
  /\ lifecycle' = "offline"
  /\ stop' = [stop EXCEPT ![s] = "farewell"]
  /\ life' = life
  /\ HeartbeatTick({s}, lifecycle)

(* Mutant of GoOffline: the worker still counts as started. *)
StillStarted(s) ==
  /\ started' = started
  /\ lifecycle' = "offline"
  /\ stop' = [stop EXCEPT ![s] = "farewell"]
  /\ life' = life
  /\ HeartbeatTick({s}, "offline")

(* The subscription is closed: the worker is offline and says so. *)
GoOffline(s) ==
  /\ started' = FALSE
  /\ lifecycle' = "offline"
  /\ stop' = [stop EXCEPT ![s] = "farewell"]
  /\ life' = life
  /\ HeartbeatTick({s}, "offline")

(* Mutant of CallsDone: the consumer is closed by force. *)
CloseByForce == TRUE

CallsDone == \A c \in Commands : call[c] = "none"

(* worker.close() resolves once the running job is finished and recorded. *)
ConsumerClosed(s) ==
  /\ stop[s] = "closing"
  /\ CallsDone
  /\ consumer' = "none"
  /\ GoOffline(s)
  /\ UNCHANGED <<queueVars, main, activeJobs, subscribed, call, timer,
                 portsClosed, beat, publishError, dispatched>>

(* Another stop() has already taken the subscription: nothing to wait for. *)
NothingToClose(s) ==
  /\ stop[s] = "draining"
  /\ s \notin awaiting
  /\ ~subscribed
  /\ GoOffline(s)
  /\ UNCHANGED <<queueVars, main, activeJobs, subscribed, consumer, call, timer,
                 portsClosed, beat, publishError, dispatched>>

(* stop() returns and shutdown closes the ports. *)
StopReturns(s) ==
  /\ stop[s] = "farewell"
  /\ s \notin awaiting
  /\ stop' = [stop EXCEPT ![s] = "stopped"]
  /\ portsClosed' = TRUE
  /\ UNCHANGED <<queueVars, life, main, procVars, activeJobs, consumer, call, loopVars,
                 beat, publishError, dispatched>>

(* All that the process held is gone; the next life starts from scratch. *)
Vanish ==
  /\ main' = "down"
  /\ stop' = [s \in Signals |-> "none"]
  /\ started' = FALSE
  /\ lifecycle' = "offline"
  /\ activeJobs' = 0
  /\ subscribed' = FALSE
  /\ consumer' = "none"
  /\ call' = [c \in Commands |-> "none"]
  /\ timer' = FALSE
  /\ inFlight' = NoBeat
  /\ awaiting' = {}
  /\ portsClosed' = FALSE
  /\ publishError' = FALSE
  /\ UNCHANGED <<queueVars, life, beat, dispatched>>

(* Nothing is left on the event loop. *)
Exit ==
  /\ \E s \in Signals : stop[s] = "stopped"
  /\ \A s \in Signals : stop[s] \in {"none", "stopped"}
  /\ consumer = "none"
  /\ inFlight = NoBeat
  /\ Vanish

(* The process is killed, or dies of a signal it has no handler for yet.   *)
(* The last life is not killed, so that liveness can be asked of it.       *)
Crash ==
  /\ main # "down"
  /\ life < MaxLives
  /\ Vanish

-----------------------------------------------------------------------------
(* The backend enqueues a command. *)
Enqueue(c) ==
  /\ job[c] = "absent"
  /\ job' = [job EXCEPT ![c] = "waiting"]
  /\ UNCHANGED <<stalls, life, main, stop, procVars, activeJobs, consumer, call, loopVars,
                 portsClosed, beat, publishError, dispatched>>

(* !this.started || this.lifecycle !== "ready", negated *)
Ready == started /\ lifecycle = "ready"

(* Mutant of CountJob: the job is only discounted when it ends. *)
CountNothing == UNCHANGED activeJobs

CountJob == activeJobs' = IF Ready THEN activeJobs + 1 ELSE activeJobs

(* The consumer calls processCommand(), which refuses with                 *)
(* worker_not_ready (assertCommandHandled then throws) or dispatches.      *)
Deliver(c) ==
  /\ consumer = "open"
  /\ job[c] = "waiting"
  /\ \A d \in Commands : call[d] = "none"
  /\ job' = [job EXCEPT ![c] = "active"]
  /\ call' = [call EXCEPT ![c] = IF Ready THEN "handling" ELSE "threw"]
  /\ CountJob
  /\ dispatched' = IF Ready THEN dispatched \cup {c} ELSE dispatched
  /\ UNCHANGED <<stalls, life, main, stop, procVars, consumer, loopVars,
                 portsClosed, beat, publishError>>

(* The handler ends: completed, or deferred, rejected or thrown, all three *)
(* of which make the callback throw.                                       *)
HandlerEnds(c, outcome) ==
  /\ call[c] = "handling"
  /\ call' = [call EXCEPT ![c] = outcome]
  /\ activeJobs' = activeJobs - 1
  /\ UNCHANGED <<queueVars, life, main, stop, procVars, consumer, loopVars,
                 portsClosed, beat, publishError, dispatched>>

(* Mutant of Verdict: a job that failed is tried again. *)
Retry(result) == IF result = "succeeded" THEN "completed" ELSE "waiting"

Verdict(result) == IF result = "succeeded" THEN "completed" ELSE "failed"

(* BullMQ records the outcome; a job has a single attempt. *)
Record(c) ==
  /\ call[c] \in {"succeeded", "threw"}
  /\ job' = [job EXCEPT ![c] = Verdict(call[c])]
  /\ call' = [call EXCEPT ![c] = "none"]
  /\ UNCHANGED <<stalls, life, main, stop, procVars, activeJobs, consumer, loopVars,
                 portsClosed, beat, publishError, dispatched>>

(* A worker finds an active job whose worker is gone: it goes back to the  *)
(* queue once (maxStalledCount 1) and fails the second time.               *)
TakeBack(c) ==
  /\ consumer = "open"
  /\ job[c] = "active"
  /\ call[c] = "none"
  /\ IF stalls[c] = 0
     THEN /\ job' = [job EXCEPT ![c] = "waiting"]
          /\ stalls' = [stalls EXCEPT ![c] = 1]
     ELSE /\ job' = [job EXCEPT ![c] = "failed"]
          /\ UNCHANGED stalls
  /\ UNCHANGED <<life, main, stop, procVars, activeJobs, consumer, call, loopVars,
                 portsClosed, beat, publishError, dispatched>>

StartStep == Boot \/ Consume \/ BecomeReady \/ StartReturns \/ ConsumeFails \/ StartThrows
StopStep(s) ==
  Signal(s) \/ SignalAfterStop(s) \/ CloseConsumer(s) \/ ConsumerClosed(s)
    \/ NothingToClose(s) \/ StopReturns(s)
BeatStep == TimerFires \/ Publish \/ PublishFails \/ BeatExpires
JobStep(c) ==
  \/ Enqueue(c) \/ Deliver(c) \/ Record(c) \/ TakeBack(c)
  \/ \E outcome \in {"succeeded", "threw"} : HandlerEnds(c, outcome)

Next ==
  \/ StartStep \/ BeatStep \/ Exit \/ Crash
  \/ \E s \in Signals : StopStep(s)
  \/ \E c \in Commands : JobStep(c)

Spec == Init /\ [][Next]_vars

(* The container is restarted (docker-compose: restart unless-stopped), an *)
(* event loop that is up runs what is due, Redis answers, BullMQ hands     *)
(* over waiting jobs in turn, and handlers end.                            *)
FairSpec ==
  /\ Spec
  /\ WF_vars(Boot) /\ WF_vars(Consume) /\ WF_vars(BecomeReady \/ ConsumeFails)
  /\ WF_vars(StartReturns) /\ WF_vars(StartThrows) /\ WF_vars(Exit)
  /\ WF_vars(Publish \/ PublishFails)
  /\ \A s \in Signals : /\ WF_vars(CloseConsumer(s) \/ NothingToClose(s))
                        /\ WF_vars(ConsumerClosed(s))
                        /\ WF_vars(StopReturns(s))
  /\ \A c \in Commands : /\ SF_vars(Deliver(c))
                         /\ WF_vars(\E o \in {"succeeded", "threw"} : HandlerEnds(c, o))
                         /\ WF_vars(Record(c))
                         /\ SF_vars(TakeBack(c))

-----------------------------------------------------------------------------
(* One termination signal: two stop() calls do not wait for each other. *)
OneStop == \A r, s \in Signals : stop[r] # "none" /\ stop[s] # "none" => r = s

(* A worker that says it is offline, and a shutdown that closes the Redis, *)
(* Telegram and database connections, leave no handler in the middle of    *)
(* its work: a stop() that is the only one waits for the running job.      *)
QuietWhenOffline ==
  /\ main # "down"
  /\ lifecycle = "offline" \/ portsClosed
  /\ OneStop
  => activeJobs = 0 /\ \A c \in Commands : call[c] # "handling"

(* When the only stop() has returned and no publication failed, the last   *)
(* heartbeat anyone can read says offline with no job, although tick() may *)
(* have answered one of its calls with an older snapshot.                  *)
FarewellIsLast ==
  \A s \in Signals : OneStop /\ stop[s] = "stopped" /\ ~publishError =>
    beat = NoBeat \/ (beat.lifecycle = "offline" /\ beat.activeJobs = 0)

(* The heartbeats of a worker never go back: what is read in Redis is      *)
(* never followed by an earlier stage of the same or of a previous life,   *)
(* with any number of stop() calls and timers sharing one publication.     *)
Stage(l) == CASE l = "starting" -> 0 [] l = "ready" -> 1 [] l = "draining" -> 2 [] OTHER -> 3
Age(b) == 4 * b.emittedAt + Stage(b.lifecycle)
BeatsMoveForward ==
  [][beat # NoBeat /\ beat' # NoBeat => Age(beat) <= Age(beat')]_vars

(* Both: the heartbeat that is read never goes back, and ends offline. *)
HeartbeatsInOrder == []FarewellIsLast /\ BeatsMoveForward

(* A handler is entered a second time for a command only when the worker   *)
(* of the first time died; a handler that threw is not run again, so a     *)
(* message is not sent twice by a retry.                                   *)
RedispatchOnlyAfterDeath ==
  [][\A c \in Commands :
       call[c] = "none" /\ call'[c] = "handling" /\ c \in dispatched => stalls[c] = 1]_vars

(* Every enqueued command ends completed or failed, over crashes, stops,   *)
(* failed starts and restarts.                                             *)
CommandSettles ==
  \A c \in Commands : job[c] = "waiting" ~> job[c] \in {"completed", "failed"}

(* telegram_vds_full_prompt_updated.txt: a worker that is offline loses no *)
(* task, that is, a command fails only if a handler has had it.            *)
NoCommandFailsUnhandled == \A c \in Commands : job[c] = "failed" => c \in dispatched
=============================================================================
