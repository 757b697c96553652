-------------------------- MODULE WorkerRuntimeProofs --------------------------
(***************************************************************************)
(* Theorems about WorkerRuntime, for any commands, signals and lives.      *)
(***************************************************************************)
EXTENDS WorkerRuntime, TLAPS

(* A process that is there has been started, and only it has a timer. *)
LifeInv ==
  /\ main # "down" => life # 0
  /\ timer => main # "down"

(* BullMQ runs one job at a time, and activeJobs counts it while it is     *)
(* handled.                                                                *)
CountInv ==
  /\ \A c, d \in Commands : call[c] # "none" /\ call[d] # "none" => c = d
  /\ (\E c \in Commands : call[c] = "handling") => activeJobs = 1
  /\ (\A c \in Commands : call[c] # "handling") => activeJobs = 0

Up == main \in {"greeting", "running"}

(* Before start() is through no job is handled, and nobody stops.  Until   *)
(* the first signal the worker is ready.                                   *)
StartInv ==
  /\ main # "running" => \A s \in Signals : stop[s] = "none"
  /\ main \in {"starting", "consuming"} => started
  /\ ~Up => /\ \A c \in Commands : call[c] # "handling"
            /\ lifecycle # "ready" /\ ~portsClosed
  /\ Up /\ (\A s \in Signals : stop[s] = "none") =>
       started /\ lifecycle = "ready" /\ subscribed /\ ~portsClosed

(* A stop() that is the only one has a subscription to close, and when it  *)
(* has closed it no callback is left and none can come.                    *)
StopInv ==
  OneStop => \A s \in Signals :
    /\ stop[s] = "draining" => subscribed
    /\ stop[s] \in {"draining", "closing"} => lifecycle = "draining" /\ ~portsClosed
    /\ stop[s] \in {"farewell", "stopped"} => consumer = "none" /\ CallsDone

RuntimeInv == TypeOK /\ LifeInv /\ CountInv /\ StartInv /\ StopInv

(* The callback of a job runs while the job is active, and a job that was  *)
(* dispatched is not waiting again unless it was taken back.               *)
DispatchInv ==
  \A c \in Commands :
    /\ call[c] # "none" => job[c] = "active"
    /\ c \in dispatched /\ stalls[c] = 0 => job[c] \notin {"absent", "waiting"}

(* The stage of the process only advances within a life, and what is being *)
(* published, or was, is of this stage of this life at most.               *)
OrderInv ==
  /\ started => lifecycle # "offline"
  /\ main \in {"starting", "consuming"} => lifecycle = "starting"
  /\ inFlight # NoBeat => /\ main # "down" /\ inFlight.emittedAt = life
                          /\ Stage(inFlight.lifecycle) <= Stage(lifecycle)
  /\ beat # NoBeat =>
       \/ beat.emittedAt < life
       \/ /\ beat.emittedAt = life
          /\ Stage(beat.lifecycle) <= Stage(lifecycle)
          /\ inFlight # NoBeat => Stage(beat.lifecycle) <= Stage(inFlight.lifecycle)

(* A stop() that is the only one waits for the snapshots of before, so     *)
(* that its last one is its own.                                           *)
Farewell(b) == b.lifecycle = "offline" /\ b.activeJobs = 0
Said == publishError \/ (inFlight = NoBeat /\ (beat = NoBeat \/ Farewell(beat)))

FarewellInv ==
  OneStop => \A s \in Signals :
    /\ stop[s] # "none" => ~timer
    /\ stop[s] = "draining" /\ s \notin awaiting => inFlight = NoBeat
    /\ stop[s] = "closing" => inFlight = NoBeat
    /\ stop[s] = "farewell" => Said \/ (s \in awaiting /\ Farewell(inFlight))
    /\ stop[s] = "stopped" => Said

-----------------------------------------------------------------------------
(* The first life has not begun. *)
LEMMA InitHolds == Init => RuntimeInv /\ DispatchInv
<1> SUFFICES ASSUME Init PROVE RuntimeInv /\ DispatchInv
  OBVIOUS
<1> USE DEF Init
<1>1. TypeOK
  <2>1. 0 \in 0 .. MaxLives /\ 0 \in 0 .. 1
    BY LivesAssumption
  <2>2. job \in [Commands -> {"absent", "waiting", "active", "completed", "failed"}]
    OBVIOUS
  <2>3. stalls \in [Commands -> 0 .. 1]
    BY <2>1
  <2>4. stop \in [Signals -> {"none", "draining", "closing", "farewell", "stopped"}]
    OBVIOUS
  <2>5. call \in [Commands -> {"none", "handling", "succeeded", "threw"}]
    OBVIOUS
  <2> QED
    BY <2>1, <2>2, <2>3, <2>4, <2>5 DEF TypeOK, Lifecycles
<1>2. LifeInv /\ CountInv /\ StartInv /\ StopInv
  BY DEF LifeInv, CountInv, StartInv, StopInv, Up
<1>3. DispatchInv
  BY DEF DispatchInv
<1> QED
  BY <1>1, <1>2, <1>3 DEF RuntimeInv

(* The heartbeat taken by tick() is one. *)
LEMMA TickTyped ==
  ASSUME TypeOK, NEW callers \in SUBSET Callers, NEW l \in Lifecycles,
         HeartbeatTick(callers, l), life' \in 1 .. MaxLives
  PROVE  inFlight' \in Beats \cup {NoBeat} /\ awaiting' \in SUBSET Callers
BY DEF TypeOK, HeartbeatTick, Beats

(* Heartbeats concern nothing else. *)
LEMMA BeatSteps ==
  ASSUME RuntimeInv, BeatStep
  PROVE  RuntimeInv'
<1> USE DEF RuntimeInv
<1>1. TypeOK'
  <2>1. CASE TimerFires
    <3>1. life' \in 1 .. MaxLives
      BY <2>1, LivesAssumption DEF TimerFires, TypeOK, LifeInv
    <3>2. inFlight' \in Beats \cup {NoBeat} /\ awaiting' \in SUBSET Callers
      BY <2>1, <3>1, TickTyped DEF TimerFires, TypeOK
    <3> QED
      BY <2>1, <3>2 DEF TimerFires, TypeOK, queueVars, procVars
  <2>2. CASE Publish
    BY <2>2 DEF Publish, TypeOK, queueVars, procVars
  <2>3. CASE PublishFails
    BY <2>3 DEF PublishFails, TypeOK, queueVars, procVars
  <2>4. CASE BeatExpires
    BY <2>4 DEF BeatExpires, TypeOK, queueVars, procVars, loopVars
  <2> QED
    BY <2>1, <2>2, <2>3, <2>4 DEF BeatStep
<1>2. UNCHANGED <<life, main, stop, procVars, activeJobs, consumer, call, timer, portsClosed>>
  BY DEF BeatStep, TimerFires, Publish, PublishFails, BeatExpires, loopVars
<1>3. LifeInv' /\ CountInv' /\ StartInv' /\ StopInv'
  BY <1>2 DEF LifeInv, CountInv, StartInv, StopInv, Up, OneStop, CallsDone, procVars
<1> QED
  BY <1>1, <1>3

(* main() goes one step further. *)
LEMMA StartSteps ==
  ASSUME RuntimeInv, StartStep
  PROVE  RuntimeInv'
<1> USE DEF RuntimeInv
<1>1. CASE Consume \/ StartReturns \/ StartThrows
  <2> USE <1>1 DEF Consume, StartReturns, StartThrows, queueVars, procVars, loopVars
  <2>1. TypeOK'
    BY DEF TypeOK
  <2>2. LifeInv' /\ CountInv' /\ StartInv'
    BY DEF LifeInv, CountInv, StartInv, Up
  <2>3. StopInv'
    BY DEF StopInv, StartInv, OneStop, CallsDone
  <2> QED
    BY <2>1, <2>2, <2>3
<1>2. CASE Boot \/ BecomeReady \/ ConsumeFails
  <2> USE <1>2 DEF Boot, BecomeReady, ConsumeFails, queueVars, procVars, loopVars
  <2>1. life' \in 1 .. MaxLives
    BY LivesAssumption DEF TypeOK, LifeInv
  <2>2. inFlight' \in Beats \cup {NoBeat} /\ awaiting' \in SUBSET Callers
    BY <2>1, TickTyped DEF Lifecycles, Callers
  <2>3. TypeOK'
    <3>1. main' \in {"starting", "greeting", "failing"} /\ lifecycle' \in Lifecycles
      BY DEF Lifecycles
    <3>2. started' \in BOOLEAN /\ subscribed' \in BOOLEAN /\ timer' \in BOOLEAN
      BY DEF TypeOK
    <3>3. UNCHANGED <<job, stalls, stop, activeJobs, consumer, call, portsClosed, beat,
                      publishError, dispatched>>
      OBVIOUS
    <3> QED
      BY <2>1, <2>2, <3>1, <3>2, <3>3 DEF TypeOK
  <2>4. LifeInv' /\ CountInv'
    BY <2>1 DEF LifeInv, CountInv
  <2>5. StartInv'
    BY DEF StartInv, Up
  <2>6. StopInv'
    BY DEF StopInv, StartInv
  <2> QED
    BY <2>3, <2>4, <2>5, <2>6
<1> QED
  BY <1>1, <1>2 DEF StartStep

(* One stop() goes one step further. *)
LEMMA StopSteps ==
  ASSUME RuntimeInv, NEW s \in Signals, StopStep(s)
  PROVE  RuntimeInv'
<1> USE DEF RuntimeInv
<1>0. main = "running" /\ main' = main /\ UNCHANGED <<job, stalls, life, call, activeJobs, beat, publishError, dispatched>>
  BY DEF StopStep, Signal, SignalAfterStop, CloseConsumer, ConsumerClosed, NothingToClose,
         StopReturns, GoOffline, StartInv, queueVars
<1>1. life' \in 1 .. MaxLives
  BY <1>0, LivesAssumption DEF TypeOK, LifeInv
<1>2. OneStop' => OneStop /\ \A r \in Signals : r # s => stop[r] = "none" /\ stop'[r] = "none"
  BY DEF StopStep, Signal, SignalAfterStop, CloseConsumer, ConsumerClosed, NothingToClose,
         StopReturns, GoOffline, OneStop, TypeOK
<1>3. CASE Signal(s)
  <2>1. inFlight' \in Beats \cup {NoBeat} /\ awaiting' \in SUBSET Callers
    BY <1>1, <1>3, TickTyped DEF Signal, Lifecycles, Callers
  <2>2. TypeOK'
    BY <1>3, <2>1 DEF Signal, TypeOK, Lifecycles, queueVars
  <2>3. LifeInv' /\ CountInv' /\ StartInv'
    BY <1>0, <1>3 DEF Signal, LifeInv, CountInv, StartInv, Up, TypeOK, queueVars
  <2>4. StopInv'
    BY <1>0, <1>2, <1>3 DEF Signal, StopInv, StartInv, Up, TypeOK, queueVars
  <2> QED
    BY <2>2, <2>3, <2>4
<1>4. CASE SignalAfterStop(s) \/ CloseConsumer(s) \/ StopReturns(s)
  <2> USE <1>4 DEF SignalAfterStop, CloseConsumer, StopReturns, queueVars, procVars, loopVars
  <2>1. TypeOK'
    <3>1. stop' \in [Signals -> {"none", "draining", "closing", "farewell", "stopped"}]
      BY DEF TypeOK
    <3>2. subscribed' \in BOOLEAN /\ portsClosed' \in BOOLEAN
      BY DEF TypeOK
    <3>3. consumer' \in {"none", "open", "closing"}
      BY DEF TypeOK
    <3>4. UNCHANGED <<job, stalls, life, main, started, lifecycle, activeJobs, call, timer,
                      inFlight, awaiting, beat, publishError, dispatched>>
      OBVIOUS
    <3> QED
      BY <3>1, <3>2, <3>3, <3>4 DEF TypeOK
  <2>2. LifeInv' /\ CountInv' /\ StartInv'
    BY <1>0 DEF LifeInv, CountInv, StartInv, Up, TypeOK
  <2>3. StopInv'
    BY <1>0, <1>2 DEF StopInv, StartInv, Up, TypeOK, CallsDone
  <2> QED
    BY <2>1, <2>2, <2>3
<1>5. CASE ConsumerClosed(s) \/ NothingToClose(s)
  <2> USE <1>5 DEF ConsumerClosed, NothingToClose, GoOffline, queueVars
  <2>1. inFlight' \in Beats \cup {NoBeat} /\ awaiting' \in SUBSET Callers
    BY <1>1, TickTyped DEF Lifecycles, Callers
  <2>2. TypeOK'
    BY <2>1 DEF TypeOK, Lifecycles
  <2>3. LifeInv' /\ CountInv' /\ StartInv'
    BY <1>0 DEF LifeInv, CountInv, StartInv, Up, TypeOK
  <2>4. StopInv'
    BY <1>0, <1>2 DEF StopInv, TypeOK, CallsDone
  <2> QED
    BY <2>2, <2>3, <2>4
<1> QED
  BY <1>3, <1>4, <1>5 DEF StopStep

(* A job moves on, in the queue or in the process. *)
LEMMA JobSteps ==
  ASSUME RuntimeInv, NEW c \in Commands, JobStep(c)
  PROVE  RuntimeInv'
<1> USE DEF RuntimeInv
<1>0. UNCHANGED <<life, main, stop, started, lifecycle, subscribed, consumer, loopVars, portsClosed, beat, publishError>>
  BY DEF JobStep, Enqueue, Deliver, HandlerEnds, Record, TakeBack, procVars, queueVars
<1>1. CASE Enqueue(c) \/ TakeBack(c)
  <2> USE <1>1, <1>0 DEF Enqueue, TakeBack, loopVars
  <2>1. TypeOK'
    BY DEF TypeOK
  <2>2. LifeInv' /\ CountInv' /\ StartInv' /\ StopInv'
    BY DEF LifeInv, CountInv, StartInv, StopInv, Up, OneStop, CallsDone
  <2> QED
    BY <2>1, <2>2
<1>2. CASE Deliver(c)
  <2> USE <1>2, <1>0 DEF Deliver, CountJob, loopVars
  <2>1. call' = [call EXCEPT ![c] = IF Ready THEN "handling" ELSE "threw"] /\ activeJobs = 0
    BY DEF CountInv
  <2>2. TypeOK'
    BY <2>1 DEF TypeOK
  <2>3. LifeInv' /\ CountInv'
    BY <2>1 DEF LifeInv, CountInv, TypeOK
  <2>4. StartInv'
    BY <2>1 DEF StartInv, Up, TypeOK, Ready
  <2>5. StopInv'
    BY <2>1 DEF StopInv, OneStop
  <2> QED
    BY <2>2, <2>3, <2>4, <2>5
<1>3. ASSUME NEW outcome \in {"succeeded", "threw"}, HandlerEnds(c, outcome)
      PROVE  RuntimeInv'
  <2> USE <1>3, <1>0 DEF HandlerEnds, queueVars, loopVars
  <2>1. activeJobs = 1 /\ activeJobs' = 0
    BY DEF CountInv
  <2>2. TypeOK'
    BY <2>1 DEF TypeOK
  <2>3. LifeInv' /\ CountInv'
    BY <2>1 DEF LifeInv, CountInv, TypeOK
  <2>4. StartInv' /\ StopInv'
    BY DEF StartInv, StopInv, Up, OneStop, CallsDone, TypeOK
  <2> QED
    BY <2>2, <2>3, <2>4
<1>4. CASE Record(c)
  <2> USE <1>4, <1>0 DEF Record, Verdict, loopVars
  <2>1. TypeOK'
    BY DEF TypeOK
  <2>2. LifeInv' /\ CountInv'
    BY DEF LifeInv, CountInv, TypeOK
  <2>3. StartInv' /\ StopInv'
    BY DEF StartInv, StopInv, Up, OneStop, CallsDone, TypeOK
  <2> QED
    BY <2>1, <2>2, <2>3
<1> QED
  BY <1>1, <1>2, <1>3, <1>4 DEF JobStep

(* The process ends. *)
LEMMA Vanishing ==
  ASSUME RuntimeInv, Vanish
  PROVE  RuntimeInv'
<1> USE DEF RuntimeInv, Vanish, queueVars
<1>1. TypeOK'
  BY DEF TypeOK, Lifecycles
<1>2. LifeInv' /\ CountInv' /\ StartInv' /\ StopInv'
  BY DEF LifeInv, CountInv, StartInv, StopInv, Up, TypeOK
<1> QED
  BY <1>1, <1>2

(* RuntimeInv holds in every state. *)
LEMMA Runtime == Spec => []RuntimeInv
<1>1. RuntimeInv /\ [Next]_vars => RuntimeInv'
  <2> SUFFICES ASSUME RuntimeInv, [Next]_vars PROVE RuntimeInv'
    OBVIOUS
  <2>1. CASE Exit \/ Crash
    BY <2>1, Vanishing DEF Exit, Crash
  <2>2. CASE UNCHANGED vars
    BY <2>2 DEF vars, RuntimeInv, TypeOK, LifeInv, CountInv, StartInv, StopInv, Up, OneStop, CallsDone
  <2> QED
    BY <2>1, <2>2, StartSteps, BeatSteps, StopSteps, JobSteps DEF Next
<1> QED
  BY <1>1, InitHolds, PTL DEF Spec

-----------------------------------------------------------------------------
(* The fields of the process and the queue keep their types; in particular *)
(* activeJobs never becomes negative. *)
THEOREM Typing == Spec => []TypeOK
<1>1. RuntimeInv => TypeOK
  BY DEF RuntimeInv
<1> QED
  BY <1>1, Runtime, PTL

(* A worker that is offline or has closed its connections handles no job,  *)
(* as long as it was stopped once.                                         *)
THEOREM QuietWhenOfflineHolds == Spec => []QuietWhenOffline
<1>1. RuntimeInv => QuietWhenOffline
  <2> SUFFICES ASSUME RuntimeInv, main # "down", lifecycle = "offline" \/ portsClosed, OneStop
               PROVE  \A c \in Commands : call[c] # "handling"
    BY DEF QuietWhenOffline, RuntimeInv, CountInv
  <2>1. CASE ~Up
    BY <2>1 DEF RuntimeInv, StartInv
  <2>2. CASE Up
    <3>1. PICK s \in Signals : stop[s] # "none"
      BY <2>2 DEF RuntimeInv, StartInv
    <3>2. stop[s] \in {"farewell", "stopped"}
      BY <3>1 DEF RuntimeInv, StopInv, TypeOK
    <3> QED
      BY <3>2 DEF RuntimeInv, StopInv, CallsDone
  <2> QED
    BY <2>1, <2>2
<1> QED
  BY <1>1, Runtime, PTL

-----------------------------------------------------------------------------
(* DispatchInv holds in every state. *)
LEMMA Dispatches == Spec => []DispatchInv
<1>1. TypeOK /\ DispatchInv /\ [Next]_vars => DispatchInv'
  <2> SUFFICES ASSUME TypeOK, DispatchInv, [Next]_vars PROVE DispatchInv'
    OBVIOUS
  <2>1. ASSUME NEW c \in Commands, JobStep(c)
        PROVE  DispatchInv'
    BY <2>1 DEF JobStep, Enqueue, Deliver, HandlerEnds, Record, Verdict, TakeBack, DispatchInv,
                TypeOK, queueVars
  <2>2. CASE Exit \/ Crash
    BY <2>2 DEF Exit, Crash, Vanish, DispatchInv, TypeOK, queueVars
  <2>3. ASSUME UNCHANGED <<job, stalls, call, dispatched>>
        PROVE  DispatchInv'
    BY <2>3 DEF DispatchInv
  <2>4. CASE StartStep \/ BeatStep \/ (\E s \in Signals : StopStep(s)) \/ UNCHANGED vars
    BY <2>3, <2>4 DEF StartStep, Boot, Consume, BecomeReady, StartReturns, ConsumeFails, StartThrows,
         BeatStep, TimerFires, Publish, PublishFails, BeatExpires,
         StopStep, Signal, SignalAfterStop, CloseConsumer, ConsumerClosed, NothingToClose,
         StopReturns, queueVars, vars
  <2> QED
    BY <2>1, <2>2, <2>4 DEF Next
<1> QED
  BY <1>1, InitHolds, Typing, PTL DEF Spec

(* Only the death of a worker in the middle of a command has a handler     *)
(* entered again for it.                                                   *)
THEOREM RedispatchOnlyAfterDeathHolds == Spec => RedispatchOnlyAfterDeath
<1> DEFINE Redispatch == \A c \in Commands :
             call[c] = "none" /\ call'[c] = "handling" /\ c \in dispatched => stalls[c] = 1
<1>1. TypeOK /\ DispatchInv /\ [Next]_vars => [Redispatch]_vars
  <2> SUFFICES ASSUME TypeOK, DispatchInv, Next,
                      NEW c \in Commands, call[c] = "none", call'[c] = "handling", c \in dispatched
               PROVE  stalls[c] = 1
    OBVIOUS
  <2>1. Deliver(c)
    BY DEF Next, StartStep, Boot, Consume, BecomeReady, StartReturns, ConsumeFails, StartThrows,
         BeatStep, TimerFires, Publish, PublishFails, BeatExpires, Exit, Crash, Vanish,
         StopStep, Signal, SignalAfterStop, CloseConsumer, ConsumerClosed, NothingToClose,
         StopReturns, JobStep, Enqueue, Deliver, HandlerEnds, Record, TakeBack, TypeOK, queueVars
  <2> QED
    BY <2>1 DEF Deliver, DispatchInv, TypeOK
<1> QED
  BY <1>1, Typing, Dispatches, PTL DEF Spec, RedispatchOnlyAfterDeath

-----------------------------------------------------------------------------
(* A stage and an emission time are numbers. *)
LEMMA Stages == ASSUME NEW l PROVE Stage(l) \in 0 .. 3
BY DEF Stage

(* OrderInv holds in every state. *)
LEMMA Stepping == ASSUME RuntimeInv, OrderInv, [Next]_vars PROVE OrderInv'
<1> USE DEF OrderInv
<1>0. life \in Nat /\ (main # "down" => life # 0)
  BY LivesAssumption DEF RuntimeInv, TypeOK, LifeInv
<1>1. /\ inFlight # NoBeat => inFlight.emittedAt \in Nat
      /\ beat # NoBeat => beat.emittedAt \in Nat
  BY LivesAssumption DEF RuntimeInv, TypeOK, Beats
<1>2. \A l : Stage(l) \in 0 .. 3
  BY Stages
<1>3. Stage("starting") = 0 /\ Stage("ready") = 1 /\ Stage("draining") = 2 /\ Stage("offline") = 3
  BY DEF Stage
<1>4. CASE Boot
  BY <1>0, <1>1, <1>2, <1>3, <1>4 DEF Boot, HeartbeatTick
<1>5. CASE Consume \/ StartReturns \/ StartThrows
  BY <1>5 DEF Consume, StartReturns, StartThrows, procVars, loopVars
<1>6. CASE BecomeReady \/ ConsumeFails
  BY <1>0, <1>1, <1>2, <1>3, <1>6 DEF BecomeReady, ConsumeFails, HeartbeatTick
<1>7. CASE TimerFires
  <2>1. main # "down"
    BY <1>7 DEF TimerFires, RuntimeInv, LifeInv
  <2> QED
    BY <1>0, <1>1, <1>2, <1>7, <2>1 DEF TimerFires, HeartbeatTick, procVars
<1>8. CASE Publish \/ PublishFails \/ BeatExpires
  BY <1>0, <1>1, <1>2, <1>8 DEF Publish, PublishFails, BeatExpires, procVars, loopVars
<1>9. CASE Exit \/ Crash
  BY <1>0, <1>1, <1>2, <1>3, <1>9 DEF Exit, Crash, Vanish
<1>10. ASSUME NEW s \in Signals, StopStep(s) PROVE OrderInv'
  <2>1. main = "running"
    BY <1>10 DEF StopStep, Signal, SignalAfterStop, CloseConsumer, ConsumerClosed, NothingToClose,
         StopReturns, RuntimeInv, StartInv
  <2>2. CASE Signal(s)
    <3>1. Stage(lifecycle) <= 2
      BY <2>2, <1>3 DEF Signal, RuntimeInv, TypeOK, Lifecycles
    <3> QED
      BY <1>0, <1>1, <1>2, <1>3, <2>1, <2>2, <3>1 DEF Signal, HeartbeatTick
  <2>3. CASE SignalAfterStop(s) \/ CloseConsumer(s) \/ StopReturns(s)
    BY <2>3 DEF SignalAfterStop, CloseConsumer, StopReturns, procVars, loopVars
  <2>4. CASE ConsumerClosed(s) \/ NothingToClose(s)
    BY <1>0, <1>1, <1>2, <1>3, <2>1, <2>4 DEF ConsumerClosed, NothingToClose, GoOffline, HeartbeatTick
  <2> QED
    BY <1>10, <2>2, <2>3, <2>4 DEF StopStep
<1>11. ASSUME NEW c \in Commands, JobStep(c) PROVE OrderInv'
  BY <1>11 DEF JobStep, Enqueue, Deliver, HandlerEnds, Record, TakeBack, procVars, loopVars, queueVars
<1>12. CASE UNCHANGED vars
  BY <1>12 DEF vars
<1> QED
  BY <1>4, <1>5, <1>6, <1>7, <1>8, <1>9, <1>10, <1>11, <1>12 DEF Next, StartStep, BeatStep

(* OrderInv holds in every state. *)
LEMMA Stepwise == Spec => []OrderInv
<1>1. Init => OrderInv
  BY DEF Init, OrderInv
<1>2. RuntimeInv /\ OrderInv /\ [Next]_vars => OrderInv'
  BY Stepping
<1> QED
  BY <1>1, <1>2, Runtime, PTL DEF Spec

(* What the heartbeat key shows never goes back. *)
THEOREM BeatsMoveForwardHolds == Spec => BeatsMoveForward
<1> DEFINE Forward == beat # NoBeat /\ beat' # NoBeat => Age(beat) <= Age(beat')
<1>1. RuntimeInv /\ OrderInv /\ [Next]_vars => [Forward]_vars
  <2> SUFFICES ASSUME RuntimeInv, OrderInv, Next, beat # NoBeat, beat' # NoBeat
               PROVE  Age(beat) <= Age(beat')
    OBVIOUS
  <2>1. beat.emittedAt \in Nat
    BY LivesAssumption DEF RuntimeInv, TypeOK, Beats
  <2>2. Stage(beat.lifecycle) \in 0 .. 3 /\ Stage(inFlight.lifecycle) \in 0 .. 3
    BY Stages
  <2>3. beat' = beat \/ (Publish /\ beat' = inFlight)
    BY DEF Next, StartStep, Boot, Consume, BecomeReady, StartReturns, ConsumeFails, StartThrows,
         BeatStep, TimerFires, Publish, PublishFails, BeatExpires, Exit, Crash, Vanish,
         StopStep, Signal, SignalAfterStop, CloseConsumer, ConsumerClosed, NothingToClose,
         StopReturns, GoOffline, JobStep, Enqueue, Deliver, HandlerEnds, Record, TakeBack
  <2>4. CASE beat' = beat
    BY <2>1, <2>2, <2>4 DEF Age
  <2>5. CASE Publish /\ beat' = inFlight
    <3>1. life \in Nat /\ inFlight # NoBeat /\ inFlight.emittedAt = life
      BY <2>5, LivesAssumption DEF Publish, OrderInv, RuntimeInv, TypeOK
    <3>2. beat.emittedAt < life \/ Stage(beat.lifecycle) <= Stage(inFlight.lifecycle)
      BY <3>1 DEF OrderInv
    <3>3. beat.emittedAt <= life
      BY <2>1, <3>1 DEF OrderInv
    <3>4. 4 * beat.emittedAt + Stage(beat.lifecycle) <= 4 * life + Stage(inFlight.lifecycle)
      BY <2>1, <2>2, <3>1, <3>2, <3>3
    <3> QED
      BY <2>5, <3>1, <3>4 DEF Age
  <2> QED
    BY <2>3, <2>4, <2>5
<1> QED
  BY <1>1, Runtime, Stepwise, PTL DEF Spec, BeatsMoveForward

-----------------------------------------------------------------------------
(* FarewellInv holds in every state: the draining heartbeat that stop()    *)
(* waits for leaves none in flight, the timer takes no other, and no job   *)
(* is counted any more when the last snapshot is taken.                    *)
LEMMA Parting == ASSUME RuntimeInv, FarewellInv, [Next]_vars PROVE FarewellInv'
<1> USE DEF FarewellInv
<1>0. RuntimeInv
  OBVIOUS
<1>1. (\E s \in Signals : stop[s] # "none") => main = "running"
  BY DEF RuntimeInv, StartInv
<1>2. CASE StartStep
  <2>1. \A s \in Signals : stop'[s] = "none"
    BY <1>1, <1>2 DEF StartStep, Boot, Consume, BecomeReady, StartReturns, ConsumeFails, StartThrows,
       RuntimeInv, StartInv
  <2> QED
    BY <2>1
<1>3. CASE TimerFires
  <2>1. OneStop' => \A s \in Signals : stop'[s] = "none"
    BY <1>3 DEF TimerFires, OneStop
  <2> QED
    BY <2>1
<1>4. CASE Publish \/ PublishFails \/ BeatExpires
  BY <1>4 DEF Publish, PublishFails, BeatExpires, loopVars, OneStop, Said, Farewell
<1>5. CASE Exit \/ Crash
  BY <1>5 DEF Exit, Crash, Vanish
<1>6. ASSUME NEW c \in Commands, JobStep(c) PROVE FarewellInv'
  BY <1>6 DEF JobStep, Enqueue, Deliver, HandlerEnds, Record, TakeBack, loopVars, queueVars, OneStop,
     Said, Farewell
<1>7. ASSUME NEW s \in Signals, StopStep(s) PROVE FarewellInv'
  <2> SUFFICES ASSUME OneStop'
               PROVE  /\ stop'[s] # "none" => ~timer'
                      /\ stop'[s] = "draining" /\ s \notin awaiting' => inFlight' = NoBeat
                      /\ stop'[s] = "closing" => inFlight' = NoBeat
                      /\ stop'[s] = "farewell" => Said' \/ (s \in awaiting' /\ Farewell(inFlight)')
                      /\ stop'[s] = "stopped" => Said'
    <3>1. stop'[s] # "none"
      BY <1>7 DEF StopStep, Signal, SignalAfterStop, CloseConsumer, ConsumerClosed, NothingToClose,
         StopReturns, GoOffline, RuntimeInv, TypeOK
    <3>2. OneStop' => \A r \in Signals : r # s => stop'[r] = "none"
      BY <3>1 DEF OneStop
    <3> QED
      BY <3>2
  <2>1. OneStop /\ \A r \in Signals : r # s => stop[r] = "none"
    BY <1>7 DEF StopStep, Signal, SignalAfterStop, CloseConsumer, ConsumerClosed, NothingToClose,
       StopReturns, GoOffline, OneStop, RuntimeInv, TypeOK
  <2>2. CASE Signal(s)
    BY <2>2 DEF Signal, HeartbeatTick, RuntimeInv, TypeOK
  <2>3. ~SignalAfterStop(s)
    BY <2>1 DEF SignalAfterStop, RuntimeInv, StartInv, Up
  <2>4. CASE CloseConsumer(s)
    BY <2>1, <2>4 DEF CloseConsumer, loopVars, RuntimeInv, TypeOK
  <2>5. ~NothingToClose(s)
    BY <2>1 DEF NothingToClose, RuntimeInv, StopInv
  <2>6. CASE ConsumerClosed(s)
    <3>1. activeJobs = 0 /\ inFlight = NoBeat /\ ~timer
      BY <2>1, <2>6 DEF ConsumerClosed, CallsDone, RuntimeInv, CountInv
    <3>2. inFlight' = [lifecycle |-> "offline", activeJobs |-> 0, emittedAt |-> life] /\ s \in awaiting'
      BY <2>6, <3>1 DEF ConsumerClosed, GoOffline, HeartbeatTick
    <3>3. Farewell(inFlight)'
      BY <3>2 DEF Farewell
    <3> QED
      BY <2>6, <3>1, <3>2, <3>3 DEF ConsumerClosed, GoOffline, RuntimeInv, TypeOK
  <2>7. CASE StopReturns(s)
    BY <2>1, <2>7 DEF StopReturns, loopVars, Said, Farewell, RuntimeInv, TypeOK
  <2> QED
    BY <1>7, <2>2, <2>3, <2>4, <2>5, <2>6, <2>7 DEF StopStep
<1>8. CASE UNCHANGED vars
  BY <1>8 DEF vars, OneStop, Said, Farewell
<1> QED
  BY <1>2, <1>3, <1>4, <1>5, <1>6, <1>7, <1>8 DEF Next, BeatStep

(* The heartbeats of a worker are read in order, and the last one says     *)
(* that it is offline and has no job.                                      *)
THEOREM HeartbeatsInOrderHolds == Spec => HeartbeatsInOrder
<1>1. Init => FarewellInv
  BY DEF Init, FarewellInv
<1>2. RuntimeInv /\ FarewellInv /\ [Next]_vars => FarewellInv'
  BY Parting
<1>3. FarewellInv => FarewellIsLast
  BY DEF FarewellInv, FarewellIsLast, Said, Farewell
<1> QED
  BY <1>1, <1>2, <1>3, Runtime, BeatsMoveForwardHolds, PTL DEF Spec, HeartbeatsInOrder
=============================================================================
