-------------------------- MODULE PortAdaptersProofs --------------------------
(***************************************************************************)
(* Proofs about the adapters that take the place of Redis in a single      *)
(* process, and about the composition of all of them, for any sets of      *)
(* accounts, workers, tokens and commands.                                 *)
(***************************************************************************)
EXTENDS PortAdapters, AccountLockProofs, SequenceTheorems

(* A command waits exactly if it was accepted and not handed over, and it  *)
(* waits once.                                                             *)
DeliveryInv ==
  /\ DeliveryTypeOK
  /\ IsInjective(queued) /\ IsInjective(pending) /\ Range(queued) \cap Range(pending) = {}
  /\ \A c \in Commands : c \in Range(queued) \cup Range(pending)
                           <=> c \in seenIds /\ answer[c] = "none"
  /\ \A c \in Commands : answer[c] # "none" => c \in seenIds

-----------------------------------------------------------------------------
(* Each adapter behaves as it does alone. *)
LEMMA Components == AdaptersSpec => Spec /\ Memory!Spec /\ LocalSpec
<1>1. AdaptersInit => Init /\ Memory!Init /\ LocalInit
  BY DEF AdaptersInit
<1>2. [AdaptersNext]_adapterVars => [Next]_vars
  BY DEF AdaptersNext, adapterVars
<1>3. [AdaptersNext]_adapterVars => [Memory!Next]_(Memory!vars)
  BY DEF AdaptersNext, adapterVars, memoryVars, Memory!vars
<1>4. [AdaptersNext]_adapterVars => [LocalNext]_deliveryVars
  BY DEF AdaptersNext, adapterVars
<1> QED
  BY <1>1, <1>2, <1>3, <1>4, PTL DEF AdaptersSpec, Spec, Memory!Spec, LocalSpec

-----------------------------------------------------------------------------
(* What appending and taking the first do to the commands of a queue. *)
LEMMA Appending ==
  ASSUME NEW q \in Seq(Commands), NEW c \in Commands
  PROVE  /\ Append(q, c) \in Seq(Commands)
         /\ Range(Append(q, c)) = Range(q) \cup {c}
         /\ IsInjective(q) /\ c \notin Range(q) => IsInjective(Append(q, c))
<1>1. /\ Append(q, c) \in Seq(Commands)
      /\ Len(Append(q, c)) = Len(q) + 1
      /\ \A i \in 1 .. Len(q) : Append(q, c)[i] = q[i]
      /\ Append(q, c)[Len(q) + 1] = c
  BY AppendProperties
<1>2. /\ DOMAIN q = 1 .. Len(q) /\ Len(q) \in Nat
      /\ DOMAIN Append(q, c) = 1 .. Len(q) + 1
  BY <1>1, LenProperties
<1>3. Range(Append(q, c)) = Range(q) \cup {c}
  BY <1>1, <1>2 DEF Range
<1>4. ASSUME IsInjective(q), c \notin Range(q) PROVE IsInjective(Append(q, c))
  BY <1>1, <1>2, <1>4 DEF IsInjective, Range
<1> QED
  BY <1>1, <1>3, <1>4

(* Taking the first leaves the others. *)
LEMMA TakingFirst ==
  ASSUME NEW q \in Seq(Commands), q # <<>>
  PROVE  /\ Head(q) \in Range(q) /\ Head(q) \in Commands
         /\ Tail(q) \in Seq(Commands)
         /\ IsInjective(q) => /\ Range(Tail(q)) = Range(q) \ {Head(q)}
                           /\ IsInjective(Tail(q))
<1>1. /\ Head(q) \in Commands /\ Tail(q) \in Seq(Commands)
      /\ Len(Tail(q)) = Len(q) - 1
      /\ \A i \in 1 .. Len(Tail(q)) : Tail(q)[i] = q[i + 1]
  BY HeadTailProperties
<1>2. /\ DOMAIN q = 1 .. Len(q) /\ Len(q) \in Nat \ {0} /\ Head(q) = q[1]
      /\ DOMAIN Tail(q) = 1 .. Len(q) - 1
  BY <1>1, LenProperties, EmptySeq
<1>3. ASSUME IsInjective(q) PROVE IsInjective(Tail(q))
  BY <1>1, <1>2, <1>3 DEF IsInjective
<1>4. ASSUME IsInjective(q) PROVE Range(Tail(q)) = Range(q) \ {Head(q)}
  <2>1. ASSUME NEW c \in Range(Tail(q)) PROVE c \in Range(q) \ {Head(q)}
    BY <1>1, <1>2, <1>4, <2>1 DEF IsInjective, Range
  <2>2. ASSUME NEW c \in Range(q), c # Head(q) PROVE c \in Range(Tail(q))
    <3>1. PICK i \in 2 .. Len(q) : c = q[i]
      BY <1>2, <2>2 DEF Range
    <3>2. i - 1 \in 1 .. Len(q) - 1 /\ Tail(q)[i - 1] = c
      BY <1>1, <1>2, <3>1
    <3> QED
      BY <1>2, <3>2 DEF Range
  <2> QED
    BY <2>1, <2>2
<1>5. Head(q) \in Range(q)
  BY <1>2 DEF Range
<1> QED
  BY <1>1, <1>3, <1>4, <1>5

(* Waits(c) in terms of the commands in the two queues. *)
LEMMA Waiting == ASSUME NEW c PROVE Waits(c) <=> c \in Range(queued) \cup Range(pending)
BY DEF Waits, Range

-----------------------------------------------------------------------------
(* Both queues, the consumer and the worker keep their types. *)
LEMMA DeliveryTyping == LocalSpec => []DeliveryTypeOK
<1>1. LocalInit => DeliveryTypeOK
  BY EmptySeq DEF LocalInit, DeliveryTypeOK
<1>2. DeliveryTypeOK /\ [LocalNext]_deliveryVars => DeliveryTypeOK'
  <2> SUFFICES ASSUME DeliveryTypeOK, [LocalNext]_deliveryVars PROVE DeliveryTypeOK'
    OBVIOUS
  <2> USE DEF DeliveryTypeOK, Outcomes, queueVars, consumerVars, workerVars
  <2>1. ASSUME NEW c \in Commands, EnqueueLocal(c) PROVE DeliveryTypeOK'
    BY <2>1, Appending DEF EnqueueLocal
  <2>2. ASSUME NEW c \in Commands, Push(c) PROVE DeliveryTypeOK'
    <3>1. queued' \in Seq(Commands)
      BY <2>2, TakingFirst DEF Push
    <3>2. pending' \in Seq(Commands)
      <4>1. pending' = pending \/ pending' = Append(pending, c)
        BY <2>2 DEF Push
      <4>2. Append(pending, c) \in Seq(Commands)
        BY Appending
      <4> QED
        BY <4>1, <4>2
    <3>3. answer' \in [Commands -> Outcomes \cup {"none", "handling"}]
      BY <2>2 DEF Push, Hand
    <3> QED
      BY <2>2, <3>1, <3>2, <3>3 DEF Push
  <2>3. ASSUME NEW c \in Commands, NEW outcome \in Outcomes, Dispatched(c, outcome)
        PROVE  DeliveryTypeOK'
    BY <2>3 DEF Dispatched
  <2>4. ASSUME NEW c \in Commands, NEW n \in Starts, Flush(n, c) PROVE DeliveryTypeOK'
    BY <2>4, TakingFirst DEF Flush, TakeFirst, Hand
  <2>5. ASSUME NEW n \in Starts, StartLocal(n) \/ ConsumeLocal(n) PROVE DeliveryTypeOK'
    BY <2>5 DEF StartLocal, ConsumeLocal
  <2>6. ASSUME NEW n \in Starts, FlushGoesOn(n) \/ BecomeReadyLocal(n) PROVE DeliveryTypeOK'
    BY <2>6 DEF FlushGoesOn, BecomeReadyLocal
  <2>7. CASE StopLocal \/ StopEnds
    BY <2>7 DEF StopLocal, StopEnds
  <2>8. CASE UNCHANGED deliveryVars
    BY <2>8 DEF deliveryVars
  <2> QED
    BY <2>1, <2>2, <2>3, <2>4, <2>5, <2>6, <2>7, <2>8 DEF LocalNext
<1> QED
  BY <1>1, <1>2, PTL DEF LocalSpec

(* While push() would hand over the next command, somebody is emptying the *)
(* backlog of the older ones.                                              *)
LEMMA NoneLocallyStranded == LocalSpec => []NoneIsStranded
<1>1. LocalInit => NoneIsStranded
  BY DEF LocalInit, NoneIsStranded
<1>2. DeliveryTypeOK /\ NoneIsStranded /\ [LocalNext]_deliveryVars => NoneIsStranded'
  <2> SUFFICES ASSUME DeliveryTypeOK, NoneIsStranded, [LocalNext]_deliveryVars,
                      Listening', pending' # <<>>
               PROVE  \E n \in Starts : start'[n] = "flushing"
    BY DEF NoneIsStranded
  <2> USE DEF DeliveryTypeOK, NoneIsStranded, Listening, queueVars, consumerVars, workerVars
  <2>1. ASSUME NEW c \in Commands, EnqueueLocal(c) \/ Push(c) \/ (\E outcome \in Outcomes : Dispatched(c, outcome))
        PROVE  \E n \in Starts : start'[n] = "flushing"
    BY <2>1 DEF EnqueueLocal, Push, Dispatched
  <2>2. ASSUME NEW n \in Starts, NEW c \in Commands, Flush(n, c)
        PROVE  start'[n] = "flushing"
    BY <2>2 DEF Flush
  <2>3. ASSUME NEW n \in Starts, StartLocal(n) PROVE \E m \in Starts : start'[m] = "flushing"
    BY <2>3 DEF StartLocal
  <2>4. ASSUME NEW n \in Starts, ConsumeLocal(n) PROVE start'[n] = "flushing"
    BY <2>4 DEF ConsumeLocal
  <2>5. ASSUME NEW n \in Starts, BecomeReadyLocal(n) PROVE FALSE
    BY <2>5 DEF BecomeReadyLocal, BacklogDone
  <2>6. ASSUME NEW n \in Starts, FlushGoesOn(n) PROVE \E m \in Starts : start'[m] = "flushing"
    BY <2>6 DEF FlushGoesOn
  <2>7. CASE StopLocal \/ StopEnds \/ UNCHANGED deliveryVars
    BY <2>7 DEF StopLocal, StopEnds, deliveryVars
  <2> QED
    BY <2>1, <2>2, <2>3, <2>4, <2>5, <2>6, <2>7 DEF LocalNext
<1> QED
  BY <1>1, <1>2, DeliveryTyping, PTL DEF LocalSpec

-----------------------------------------------------------------------------
(* Handing over command c changes no other answer. *)
LEMMA Handing ==
  ASSUME DeliveryTypeOK, NEW c \in Commands, Hand(c)
  PROVE  /\ answer'[c] \in {"handling", "deferred"}
         /\ \A d \in Commands \ {c} : answer'[d] = answer[d]
BY DEF DeliveryTypeOK, Hand

(* DeliveryInv holds in every state. *)
LEMMA Delivering == LocalSpec => []DeliveryInv
<1>1. LocalInit => DeliveryInv
  <2> SUFFICES ASSUME LocalInit PROVE DeliveryInv
    OBVIOUS
  <2>1. DeliveryTypeOK
    BY EmptySeq DEF LocalInit, DeliveryTypeOK
  <2>2. IsInjective(<<>>) /\ Range(<<>>) = {}
    BY DEF IsInjective, Range
  <2> QED
    BY <2>1, <2>2 DEF LocalInit, DeliveryInv
<1>2. DeliveryTypeOK' /\ DeliveryInv /\ [LocalNext]_deliveryVars => DeliveryInv'
  <2> SUFFICES ASSUME DeliveryTypeOK', DeliveryInv, [LocalNext]_deliveryVars PROVE DeliveryInv'
    OBVIOUS
  <2>0. DeliveryTypeOK /\ queued \in Seq(Commands) /\ pending \in Seq(Commands)
    BY DEF DeliveryInv, DeliveryTypeOK
  <2>1. ASSUME NEW c \in Commands, EnqueueLocal(c) PROVE DeliveryInv'
    <3>1. c \notin seenIds /\ c \notin Range(queued) \cup Range(pending)
      BY <2>1 DEF EnqueueLocal, New, DeliveryInv
    <3>2. Range(queued') = Range(queued) \cup {c} /\ IsInjective(queued')
      BY <2>0, <2>1, <3>1, Appending DEF EnqueueLocal, DeliveryInv
    <3>3. UNCHANGED <<pending, answer>> /\ seenIds' = seenIds \cup {c}
      BY <2>1 DEF EnqueueLocal, consumerVars
    <3> QED
      BY <3>1, <3>2, <3>3 DEF DeliveryInv
  <2>2. ASSUME NEW c \in Commands, Push(c) PROVE DeliveryInv'
    <3>1. /\ c \in Range(queued) /\ IsInjective(queued')
          /\ Range(queued') = Range(queued) \ {c} /\ seenIds' = seenIds
      BY <2>0, <2>2, TakingFirst DEF Push, DeliveryInv
    <3>2. c \notin Range(pending) /\ answer[c] = "none" /\ c \in seenIds
      BY <3>1 DEF DeliveryInv
    <3>3. CASE Listening
      <4>1. Hand(c) /\ pending' = pending
        BY <2>2, <3>3 DEF Push
      <4>2. /\ answer'[c] # "none"
            /\ \A d \in Commands \ {c} : answer'[d] = answer[d]
        BY <2>0, <4>1, Handing
      <4> QED
        BY <3>1, <3>2, <4>1, <4>2 DEF DeliveryInv
    <3>4. CASE ~Listening
      <4>1. pending' = Append(pending, c) /\ answer' = answer
        BY <2>2, <3>4 DEF Push
      <4>2. Range(pending') = Range(pending) \cup {c} /\ IsInjective(pending')
        BY <2>0, <3>2, <4>1, Appending DEF DeliveryInv
      <4> QED
        BY <3>1, <3>2, <4>1, <4>2 DEF DeliveryInv
    <3> QED
      BY <3>3, <3>4
  <2>3. ASSUME NEW c \in Commands, NEW n \in Starts, Flush(n, c) PROVE DeliveryInv'
    <3>1. /\ c \in Range(pending) /\ IsInjective(pending')
          /\ Range(pending') = Range(pending) \ {c}
      BY <2>0, <2>3, TakingFirst DEF Flush, TakeFirst, DeliveryInv
    <3>2. c \notin Range(queued) /\ answer[c] = "none" /\ c \in seenIds
      BY <3>1 DEF DeliveryInv
    <3>3. UNCHANGED <<queued, seenIds>> /\ Hand(c)
      BY <2>3 DEF Flush, queueVars
    <3>4. /\ answer'[c] # "none"
          /\ \A d \in Commands \ {c} : answer'[d] = answer[d]
      BY <2>0, <3>3, Handing
    <3> QED
      BY <3>1, <3>2, <3>3, <3>4 DEF DeliveryInv
  <2>4. ASSUME NEW c \in Commands, NEW outcome \in Outcomes, Dispatched(c, outcome)
        PROVE  DeliveryInv'
    <3>1. UNCHANGED <<queued, pending, seenIds>>
      BY <2>4 DEF Dispatched, queueVars, consumerVars
    <3>2. \A d \in Commands : answer'[d] = "none" <=> answer[d] = "none"
      BY <2>0, <2>4 DEF Dispatched, DeliveryTypeOK, Outcomes
    <3> QED
      BY <3>1, <3>2 DEF DeliveryInv
  <2>5. ASSUME UNCHANGED <<queued, pending, seenIds, answer>> PROVE DeliveryInv'
    BY <2>5 DEF DeliveryInv
  <2> QED
    BY <2>1, <2>2, <2>3, <2>4, <2>5
    DEF LocalNext, StartLocal, ConsumeLocal, FlushGoesOn, BecomeReadyLocal, StopLocal, StopEnds,
        queueVars, consumerVars, deliveryVars
<1> QED
  BY <1>1, <1>2, DeliveryTyping, PTL DEF LocalSpec

(* A command that was handed over does not wait, and an accepted one that  *)
(* was not does.                                                           *)
LEMMA Progressing ==
  ASSUME DeliveryInv, NEW c \in Commands
  PROVE  Progress(c) = IF answer[c] = "handling" THEN "handling"
                       ELSE IF answer[c] # "none" THEN "answered"
                       ELSE IF c \notin seenIds THEN "new" ELSE "waiting"
BY Waiting DEF Progress, DeliveryInv

(* The same after a step. *)
LEMMA ProgressingNext ==
  ASSUME DeliveryInv', NEW c \in Commands
  PROVE  Progress(c)' = IF answer'[c] = "handling" THEN "handling"
                        ELSE IF answer'[c] # "none" THEN "answered"
                        ELSE IF c \notin seenIds' THEN "new" ELSE "waiting"
<1>1. Waits(c)' <=> c \in Range(queued') \cup Range(pending')
  BY DEF Waits, Range
<1> QED
  BY <1>1 DEF Progress, DeliveryInv

(* The local queue, the consumer and the worker together implement the     *)
(* delivery of commands: none is lost, handed over twice or answered       *)
(* twice.                                                                  *)
LEMMA LocallyDelivered == LocalSpec => ImplementsDelivery
<1> DEFINE progress == [c \in Commands |-> Progress(c)]
<1>1. LocalInit => Delivery!DeliveryInit
  BY DEF LocalInit, Delivery!DeliveryInit, Progress, Waits
<1>2. DeliveryInv /\ DeliveryInv' /\ [LocalNext]_deliveryVars => [Delivery!DeliveryNext]_progress
  <2> SUFFICES ASSUME DeliveryInv, DeliveryInv', [LocalNext]_deliveryVars
               PROVE  Delivery!DeliveryNext \/ progress' = progress
    OBVIOUS
  <2>1. ASSUME NEW c \in Commands, \A d \in Commands \ {c} : Progress(d)' = Progress(d)
        PROVE  progress' = [progress EXCEPT ![c] = Progress(c)']
    BY <2>1
  <2>2. ASSUME NEW c \in Commands, \A d \in Commands \ {c} : Progress(d)' = Progress(d),
               \/ Progress(c) = "new" /\ Progress(c)' = "waiting"
               \/ Progress(c) = "waiting" /\ Progress(c)' \in {"handling", "answered"}
               \/ Progress(c) = "handling" /\ Progress(c)' = "answered"
        PROVE  Delivery!DeliveryNext
    <3>1. progress[c] = Progress(c)
      OBVIOUS
    <3> QED
      BY <2>1, <2>2, <3>1 DEF Delivery!DeliveryNext, Delivery!Move
  <2>3. DeliveryTypeOK /\ \A c \in Commands : answer[c] \in Outcomes \cup {"none", "handling"}
    BY DEF DeliveryInv, DeliveryTypeOK
  <2>4. ASSUME NEW c \in Commands, EnqueueLocal(c) PROVE Delivery!DeliveryNext
    <3>1. /\ c \notin seenIds /\ answer' = answer /\ seenIds' = seenIds \cup {c}
      BY <2>4 DEF EnqueueLocal, New
    <3>2. answer[c] = "none"
      BY <3>1 DEF DeliveryInv
    <3> QED
      BY <2>2, <3>1, <3>2, Progressing, ProgressingNext
  <2>5. ASSUME NEW c \in Commands, Hand(c), seenIds' = seenIds, answer[c] = "none", c \in seenIds
        PROVE  Delivery!DeliveryNext
    BY <2>2, <2>3, <2>5, Handing, Progressing, ProgressingNext
  <2>6. ASSUME UNCHANGED <<seenIds, answer>> PROVE progress' = progress
    BY <2>6, Progressing, ProgressingNext
  <2>7. ASSUME NEW c \in Commands, Push(c) PROVE Delivery!DeliveryNext \/ progress' = progress
    <3>1. c \in Range(queued) /\ seenIds' = seenIds
      BY <2>3, <2>7, TakingFirst DEF Push, DeliveryTypeOK
    <3>2. answer[c] = "none" /\ c \in seenIds
      BY <3>1 DEF DeliveryInv
    <3> QED
      BY <2>5, <2>6, <2>7, <3>1, <3>2 DEF Push
  <2>8. ASSUME NEW c \in Commands, NEW n \in Starts, Flush(n, c) PROVE Delivery!DeliveryNext
    <3>1. c \in Range(pending) /\ seenIds' = seenIds
      BY <2>3, <2>8, TakingFirst DEF Flush, DeliveryTypeOK, queueVars
    <3>2. answer[c] = "none" /\ c \in seenIds
      BY <3>1 DEF DeliveryInv
    <3> QED
      BY <2>5, <2>8, <3>1, <3>2 DEF Flush
  <2>9. ASSUME NEW c \in Commands, NEW outcome \in Outcomes, Dispatched(c, outcome)
        PROVE  Delivery!DeliveryNext
    <3>1. /\ answer[c] = "handling" /\ answer'[c] = outcome /\ seenIds' = seenIds
          /\ \A d \in Commands \ {c} : answer'[d] = answer[d]
      BY <2>3, <2>9 DEF Dispatched, DeliveryTypeOK, queueVars
    <3>2. outcome # "handling" /\ outcome # "none"
      BY DEF Outcomes
    <3> QED
      BY <2>2, <3>1, <3>2, Progressing, ProgressingNext
  <2> QED
    BY <2>4, <2>6, <2>7, <2>8, <2>9
    DEF LocalNext, StartLocal, ConsumeLocal, FlushGoesOn, BecomeReadyLocal, StopLocal, StopEnds,
        queueVars, deliveryVars
<1> QED
  BY <1>1, <1>2, Delivering, PTL DEF LocalSpec, ImplementsDelivery, Delivery!DeliverySpec

-----------------------------------------------------------------------------
(* The lock registry: tokens identify lease objects, and an object whose   *)
(* token is still in the map belongs to that account and was not released. *)
MemoryInv ==
  /\ Memory!TypeOK
  /\ \A v, w \in Workers : object[v] = object[w] /\ object[v] # NoToken => v = w
  /\ \A w \in Workers : object[w] # NoToken => objectAccount[w] \in Accounts
  /\ \A w \in Workers, a \in Accounts :
       record[a] = object[w] /\ object[w] # NoToken => objectAccount[w] = a /\ ~released[w]

(* MemoryInv holds in every state. *)
LEMMA Registering == Memory!Spec => []MemoryInv
<1> USE TtlAssumption, MemoryTokensAssumption
<1>1. Memory!Init => MemoryInv
  BY DEF Memory!Init, MemoryInv, Memory!TypeOK
<1>2. MemoryInv /\ [Memory!Next]_(Memory!vars) => MemoryInv'
  <2> SUFFICES ASSUME MemoryInv, [Memory!Next]_(Memory!vars) PROVE MemoryInv'
    OBVIOUS
  <2> USE DEF MemoryInv, Memory!TypeOK, Memory!registry, Memory!objects
  <2>1. CASE Memory!Tick
    <3>1. left' \in [Accounts -> 0 .. Ttl]
      BY <2>1 DEF Memory!Tick
    <3> QED
      BY <2>1, <3>1 DEF Memory!Tick
  <2>2. ASSUME NEW w \in Workers, NEW a \in Accounts, NEW t \in MemoryTokens, Memory!Acquire(w, a, t)
        PROVE  MemoryInv'
    <3>1. Ttl \in 0 .. Ttl
      OBVIOUS
    <3>2. Memory!TypeOK'
      BY <2>2, <3>1 DEF Memory!Acquire
    <3> QED
      BY <2>2, <3>2 DEF Memory!Acquire, Memory!Fresh
  <2>3. ASSUME NEW w \in Workers, Memory!Renew(w) PROVE MemoryInv'
    <3>1. Ttl \in 0 .. Ttl
      OBVIOUS
    <3>2. left' \in [Accounts -> 0 .. Ttl]
      BY <2>3, <3>1 DEF Memory!Renew
    <3> QED
      BY <2>3, <3>2 DEF Memory!Renew
  <2>4. ASSUME NEW w \in Workers, Memory!Release(w) PROVE MemoryInv'
    <3>1. 0 \in 0 .. Ttl
      OBVIOUS
    <3>2. left' \in [Accounts -> 0 .. Ttl]
      BY <2>4, <3>1 DEF Memory!Release
    <3> QED
      BY <2>4, <3>2 DEF Memory!Release, Memory!Current
  <2>5. ASSUME NEW w \in Workers, Memory!Discard(w) PROVE MemoryInv'
    BY <2>5 DEF Memory!Discard
  <2>6. CASE UNCHANGED Memory!vars
    BY <2>6 DEF Memory!vars
  <2> QED
    BY <2>1, <2>2, <2>3, <2>4, <2>5, <2>6 DEF Memory!Next
<1> QED
  BY <1>1, <1>2, PTL DEF Memory!Spec

(* Seen through the port, a locked record belongs to the worker whose      *)
(* object stored it, or to an orphan.                                      *)
MemoryFacts ==
  /\ \A a \in Accounts : Memory!OwnerOf(a) = Nobody <=> ~Memory!Locked(a)
  /\ \A a \in Accounts, w \in Workers :
       Memory!OwnerOf(a) = w <=> Memory!Locked(a) /\ record[a] = object[w]
  /\ \A a \in Accounts : Memory!Locked(a) /\ (\A w \in Workers : object[w] # record[a])
       => Memory!OwnerOf(a) = Orphan

(* What the mapping says of a registry that MemoryInv describes. *)
LEMMA MemoryMapping == MemoryInv => MemoryFacts
<1> SUFFICES ASSUME MemoryInv PROVE MemoryFacts
  OBVIOUS
<1>1. ASSUME NEW a \in Accounts, NEW w \in Workers, Memory!Locked(a), record[a] = object[w]
      PROVE  Memory!OwnerOf(a) = w
  BY <1>1 DEF Memory!OwnerOf, Memory!Locked, MemoryInv
<1>2. ASSUME NEW a \in Accounts, Memory!Locked(a), \A w \in Workers : object[w] # record[a]
      PROVE  Memory!OwnerOf(a) = Orphan
  BY <1>2 DEF Memory!OwnerOf
<1> QED
  BY <1>1, <1>2, OwnerAssumption DEF MemoryFacts, Memory!OwnerOf

(* The same facts after a step. *)
LEMMA MemoryMappingNext == MemoryInv' => MemoryFacts'
<1> SUFFICES ASSUME MemoryInv' PROVE MemoryFacts'
  OBVIOUS
<1>1. ASSUME NEW a \in Accounts, NEW w \in Workers, Memory!Locked(a)', record'[a] = object'[w]
      PROVE  Memory!OwnerOf(a)' = w
  BY <1>1 DEF Memory!OwnerOf, Memory!Locked, MemoryInv
<1>2. ASSUME NEW a \in Accounts, Memory!Locked(a)', \A w \in Workers : object'[w] # record'[a]
      PROVE  Memory!OwnerOf(a)' = Orphan
  BY <1>2 DEF Memory!OwnerOf
<1> QED
  BY <1>1, <1>2, OwnerAssumption DEF MemoryFacts, Memory!OwnerOf

(* The registry of a single process implements AccountLockPort, although   *)
(* it never purges: an expired record counts as free for everybody, and    *)
(* the object that stored it can do nothing with it but drop it.           *)
LEMMA MemoryRefines == Memory!Spec => MemoryImplementsPort
<1> DEFINE owners == [a \in Accounts |-> Memory!OwnerOf(a)]
           standings == [w \in Workers |-> Memory!StandingOf(w)]
<1>1. Memory!Init => Memory!Port!LeaseInit
  BY DEF Memory!Init, Memory!Port!LeaseInit, Memory!OwnerOf, Memory!StandingOf, Memory!Locked
<1>2. MemoryInv /\ MemoryInv' /\ [Memory!Next]_(Memory!vars)
        => [Memory!Port!LeaseNext]_(Memory!Port!leaseVars)
  <2> SUFFICES ASSUME MemoryInv, MemoryInv', [Memory!Next]_(Memory!vars)
               PROVE  Memory!Port!LeaseNext \/ UNCHANGED <<owners, standings>>
    BY DEF Memory!Port!leaseVars
  <2>0. MemoryFacts /\ MemoryFacts'
    BY MemoryMapping, MemoryMappingNext
  <2> USE <2>0, MemoryTokensAssumption, TtlAssumption, OwnerAssumption
  <2>1. CASE Memory!Tick
    <3> DEFINE lapsed == {a \in Accounts : Memory!Locked(a) /\ ~Memory!Locked(a)'}
    <3>1. UNCHANGED <<record, object, objectAccount, released>>
      BY <2>1 DEF Memory!Tick, Memory!objects
    <3>2. \A a \in Accounts : Memory!Locked(a)' => Memory!Locked(a)
      BY <2>1, <3>1 DEF Memory!Tick, Memory!Locked, MemoryInv, Memory!TypeOK
    <3>3. \A a \in lapsed : Memory!OwnerOf(a) # Nobody
      BY DEF MemoryFacts
    <3>4. \A a \in Accounts : Memory!OwnerOf(a)' = IF a \in lapsed THEN Nobody ELSE Memory!OwnerOf(a)
      BY <3>1, <3>2 DEF Memory!OwnerOf
    <3>5. \A w \in Workers : Memory!StandingOf(w)' =
            IF \E a \in lapsed : Memory!OwnerOf(a) = w THEN "lost" ELSE Memory!StandingOf(w)
      BY <3>1, <3>2 DEF Memory!StandingOf, Memory!Current, Memory!Locked, MemoryFacts, MemoryInv, Memory!TypeOK
    <3>6. Memory!Port!Lapse(lapsed)
      BY <3>3, <3>4, <3>5 DEF Memory!Port!Lapse
    <3> QED
      BY <3>6 DEF Memory!Port!LeaseNext
  <2>2. ASSUME NEW w \in Workers, NEW b \in Accounts, NEW t \in MemoryTokens, Memory!Acquire(w, b, t)
        PROVE  Memory!Port!LeaseNext
    <3>1. /\ object[w] = NoToken /\ ~Memory!Locked(b)
          /\ \A a \in Accounts : record[a] # t
          /\ \A v \in Workers : object[v] # t
      BY <2>2 DEF Memory!Acquire, Memory!Fresh
    <3>2. /\ record'[b] = t /\ left'[b] = Ttl
          /\ \A a \in Accounts \ {b} : record'[a] = record[a] /\ left'[a] = left[a]
          /\ object'[w] = t /\ objectAccount'[w] = b /\ ~released'[w]
          /\ \A v \in Workers \ {w} : /\ object'[v] = object[v] /\ released'[v] = released[v]
                                      /\ objectAccount'[v] = objectAccount[v]
      BY <2>2 DEF Memory!Acquire, MemoryInv, Memory!TypeOK
    <3>3. Memory!Locked(b)' /\ \A a \in Accounts \ {b} : Memory!Locked(a)' <=> Memory!Locked(a)
      BY <3>2 DEF Memory!Locked
    <3>4. Memory!OwnerOf(b) = Nobody /\ Memory!OwnerOf(b)' = w
      BY <3>1, <3>2, <3>3 DEF MemoryFacts
    <3>5. ASSUME NEW a \in Accounts, a # b PROVE Memory!OwnerOf(a)' = Memory!OwnerOf(a)
      <4>1. ASSUME Memory!Locked(a), NEW v \in Workers
            PROVE  object'[v] = record[a] <=> object[v] = record[a]
        BY <3>1, <3>2, <4>1 DEF Memory!Locked
      <4> QED
        BY <3>2, <3>3, <3>5, <4>1 DEF MemoryFacts
    <3>6. Memory!StandingOf(w) = "none" /\ Memory!StandingOf(w)' = "live"
      BY <3>1, <3>2, <3>3 DEF Memory!StandingOf, Memory!Current
    <3>7. ASSUME NEW v \in Workers, v # w PROVE Memory!StandingOf(v)' = Memory!StandingOf(v)
      <4>1. CASE object[v] = NoToken \/ released[v]
        BY <3>2, <3>7, <4>1 DEF Memory!StandingOf
      <4>2. CASE object[v] # NoToken /\ ~released[v] /\ objectAccount[v] = b
        BY <3>1, <3>2, <3>7, <4>2 DEF Memory!StandingOf, Memory!Current
      <4>3. CASE object[v] # NoToken /\ ~released[v] /\ objectAccount[v] # b
        BY <3>2, <3>3, <3>7, <4>3 DEF Memory!StandingOf, Memory!Current, MemoryInv
      <4> QED
        BY <4>1, <4>2, <4>3
    <3>8. /\ owners' = [owners EXCEPT ![b] = w]
          /\ standings' = [standings EXCEPT ![w] = "live"]
      BY <3>4, <3>5, <3>6, <3>7
    <3>9. Memory!Port!Grant(w, b)
      BY <3>4, <3>6, <3>8 DEF Memory!Port!Grant
    <3> QED
      BY <3>9 DEF Memory!Port!LeaseNext
  <2>3. ASSUME NEW w \in Workers, Memory!Renew(w) PROVE UNCHANGED <<owners, standings>>
    <3>1. UNCHANGED <<record, object, objectAccount, released>>
      BY <2>3 DEF Memory!Renew, Memory!objects
    <3>2. \A a \in Accounts : Memory!Locked(a)' <=> Memory!Locked(a)
      BY <2>3, <3>1 DEF Memory!Renew, Memory!Locked, MemoryInv, Memory!TypeOK
    <3>3. \A v \in Workers : Memory!StandingOf(v)' = Memory!StandingOf(v)
      BY <3>1, <3>2 DEF Memory!StandingOf, Memory!Current, MemoryInv
    <3>4. \A a \in Accounts : Memory!OwnerOf(a)' = Memory!OwnerOf(a)
      BY <3>1, <3>2 DEF Memory!OwnerOf
    <3> QED
      BY <3>3, <3>4
  <2>4. ASSUME NEW w \in Workers, Memory!Release(w) PROVE Memory!Port!LeaseNext
    <3>1. PICK b \in Accounts : /\ objectAccount[w] = b /\ object[w] # NoToken
                               /\ record[b] = object[w] /\ ~released[w]
      BY <2>4 DEF Memory!Release, Memory!Current, MemoryInv
    <3>2. /\ record'[b] = NoToken
          /\ \A a \in Accounts \ {b} : record'[a] = record[a] /\ left'[a] = left[a]
          /\ UNCHANGED <<object, objectAccount>>
          /\ released'[w] /\ \A v \in Workers \ {w} : released'[v] = released[v]
      BY <2>4, <3>1 DEF Memory!Release, MemoryInv, Memory!TypeOK
    <3>3. ~Memory!Locked(b)' /\ \A a \in Accounts \ {b} : Memory!Locked(a)' <=> Memory!Locked(a)
      BY <3>2 DEF Memory!Locked
    <3>4. Memory!OwnerOf(b)' = Nobody /\ \A a \in Accounts \ {b} : Memory!OwnerOf(a)' = Memory!OwnerOf(a)
      BY <3>2, <3>3 DEF Memory!OwnerOf
    <3>5. Memory!StandingOf(w)' = "none"
      BY <3>2 DEF Memory!StandingOf
    <3>6. ASSUME NEW v \in Workers, v # w PROVE Memory!StandingOf(v)' = Memory!StandingOf(v)
      <4>1. CASE object[v] = NoToken \/ released[v]
        BY <3>2, <3>6, <4>1 DEF Memory!StandingOf
      <4>2. CASE object[v] # NoToken /\ ~released[v] /\ objectAccount[v] = b
        <5>1. record[b] # object[v]
          BY <3>1, <3>6 DEF MemoryInv
        <5> QED
          BY <3>2, <3>6, <4>2, <5>1 DEF Memory!StandingOf, Memory!Current
      <4>3. CASE object[v] # NoToken /\ ~released[v] /\ objectAccount[v] # b
        BY <3>2, <3>3, <3>6, <4>3 DEF Memory!StandingOf, Memory!Current, MemoryInv
      <4> QED
        BY <4>1, <4>2, <4>3
    <3>7. CASE Memory!Locked(b)
      <4>1. owners[b] = w
        BY <3>1, <3>7 DEF MemoryFacts
      <4>2. /\ owners' = [owners EXCEPT ![b] = Nobody]
            /\ standings' = [standings EXCEPT ![w] = "none"]
        BY <3>4, <3>5, <3>6
      <4>3. Memory!Port!GiveBack(w, b)
        BY <4>1, <4>2 DEF Memory!Port!GiveBack
      <4> QED
        BY <4>3 DEF Memory!Port!LeaseNext
    <3>8. CASE ~Memory!Locked(b)
      <4>1. owners[b] = Nobody /\ standings[w] = "lost"
        BY <3>1, <3>8 DEF MemoryFacts, Memory!StandingOf
      <4>2. owners' = owners /\ standings' = [standings EXCEPT ![w] = "none"]
        BY <3>4, <3>5, <3>6, <4>1
      <4>3. Memory!Port!Forget(w)
        BY <4>1, <4>2 DEF Memory!Port!Forget
      <4> QED
        BY <4>3 DEF Memory!Port!LeaseNext
    <3> QED
      BY <3>7, <3>8
  <2>5. ASSUME NEW w \in Workers, Memory!Discard(w)
        PROVE  Memory!Port!LeaseNext \/ UNCHANGED <<owners, standings>>
    <3>1. /\ object[w] # NoToken /\ object'[w] = NoToken
          /\ UNCHANGED <<record, left>>
          /\ \A v \in Workers \ {w} : /\ object'[v] = object[v] /\ released'[v] = released[v]
                                      /\ objectAccount'[v] = objectAccount[v]
      BY <2>5 DEF Memory!Discard, Memory!registry, MemoryInv, Memory!TypeOK
    <3>2. \A a \in Accounts : Memory!Locked(a)' <=> Memory!Locked(a)
      BY <3>1 DEF Memory!Locked
    <3>3. Memory!StandingOf(w)' = "none"
      BY <3>1 DEF Memory!StandingOf
    <3>4. \A v \in Workers \ {w} : Memory!StandingOf(v)' = Memory!StandingOf(v)
      BY <3>1, <3>2 DEF Memory!StandingOf, Memory!Current, MemoryInv
    <3>5. ASSUME NEW a \in Accounts, Memory!OwnerOf(a) # w PROVE Memory!OwnerOf(a)' = Memory!OwnerOf(a)
      <4>1. ASSUME Memory!Locked(a), NEW v \in Workers
            PROVE  object'[v] = record[a] <=> object[v] = record[a]
        BY <3>1, <3>5, <4>1 DEF MemoryFacts, Memory!Locked
      <4> QED
        BY <3>1, <3>2, <4>1 DEF MemoryFacts
    <3>6. standings' = [standings EXCEPT ![w] = "none"]
      BY <3>3, <3>4
    <3>7. CASE \E a \in Accounts : Memory!OwnerOf(a) = w
      <4>1. PICK b \in Accounts : Memory!OwnerOf(b) = w
        BY <3>7
      <4>2. Memory!Locked(b) /\ record[b] = object[w]
        BY <4>1 DEF MemoryFacts
      <4>3. \A a \in Accounts : Memory!OwnerOf(a) = w => a = b
        BY <3>1, <4>2 DEF MemoryFacts, MemoryInv
      <4>4. \A v \in Workers : object'[v] # record'[b]
        BY <3>1, <4>2 DEF MemoryInv
      <4>5. Memory!OwnerOf(b)' = Orphan
        BY <3>2, <4>2, <4>4 DEF MemoryFacts
      <4>6. owners' = [owners EXCEPT ![b] = Orphan]
        BY <3>5, <4>3, <4>5
      <4>7. Memory!Port!Abandon(w, b)
        BY <3>6, <4>1, <4>6 DEF Memory!Port!Abandon
      <4> QED
        BY <4>7 DEF Memory!Port!LeaseNext
    <3>8. CASE \A a \in Accounts : Memory!OwnerOf(a) # w
      <4>1. owners' = owners
        BY <3>5, <3>8
      <4>2. standings[w] # "live"
        BY <3>8 DEF Memory!StandingOf, Memory!Current, MemoryFacts, MemoryInv
      <4>3. CASE standings[w] = "none"
        BY <3>6, <4>1, <4>3
      <4>4. CASE standings[w] = "lost"
        <5>1. Memory!Port!Forget(w)
          BY <3>6, <4>1, <4>4 DEF Memory!Port!Forget
        <5> QED
          BY <5>1 DEF Memory!Port!LeaseNext
      <4> QED
        BY <4>2, <4>3, <4>4 DEF Memory!StandingOf
    <3> QED
      BY <3>7, <3>8
  <2>6. CASE UNCHANGED Memory!vars
    BY <2>6 DEF Memory!vars, Memory!OwnerOf, Memory!StandingOf, Memory!Locked, Memory!Current
  <2> QED
    BY <2>1, <2>2, <2>3, <2>4, <2>5, <2>6 DEF Memory!Next
<1> QED
  BY <1>1, <1>2, Registering, PTL
  DEF Memory!Spec, MemoryImplementsPort, Memory!ImplementsPort, Memory!Port!LeaseSpec

-----------------------------------------------------------------------------
(* Every adapter keeps its types. *)
THEOREM AdaptersTypeOKHolds == AdaptersSpec => []AdaptersTypeOK
<1> DEFINE PartOK == part \in {"redis", "memory", "delivery"}
<1>1. AdaptersInit => PartOK
  BY DEF AdaptersInit
<1>2. PartOK /\ [AdaptersNext]_adapterVars => PartOK'
  BY DEF AdaptersNext, adapterVars
<1>3. AdaptersSpec => []PartOK
  BY <1>1, <1>2, PTL DEF AdaptersSpec
<1>4. PartOK /\ TypeOK /\ MemoryInv /\ DeliveryTypeOK => AdaptersTypeOK
  BY DEF AdaptersTypeOK, MemoryInv
<1> QED
  BY <1>3, <1>4, Components, Typing, Registering, DeliveryTyping, PTL

(* No command is stranded in the consumer of a single process. *)
THEOREM NoneIsStrandedHolds == AdaptersSpec => []NoneIsStranded
BY Components, NoneLocallyStranded, PTL

(* The local queue, consumer and worker keep the promise of CommandDelivery *)
(* to whoever enqueues a command.                                          *)
THEOREM ImplementsDeliveryHolds == AdaptersSpec => ImplementsDelivery
BY Components, LocallyDelivered, PTL

(* The lock registry keeps the promise of AccountLockPort. *)
THEOREM MemoryImplementsPortHolds == AdaptersSpec => MemoryImplementsPort
BY Components, MemoryRefines, PTL
===============================================================================
