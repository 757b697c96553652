# Verification of tg-invait

TLA+ models of tg-invait: the lock of a Telegram account, the worker process and
its queues, the backend process, tasks, invitations, the connection of an
account, users and their sessions, the copy of the content of an account, proxies,
imports, listings, and the pages of the console. TLC checks them on small
instances. The TLA+ proof system proves every safety property, every action property
and both refinements for every value of the constants; what needs fairness is
checked by TLC alone.

Paths below are relative to `src/apps/`; `W` is `telegram-worker/src`, `B` is
`backend/src`, `F` is `frontend/src`.

## 1. Inventory of the system

| Component | State | Operations | Modelled in |
|---|---|---|---|
| Account lock (`W/workers/account-lock.ts`, `redis-account-lock.ts`) | one Redis key per account: token and time to live; lease objects in workers | acquire, renew, release, expiry | `AccountLease`, `RedisAccountLock`, `InMemoryAccountLock` |
| Worker runtime (`W/workers/runtime.ts`, `W/runtime-entry.ts`) | lifecycle, active jobs, subscription, handlers of signals | start, stop, processCommand, shutdown | `WorkerRuntime` |
| Heartbeat (`W/workers/heartbeat-loop.ts`, `W/queues/redis-heartbeat.ts`) | timer, publication in flight, Redis key with 45 s to live | tick, publish | `WorkerRuntime` |
| Queue (`B/queues/bullmq-command-queue.ts`, `W/queues/bullmq-command-consumer.ts`) | one BullMQ job per command, one attempt | enqueue, hand-over, stalled-job recovery, close | `WorkerRuntime`; the job columns of the four below |
| Queue in memory (`B/queues/command-queue.ts`, `W/queues/command-consumer.ts`) | pending commands, ids seen, handler | enqueue, dequeue, push, consume, flush, close | `LocalDelivery`, `CommandDelivery` |
| Tasks (`B/api/controller.ts`, `W/workers/tasks.ts`, `prisma-task-runtime.ts`) | `Task` row | create, queue, cancel; PROCESS_TASK | `TaskLifecycle` |
| Invitations (`B/api/controller.ts`, `store.ts`, `W/workers/invitations.ts`) | `InvitationTask`, `InvitationUser` rows | import, queue; PROCESS_INVITATION_ITEM | `Invitations` |
| Import of invitees (`B/api/invitation-import.ts`, `store.ts`) | `InvitationImport`, `InvitationUser` rows | parse, store in a transaction | `InvitationImport` |
| Account connection (`B/api/controller.ts`, `W/workers/account-lifecycle.ts`, `W/telegram/gramjs-gateway.ts`) | `TelegramAccount`, `TelegramSession`, login attempt in Redis | connect, verify, disconnect; CONNECT_ACCOUNT, DISCONNECT_ACCOUNT | `AccountConnection` |
| Dialogs, messages, contacts (`W/workers/*.ts`, `W/telegram/gramjs-gateway.ts`) | rows of chats, messages and contacts | LOAD_DIALOGS, LOAD_MESSAGES, LOAD_CONTACTS, SEND_MESSAGE | `ContentSync`; their use of the lock: `RedisAccountLock` (kind `once`) |
| Listings (`B/api/store.ts`) | cursor of the caller | GET /api/messages, GET /api/contacts | `Listings` |
| Users and sessions (`B/api/security.ts`, `controller.ts`, `store.ts`) | `User`, `UserSession` rows, users logged out in memory | register, login, refresh, logout, create and delete users | `Sessions` |
| Proxy manager (`B/api/proxy-manager.ts`, `controller.ts`) | `Proxy` rows, a socket and a timer per check | create, import, disable, delete, test one or all | `Proxies` |
| Backend process (`B/index.ts`, `B/services/health.service.ts`, `B/controllers/health.controller.ts`, `B/realtime/event-hub.ts`) | HTTP server, signal handlers, connection for probes, checks in flight, streams of events | accept, read a body, answer, stream, keep a connection, readiness report, shutdown | `BackendProcess` |
| Console (`F/app`, `F/services/api-client.ts`) | state of a page, tokens in localStorage, requests under way | visit, log in, open, send, change, load | `Console` |
| Remaining endpoints, rate limit, password reset, tdata | | see section 5 | no |

How they interact. The console calls the backend over HTTP. The backend writes a
row in PostgreSQL and enqueues a command in BullMQ, in that order for tasks and in
the opposite order for the connection of an account. A worker is handed one job at
a time; its handler takes the account lock in Redis, calls Telegram, and writes
rows. Backend and workers share nothing but PostgreSQL, Redis and the queue, and
hardly a write is conditional on what the row held before.

What is hard about it, and the properties that answer it:

- *Time against work.* A lease may run out under a handler. Nothing checks a
  lease before it is used. -> `ImplementsPort`, `MemoryImplementsPort`,
  `RenewerKeepsItsLease`, `OneInviterPerAccount`, `NewestSnapshotWins`.
- *Awaits between reading, checking and writing* (queue requests, the late
  CONNECTING of a connect request, the list of an invitation job, the rotation of a
  token, the deletion of a user). Most of these races do happen, and nothing in the
  repository excludes them: the properties say what holds in spite of them, or but
  for them, and `hazards` says of each one which.
  -> `ActiveTaskHasJob`, `SequentialTasks`, `StatusIsTrue`, `ProcessingHasItsJob`,
  `OneTokenPerLogin`, `SomebodyIsLeft`.
- *Death of a worker between two steps*, and BullMQ handing the job over again.
  -> `OrphanExpires`, `RedispatchOnlyAfterDeath`, `InvitedIsMember`, `QueuedTaskEnds`,
  `OutcomeIsTrue`.
- *One step of several failing.* -> `SequentialTasks`, `SignInIsKept`,
  `InvitedIsMember`, `ImportsAddUp`, `SubmittedTextIsKept`, `NewestSnapshotWins`.
- *Callbacks in any order during start and stop.* -> `QuietWhenOffline`,
  `HeartbeatsInOrder`, `CommandSettles`, `NoneIsStranded`, `ImplementsDelivery`.
- *Handlers nobody awaits and checks nobody cancels* in the backend: a shutdown
  among requests in progress and connections that are kept, a body that stalls, an
  answer after its time limit, a socket that hangs up.
  -> `WaitingClientsAreServed`, `ReadyIsEarned`, `ShutdownEnds`, `TestsEnd`.
- *State that is older than it looks*: a cursor into a listing that grows, a page
  whose requests overlap and fail. -> `WalkSeesAll`, `PagesAgree`.

The full list, each at its line, is under `hazards` in `PROJECT.json`.

## 2. The modules

Three modules put components *side by side*: `PortAdapters`, `StoredData` and
`BackendServices` combine components that share no state. A variable `part`, chosen
at the start, says which of them takes its steps, so the states explored are the sum
of theirs and not the product; an interleaving of two that share nothing shows
nothing that one alone does not. Each component remains a specification of its own
with theorems of its own; further theorems say that they hold of the composition.

### Ports and adapters

**`AccountLease`** is the abstract specification: what `AccountLockPort` promises,
without tokens or clocks. An account has one owner or none; ownership is granted
when the account is free, given back by its owner, or taken by time (`Lapse`); a
lease object that lost its account is `lost` for good.

**`RedisAccountLock`** is the Redis lock with the handlers that use it. `key` and
`pttl` are Redis; `phase`, `account`, `lease`, `kind`, `due` are the handler of
each worker (one, since BullMQ runs one job at a time). Each script is one
action, since Redis runs scripts atomically. Time is the countdown `pttl`,
because nothing reads absolute time. `lifecycle` handlers go through
`withAccountLock` and renew on an interval; `once` handlers do not renew. `Abort`
stands for the death of a process and for a rejected acquire or release. A
worker of `PunctualWorkers` runs its callbacks before the next unit of time; the
others may be arbitrarily late, and their renewals may fail. The refinement
mapping (`OwnerOf`, `StandingOf`) makes `ImplementsPort` the statement that this
is an `AccountLease`.

**`InMemoryAccountLock`** is `InMemoryAccountLockRegistry`: records that are never
purged, lease objects used in any order. It implements the same `AccountLease`.

**`CommandDelivery`** is the abstract promise of the seam between
`CommandQueuePort` and `WorkerCommandConsumer`: an accepted command is neither lost
nor handed over twice, and answered once. **`LocalDelivery`** is the queue and the
consumer that take the place of BullMQ in one process, with `start()`, `stop()` and
`processCommand()` of the worker as they use them. Each call of `start()` that is
overtaken by a `stop()` goes on, so two flushes of the same backlog may be at work;
the refinement mapping makes `ImplementsDelivery` the statement that this loses and
doubles nothing. (BullMQ keeps less: see the run `runtime_loses`.)

**`PortAdapters`** puts the Redis lock, the lock in memory and the delivery in memory
side by side.

### Processes

**`WorkerRuntime`** is one process over several lives: `main` follows
`runtime-entry.ts`, `stop[s]` the shutdown of each signal, `inFlight` and
`awaiting` the shared publication of `HeartbeatLoop.tick`, `consumer` and `call`
the BullMQ Worker object and its processor callbacks. Every `await` of the
source is a boundary between two actions. `emittedAt` is the number of the life
instead of a date.

**`BackendProcess`** is the backend from the moment it listens: connections with API
requests, streams of events (`streaming`) and readiness requests (`probing`), the
outcome of each check, the shared connection `link` to Redis that the first check
makes, and the shutdown. An API request is what its handler awaits: the user
(`authenticating`), the body (`receiving`), rows (`storing`), the queue (`enqueueing`)
or the checks of proxies (`testing`, and `forsaken` when one of them never settles).
`client` and `step` are separate because the server does not await its handlers. A
connection is kept after an answer (`idle`) and may carry the next request; `Signal`
ends the idle ones, as `server.close()` does, but one that was busy then may still
carry requests afterwards, until its client or `keepAliveTimeout` ends it. `status` is
that of the last response, `seen` a history of what was up during a readiness request.
What an endpoint does between its awaits is in the modules below.

**`Proxies`** is the proxy manager. `remaining` is what a test has read and not yet
checked; a check is modelled by the events of its socket against five kinds of
other end, with the timer, and by the classification of the error it ends with
(`StatusOf`); each result is written by the id read long before. A row has an id, an
address and a protocol: what the unique index compares is the address and the
protocol, so what was deleted may come back under another id. `lines` are the lines of
an import that are still to be stored.

**`BackendServices`** puts the process and the proxy manager side by side: they are
the components of the backend that wait for the network.

### Rows and the handlers that change them

**`TaskLifecycle`**, **`Invitations`**, **`AccountConnection`** join the requests of the
backend with the handlers of the workers. Each `await` of an endpoint or handler
is a step, kept in `request[...]` and `step[...]`; the columns of the row are the
variables the steps write. `faults` and `deaths` are history variables that record
what has gone wrong, so one run covers undisturbed and disturbed behaviours and
a property says under which of them it is claimed. `Ghost` owns the lock of a
job that is gone. `MCInvitations` and `MCAccountConnection` bind their functional
constants and the symmetry of jobs (and of users of a task, of rows of a phone); no definition
chooses among them and no liveness is checked there.

In `Invitations` a call to Telegram that returns has let the user in, or names him in
its result as one it could not invite: `inviteUser` does not read the result
(`W/telegram/gramjs-gateway.ts:113`), so the row says INVITED either way, and `missing`
records who was named. A task uses one account: the endpoint only admits the account
the target chat belongs to, once. In `AccountConnection` some accounts may have
been connected before (`Init`), so that connecting their phone again needs few
commands; the lock is that of `RedisAccountLock` seen through its theorem: the
handlers there are all renewing ones, so their lease is not lost while they run.

**`Sessions`** holds the rows of users and sessions and the set of users logged out,
which lives in memory and is emptied by `Restart`. Requests interleave between the
awaits of their handlers. `login` records which login a refresh token goes back to
through its rotations; `forked` and `crossed` record the two races the code does
not exclude.

**`ContentSync`** is the content of one account and its copy. A job takes the lock once,
fetches, and starts the upserts of all rows together (`Promise.all`), which end in any
order; the first that is rejected ends the handler while the rest go on. `unlocked`
records that a job went on without its lock.

**`Listings`** walks the pages of the two listings that have a cursor while rows are
stored. **`InvitationImport`** parses a file row by row (`Parsing`, a function of
the number of rows read, applies `ReadRow`) and stores the summary and the users in
one transaction; `totalRows` is counted apart from the loop, as in the source.

**`Console`** is the browser: one page is mounted, its handlers set its state when an
answer arrives, whichever handler ran meanwhile. `overtaken`, `overlapped` and
`typed` are histories of the races the pages do not exclude; `overtaken` speaks of
what is shown now, and forgets it as soon as an answer in its turn is shown.

**`StoredData`** puts these five side by side.

The definitions named as mutants in the modules are plausible mistakes, each used
to show that a property would notice it.

## 3. The runs

| Run | Bounds | Shows |
|---|---|---|
| `lock` | Redis: 2 accounts, 3 workers (2 punctual), 2 tokens, time to live 3, renewal every 2. Memory: the same accounts and workers, 3 tokens. Delivery: 3 commands, 2 starts | both locks implement the port, renewers keep their leases, orphans expire; the queue in memory delivers once and strands nothing |
| `lock_one_worker` (violation) | 1 account, 2 workers | `CONTEXT.md` invariant 2 does not hold for handlers that do not renew |
| `runtime` | 2 commands, 2 signals, 3 lives | stop, heartbeats, redelivery and settlement |
| `runtime_loses` (violation) | 1 command, 2 lives | a command may fail without a handler having had it |
| `backend` | 2 connections, 2 signals; 2 proxies, 2 addresses, 1 test at a time | a shutdown serves who waits and ends unless somebody outside holds it up, readiness is earned, proxy tests end |
| `proxy_check` (violation) | 1 proxy, 1 address, 1 test | silent proxies and refused SOCKS5 logins are classified wrongly |
| `task` | 1 task, 2 requests at a time, 2 jobs, 2 deaths, all faults | a task on its way has a job and ends; sequential requests do not double it |
| `task_cancel` (violation) | 1 task, 1 request, 1 job | a cancelled task is run |
| `invite` | 1 task, 2 users, 2 jobs, 1 death, all faults | one inviter, true outcomes, FLOOD_WAIT stops the job |
| `invite_flood_wait` (violation) | 1 task, 2 users, 2 jobs | the wait does not stop the next job |
| `connect` | 2 rows of a phone, 3 commands, 1 death, all faults | status, identity and sign-in |
| `data` | Sessions: 2 users, 3 refresh tokens, 2 requests at a time. Content: 1 row, 2 loads, 1 send, 2 changes. Listings: 3 ids, 2 places, pages of 2. Imports: 2 names, 3 rows, 2 imports. Console: 2 chats, 2 drafts, 3 calls, 2 revisions | a login has one token and somebody is left; the copy does not go back; pages show every row; imports add up; what a page shows is right in the end |

Why these bounds. *Locks*: two renewers and a late third worker are the smallest
cast in which a stale holder, a new owner and a bystander meet; two tokens let
one be stale while the other is current, and the second account shows that a
token of one account does not act on another. A time to live of 3 with a period
of 2 is the tightest margin the theorem admits. *Delivery*: two starts make two
flushes of one backlog, three commands leave one behind the two they carry.
*Runtime*: a job that stalls twice needs three lives. *Backend*: a second connection
shares the probes' link with the first, and is still busy when the first could be
closed; a second proxy is the one still to be checked when the row of the first is
gone, and a second address lets an import store one line before it is refused another. *Tasks*: doubling needs two jobs and a
job is given up after two deaths. *Invitations*: two jobs with lists read before
the lock, two users so that one is left when the job stops. *Connection*: request,
verification and disconnect are three commands. *Sessions*: two requests rotate the
same token, and the third token is what a fork adds to the two; two users delete
each other. *Content*: an older load and a newer one, one change between them;
a deferred or delivered-again send. *Listings*: pages of two make a full page and one
more, with a tie across the boundary. *Imports*: three rows hold a name twice and a
defect. *Console*: three calls let one overtake another while a third fails. Every
bound is a named constant of the module.

Faults and claims. `ActiveTaskHasJob` and `QueuedTaskEnds` are claimed while no
enqueue or update failed, no worker refused a job and at most one worker died:
after two deaths of the same job BullMQ fails it and the task stays RUNNING;
after a refused job or a failed enqueue it stays QUEUED, which is not queueable
again. `SequentialTasks` is claimed for requests sent one at
a time and no death. `OneInviterPerAccount` is claimed while no lease ran out under
a job, `ProcessingHasItsJob` while nothing went wrong: a worker that dies leaves
its user PROCESSING, since the next job looks for PENDING ones. `InvitedIsMember` is
claimed whatever fails, but for the users a call that returned has named as missing.
`QuietWhenOffline` and `HeartbeatsInOrder` (its first half) are claimed for a single
stop(): a second signal finds no subscription and does not wait for the running job.

What the newer properties except is what the code does not exclude, each recorded
by a history variable:

- `OneTokenPerLogin`: two rotations that both read a token before either revoked it
  (`forked`), since `rotateRefresh` neither locks the row nor looks at how many
  rows `revokeSession` changed.
- `SomebodyIsLeft`: two users who delete each other at the same time (`crossed`).
- `NewestSnapshotWins`: a job that outlived its lease, or one of whose upserts failed
  before the others were done (`unlocked`).
- `WalkSeesAll`: rows with the same place in the order (`Tied`), where the cursor says
  too little.
- `PagesAgree`: a last request that failed, and what is shown being an answer that came
  after that to a later request (`overtaken`). A failed request before the last one,
  and answers that overtook each other before the one that is shown, are no excuse.
  `SubmittedTextIsKept`: two messages sent at once, or an input edited since.
- `TestsEnd`: a check whose SOCKS5 connection the proxy closes (`Forsaken`).
- `ShutdownEnds`: a connection on which somebody outside of the process is waited for
  again and again (`Held`), since `server.close()` waits for every connection that is
  not idle and nothing in the process ends one: a stream of events that its client
  keeps open, a body its client does not complete (`close()` also stops the timer by
  which Node limits requests), the test of a proxy that hung up, a handler whose
  PostgreSQL or Redis is away; or a client that goes on asking on a connection that
  was busy when the shutdown began (`AsksAgain`).

Fairness. `RedisAccountLock!Fairness`: time passes (strong fairness, because
handlers coming and going must not stop it), and a live event loop runs due
callbacks; nothing is assumed of Telegram calls. `WorkerRuntime!FairSpec`: the
container is restarted (`restart: unless-stopped`), a running event loop runs what
is due, Redis answers one way or the other, BullMQ hands waiting jobs over in turn
and looks for stalled ones again and again (strong fairness, since the consumer
comes and goes), handlers end. The last life is neither killed nor asked to stop,
so that there is one in which liveness can be asked. `TaskLifecycle!FairSpec`:
requests run to their end and workers take and finish jobs.
`BackendProcess!Fairness`: callbacks and timers that are due run (those of a readiness
check's limit and of `keepAliveTimeout` among them), and a handler goes on when
PostgreSQL or Redis, being up, has answered it. Nothing is assumed of a dependency
that is away, of the readiness checks, which their time limit ends, of clients, who
need not complete a body, close a stream or stop asking, or of the test of a proxy,
which need not settle: every such wait is an exception that `ShutdownEnds` names.
`ProxiesFairness`: the event loop runs continuations, a peer that is
going to do something does it, and the timer ends the wait for one that is not. The
safety properties of `data` and `connect`, and the refinement of the delivery, need none.

Deadlock is not checked where a system with a bounded number of commands, tokens or
lives simply has nothing left to do.

### Disagreements with the documentation

The five violation runs are findings in `PROJECT.json`, each with the sentence it
contradicts. More follow from reading and need no run of their own:

- `classifyInvitationError` makes PEER_FLOOD a FAILED user and the loop goes on,
  where the README lists it as a stop condition.
- `config/index.ts` accepts a lock time to live of a second or less, below the floor
  of the renewal interval, which is exactly the case the theorems exclude by
  `RenewalPeriod < Ttl`.
- `probeRedis` (`B/index.ts:127`) is never disconnected, so after the shutdown of
  `ShutdownEnds` the process may stay alive until it is killed.
- The import of proxies looks for an error named PROXY_EXISTS, which the unique index
  of PostgreSQL never raises: an import ends at the first proxy that is stored
  already (`ImportLine`).

## 4. The proofs

Eight modules hold the theorems. None assumes more of a constant than the modules
declare (that bounds are natural numbers, that marks such as `NoToken` or `NoProxy`
are no members of the sets they stand beside, that names and defects or loads and
sends are different things), except `RenewalPeriod < Ttl` where it
is named. Each result below is about any sets of accounts, workers, commands, rows,
requests and so on, and about any bounds. A theorem about a bounded module is one
about every value of the bound. The usual argument is one inductive invariant per
group of properties: TLC checked it in a run of the component before it was proved.

**`AccountLockProofs`**: the port and its Redis adapter.

- `LiveMeansOwnerHolds`, `NeverHandedOverHolds`: what the port gives its callers. A
  lease is live exactly while its worker owns an account, and ownership never
  passes directly between workers.
- `Typing` and `Consistency`. `LeaseConsistency` is the inductive invariant all else
  rests on: tokens identify leases, a lease belongs to the account its handler
  works for, a key exists while it has time left. Without it a stale lease might
  share the token of a current one and the scripts' comparison would mean nothing.
- `OnlyExpiryOrTheOwnerFreesHolds`, `OnlyTheOwnerProlongsHolds`: action properties from
  that invariant.
- `RenewerKeepsItsLeaseHolds`, `RenewersExcludeEachOtherHolds`: under
  `RenewalPeriod < Ttl`. The strengthening `RenewalInv` says that from the OK of SET
  on, the next renewal of a punctual worker is due strictly before its key dies.
- `ImplementsPortHolds`: the refinement, one step of the port or a stutter for each
  action, through `MappingFacts` (what the mapping says of a consistent state).

The run checks `ImplementsPort` and `RenewerKeepsItsLease`, which imply the others;
those are stated as theorems only.

**`PortAdaptersProofs`**: the adapters of a single process, and all of them together.

- `MemoryImplementsPortHolds`: the second refinement of the same port. `MemoryInv` says
  that tokens identify lease objects and that an object whose token is in a record
  belongs to that account and was not released. Records are never purged, so a
  stale record of an expired lease stays; the mapping looks at the time that is left,
  and the invariant tells the release of a live lease, which gives the account back,
  from that of an expired one, which the port sees as a lost lease forgotten.
- `ImplementsDeliveryHolds`: `DeliveryInv` says that a command is in the queue or in the
  backlog exactly if it was accepted and has no answer, and that it is there once.
  The refinement needs both halves: without the first a command could be nowhere,
  without the second be handed over by two flushes of one backlog.
- `NoneIsStrandedHolds`: whoever makes the consumer listen begins to flush in the same
  step, and only ends when the backlog is empty or the consumer closed.
- `AdaptersTypeOKHolds`; the lemma `Components` finds each adapter in the composition.

**`WorkerRuntimeProofs`**: one process over its lives.

- `Typing` and `QuietWhenOfflineHolds`, from `RuntimeInv`. `CountInv`: BullMQ runs one
  job at a time and `activeJobs` counts it while it is handled. `StartInv`: before
  `start()` is through nothing is handled, and until the first signal the worker is
  ready and has its subscription. `StopInv`: a stop() that is the only one has a
  subscription to close, so it passes through the closing that waits for the job;
  with a second signal this is where the argument, and the property, end.
- `RedispatchOnlyAfterDeathHolds`, an action property, from `DispatchInv`: a callback
  runs while its job is active, and a dispatched job waits again only when it was
  taken back.
- `BeatsMoveForwardHolds`, from `OrderInv`: the stage of a life only advances, the
  snapshot being published is not ahead of it, and what Redis holds is not ahead of
  that snapshot. This needs no assumption on the number of signals: the shared
  publication alone keeps the order.
- `HeartbeatsInOrderHolds` adds `FarewellInv`: a `stop()` that is the only one has cleared
  the timer and waited for the publication before it, so the one it makes last is
  its own. A second `stop()` may share an earlier publication, and the claim ends there.

**`BackendServicesProofs`**: the backend process and the proxy manager.

- `Typing`, `WaitingClientsAreServedHolds` (from `ShutdownInv`: the queue is closed only
  when no connection waits or is kept, and a server that was closed accepts a request
  on a kept connection only) and `ReadyIsEarnedHolds`, an action
  property, from `ProbeInv`: a check that passed was seen up during its request.
- `ServicesTypeOKHolds` and `OnlyHungUpSocksForsakes`, from `CheckInv`: a check has a proxy
  that has had a row, and a verdict only with a closed socket. The second theorem bounds
  what `TestsEnd` excepts: a test is forsaken by a SOCKS5 proxy that hangs up without
  a word, and in no other way.

**`TaskLifecycleProofs`**: requests, tasks and jobs.

- `Typing`, with `WorkInv`: whatever is in progress is about a task that exists, and a
  handler runs an active job.
- `ActiveTaskHasJobHolds`. It is inductive with `DeathInv`, which ties `deaths` to the jobs:
  a job about to be given up has cost two workers, so while one has died at most
  BullMQ gives no job up, and the task of a job that is taken back is still carried.
- `SequentialTasksHolds`, from `OrderedRequests`: while requests come one after the other,
  what a request has read still holds when it writes, a task that is about to be
  enqueued has no job, and a job that is still to run its task finds no error. Neither
  conjunct of the property is inductive without this: a second job is made by a
  request that read a queueable status which a running job had left since.

**`InvitationsProofs`**: jobs, users and Telegram's answers.

- `Typing`, and `OneInviterPerAccountHolds`, by induction over the steps between
  acquire and release, in which only an expiry under the job (a recorded fault)
  changes the owner.
- `InvitedIsMemberHolds`, from `OutcomeInv`: what a handler is about to report is
  already true at Telegram or contradicted by the result it did not read, and nobody
  leaves the chat.
- `ProcessingHasItsJobHolds`, from `UserInv` and the previous theorem on owners:
  without faults and deaths a job has a user only at the steps under the lock, so
  two jobs never have one and no outcome is written over another job's user.
- `FloodStopsTheJobHolds`, an action property, from `FloodInv`: after FLOOD_WAIT
  the list of the job is empty and its failure is counted until it is over.

**`AccountConnectionProofs`**: rows, sign-ins and their jobs.

- `Typing` and `OneHandlerPerAccountHolds`, from `WorkInv`: a handler at work owns
  the lock of its account, a handler runs an active job, a job has a row.
- `StatusIsTrueHolds`, from `RowInv`: from its first write to its last the handler
  keeps the row CONNECTING, so storing the session never makes an OFFLINE row look
  active, and session and identity are stored together. The late CONNECTING of the
  backend is harmless because no claim is made of a CONNECTING row.
- `OneSessionPerIdentityHolds`, from the equivalence of session and telegramId and
  the unique index: only the transaction adds a session.
- `SignInIsKeptHolds`: between the answer of Telegram and the transaction only a
  duplicate, a recorded fault or a death ends the handler.

**`StoredDataProofs`**: the five components that `StoredData` puts side by side.

- Sessions: `SessionsTyping`, with `ActorInv` (every request in progress acts for a user,
  a token that was issued has a user and a login). `SomebodyIsLeftHolds`, from
  `DeletionInv`: while no two deletions have overlapped, the one in progress was asked
  for by a user who exists and is not its target, so he remains.
  `OneTokenPerLoginHolds`, from `RotationInv`: a login that is not forked is in one
  place, a live token, a request that has read it, or a request that owes the next
  one. The token alone would not be inductive: between revoking the old token and
  storing the new one the login is in the request only.
- Listings: `ListingTyping` and `WalkSeesAllHolds`. `OrderInv` says that the order of the
  listing follows the cursor except among ties; `CursorInv` that what was shown is not
  below the cursor, and what is still wanted is. Two lemmas carry the step: a page
  that is not full holds everything below the cursor (`ShortPage`, from the cardinality
  of a subset), and rows that share no place are ordered alike by both keys
  (`SameOrder`).
- Content: `OutcomeIsTrueHolds`, from `MessageInv`: a message that is being stored is at
  Telegram, and its row is there or still to be written. `NewestSnapshotWinsHolds`, an
  action property, from `SnapshotInv`: as long as no job went on without the lock,
  whoever is at work holds it, only who is at work stores anything, and what it stores
  is not older than the copy. That Telegram is never behind a copy or an upsert is
  what lets a new load take over.
- Imports: `ImportsAddUpHolds`, for files of any length. `Tally` is the loop invariant of the
  parser. `ParsingIsDefined` shows that the recursive function exists, and
  `RowInduction` carries `Tally` from row to row; both are inductions, made without the
  theorems of the library that take an operator (see the limits below): the set of
  the counterexamples has a least element (`LeastNatural`, from `WFMin` and the
  well-foundedness of the natural numbers).
- Console: `PagesAgreeHolds` and `SubmittedTextIsKeptHolds`, from `ConsoleInv`. `ChatInv`: the
  name shown is that of the chat opened last. `ListInv` follows
  the revision a list was served: the last one asked for was asked for after the last
  change the page was told of; so the claim needs no more of the earlier requests than
  that they are over. `DraftInv` says that without two messages at once only the
  last has no answer yet, and its text is in the input until then.
- `DataTypeOKHolds` and `StoredDataIsSafe`: all of this of the composition, by the lemma
  `DataComponents`.

Only model-checked: liveness (`OrphanExpires`, `CommandSettles`, `QueuedTaskEnds`,
`ShutdownEnds`, `TestsEnd`), which rests on fairness, and fairness on ENABLED, which the
proof system cannot expand. Limits: its provers cannot instantiate a library theorem
whose parameter is an operator, such as `NatInduction`; an induction has to be
restated over a set, as `RowInduction` is, which is possible where the property
is that of a set of numbers. The violation runs refute what they check, so there is
nothing to prove of them.

## 5. Abstractions, and what is not modelled

- Telegram, BullMQ, Redis, PostgreSQL, the spreadsheet library and the operating
  system are modelled by how the code uses them, and are marked external in the map.
- Payloads, encryption, progress details and audit records are data no property is
  about. Validation that ends a request before it changes state is the absence of
  that request.
- Telegram's refusals are the classes `classifyInvitationError` tells apart, and a
  call that is lost may or may not have been carried out.
- Dates are left out except for the order of heartbeats, the order of messages in a
  listing, and the countdowns of the locks.
- The three loads of `ContentSync` have one shape and are one; the pages of `Console`
  that only load and change a list are one.

Not modelled:

- The import of tdata: `createTDataImportHandler({})` (`W/workers/runtime.ts:108`) is
  built without a converter, so it refuses every command and keeps no state.
- PATCH of accounts, proxies and users, the assignment of proxies to accounts, and
  the reads without a cursor: one statement each, without a protocol.
- The reset of passwords, roles and permissions: who may do what is the choice of
  the environment in `Sessions`.
- The rate limit of `B/index.ts`: a count per address and window, kept for ever. A
  request it refuses changes no state that is modelled.
- `health()` of the worker, which only the tests call; liveness of the backend;
  the parsing of the configuration.
- The in-memory store of the backend, which the tests use in place of PostgreSQL.
- Layout and wording of the console, its static dashboard, and the stream of the
  audit page: an EventSource cannot send the header the endpoint asks for.

## 6. Plan

Done: the account lock with both adapters, the worker runtime and its queues, the
backend process with streams and the proxy manager, tasks, invitations, connection,
sessions, content, listings, imports and console; proofs of every safety and action
property the runs check, and of the refinements.

Theorems to prove next: what the runs imply and nobody has stated yet. That the
redelivery of `WorkerRuntime`, the only source of a second handling, is met by each
handler: a second PROCESS_TASK finds its task RUNNING, a second SEND_MESSAGE is the
only way to a second message (now a conjunct of `OutcomeIsTrue`), a second
CONNECT_ACCOUNT finds its attempt gone.

Then:

1. A composition of `RedisAccountLock` with the handler of `Invitations`, replacing the
   fault "lease" by the passing of time.
2. The reset of passwords in `Sessions`: a token that is used once, and the sessions
   it ends.
3. The rate limit: what a fixed window lets through in any window of its length.
4. The job columns of `TaskLifecycle`, `Invitations` and `AccountConnection` as an
   implementation of one abstract delivery by BullMQ (at most twice, and a second
   time only after a death).
