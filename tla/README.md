# Starpod: a TLA+ verification of the kernel

Starpod is a TypeScript framework for Elysia. This directory models the parts of
`src/src/kernel` that keep state across asynchronous steps, checks them with TLC on
small instances, and proves with TLAPS what matters most for every instance. Paths
below are relative to `src/src/kernel` unless they start with `src/`.

JavaScript runs one synchronous stretch of code at a time, so throughout **an action
is the code between two awaits** (or two callbacks), and everything that is hard in
this code happens because something else ran in between.

## 1. The system

| Component | State | Operations | What is hard, and what must hold |
|---|---|---|---|
| **Job queue** `jobs/queue.ts`, `queue-runtime.ts`, `queue-timeout.ts` | array of pending jobs, maps of running, dead and deduplicated ones, a counter, one timer, flags of `close()` | dispatch, cancel, awaitIdle, clearDeadLetters, close with or without draining; the pump loop, timeouts, retries | The pump runs user code in the middle of its loop, which may call the queue; five paths free a slot. Counter and maps agree, no wake-up is lost, nobody waits on an idle queue, `close()` means what it says. |
| **Scheduler** `jobs/scheduler.ts` | set of tasks; timer, run and flag of each | createSchedule, cancel, dispose; factory, dispatch, onError | The loop of a task lives in a `finally`. It neither dies nor doubles; `dispose()` waits for all that can still act. |
| **Idempotency store** `data/idempotency.ts` | map of completed ids with expiry, map of works in flight | runOnce, clear | Redeliveries overlap, fail, expire and are evicted. One work per id, no success that did not happen. |
| **Job worker** `jobs/worker.ts` | one call of the store per delivery, its controller and timer | run | A handler outlives its attempt. It must have been told to stop, and must not count. |
| **DI container** `di/` | instances, pending builds, creation order, rounds of `initialize()`, disposal, for each container | resolve, resolveAsync, initialize, dispose | Builds of several requests join each other, rounds are shared, disposal overlaps both. What is handed out is initialized, what is created is disposed. |
| **Bootstrap and request scopes** `application/bootstrap/`, `http/handler.ts` | set of active scopes, one disposal | bootstrap, injectHandler, the hooks that end a request, onStop | A stop meets requests in every state. Dependents are disposed first; neither side hangs. |
| **Start, shutdown, health** `application/start.ts`, `lifecycle.ts`, `http/health.ts` | server, signal handlers, a stopping flag | start, stop, signals, readiness | A flag read before the checks are awaited; signals during a start. |
| **Event delivery** `events/` | subscriptions; the outbox and broker are external | publish, subscribe, outbox dispatch, consume | At-least-once delivery, crashes between publish and mark, redelivery after one failing handler. |
| **Database** `data/database.ts` | client, operations in progress, disposal | initialize, query, transaction, dispose | `dispose()` during connect or from inside an operation. |
| **Migrations** `data/migrations.ts` | external journal | up, down | A crash between a change and its journal entry. |
| **Cache** `data/cache.ts` | LRU entries, tags, loads in progress | get, set, getOrSet, delete, invalidate | A load that began before an invalidation. |
| **Locks** `data/locks.ts` | leases | acquire, release, withLock | A lease that expires under its holder. |
| **Login guard** `security/brute-force.ts`, `rate-limit.ts` | bounded maps of attempts | assertAllowed, record, reset | Overlapping attempts that all pass the check. |
| **HTTP client** `http/http-client/` | none between requests | request | Attempts, timeouts, retries, aborts. |
| **Feature graph** `application/feature.ts`, `architecture.ts`, `imports.ts`, `plugins.ts`, `diagnostics/` | none | seal, order, audit | Graph algorithms: cycles, exports, order. |

Stateless parts (request authentication, HTTP helpers, serialization, configuration,
telemetry, the command line) are listed with reasons in `PROJECT.json`, and in section 7.

How they interact:

- The scheduler calls `dispatch` of a queue, and both are usually singletons of the
  container, whose disposal disposes the scheduler before the queue it needs.
- The queue calls handlers; handlers may call the queue.
- The job worker and the event consumer put each delivery of an external broker
  through the idempotency store.
- A request gets a scope below the container of its feature; the hooks dispose it,
  or the stop does.
- The outbox hands events to a broker, the broker hands them to the consumer, the
  consumer to the bus; each edge repeats what it was not told of.
- `start()` seals and composes the feature graph, and the stop disposes the containers
  that the composition made, in the reverse of the order of the imports.

## 2. What is modelled

| Module | What | Extends or instantiates |
|---|---|---|
| `JobLifecycle` | Abstract: phases of a job, limit, identities, `close()` | |
| `JobQueue` | The in-memory queue, one action per stretch of code | |
| `JobQueueRefinement` | The mapping from the queue to the lifecycle | `JobQueue`, `JobLifecycle` |
| `Scheduler` | The scheduler over any queue that keeps the lifecycle | `JobLifecycle` |
| `Idempotency` | The idempotency store | |
| `JobWorker` | Deliveries through the store, handlers, timeouts, signals | `Idempotency` |
| `EventChannel` | Abstract: an at-least-once channel for events that depend on a fact | |
| `EventDelivery` | Outbox, workers, broker, consumer and bus, with faults | `Idempotency`, `EventChannel` |
| `Container` | resolveAsync, rounds of initialize, dispose | |
| `RequestScopes` | Requests and a stop over the container | `Container` |
| `RequestHooks` | The hooks around one request: telemetry, stream, end of its scope | |
| `ApplicationLife` | compose, start, signals, stop, readiness | |
| `ImportOrder` | The walk of the imports that orders the features | |
| `FeatureGraph` | application(), seal, composition, resolution | `ImportOrder` |
| `Database`, `Locks`, `Migrations`, `MemoryCache` | The files of `data/` of those names | |
| `BruteForce`, `RateLimit` | The files of `security/` of those names | |
| `HttpClient` | One request, with its retries and its body | |
| `MC*` | The constants of the runs; `MCParts` puts ten parts side by side | |
| `*Proofs` | Theorems and proofs, of the module or the group of modules named | `TLAPS` |

**JobQueue.** `pump` says who has the thread: the event loop, the body of `pumpQueue`,
or the synchronous part of a handler it has just started. Client calls are enabled in
the first and the last, which is how reentrant calls are modelled. `readyIn` and `timer`
are times relative to now, all that the code compares. A delivery that times out
leaves its handler behind as an orphan, which the queue does not know of.

**JobLifecycle** knows neither maps, counters nor timers: phases, the retry budget, the
limit, one active job per identity, and a gate that closes when nothing is active. It is
what the scheduler relies on; that the queue implements it lets `Scheduler` be checked
and proved over the abstract queue.

**Scheduler.** A task goes through scheduling, idle, starting, factory, dispatching and
reporting; an armed timer may fire at any time. While it is scheduling or starting, code of
an observer or of its payload factory has the thread, before the timer is set or `running`
is assigned. `stack` is the calls of that kind which have not returned; such code may call
the scheduler and the queue again. `overtaken` is history: the tasks cancelled meanwhile.

**Idempotency.** `pending` is the map of works in flight, `completed` the keys of the other.
`newer` says which ids have succeeded since a given one, which is the order of that map:
the eviction keeps the entries with fewest newer ones. `runOnce` calls the work between
its look at the capacity and the entry in `pending`: a call is "entering" until that has
returned (`calling`, innermost first), and meanwhile the work may call `runOnce` for other ids,
which are the `nested` ones until they settle. The ticks between the end of a
work and the `finally` that removes it are states of their own, because duplicates arrive
in them.

**JobWorker** adds to each call of the store its handler, its controller, whether it has
a timer, and the signal of the broker. A handler runs until it settles, whatever
happened to its attempt.

**EventDelivery.** A record goes through the phases of its row (`record`): in an open
transaction, pending, claimed, published. A worker holds the rest of its `batch` and the
`step` it has reached with the first of it. The broker is a number of `copies`, of which
a consumer `held` some without having answered. A delivery copies `bus` when `emit` begins
(`todo`), as the code does, so subscriptions change under it. Faults are a publish that
rejects whether or not the broker has the event, a mark that fails whether or not it was
written, a worker that dies, a lease recovered under a slow worker, a handler or a payload
that fails, and a restart of the consumer, which empties its store. Outbox store and
broker are external: what the dispatcher and the consumer need of them is assumed (a
claimed record goes to one worker; a copy stays until it is acknowledged).

`EventChannel` knows none of this. An event is recorded with a fact, which is rolled back or
then `owed` to the handlers; attempts to deliver it follow one another and may fail; it is let
go only when every resident handler has heard it, and may be sent again all the same.
Through the mapping at the end of `EventDelivery` an event is `owed` from the commit until the
outbox has it published and the broker has no copy of it left, an attempt is a call that
works, and what the consumer has not yet forgotten is `known`.

**Container** has one feature container, which owns every provider, and the scopes
below it. An instance is named by its container and its token. `stage` stands for the maps
`instances` and `pending`; `order` is `creationOrder`; `at` is where the loop
of the round in progress is, over a list that may grow under it; `broken` marks builds
that a failing dependency will reject. `RequestScopes` adds requests that begin, fail,
are handled and end, and the disposal that `onStop` and `disposeBootstrap` share.

**RequestHooks** follows one request through `derive`, the route, `onAfterHandle`, `onError`
and `onAfterResponse`. `marked` and `sinks` are the three weak sets of requests that have been
reported and what span, metrics and inspector were told. A status is 200, another number, or
no number (a name in `set.status`); `ResponseStatus` reports the last as 200, as the code does.
`mapped` is the entry of
`requestScopes`; `stream`, `pull` and `cancel` are the wrapper that defers the disposal. Of the
server it is assumed that `onAfterResponse` comes once the response and its stream are sent.

**ApplicationLife.** Containers are numbered as they are made, so the order of disposal
is an order of numbers; `ending` is the one promise that the hook, `disposeBootstrap` and
their callers share. The server is external: listen may throw, stop may hang or reject, the
`onStop` hooks come in between.

**ImportOrder** is the depth-first walk of `orderFeatureImports`, one step for each feature
that a loop comes to: `visiting` is the stack of the visits that have not ended, the list of
the application at its bottom, and `turn` how far the loop of each is. The code
recurses; the stack and the turns are its activation records.

**FeatureGraph** has no concurrency: the initial state is any application within the
bounds, and the steps are what the code does with it: the checks of `application()`, the
walk of the imports, the seal, the composition, and what a route of a request resolves. Seal
and composition each order the imports; that is a function of the features, so the walk is
made once. The code recurses from a provider to what it needs; here the calls still to be made
are state, `checking` for `validateToken` and `building` for `buildAsync`, and each carries the
stack that the code passes down. A call is made for a container, which is the application,
a feature, or the request scope of either. The seal is right if what it accepts is never
refused when it is built, which holds unless a feature shadows, for its own needs, what a
provider of the application or of an import needs (`NothingShadowed`).

**Database.** `round` is the promise of `initialize()`, `op` how far each call is, `disposal`
how far `dispose()` is. **Locks.** A holder stands for its token and its lease.
**Migrations.** `Registered` gives each runner the migrations of its release, numbered in
the order of their ids; `todo` is what its loop has not marked yet, and `Due` the next of it.
A failure or crash may come between a change and its mark, with either of them done or not.
**MemoryCache.** `cached` is the keys of the map, and `later` of each the keys that come after
it there. The value of a key is the version of its source that a loader read; `floor` is
history, the version below which nothing may be served any more. The loader is called between
the look at the capacity and the entry in `inFlight`: `calling` and `nested` are as in
`Idempotency`, and `Inner` bounds the keys that a loader may ask for at that time. **BruteForce** and
**RateLimit.** Times are what is left of them; `strikes` and `admitted`, the ages of the
latest 2 * `Limit` admissions of a key, are history.
**HttpClient.** `phase` is the await that `request()` is in; fetch and the body are external.

The source lines behind every definition are in `PROJECT.json` under `map`.

## 3. What the runs check

| Run | Instance | Properties |
|---|---|---|
| `queue_safety` | three interchangeable ids, concurrency 2, four kinds of options, 3 dispatches, one orphan per id | `DedupTracksActiveJobs`, `NoLostWakeup`, `NoStrandedWaiter`, `ClosedIsQuiet` |
| `queue_promises` | two ids, concurrency 2, one of the handlers hangs until it is aborted | `EveryJobSettles`, `ClosesReturn`, `ImplementsLifecycle` |
| `scheduler` | two tasks, one with a deduplication key, one job | `LoopUnbroken`, `DisposedIsQuiet`, `TaskKeepsRunning`, `DisposeResolves` |
| `job_worker` | two ids, two overlapping calls, room for one entry, TTL 2 | `OncePerWindow`, `RemembersSuccesses`, `AbortReachesHandlers`, `TimedIsAnswered` |
| `events` | two events with one fault or one event with up to three, two calls, a worker, two resident handlers and a visitor, room for one entry, TTL 1 | `NeitherLostNorRepeated`, `CommittedIsHandled`, `ImplementsChannel` |
| `request_scopes` | a lazily made singleton, a request token that needs it, a transient; two requests, one resolving two tokens at once; the singleton and the transient may fail | `ResolvedIsInitialized`, `NothingLeaks`, `DependentsFirst`, `ScopesSettle` |
| `parts` | ten parts side by side, below | 18, below |

All of them pass. Five more runs find a disagreement between code and documentation (section 5).

The parts of `parts` share no variable and ask the same question, whether each keeps its
promises when its own operations overlap. `MCParts` composes them as a sum: a behaviour
chooses one part at the start and takes that part's steps alone, so the states add up
instead of multiplying. Nothing is lost by it, since no step of one reads or writes what
another has. Each part's initial states and steps are those of its own module.

| Part | Instance | Properties |
|---|---|---|
| `Database` | three operations | `ClientIsOwned`, `DisposeReturns` |
| `Locks` | three holders, two keys, room for one, leases of 2 | `LeaseHeld` |
| `Migrations` | three migrations, releases with {1, 2}, {1, 2, 3} and {1, 3}, 2 irreversible, two faults | `JournalTellsTruth`, `ChangesAtTheEnd` |
| `MemoryCache` | three keys, a tag, room for two, two lifetimes, one write of one source, one key that other loaders may ask for | `CacheConsistent`, `InvalidationHolds` |
| `BruteForce` | two keys, two overlapping attempts, limit 2, store of one | `GuessesBounded`, `LockoutStands` |
| `RateLimit` | two clients, limit 2, window 2, store of one | `SpanBounded` |
| `HttpClient` | three attempts, two bytes | `AbortIsFinal`, `RequestSettles` |
| `ApplicationLife` | two features, with and without overrides, two checks with timeouts | `LeftClean`, `LifeSettles` |
| `FeatureGraph` | every import graph of three features; any one provider; chains of three with one that may shadow their end; knots of five or six over three tokens | `OrderIsRight`, `SealIsSound` |
| `RequestHooks` | one request | `ToldOnce`, `StreamKeepsScope` |

Why these bounds show something:

- *Queue.* Three ids under a concurrency of two give one that runs, one that runs and is
  cancelled, and one that waits for the slot; the options between them have a delay,
  a retry, a shared identity, a priority and a timeout. A third dispatch lets an id be
  used again after it has left. Safety is checked with symmetry on ids; liveness and
  refinement without it.
- *Scheduler.* Tasks share only the set and the queue, so two are enough for one to be
  cancelled while the other runs, or by the other's factory or observer. What the queue
  has is one job, which is active or not when a task dispatches; the overlap of two jobs
  has a run of its own.
- *Worker.* With two calls one owns and one joins, or both are redeliveries of one job, or
  the work of one begins the other; capacity 1 makes every success evict.
- *Events.* Two events fight for the one entry of the store; three faults let one event be
  published twice, fail in a handler and meet a restart. Any fault may come at any step. A
  record may be marked after its last copy has been acknowledged, which is the least obvious
  step of the refinement. The
  number of faults is chosen at the start and none is owed, so liveness is what
  follows when they have ended.
- *Request scopes.* Two requests share the build and the round of the singleton; one
  with two tokens makes its own two calls share a round; the stop may come before,
  between and after all of it. Only the singleton and the transient fail by themselves
  (the constant `Failing`); the request token fails through its dependency.
- *Database.* One operation starts the round, one joins it, one comes late.
- *Locks, guard, limiter.* Room for one makes every second key meet the full store; a third
  holder can take what a second took from a first. An attempt of the guard can be between
  its look and its record while the other completes.
- *Migrations.* Three releases of which none contains all the others' steps in order, and
  a fault in each direction.
- *Cache.* Two entries for three keys make a load evict; a load that began before the write
  and ends after an invalidation has the old version. Two loads and one begun by a loader
  are more than there is room for.
- *Features.* Every import graph of three features is tried, cycles and self-imports
  included. A chain of three providers is the shortest with something in its middle, and a
  fourth provider, of any home, shadows its end. A knot makes the seal and the resolution
  find different providers twice on the same path. With these the seal without the guard
  `NothingShadowed`, or with a narrower one, is refuted; with it the theorem of section 6
  covers every graph.

`CHECK_DEADLOCK FALSE` is set where the system comes to rest: a queue, a request or an
application that is over has no step left.

For each property `PROJECT.json` names a mutant: a slip in the code it would catch (a
guard dropped, a wait forgotten, a wrong entry evicted), defined next to the operator
that it replaces.

## 4. Fairness

- *Queue*: the event loop runs (an armed timer fires, the pump goes on), and handlers
  settle, except the `Stubborn` ones, which settle only when aborted. `EveryJobSettles`
  needs no more than one slot that no stubborn job can hold. That they do is strong
  fairness: a full queue with a ready job arms a zero timer again and again, and a settled
  promise is resumed before the next of those timers.
- *Scheduler*: synchronous code of observers and factories returns; timers fire, and
  factories, dispatches and error handlers settle. The latter is strong fairness: they wait
  for the thread, which the synchronous code of another task delays again and again but never
  keeps. Nothing is assumed of clients or of the jobs themselves.
- *Worker*: the synchronous part of a work returns; timeouts fire, payloads are decoded,
  promises that have settled are propagated, strongly fair for the same reason. Handlers
  need never settle.
- *Events*: each worker polls, handlers of a delivery settle, the broker redelivers what
  was not acknowledged, and the outbox store recovers the leases of workers that are gone.
  The last two are external; `events/outbox.ts:98` counts on the recovery, and without
  either a crash loses events whatever this code does.
- *Request scopes*: factories, `initialize()` and `dispose()` of providers settle. Handlers
  and streams need not, so the stop may not depend on them. Nothing repeats, so weak
  fairness of the progress steps together is enough.
- *Database*: connect, close and the work of operations settle, and calls that have
  begun go on.
- *HTTP client*: timers fire, a fetch whose signal is aborted rejects, and the cancel of the
  body of a retryable response, which `client.ts:129` awaits without a timeout, settles.
  Neither a fetch nor the reading of a body need settle by itself.
- *Application*: providers, the listening server and its stop settle. Checks need not: those
  with a timeout are ended by it.

In `parts` the fairness of a part is guarded by that part having been chosen. All but those
named are weak: the event loop never starves a ready callback, and what user code does
is assumed only where the code itself awaits it without a timeout.

## 5. Where code and documentation disagree

1. `src/README.md:792`: closing with `{ drain: false }` "still waits for those handlers to
   settle before returning". A handler whose attempt has timed out is not waited for
   (`jobs/queue-timeout.ts:20`). Run `queue_abandoned_handler`.
2. `src/docs/jobs.md:39`: the scheduler "runs fixed-delay, non-overlapping tasks". A run
   ends when its job is enqueued (`jobs/scheduler.ts:73`), so two deliveries of one
   task may be in progress together. Run `scheduler_overlap`. A task whose options carry a
   deduplication key does not overlap: theorem `KeyedTaskIsSingleAlways`.
3. `src/README.md:302`: the seal checks "the complete constructor graph before the server
   starts". When a feature imports a singleton that needs an application token, and itself
   provides that token for each request, the seal finds nothing and the composition
   throws: what a provider may not depend on is looked for in the importer's container
   (`di/resolution.ts:196`), although a singleton is then built from its own
   (`di/resolution.ts:53`). Run `shadowed_imports`, with four providers, the fewest that show
   it. An imported transient fails likewise, and with a need shadowed on either side the
   composition may report a circular dependency (`di/resolution.ts:156`) where no provider needs
   itself: the stack holds tokens, and two providers of one token meet on it. When no feature
   provides what a provider of the application or of its imports needs, the seal is right:
   `SealIsSound`.
4. `src/README.md:156`: Starpod "initializes dependent providers in order". When a request
   resolves two tokens, the round begun for the first reaches the second before the
   singleton it needs has been initialized (`di/container.ts:106`). Run
   `request_scopes_order`. What is finally handed to the handler is initialized all the
   same: `ResolvedIsInitialized`.
5. `src/README.md:269-271`: imported providers are resolved "from the original feature
   container, including that provider's private constructor dependencies". What an imported
   transient needs is looked up first in the container it is built for
   (`di/resolution.ts:203`), and only then in its own, so it is given the importer's instance of
   a token that is private to its own feature. Run `private_providers`: one feature has a
   private singleton and exports a transient that needs it; the other imports the transient
   and provides the token of the singleton itself.

Short of a disagreement, but worth knowing. None of these is a property of a run; the
modelled ones are named where the model shows them.

- *Scopes.* A scope whose request is already ending is no longer on the set when a stop
  copies it, so the feature may be disposed before that scope is (`missed` in
  `RequestScopes`). A transient finished after its scope's disposal began is disposed by
  nobody (`Held` in `Container`).
- *Scheduler.* `execute` assigns `running` after the observer and the synchronous part of the
  factory (`jobs/scheduler.ts:153-154`). A task that either of them cancels leaves the set at
  once (139), and a `dispose()` called there, or after such a cancellation, resolves while that
  run goes on (147); its job may still be dispatched, but its timer is not set again. A task
  cancelled by its own schedule observer has its timer set all the same, which finds the flag
  when it fires (`overtaken` in `Scheduler`). A factory that awaits `dispose()` beyond its first
  await waits for itself; such factories are outside the model.
- *Capacities.* The cache and the idempotency store call the loader or the work between the
  look at the capacity and the entry in the map (`data/cache.ts:132-143`,
  `data/idempotency.ts:38-48`). One that first of all asks for another key or id passes the test
  with it, and more are in flight than there is room for; `CacheConsistent` and
  `FlightsBounded` bound those that are not `nested`. Outside the model are a loader or work that
  asks for its own key before its first await, and a cache observer that calls the cache.
- *Cache.* Entries and loads each have the whole capacity, which `src/README.md:853` and
  `src/docs/cache-and-locks.md:22` may be read otherwise.
- *HTTP client.* Neither the timeout nor the caller's abort reaches the body that `text()` and
  `json()` read. A delay function that throws rejects with an error that is not
  structured (`badDelay`). When the wait or the cancel after a retryable response rejects, the
  span and the observer are told twice of one attempt (`client.ts:111-129`, then 144-153).
  Options of a request that are not valid throw plain errors (`client.ts:84-85`), which are left
  out with the rest of the validation. A retry without a delay does not look at the signal
  (`utils.ts:193`), so an aborted request may call fetch once more, with a signal that is
  aborted.
- *Guard.* An attempt that read a state which is over deletes whatever the key has by the
  time it goes on (`brute-force.ts:169`); `LockoutStands` says exactly how much that costs.
- *Idempotency store.* Each of its two maps has the whole capacity (`data/idempotency.ts:38`,
  `67`), which `src/README.md:713` may be read otherwise ("completed and in-flight entries share
  a configurable capacity").
- *Bus.* A second call of an old unsubscribe deletes later subscriptions of the event name,
  when the set that it belonged to was dropped meanwhile, by `clear()` or because it had become
  empty (`bus.ts:34`).
- *Seal.* It rejects a consumer of an imported request provider that needs
  `REQUEST_CONTEXT`, which resolution would build
  (`src/test/feature-import-resolution.test.ts` starts such an application unsealed): it errs
  on the safe side.
- *Overrides.* An application provider that needs another, overridden one is still given
  the original (`application/bootstrap/runtime.ts:99`).
- *Shutdown.* After a signal, when the server's stop rejects, nobody calls
  `disposeBootstrap`; only `stop()` does in that case. Readiness reads its flag before the
  checks (`http/health.ts:41`), so a probe may be answered "ready" after the stop began.
- *Telemetry.* A request is marked as reported before the adapters are called, so a span whose
  `setAttribute` throws is never ended; a hook that fails, or changes the status, after
  `onAfterHandle` leaves the sinks with the handler's status (`late` in `RequestHooks`). A
  status that is no number is reported as 200, whatever the server makes of it
  (`application/bootstrap/support.ts:27`).
- *Database.* A connect or an observer that calls `dispose()` synchronously, before
  `data/database.ts:61` assigns the round, is outside the model.

## 6. What is proved

The theorems hold for every value of the constants under the named assumptions of their
modules, which TLC evaluates in the runs: `QueueAssumption`, `SchedulerAssumption`,
`IdempotencyAssumption`, `ContainerAssumption`, `WantsAssumption`, `DatabaseAssumption`,
`LocksAssumption`, `BruteForceAssumption`, `HttpClientAssumption`,
`ApplicationLifeAssumption`, `CacheAssumption`, `MigrationsAssumption`,
`RateLimitAssumption`, `EventDeliveryAssumption`, `ImportOrderAssumption`,
`FeatureGraphAssumption`.

**Queue** (`JobQueueProofs`). Every safety property of `queue_safety`, the types
(`TypeCorrect`), and beyond them that the concurrency and the retry budget are respected
and that a cancellation is final. None is inductive alone: that the counter equals the
number of deliveries, say, depends on no id being in two places, and that on what
`dispatch` tests, which depends on retries keeping an id in a map. `QueueInv` is the
conjunction of named groups (the books of maps and counter, the flags, identities, budgets,
timer, waiters, the closed queue); each group has a lemma for the actions that can disturb it.

**Refinement** (`JobQueueProofs`). `Spec => Lifecycle!Spec`: each action of the
queue, seen through `Phase` and `Gate`, is one of the lifecycle or a stutter. It uses
`QueueInv` in every step: the deduplication map is as good as comparing the identities of
the active jobs only because `DedupTracksActiveJobs` holds.

**Scheduler** (`SchedulerProofs`). `LoopUnbroken`, `DisposedIsQuiet`, and that a keyed task has
one job at most. The key is `SetFindsLiveTasks`: the set `dispose()` walks holds every task
that can still act, save those that were cancelled from their own synchronous code, which is
also the exception of `DisposedIsQuiet`. It needs that no other cancelled task has a timer or
is scheduling or starting (the last line of `TypeOK`).

**Store and worker** (`IdempotencyProofs`, `JobWorkerProofs`). `OneFlightPerId`: the map of
works in flight is exactly the calls that own one and have not settled; that needs
`EnteredApart`, no two works being called for one id. From it follow
`OncePerWindow` and `FlightsBounded`, the bound on the works that are not nested in the
synchronous part of another; and, with an invariant that ties handlers
to attempts, `AbortReachesHandlers`, that a job has at most one handler that was not told to stop
(`OneUnabortedHandler`), and that it is done only by a
handler that resolves inside its attempt. `RemembersSuccesses` says that a success leaves the
store only when it has expired, was cleared, or as many others have succeeded since as the
store holds; it needs that `newer` is a strict total order of what has succeeded
(`Recency`), and that a call which was told of a success was told of one that happened.
`WorkerRemembers` shows it of the store as the worker drives it.

**Containers** (`RequestScopesProofs`), for any providers, needs, scopes and routes:

- `NothingLeaks`, from `LeakInv`, which follows an instance: while the container is open it
  is in `creationOrder`; while the loop of `dispose()` runs it is gone or ahead of the loop;
  and no cached build of the container is in progress any more. The last needs that a
  round cannot be in progress then: no instance is disposed while an `initialize()` runs.
- `ResolvedIsInitialized`. `NeedsInv` ties every build to those of what it needs, and
  `ReadyInv` every call to the round it waits for. That a round which has ended has met all
  the call made uses that a set of positions has a least element (`EarliestIsLeast`, from
  the well-foundedness of `<` on the naturals).
- `DependentsFirst`. `OrderInv`: a list of instances is ordered by needs, and reversed when it
  is being disposed. `StopInv`: which scopes the stop answers for, namely all but the missed.

**Events** (`EventDeliveryProofs`). `NeitherLostNorRepeated`, from `EventInv`. What is
published, or about to be marked so, the broker has a copy of, or every resident handler
has run for it; the broker has a copy for each unanswered delivery of an event; a delivery in
which nothing has failed has run, or has still to run, every resident handler; and an id
whose work has succeeded has been handled by all of them, so that answering its duplicates
loses nothing. `ConsumerRemembers` shows the promises of the store under a consumer that
restarts.

The second refinement is `DeliveryImplementsChannel`, `Spec => Channel!ChannelSpec`: each step of
the outbox, the broker, the consumer and the bus, faults and restarts included, is a step of
`EventChannel` or a stutter. Beside `EventInv` it needs `CommittedInv`: batches hold, and the
broker has copies of, nothing but what was committed, and a call works only while the broker
waits for its answer. So an attempt is always at an event that is owed; and when the last copy
goes, or a record is marked whose copies are gone already, nobody is at work on it and it has
been handled. That attempts do not overlap, however many copies there are, is `OneFlightPerId`.

**Data and guards** (`DataProofs`).

- `ClientIsOwned`, with the count of active operations as the cardinality of those that work;
  `LeaseHeld`, from one holder per lease.
- `LockoutStands`, from the types of the guard; and `GuessesBounded`, which is not inductive
  alone: an attempt in play counts against the budget as soon as it has looked, so
  `GuessInv` bounds failures plus attempts in play while a key is at its limit or the
  store is closed.
- `SpanBounded`. `WindowKept`: the admissions of a bucket are no older than its window, and the
  `Limit` admissions before them are older than a whole one.
- `CacheConsistent`, where `later` must be a strict total order for an eviction to leave exactly
  the room that is needed, and where the loads that are not nested in another's loader are
  within the bound; `InvalidationHolds`, where a load that has read a value has read one
  at or above the floor of its key, because an invalidation leaves the floor alone meanwhile.
- `JournalTellsTruth` and `ChangesAtTheEnd`. `PlanFits`: a run that goes on has todo exactly what
  the journal lacks (up) or the last of what it shows (down), and what it has made is the
  next of that. So the check of the journal at the start of a run is as good as one before
  every step, provided nobody else has the lock.

**Application** (`ApplicationProofs`). `AbortIsFinal`, `ToldOnce` (a sink is told once, and of
the answer, if its status is a number and nothing changed it later), `StreamKeepsScope` and
`LeftClean`, the last because the containers closed are always an upper part of those
created, and because nobody settles before the one disposal has ended. And
`OrderIsRight`: for any import graph the walk of `ImportOrder` puts every feature after all it
imports and moves it up only for one that needs it, and throws only if there is a cycle.
`OrderInv` follows the stack: each visit is of a feature that the one below it imports, what
a loop has passed is in the order or is the visit above, and what is in the order is
complete. `Needed` is the least set closed under imports, not a recursion, which is what
makes the proof possible.

`SealIsSound`, for any providers, imports, exports, lifetimes and needs. `SealInv`: when the seal
has found nothing, what it has looked at is closed, that is, it has looked at every provider in
its home and at every need of what it has looked at, from there. `BuildInv`: each call that
resolution has still to make is `Foreseen` by two calls of the seal that find the same
provider: one with the same stack, which rules out a circular dependency, and one that
began outside of a request if this one is for a singleton, which rules out the lifetimes.
One call cannot do both, because a singleton's needs are built for its own container and with
the stack of whoever came to it first. The step is `NextForeseen`; `NothingShadowed` is needed
in it where the seal goes on from the importer's container and resolution from the owner's
(`Walked`), and where resolution looks into its scope first (`OwnNeed`). That the containers of
imports exist when they are asked for comes from `OrderInv`.

Only model-checked:

- all liveness (`EveryJobSettles`, `ClosesReturn`, `TaskKeepsRunning`, `DisposeResolves`,
  `TimedIsAnswered`, `CommittedIsHandled`, `ScopesSettle`, `DisposeReturns`, `RequestSettles`,
  `LifeSettles`): fairness and `ENABLED` are out of the prover's reach. What it rests on is often
  proved: no lost wake-up and no stranded waiter in the queue, an unbroken loop in the
  scheduler.
- That the walks end, of the imports, the seal and resolution. A measure for it would be
  liveness.

Every invariant and every action property of a passing run is a theorem, and so are both
refinements (`ImplementsLifecycle`, `ImplementsChannel`).

## 7. Not modelled

Logging, formatting, validation of options, schemas and codecs change no state that a
property here is about. Wall-clock time appears only as what is compared; the width of a
timer (2^31 - 1 ms, above which the platform fires at once) is not. Components left out:

- *Sessions*: one read and one delete of an external store around an await; the rest is
  cookie text. *Request authentication, policy and HTTP helpers*: functions of one request.
- *Telemetry adapters*: what a request tells them is in `RequestHooks`; what they do with
  it is another library's. *Errors, configuration, serialization, command line*: pure
  conversion, and input and output.
- *Job contracts and the external dispatcher*: a registry written at start-up and a
  pass-through to a transport.

Left out of modelled components:

- *Queue*: observers and backoff functions that call back into the queue.
- *Container*: overrides; synchronous `resolve()` beside a pending `resolveAsync` (which
  can build a second instance of it); transients that other providers need.
- *Feature graph*: the order of plugins, the folder rules of the seal, "uses", and doctor and
  audit, which report and decide nothing.
- *Bus*: a late second unsubscribe. *Database*: an operation that awaits `dispose()` itself,
  which waits for ever.

## 8. What is left

1. The container with synchronous `resolve()` and with overrides.
2. Plugin order and the folder rules of the seal, as functions over small graphs.
