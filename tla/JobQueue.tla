------------------------------ MODULE JobQueue ------------------------------
(***************************************************************************)
(* InMemoryJobQueue (src/kernel/jobs/queue.ts) over the runtime state of   *)
(* src/kernel/jobs/queue-runtime.ts and the attempt timeout of             *)
(* queue-timeout.ts.                                                       *)
(*                                                                         *)
(* JavaScript runs one synchronous stretch of code at a time, so an action *)
(* is one such stretch.  The exception is the loop of pumpQueue: each job  *)
(* it starts runs the synchronous part of a user handler, and that code    *)
(* may call back into the queue.  The variable pump says who has the       *)
(* thread: "idle" (the event loop), "loop" (the body of pumpQueue), "user" *)
(* (the synchronous part of the handler pumpQueue has just started).  The  *)
(* code's boolean pumping is pump # "idle".                                *)
(*                                                                         *)
(* Time is relative: readyIn[j] is readyAt - now and timer is the rest of  *)
(* the armed setTimeout, both clamped at 0, which is all the code compares.*)
(***************************************************************************)
EXTENDS Integers, FiniteSets

CONSTANTS
  Jobs,           \* job ids a client may dispatch under
  Keys, NoKey,    \* deduplication identities (name, tenant, key)
  NoJob,          \* an absent entry of the deduplication map
  Options,        \* option records a client may pass to dispatch
  Backoffs,       \* results of backoffMs; NoDelay is a throw or a bad number
  Concurrency,    \* InMemoryJobQueueOptions.concurrency
  Waiters,        \* callers of awaitIdle
  Stubborn,       \* jobs whose handlers settle only when their signal is aborted
  MaxDispatches,  \* bound: dispatches accepted in a behaviour
  MaxOrphans      \* bound: timed-out handlers of one id still running

NoDelay == -1
NoTimer == -1

JobOptions == [ priority : Int, maxAttempts : Nat \ {0}, delay : Nat,
                key : Keys \cup {NoKey}, timed : BOOLEAN ]

ASSUME QueueAssumption ==
  /\ Concurrency \in Nat \ {0}
  /\ IsFiniteSet(Jobs)
  /\ NoKey \notin Keys
  /\ NoJob \notin Jobs
  /\ Options \subseteq JobOptions
  /\ Backoffs \subseteq Nat \cup {NoDelay}
  /\ MaxDispatches \in Nat
  /\ MaxOrphans \in Nat

VARIABLES
  pending,      \* ids in the array pending
  runningJobs,  \* ids in the maps runningJobs and controllers
  dead,         \* ids in the map dead
  opts,         \* what each id was dispatched with
  seq,          \* QueuedJob.sequence
  attempt,      \* QueuedJob.attempt
  readyIn,      \* QueuedJob.readyAt - now
  jobCancelled, \* running jobs whose cancelled flag is set
  aborted,      \* running jobs whose controller has been aborted
  dedup,        \* the map deduplicated: identity -> id of the receipt
  running,      \* the counter of deliveries in progress
  sequence,     \* the next sequence number
  timer,        \* the armed wake-up, or NoTimer
  pump,         \* who has the thread
  accepting, cancelled,  \* the flags close() changes
  idleWaiters,  \* callers whose awaitIdle has not resolved
  closing,      \* the promise of close(): "open", "waiting", "closed"
  orphans       \* handlers that outlive their timed-out attempt

jobVars   == <<opts, seq, attempt, readyIn>>
placeVars == <<pending, runningJobs, dead>>
flagVars  == <<jobCancelled, aborted>>
waitVars  == <<idleWaiters, closing>>
vars == <<pending, runningJobs, dead, opts, seq, attempt, readyIn,
          jobCancelled, aborted, dedup, running, sequence, timer, pump,
          accepting, cancelled, idleWaiters, closing, orphans>>

NullOptions == [ priority |-> 0, maxAttempts |-> 1, delay |-> 0,
                 key |-> NoKey, timed |-> FALSE ]

Init ==
  /\ pending = {} /\ runningJobs = {} /\ dead = {}
  /\ opts = [j \in Jobs |-> NullOptions]
  /\ seq = [j \in Jobs |-> 0]
  /\ attempt = [j \in Jobs |-> 0]
  /\ readyIn = [j \in Jobs |-> 0]
  /\ jobCancelled = {} /\ aborted = {}
  /\ dedup = [k \in Keys |-> NoJob]
  /\ running = 0 /\ sequence = 0
  /\ timer = NoTimer
  /\ pump = "idle"
  /\ accepting = TRUE /\ cancelled = FALSE
  /\ idleWaiters = {} /\ closing = "open"
  /\ orphans = [j \in Jobs |-> 0]

-----------------------------------------------------------------------------
(* Helpers of queue-runtime.ts.  Their parameters are the values the code  *)
(* has already written when it calls them.                                 *)

\* Mutants of the next helper: it reads what the caller has not written yet; it
\* forgets that pending jobs keep a queue busy.
ResolveTooEarly(pend, run) ==
  IF pending = {} /\ running = 0
  THEN /\ idleWaiters' = {}
       /\ closing' = IF closing = "waiting" THEN "closed" ELSE closing
  ELSE UNCHANGED waitVars
ResolveWhilePending(pend, run) ==
  IF run = 0
  THEN /\ idleWaiters' = {}
       /\ closing' = IF closing = "waiting" THEN "closed" ELSE closing
  ELSE UNCHANGED waitVars

\* resolveIdleWaiters: the promise of close() is one of the waiters.
ResolveIdleWaiters(pend, run) ==
  IF pend = {} /\ run = 0
  THEN /\ idleWaiters' = {}
       /\ closing' = IF closing = "waiting" THEN "closed" ELSE closing
  ELSE UNCHANGED waitVars

\* Mutants of the next helper: it keeps the timer that is armed; it stops arming
\* as soon as the queue no longer accepts jobs.
ArmTimerOnce(pend) ==
  IF pend = {} \/ cancelled \/ timer # NoTimer
  THEN timer' = IF pend = {} THEN NoTimer ELSE timer
  ELSE \E j \in pend : /\ \A i \in pend : readyIn[j] <= readyIn[i]
                       /\ timer' = readyIn[j]
ArmTimerWhileOpen(pend) ==
  IF pend = {} \/ ~accepting
  THEN timer' = NoTimer
  ELSE \E j \in pend : /\ \A i \in pend : readyIn[j] <= readyIn[i]
                       /\ timer' = readyIn[j]

\* armTimer: wake up when the earliest pending job is ready.
ArmTimer(pend) ==
  IF pend = {} \/ cancelled
  THEN timer' = NoTimer
  ELSE \E j \in pend : /\ \A i \in pend : readyIn[j] <= readyIn[i]
                       /\ timer' = readyIn[j]

\* What is left of a delay after one unit of time; a delay never goes below 0.
Elapsed(n) == IF n > 0 THEN n - 1 ELSE n

\* Mutant: a cancelled job keeps its identity.
ClearUnlessCancelled(j) ==
  [k \in Keys |-> IF k = opts[j].key /\ j \notin jobCancelled THEN NoJob ELSE dedup[k]]

\* clearDeduplication deletes the job's identity, whoever holds it.
ClearDeduplication(j) ==
  [k \in Keys |-> IF k = opts[j].key THEN NoJob ELSE dedup[k]]

\* A call of pumpQueue: it returns at once inside another call of itself and
\* on a queue closed without a drain, otherwise it enters its loop.
PumpQueue(pend, run) ==
  IF pump # "idle" \/ cancelled
  THEN ResolveIdleWaiters(pend, run) /\ UNCHANGED pump
  ELSE pump' = "loop" /\ UNCHANGED waitVars

\* The loop of pumpQueue has room for one more delivery.
HasCapacity == running < Concurrency

Ready == { j \in pending : readyIn[j] = 0 }

\* takeReady prefers the higher priority, then the lower sequence number.
Precedes(i, j) ==
  \/ opts[i].priority > opts[j].priority
  \/ opts[i].priority = opts[j].priority /\ seq[i] < seq[j]

\* The tests of dispatchJob: an id in use, an identity in use.  Mutant:
\* the identities of deliveries in progress are forgotten.
InUse == pending \cup runningJobs \cup dead
IdentityNotPending(k) == k # NoKey => dedup[k] \notin pending
IdentityFree(k) == k # NoKey => dedup[k] = NoJob

\* The tests of executeJob's catch block.  Mutants: only a closed queue counts as
\* a cancellation; one attempt too many.
QueueCancelled(j) == cancelled
WasCancelled(j) == j \in jobCancelled \/ cancelled
MayRetryOnceMore(j) == attempt[j] <= opts[j].maxAttempts
MayRetry(j) == attempt[j] < opts[j].maxAttempts

\* The controllers aborted by cancel and close.  Mutant: the call is missing.
AbortNothing(js) == aborted
Abort(js) == aborted \cup js

\* User code can call the queue from a task of its own or from the
\* synchronous part of a handler, never from inside the loop.
UserHasThread == pump \in {"idle", "user"}

-----------------------------------------------------------------------------
(* Client calls (queue.ts).                                                *)

\* dispatchJob past its validation: a closed queue, a live identity and an id
\* in use return or throw before anything changes.
Dispatch(j, o) ==
  /\ UserHasThread
  /\ accepting
  /\ IdentityFree(o.key)
  /\ j \notin InUse
  /\ sequence < MaxDispatches
  /\ opts' = [opts EXCEPT ![j] = o]
  /\ seq' = [seq EXCEPT ![j] = sequence]
  /\ attempt' = [attempt EXCEPT ![j] = 0]
  /\ readyIn' = [readyIn EXCEPT ![j] = o.delay]
  /\ sequence' = sequence + 1
  /\ pending' = pending \cup {j}
  /\ dedup' = [k \in Keys |-> IF k = o.key THEN j ELSE dedup[k]]
  /\ PumpQueue(pending', running)
  /\ UNCHANGED <<runningJobs, dead, flagVars, running, timer, accepting,
                 cancelled, orphans>>

\* awaitIdle on a busy queue; on an idle one it resolves without a trace.
AwaitIdle(w) ==
  /\ UserHasThread
  /\ pending # {} \/ running > 0
  /\ idleWaiters' = idleWaiters \cup {w}
  /\ UNCHANGED <<placeVars, jobVars, flagVars, dedup, running, sequence,
                 timer, pump, accepting, cancelled, closing, orphans>>

\* cancel(id) of a job that has not been taken.
CancelPending(j) ==
  /\ UserHasThread
  /\ j \in pending
  /\ pending' = pending \ {j}
  /\ dedup' = ClearDeduplication(j)
  /\ ArmTimer(pending')
  /\ ResolveIdleWaiters(pending', running)
  /\ UNCHANGED <<runningJobs, dead, jobVars, flagVars, running, sequence,
                 pump, accepting, cancelled, orphans>>

\* cancel(id) of a delivery in progress only raises flags: the job stays in
\* the maps and keeps its identity until its handler settles.
CancelRunning(j) ==
  /\ UserHasThread
  /\ j \in runningJobs \ pending
  /\ jobCancelled' = jobCancelled \cup {j}
  /\ aborted' = Abort({j})
  /\ UNCHANGED <<placeVars, jobVars, dedup, running, sequence, timer, pump,
                 accepting, cancelled, waitVars, orphans>>

ClearDeadLetters ==
  /\ UserHasThread
  /\ dead' = {}
  /\ UNCHANGED <<pending, runningJobs, jobVars, flagVars, dedup, running,
                 sequence, timer, pump, accepting, cancelled, waitVars,
                 orphans>>

\* The first close({ drain: true }).  The code pumps and then awaits idleness;
\* joining the waiters before the loop is the same, because the loop resolves
\* them on exactly the condition awaitIdle tests, and a handler that closes
\* the queue is itself running.
CloseDrain ==
  /\ UserHasThread
  /\ closing = "open"
  /\ accepting' = FALSE
  /\ closing' = "waiting"
  /\ pump' = IF pump = "idle" THEN "loop" ELSE pump
  /\ UNCHANGED <<placeVars, jobVars, flagVars, dedup, running, sequence,
                 timer, cancelled, idleWaiters, orphans>>

\* The first close({ drain: false }): drop what is pending, abort what runs.
CloseNow ==
  /\ UserHasThread
  /\ closing = "open"
  /\ accepting' = FALSE
  /\ cancelled' = TRUE
  /\ dedup' = [k \in Keys |->
                 IF \E j \in pending : opts[j].key = k THEN NoJob ELSE dedup[k]]
  /\ pending' = {}
  /\ jobCancelled' = jobCancelled \cup runningJobs
  /\ aborted' = Abort(runningJobs)
  /\ timer' = NoTimer
  /\ closing' = IF running = 0 THEN "closed" ELSE "waiting"
  /\ idleWaiters' = IF running = 0 THEN {} ELSE idleWaiters
  /\ UNCHANGED <<runningJobs, dead, jobVars, running, sequence, pump, orphans>>

-----------------------------------------------------------------------------
(* The loop of pumpQueue and the wake-up that calls it.                    *)

\* One turn of the loop: take the first ready job, begin executeJob, and give
\* the thread to the synchronous part of the handler.
StartNext(j) ==
  /\ pump = "loop"
  /\ HasCapacity
  /\ j \in Ready
  /\ \A i \in Ready \ {j} : Precedes(j, i)
  /\ pending' = pending \ {j}
  /\ running' = running + 1
  /\ runningJobs' = runningJobs \cup {j}
  /\ attempt' = [attempt EXCEPT ![j] = @ + 1]
  /\ pump' = "user"
  /\ UNCHANGED <<dead, opts, seq, readyIn, flagVars, dedup, sequence, timer,
                 accepting, cancelled, waitVars, orphans>>

HandlerYields ==
  /\ pump = "user"
  /\ pump' = "loop"
  /\ UNCHANGED <<placeVars, jobVars, flagVars, dedup, running, sequence,
                 timer, accepting, cancelled, waitVars, orphans>>

PumpDone ==
  /\ pump = "loop"
  /\ ~HasCapacity \/ Ready = {}
  /\ pump' = "idle"
  /\ ArmTimer(pending)
  /\ ResolveIdleWaiters(pending, running)
  /\ UNCHANGED <<placeVars, jobVars, flagVars, dedup, running, sequence,
                 accepting, cancelled, orphans>>

TimerFires ==
  /\ pump = "idle"
  /\ timer = 0
  /\ timer' = NoTimer
  /\ PumpQueue(pending, running)
  /\ UNCHANGED <<placeVars, jobVars, flagVars, dedup, running, sequence,
                 accepting, cancelled, orphans>>

Tick ==
  /\ timer > 0 \/ \E j \in pending : readyIn[j] > 0
  /\ readyIn' = [j \in Jobs |-> IF j \in pending THEN Elapsed(readyIn[j])
                                ELSE readyIn[j]]
  /\ timer' = Elapsed(timer)
  /\ UNCHANGED <<placeVars, opts, seq, attempt, flagVars, dedup, running,
                 sequence, pump, accepting, cancelled, waitVars, orphans>>

-----------------------------------------------------------------------------
(* The rest of executeJob, resumed when the attempt settles.               *)

\* The finally block.
EndDelivery(j, pend) ==
  /\ runningJobs' = runningJobs \ {j}
  /\ jobCancelled' = jobCancelled \ {j}
  /\ aborted' = aborted \ {j}
  /\ running' = running - 1
  /\ PumpQueue(pend, running - 1)
  /\ UNCHANGED <<opts, seq, attempt, sequence, timer, accepting, cancelled>>

CanSettle(j) == pump = "idle" /\ j \in runningJobs

Succeed(j) ==
  /\ CanSettle(j)
  /\ dedup' = ClearDeduplication(j)
  /\ EndDelivery(j, pending)
  /\ UNCHANGED <<pending, dead, readyIn, orphans>>

\* Cancellation is a control decision, not a failed delivery.
DropCancelled(j) ==
  /\ WasCancelled(j)
  /\ dedup' = ClearDeduplication(j)
  /\ EndDelivery(j, pending)
  /\ UNCHANGED <<pending, dead, readyIn>>

Retry(j) ==
  /\ ~WasCancelled(j)
  /\ MayRetry(j)
  /\ \E d \in Backoffs \ {NoDelay} : readyIn' = [readyIn EXCEPT ![j] = d]
  /\ pending' = pending \cup {j}
  /\ EndDelivery(j, pending')
  /\ UNCHANGED <<dead, dedup>>

DeadLetter(j) ==
  /\ ~WasCancelled(j)
  /\ ~MayRetry(j) \/ NoDelay \in Backoffs
  /\ dead' = dead \cup {j}
  /\ dedup' = ClearDeduplication(j)
  /\ EndDelivery(j, pending)
  /\ UNCHANGED <<pending, readyIn>>

Reject(j) ==
  /\ CanSettle(j)
  /\ DropCancelled(j) \/ Retry(j) \/ DeadLetter(j)

\* The handler of the current attempt throws or rejects.
HandlerFails(j) ==
  /\ Reject(j)
  /\ UNCHANGED orphans

\* The timeout of runWithTimeout fires first: it aborts the controller and
\* rejects the attempt, but nothing waits for the handler any longer.
AttemptTimesOut(j) ==
  /\ opts[j].timed
  /\ orphans[j] < MaxOrphans
  /\ Reject(j)
  /\ orphans' = [orphans EXCEPT ![j] = @ + 1]

\* A handler left behind by a timeout settles; its outcome is ignored.
OrphanSettles(j) ==
  /\ pump = "idle"
  /\ orphans[j] > 0
  /\ orphans' = [orphans EXCEPT ![j] = @ - 1]
  /\ UNCHANGED <<placeVars, jobVars, flagVars, dedup, running, sequence,
                 timer, pump, accepting, cancelled, waitVars>>

-----------------------------------------------------------------------------
Settle(j) == Succeed(j) \/ HandlerFails(j) \/ AttemptTimesOut(j)

PumpStep == (\E j \in Jobs : StartNext(j)) \/ HandlerYields \/ PumpDone

Client ==
  \/ \E j \in Jobs, o \in Options : Dispatch(j, o)
  \/ \E w \in Waiters : AwaitIdle(w)
  \/ \E j \in Jobs : CancelPending(j) \/ CancelRunning(j)
  \/ ClearDeadLetters
  \/ CloseDrain
  \/ CloseNow

\* A closed queue has nothing left to do.
Stopped == closing = "closed" /\ UNCHANGED vars

Next ==
  \/ Client
  \/ PumpStep
  \/ TimerFires
  \/ Tick
  \/ \E j \in Jobs : Settle(j) \/ OrphanSettles(j)
  \/ Stopped

Spec == Init /\ [][Next]_vars

\* The event loop keeps running: timers fire, synchronous code returns.
EventLoop == WF_vars(PumpStep) /\ WF_vars(TimerFires) /\ WF_vars(Tick)

\* Handlers settle, those of Stubborn jobs only once their signal is aborted.
\* Strong fairness, because a full queue with a ready job re-arms a zero timer
\* forever, and a settled promise is still resumed before the next of those
\* timers.
HandlersSettle ==
  \A j \in Jobs : SF_vars((j \notin Stubborn \/ j \in aborted) /\ Settle(j))

FairSpec == Spec /\ EventLoop /\ HandlersSettle

-----------------------------------------------------------------------------
\* The state the code's classes declare: what is in the maps are job ids, the
\* flags of a delivery belong to a delivery in progress, a delay is not negative.

TypeOK ==
  /\ pending \subseteq Jobs /\ runningJobs \subseteq Jobs /\ dead \subseteq Jobs
  /\ opts \in [Jobs -> JobOptions]
  /\ seq \in [Jobs -> Nat]
  /\ attempt \in [Jobs -> Nat]
  /\ readyIn \in [Jobs -> Nat]
  /\ jobCancelled \subseteq runningJobs /\ aborted \subseteq runningJobs
  /\ dedup \in [Keys -> Jobs \cup {NoJob}]
  /\ running \in Nat /\ sequence \in Nat
  /\ timer \in Nat \cup {NoTimer}
  /\ pump \in {"idle", "loop", "user"}
  /\ accepting \in BOOLEAN /\ cancelled \in BOOLEAN
  /\ idleWaiters \subseteq Waiters
  /\ closing \in {"open", "waiting", "closed"}
  /\ orphans \in [Jobs -> Nat]

\* The counter running and the map runningJobs never disagree, and the queue
\* never has more deliveries in progress than its concurrency, whatever
\* timeouts, cancellations and reentrant calls happen (executeJob, pumpQueue).
ConcurrencyRespected ==
  /\ running = Cardinality(runningJobs)
  /\ running <= Concurrency

\* An id is pending, in progress or dead-lettered, never two of them: the check
\* of dispatchJob stays right across retries and clearDeadLetters.
OnePlace ==
  /\ pending \cap runningJobs = {}
  /\ dead \cap (pending \cup runningJobs) = {}

\* The deduplication map holds an identity exactly while a job dispatched under
\* it is pending or in progress, and names that job: no identity is freed while
\* a retry is still to come, none is left behind by an outcome, and no two
\* active jobs share one.
DedupTracksActiveJobs ==
  \A k \in Keys, j \in Jobs :
    dedup[k] = j <=> j \in pending \cup runningJobs /\ opts[j].key = k

\* When the thread is back with the event loop, the timer is armed for exactly
\* the earliest pending job, and not armed when there is none: a delayed or
\* retried job cannot be forgotten, and an empty queue keeps no timer alive.
NoLostWakeup ==
  pump = "idle" =>
    IF pending = {} THEN timer = NoTimer
    ELSE /\ \A j \in pending : timer <= readyIn[j]
         /\ \E j \in pending : timer = readyIn[j]

\* No caller of awaitIdle or close() is left waiting on an idle queue: every
\* path that empties the queue resolves the waiters.
NoStrandedWaiter ==
  pump = "idle" /\ (idleWaiters # {} \/ closing = "waiting")
    => pending # {} \/ running > 0

\* Once close() has resolved, no delivery is pending, in progress or scheduled,
\* and none can be accepted, so a disposed queue starts nothing more.
ClosedIsQuiet ==
  closing = "closed" =>
    /\ pending = {} /\ runningJobs = {} /\ dedup = [k \in Keys |-> NoJob]
    /\ timer = NoTimer /\ pump = "idle" /\ ~accepting

\* A job is taken again only while its retry budget lasts, and no attempt goes
\* beyond it.
RetryBudget ==
  /\ \A j \in pending : attempt[j] < opts[j].maxAttempts
  /\ \A j \in runningJobs \cup dead : attempt[j] \in 1..opts[j].maxAttempts

\* A job cancelled while in progress is never retried nor dead-lettered, however
\* its handler settles (the catch block of executeJob).
CancellationIsFinal ==
  [][\A j \in jobCancelled : j \notin pending' \cup dead']_vars

\* While handlers that hang leave room, every other accepted job reaches an
\* outcome: it leaves the queue or is dead.
EveryJobSettles ==
  Cardinality(Stubborn) < Concurrency =>
    \A j \in Jobs \ Stubborn :
      j \in pending \cup runningJobs ~> j \notin pending \cup runningJobs

\* close() resolves once nothing that hangs is left, and so does every awaitIdle
\* that was called before it (queue.ts:106); close({ drain: false }) needs only
\* handlers that settle when their signal is aborted: it aborts every one of them
\* and drops the rest.
ClosesReturn ==
  /\ closing = "waiting" /\ Stubborn \cap (pending \cup runningJobs) = {}
       ~> closing = "closed" /\ idleWaiters = {}
  /\ cancelled ~> closing = "closed"

\* README: closing with { drain: false } "still waits for those handlers to
\* settle before returning".
CloseWaitsForHandlers ==
  closing = "closed" /\ cancelled => \A j \in Jobs : orphans[j] = 0

=============================================================================
