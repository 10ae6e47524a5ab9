--------------------------- MODULE JobQueueProofs ---------------------------
(***************************************************************************)
(* Proofs about JobQueue, for every set of ids, identities, options and    *)
(* waiters, and every concurrency: what it keeps, and that it implements   *)
(* JobLifecycle.                                                           *)
(***************************************************************************)
EXTENDS JobQueueRefinement, TLAPS, FiniteSetTheorems

\* The typing of the counter running is inductive only together with what it
\* counts, and the count only with the disjointness of the places.
Bookkeeping == TypeOK /\ ConcurrencyRespected /\ OnePlace

-----------------------------------------------------------------------------
LEMMA OptionsTyped == NullOptions \in JobOptions /\ Options \subseteq JobOptions
BY QueueAssumption DEF NullOptions, JobOptions

\* Taking a job adds one to the count of deliveries.
LEMMA CountAdds ==
  ASSUME Bookkeeping, NEW j \in Jobs, j \notin runningJobs
  PROVE  Cardinality(runningJobs \cup {j}) = Cardinality(runningJobs) + 1
<1>1. IsFiniteSet(runningJobs)
  BY QueueAssumption, FS_Subset DEF Bookkeeping, TypeOK
<1> QED BY <1>1, FS_AddElement

\* The end of a delivery takes one from the count, which was positive.
LEMMA CountDrops ==
  ASSUME Bookkeeping, NEW j \in runningJobs
  PROVE  /\ Cardinality(runningJobs \ {j}) = running - 1
         /\ running - 1 \in Nat
<1>1. IsFiniteSet(runningJobs)
  BY QueueAssumption, FS_Subset DEF Bookkeeping, TypeOK
<1>2. Cardinality(runningJobs \ {j}) = Cardinality(runningJobs) - 1
  BY <1>1, FS_RemoveElement
<1>3. IsFiniteSet(runningJobs \ {j})
  BY <1>1, FS_RemoveElement
<1>4. Cardinality(runningJobs \ {j}) \in Nat
  BY <1>3, FS_CardinalityType
<1> QED BY <1>2, <1>4 DEF Bookkeeping, ConcurrencyRespected

\* Every queue is idle when, and only when, its maps are empty.
LEMMA CountZero ==
  ASSUME Bookkeeping
  PROVE  running = 0 <=> runningJobs = {}
<1>1. IsFiniteSet(runningJobs)
  BY QueueAssumption, FS_Subset DEF Bookkeeping, TypeOK
<1> QED BY <1>1, FS_EmptySet DEF Bookkeeping, ConcurrencyRespected

-----------------------------------------------------------------------------
LEMMA BookkeepingInit == Init => Bookkeeping
<1> SUFFICES ASSUME Init PROVE Bookkeeping
  OBVIOUS
<1>1. TypeOK
  BY OptionsTyped, QueueAssumption DEF Init, TypeOK, NoTimer
<1>2. ConcurrencyRespected
  BY FS_EmptySet, QueueAssumption DEF Init, ConcurrencyRespected
<1>3. OnePlace
  BY DEF Init, OnePlace
<1> QED BY <1>1, <1>2, <1>3 DEF Bookkeeping

\* What the end of a delivery does to the bookkeeping, whatever its outcome.
LEMMA EndDeliveryKeepsBooks ==
  ASSUME Bookkeeping, NEW j \in runningJobs, NEW pend, EndDelivery(j, pend)
  PROVE  /\ runningJobs' = runningJobs \ {j}
         /\ runningJobs' \subseteq Jobs
         /\ jobCancelled' \subseteq runningJobs'
         /\ aborted' \subseteq runningJobs'
         /\ running' \in Nat
         /\ ConcurrencyRespected'
         /\ pump' \in {"idle", "loop", "user"}
         /\ idleWaiters' \subseteq Waiters
         /\ closing' \in {"open", "waiting", "closed"}
         /\ UNCHANGED <<opts, seq, attempt, sequence, timer, accepting, cancelled>>
<1> USE DEF Bookkeeping, TypeOK, EndDelivery
<1>1. /\ runningJobs' = runningJobs \ {j}
      /\ runningJobs' \subseteq Jobs
      /\ jobCancelled' \subseteq runningJobs'
      /\ aborted' \subseteq runningJobs'
      /\ UNCHANGED <<opts, seq, attempt, sequence, timer, accepting, cancelled>>
  OBVIOUS
<1>2. running' \in Nat /\ ConcurrencyRespected'
  BY CountDrops, QueueAssumption DEF ConcurrencyRespected
<1>3. /\ pump' \in {"idle", "loop", "user"}
      /\ idleWaiters' \subseteq Waiters
      /\ closing' \in {"open", "waiting", "closed"}
  BY DEF PumpQueue, ResolveIdleWaiters, waitVars
<1> QED BY <1>1, <1>2, <1>3

\* Every step keeps the books.
LEMMA BookkeepingStep == Bookkeeping /\ [Next]_vars => Bookkeeping'
<1> SUFFICES ASSUME Bookkeeping, [Next]_vars PROVE Bookkeeping'
  OBVIOUS
<1> USE DEF Bookkeeping, placeVars, jobVars, flagVars, waitVars,
            InUse, HasCapacity, WasCancelled, MayRetry, Abort, Elapsed
<1>1. ASSUME NEW j \in Jobs, NEW o \in Options, Dispatch(j, o)
      PROVE  Bookkeeping'
  <2>1. TypeOK'
    BY <1>1, OptionsTyped DEF Dispatch, TypeOK, PumpQueue, ResolveIdleWaiters, JobOptions
  <2> QED BY <1>1, <2>1 DEF Dispatch, ConcurrencyRespected, OnePlace
<1>2. ASSUME NEW w \in Waiters, AwaitIdle(w)
      PROVE  Bookkeeping'
  BY <1>2 DEF AwaitIdle, TypeOK, ConcurrencyRespected, OnePlace
<1>3. ASSUME NEW j \in Jobs, CancelPending(j)
      PROVE  Bookkeeping'
  <2>1. TypeOK'
    BY <1>3 DEF CancelPending, TypeOK, ClearDeduplication, ArmTimer, ResolveIdleWaiters
  <2> QED BY <1>3, <2>1 DEF CancelPending, ConcurrencyRespected, OnePlace
<1>4. ASSUME NEW j \in Jobs, CancelRunning(j)
      PROVE  Bookkeeping'
  BY <1>4 DEF CancelRunning, TypeOK, ConcurrencyRespected, OnePlace
<1>5. CASE ClearDeadLetters
  BY <1>5 DEF ClearDeadLetters, TypeOK, ConcurrencyRespected, OnePlace
<1>6. CASE CloseDrain
  BY <1>6 DEF CloseDrain, TypeOK, ConcurrencyRespected, OnePlace
<1>7. CASE CloseNow
  BY <1>7 DEF CloseNow, TypeOK, ConcurrencyRespected, OnePlace
<1>8. ASSUME NEW j \in Jobs, StartNext(j)
      PROVE  Bookkeeping'
  <2>1. j \in pending /\ j \notin runningJobs
    BY <1>8 DEF StartNext, Ready, OnePlace
  <2>2. TypeOK'
    BY <1>8 DEF StartNext, TypeOK
  <2>3. ConcurrencyRespected'
    BY <1>8, <2>1, CountAdds, QueueAssumption DEF StartNext, ConcurrencyRespected, TypeOK
  <2> QED BY <1>8, <2>1, <2>2, <2>3 DEF StartNext, OnePlace
<1>9. CASE HandlerYields
  BY <1>9 DEF HandlerYields, TypeOK, ConcurrencyRespected, OnePlace
<1>10. CASE PumpDone
  BY <1>10 DEF PumpDone, ArmTimer, ResolveIdleWaiters, TypeOK, ConcurrencyRespected, OnePlace
<1>11. CASE TimerFires
  BY <1>11 DEF TimerFires, PumpQueue, ResolveIdleWaiters, TypeOK, ConcurrencyRespected, OnePlace
<1>12. CASE Tick
  BY <1>12 DEF Tick, NoTimer, TypeOK, ConcurrencyRespected, OnePlace
<1>13. ASSUME NEW j \in Jobs, Succeed(j)
       PROVE  Bookkeeping'
  <2> USE <1>13, EndDeliveryKeepsBooks DEF Succeed, CanSettle
  <2>1. TypeOK'
    BY DEF TypeOK, ClearDeduplication
  <2> QED BY <2>1 DEF OnePlace
<1>14. ASSUME NEW j \in Jobs, Reject(j), orphans' \in [Jobs -> Nat]
       PROVE  Bookkeeping'
  <2>1. CASE DropCancelled(j)
    <3> USE <1>14, <2>1, EndDeliveryKeepsBooks DEF Reject, CanSettle, DropCancelled
    <3>1. TypeOK'
      BY DEF TypeOK, ClearDeduplication
    <3> QED BY <3>1 DEF OnePlace
  <2>2. CASE Retry(j)
    <3> USE <1>14, <2>2, EndDeliveryKeepsBooks DEF Reject, CanSettle, Retry
    <3>1. TypeOK'
      BY QueueAssumption DEF TypeOK
    <3> QED BY <3>1 DEF OnePlace
  <2>3. CASE DeadLetter(j)
    <3> USE <1>14, <2>3, EndDeliveryKeepsBooks DEF Reject, CanSettle, DeadLetter
    <3>1. TypeOK'
      BY DEF TypeOK, ClearDeduplication
    <3> QED BY <3>1 DEF OnePlace
  <2> QED BY <1>14, <2>1, <2>2, <2>3 DEF Reject
<1>15. ASSUME NEW j \in Jobs, HandlerFails(j) \/ AttemptTimesOut(j)
       PROVE  Bookkeeping'
  <2>1. Reject(j) /\ orphans' \in [Jobs -> Nat]
    BY <1>15 DEF HandlerFails, AttemptTimesOut, TypeOK
  <2> QED BY <2>1, <1>14
<1>16. ASSUME NEW j \in Jobs, OrphanSettles(j)
       PROVE  Bookkeeping'
  BY <1>16 DEF OrphanSettles, TypeOK, ConcurrencyRespected, OnePlace
<1>17. CASE UNCHANGED vars
  BY <1>17 DEF vars, TypeOK, ConcurrencyRespected, OnePlace
<1> QED
  BY <1>1, <1>2, <1>3, <1>4, <1>5, <1>6, <1>7, <1>8, <1>9, <1>10, <1>11,
     <1>12, <1>13, <1>15, <1>16, <1>17
     DEF Next, Client, PumpStep, Settle, Stopped

\* The queue keeps its books in every behaviour.
THEOREM KeepsBooks == Spec => []Bookkeeping
BY BookkeepingInit, BookkeepingStep, PTL DEF Spec

\* Every variable keeps its type.
THEOREM TypeCorrect == Spec => []TypeOK
BY KeepsBooks, PTL DEF Bookkeeping

\* The deliveries in progress are counted right and never exceed the concurrency.
THEOREM ConcurrencyIsRespected == Spec => []ConcurrencyRespected
BY KeepsBooks, PTL DEF Bookkeeping

-----------------------------------------------------------------------------
\* How the flags of close() and of the pump go together.  A queue closed without
\* a drain has nothing pending, no timer, and only cancelled deliveries; while a
\* handler has the thread its delivery is counted.
Flags ==
  /\ accepting <=> closing = "open"
  /\ cancelled => /\ ~accepting
                  /\ pending = {} /\ timer = NoTimer
                  /\ runningJobs \subseteq jobCancelled
  /\ pump = "user" => running > 0

\* Every step keeps the flags together.
LEMMA FlagsStep ==
  ASSUME Bookkeeping, Flags, [Next]_vars
  PROVE  Flags'
<1> USE DEF placeVars, jobVars, flagVars, waitVars, InUse, IdentityFree,
    HasCapacity, WasCancelled, MayRetry, Abort, Elapsed, Flags
<1>1. ASSUME NEW j \in Jobs, NEW o \in Options, Dispatch(j, o)
      PROVE  Flags'
  BY <1>1 DEF Dispatch, PumpQueue, ResolveIdleWaiters
<1>2. ASSUME NEW w \in Waiters, AwaitIdle(w)
      PROVE  Flags'
  BY <1>2 DEF AwaitIdle
<1>3. ASSUME NEW j \in Jobs, CancelPending(j)
      PROVE  Flags'
  BY <1>3 DEF CancelPending, ResolveIdleWaiters, ArmTimer
<1>4. ASSUME NEW j \in Jobs, CancelRunning(j)
      PROVE  Flags'
  BY <1>4 DEF CancelRunning
<1>5. CASE ClearDeadLetters
  BY <1>5 DEF ClearDeadLetters
<1>6. CASE CloseDrain
  BY <1>6 DEF CloseDrain
<1>7. CASE CloseNow
  BY <1>7 DEF CloseNow
<1>8. ASSUME NEW j \in Jobs, StartNext(j)
      PROVE  Flags'
  BY <1>8 DEF StartNext, Ready, Bookkeeping, TypeOK
<1>9. CASE HandlerYields
  BY <1>9 DEF HandlerYields
<1>10. CASE PumpDone
  BY <1>10 DEF PumpDone, ResolveIdleWaiters, ArmTimer
<1>11. CASE TimerFires
  BY <1>11 DEF TimerFires, PumpQueue, ResolveIdleWaiters
<1>12. CASE Tick
  BY <1>12 DEF Tick, NoTimer
<1>13. ASSUME NEW j \in Jobs, Succeed(j)
       PROVE  Flags'
  BY <1>13 DEF Succeed, EndDelivery, CanSettle, PumpQueue, ResolveIdleWaiters
<1>14. ASSUME NEW j \in Jobs, Reject(j)
       PROVE  Flags'
  BY <1>14
     DEF Reject, EndDelivery, CanSettle, DropCancelled, Retry, DeadLetter,
         PumpQueue, ResolveIdleWaiters
<1>15. ASSUME NEW j \in Jobs, OrphanSettles(j)
       PROVE  Flags'
  BY <1>15 DEF OrphanSettles
<1>16. CASE UNCHANGED vars
  BY <1>16 DEF vars
<1> QED
  BY <1>1, <1>2, <1>3, <1>4, <1>5, <1>6, <1>7, <1>8, <1>9,
     <1>10, <1>11, <1>12, <1>13, <1>14, <1>15, <1>16
     DEF Next, Client, PumpStep, Settle, HandlerFails, AttemptTimesOut, Stopped

\* Every step keeps the identities of the active jobs, and only those.
LEMMA DedupStep ==
  ASSUME Bookkeeping, DedupTracksActiveJobs, [Next]_vars
  PROVE  DedupTracksActiveJobs'
<1> USE DEF placeVars, jobVars, flagVars, waitVars, InUse, IdentityFree,
    HasCapacity, WasCancelled, MayRetry, Abort, Elapsed, DedupTracksActiveJobs
<1>1. ASSUME NEW j \in Jobs, NEW o \in Options, Dispatch(j, o)
      PROVE  DedupTracksActiveJobs'
  BY <1>1, OptionsTyped, QueueAssumption
     DEF Dispatch, Bookkeeping, TypeOK, JobOptions
<1>2. ASSUME NEW w \in Waiters, AwaitIdle(w)
      PROVE  DedupTracksActiveJobs'
  BY <1>2 DEF AwaitIdle
<1>3. ASSUME NEW j \in Jobs, CancelPending(j)
      PROVE  DedupTracksActiveJobs'
  BY <1>3, QueueAssumption
     DEF CancelPending, ClearDeduplication, Bookkeeping, OnePlace
<1>4. ASSUME NEW j \in Jobs, CancelRunning(j)
      PROVE  DedupTracksActiveJobs'
  BY <1>4 DEF CancelRunning
<1>5. CASE ClearDeadLetters
  BY <1>5 DEF ClearDeadLetters
<1>6. CASE CloseDrain
  BY <1>6 DEF CloseDrain
<1>7. CASE CloseNow
  BY <1>7, QueueAssumption DEF CloseNow, Bookkeeping, TypeOK, OnePlace
<1>8. ASSUME NEW j \in Jobs, StartNext(j)
      PROVE  DedupTracksActiveJobs'
  BY <1>8 DEF StartNext, Ready
<1>9. CASE HandlerYields
  BY <1>9 DEF HandlerYields
<1>10. CASE PumpDone
  BY <1>10 DEF PumpDone
<1>11. CASE TimerFires
  BY <1>11 DEF TimerFires
<1>12. CASE Tick
  BY <1>12 DEF Tick
<1>13. ASSUME NEW j \in Jobs, Succeed(j)
       PROVE  DedupTracksActiveJobs'
  BY <1>13, QueueAssumption
     DEF Succeed, EndDelivery, CanSettle, ClearDeduplication, Bookkeeping,
         OnePlace
<1>14. ASSUME NEW j \in Jobs, Reject(j)
       PROVE  DedupTracksActiveJobs'
  BY <1>14, QueueAssumption
     DEF Reject, EndDelivery, CanSettle, DropCancelled, Retry, DeadLetter,
         ClearDeduplication, Bookkeeping, OnePlace
<1>15. ASSUME NEW j \in Jobs, OrphanSettles(j)
       PROVE  DedupTracksActiveJobs'
  BY <1>15 DEF OrphanSettles
<1>16. CASE UNCHANGED vars
  BY <1>16 DEF vars
<1> QED
  BY <1>1, <1>2, <1>3, <1>4, <1>5, <1>6, <1>7, <1>8, <1>9,
     <1>10, <1>11, <1>12, <1>13, <1>14, <1>15, <1>16
     DEF Next, Client, PumpStep, Settle, HandlerFails, AttemptTimesOut, Stopped

\* Every step that ends with the thread in the event loop leaves the timer right.
LEMMA WakeupStep ==
  ASSUME Bookkeeping, Flags, NoLostWakeup, [Next]_vars
  PROVE  NoLostWakeup'
<1> USE DEF placeVars, jobVars, flagVars, waitVars, InUse, IdentityFree,
    HasCapacity, WasCancelled, MayRetry, Abort, Elapsed, NoLostWakeup
<1>1. ASSUME NEW j \in Jobs, NEW o \in Options, Dispatch(j, o)
      PROVE  NoLostWakeup'
  BY <1>1 DEF Dispatch, PumpQueue, Flags
<1>2. ASSUME NEW w \in Waiters, AwaitIdle(w)
      PROVE  NoLostWakeup'
  BY <1>2 DEF AwaitIdle
<1>3. ASSUME NEW j \in Jobs, CancelPending(j)
      PROVE  NoLostWakeup'
  BY <1>3 DEF CancelPending, ArmTimer, Flags
<1>4. ASSUME NEW j \in Jobs, CancelRunning(j)
      PROVE  NoLostWakeup'
  BY <1>4 DEF CancelRunning
<1>5. CASE ClearDeadLetters
  BY <1>5 DEF ClearDeadLetters
<1>6. CASE CloseDrain
  BY <1>6 DEF CloseDrain
<1>7. CASE CloseNow
  BY <1>7 DEF CloseNow
<1>8. ASSUME NEW j \in Jobs, StartNext(j)
      PROVE  NoLostWakeup'
  BY <1>8 DEF StartNext
<1>9. CASE HandlerYields
  BY <1>9 DEF HandlerYields
<1>10. CASE PumpDone
  BY <1>10 DEF PumpDone, ArmTimer, Flags
<1>11. CASE TimerFires
  BY <1>11 DEF TimerFires, PumpQueue, Flags, NoTimer
<1>12. CASE Tick
  BY <1>12 DEF Tick, Bookkeeping, TypeOK, NoTimer
<1>13. ASSUME NEW j \in Jobs, Succeed(j)
       PROVE  NoLostWakeup'
  BY <1>13 DEF Succeed, EndDelivery, CanSettle, PumpQueue, Flags
<1>14. ASSUME NEW j \in Jobs, Reject(j)
       PROVE  NoLostWakeup'
  BY <1>14
     DEF Reject, EndDelivery, CanSettle, DropCancelled, Retry, DeadLetter,
         PumpQueue, Flags
<1>15. ASSUME NEW j \in Jobs, OrphanSettles(j)
       PROVE  NoLostWakeup'
  BY <1>15 DEF OrphanSettles
<1>16. CASE UNCHANGED vars
  BY <1>16 DEF vars
<1> QED
  BY <1>1, <1>2, <1>3, <1>4, <1>5, <1>6, <1>7, <1>8, <1>9,
     <1>10, <1>11, <1>12, <1>13, <1>14, <1>15, <1>16
     DEF Next, Client, PumpStep, Settle, HandlerFails, AttemptTimesOut, Stopped

\* Every step that empties the queue resolves its waiters.
LEMMA WaiterStep ==
  ASSUME Bookkeeping, Flags, NoStrandedWaiter, [Next]_vars
  PROVE  NoStrandedWaiter'
<1> USE DEF placeVars, jobVars, flagVars, waitVars, InUse, IdentityFree,
    HasCapacity, WasCancelled, MayRetry, Abort, Elapsed, NoStrandedWaiter
<1>1. ASSUME NEW j \in Jobs, NEW o \in Options, Dispatch(j, o)
      PROVE  NoStrandedWaiter'
  BY <1>1 DEF Dispatch, PumpQueue, ResolveIdleWaiters
<1>2. ASSUME NEW w \in Waiters, AwaitIdle(w)
      PROVE  NoStrandedWaiter'
  BY <1>2 DEF AwaitIdle
<1>3. ASSUME NEW j \in Jobs, CancelPending(j)
      PROVE  NoStrandedWaiter'
  BY <1>3 DEF CancelPending, ResolveIdleWaiters, Bookkeeping, TypeOK
<1>4. ASSUME NEW j \in Jobs, CancelRunning(j)
      PROVE  NoStrandedWaiter'
  BY <1>4 DEF CancelRunning
<1>5. CASE ClearDeadLetters
  BY <1>5 DEF ClearDeadLetters
<1>6. CASE CloseDrain
  BY <1>6 DEF CloseDrain
<1>7. CASE CloseNow
  BY <1>7 DEF CloseNow, Bookkeeping, TypeOK
<1>8. ASSUME NEW j \in Jobs, StartNext(j)
      PROVE  NoStrandedWaiter'
  BY <1>8 DEF StartNext
<1>9. CASE HandlerYields
  BY <1>9 DEF HandlerYields
<1>10. CASE PumpDone
  BY <1>10 DEF PumpDone, ResolveIdleWaiters, Bookkeeping, TypeOK
<1>11. CASE TimerFires
  BY <1>11 DEF TimerFires, PumpQueue, ResolveIdleWaiters, Bookkeeping, TypeOK
<1>12. CASE Tick
  BY <1>12 DEF Tick
<1>13. ASSUME NEW j \in Jobs, Succeed(j)
       PROVE  NoStrandedWaiter'
  <2>1. running - 1 \in Nat
    BY <1>13, CountDrops DEF Succeed, CanSettle
  <2> QED
    BY <1>13, <2>1
       DEF Succeed, EndDelivery, CanSettle, PumpQueue, ResolveIdleWaiters,
           Bookkeeping, TypeOK
<1>14. ASSUME NEW j \in Jobs, Reject(j)
       PROVE  NoStrandedWaiter'
  <2>1. running - 1 \in Nat
    BY <1>14, CountDrops DEF Reject, CanSettle
  <2> QED
    BY <1>14, <2>1
       DEF Reject, EndDelivery, CanSettle, DropCancelled, Retry, DeadLetter,
           PumpQueue, ResolveIdleWaiters, Bookkeeping, TypeOK
<1>15. ASSUME NEW j \in Jobs, OrphanSettles(j)
       PROVE  NoStrandedWaiter'
  BY <1>15 DEF OrphanSettles
<1>16. CASE UNCHANGED vars
  BY <1>16 DEF vars
<1> QED
  BY <1>1, <1>2, <1>3, <1>4, <1>5, <1>6, <1>7, <1>8, <1>9,
     <1>10, <1>11, <1>12, <1>13, <1>14, <1>15, <1>16
     DEF Next, Client, PumpStep, Settle, HandlerFails, AttemptTimesOut, Stopped

\* A closed queue in terms of the counter, which its steps read and write.
Quiet ==
  closing = "closed" => /\ pending = {} /\ running = 0
                        /\ timer = NoTimer /\ pump = "idle"

\* Every step that closes the queue leaves it quiet, and none disturbs it later.
LEMMA QuietStep ==
  ASSUME Bookkeeping, Flags, Quiet, [Next]_vars
  PROVE  Quiet'
<1> USE DEF placeVars, jobVars, flagVars, waitVars, InUse, IdentityFree,
    HasCapacity, WasCancelled, MayRetry, Abort, Elapsed, Quiet, Flags
<1>1. ASSUME NEW j \in Jobs, NEW o \in Options, Dispatch(j, o)
      PROVE  Quiet'
  BY <1>1 DEF Dispatch, PumpQueue, ResolveIdleWaiters
<1>2. ASSUME NEW w \in Waiters, AwaitIdle(w)
      PROVE  Quiet'
  BY <1>2 DEF AwaitIdle
<1>3. ASSUME NEW j \in Jobs, CancelPending(j)
      PROVE  Quiet'
  BY <1>3 DEF CancelPending, UserHasThread, ResolveIdleWaiters, ArmTimer
<1>4. ASSUME NEW j \in Jobs, CancelRunning(j)
      PROVE  Quiet'
  BY <1>4 DEF CancelRunning
<1>5. CASE ClearDeadLetters
  BY <1>5 DEF ClearDeadLetters
<1>6. CASE CloseDrain
  BY <1>6 DEF CloseDrain
<1>7. CASE CloseNow
  BY <1>7 DEF CloseNow, UserHasThread
<1>8. ASSUME NEW j \in Jobs, StartNext(j)
      PROVE  Quiet'
  BY <1>8 DEF StartNext
<1>9. CASE HandlerYields
  BY <1>9 DEF HandlerYields
<1>10. CASE PumpDone
  BY <1>10 DEF PumpDone, ResolveIdleWaiters, ArmTimer
<1>11. CASE TimerFires
  BY <1>11 DEF TimerFires, PumpQueue, ResolveIdleWaiters, NoTimer
<1>12. CASE Tick
  BY <1>12 DEF Tick, NoTimer
<1>13. ASSUME NEW j \in Jobs, Succeed(j)
       PROVE  Quiet'
  <2>1. running - 1 \in Nat
    BY <1>13, CountDrops DEF Succeed, CanSettle
  <2> QED
    BY <1>13, <2>1
       DEF Succeed, EndDelivery, CanSettle, PumpQueue, ResolveIdleWaiters,
           Bookkeeping, TypeOK
<1>14. ASSUME NEW j \in Jobs, Reject(j)
       PROVE  Quiet'
  <2>1. running - 1 \in Nat
    BY <1>14, CountDrops DEF Reject, CanSettle
  <2> QED
    BY <1>14, <2>1
       DEF Reject, EndDelivery, CanSettle, DropCancelled, Retry, DeadLetter,
           PumpQueue, ResolveIdleWaiters, Bookkeeping, TypeOK
<1>15. ASSUME NEW j \in Jobs, OrphanSettles(j)
       PROVE  Quiet'
  BY <1>15 DEF OrphanSettles
<1>16. CASE UNCHANGED vars
  BY <1>16 DEF vars
<1> QED
  BY <1>1, <1>2, <1>3, <1>4, <1>5, <1>6, <1>7, <1>8, <1>9,
     <1>10, <1>11, <1>12, <1>13, <1>14, <1>15, <1>16
     DEF Next, Client, PumpStep, Settle, HandlerFails, AttemptTimesOut, Stopped

\* Every step respects the retry budgets.
LEMMA BudgetStep ==
  ASSUME Bookkeeping, RetryBudget, [Next]_vars
  PROVE  RetryBudget'
<1> USE DEF placeVars, jobVars, flagVars, waitVars, InUse, IdentityFree,
    HasCapacity, WasCancelled, MayRetry, Abort, Elapsed, RetryBudget
<1>1. ASSUME NEW j \in Jobs, NEW o \in Options, Dispatch(j, o)
      PROVE  RetryBudget'
  BY <1>1, OptionsTyped DEF Dispatch, Bookkeeping, TypeOK, OnePlace, JobOptions
<1>2. ASSUME NEW w \in Waiters, AwaitIdle(w)
      PROVE  RetryBudget'
  BY <1>2 DEF AwaitIdle
<1>3. ASSUME NEW j \in Jobs, CancelPending(j)
      PROVE  RetryBudget'
  BY <1>3 DEF CancelPending
<1>4. ASSUME NEW j \in Jobs, CancelRunning(j)
      PROVE  RetryBudget'
  BY <1>4 DEF CancelRunning
<1>5. CASE ClearDeadLetters
  BY <1>5 DEF ClearDeadLetters
<1>6. CASE CloseDrain
  BY <1>6 DEF CloseDrain
<1>7. CASE CloseNow
  BY <1>7 DEF CloseNow
<1>8. ASSUME NEW j \in Jobs, StartNext(j)
      PROVE  RetryBudget'
  BY <1>8 DEF StartNext, Bookkeeping, TypeOK, OnePlace, Ready, JobOptions
<1>9. CASE HandlerYields
  BY <1>9 DEF HandlerYields
<1>10. CASE PumpDone
  BY <1>10 DEF PumpDone
<1>11. CASE TimerFires
  BY <1>11 DEF TimerFires
<1>12. CASE Tick
  BY <1>12 DEF Tick
<1>13. ASSUME NEW j \in Jobs, Succeed(j)
       PROVE  RetryBudget'
  BY <1>13 DEF Succeed, EndDelivery, CanSettle
<1>14. ASSUME NEW j \in Jobs, Reject(j)
       PROVE  RetryBudget'
  BY <1>14
     DEF Reject, EndDelivery, CanSettle, DropCancelled, Retry, DeadLetter,
         Bookkeeping, TypeOK, JobOptions
<1>15. ASSUME NEW j \in Jobs, OrphanSettles(j)
       PROVE  RetryBudget'
  BY <1>15 DEF OrphanSettles
<1>16. CASE UNCHANGED vars
  BY <1>16 DEF vars
<1> QED
  BY <1>1, <1>2, <1>3, <1>4, <1>5, <1>6, <1>7, <1>8, <1>9,
     <1>10, <1>11, <1>12, <1>13, <1>14, <1>15, <1>16
     DEF Next, Client, PumpStep, Settle, HandlerFails, AttemptTimesOut, Stopped

\* No step retries or dead-letters a cancelled delivery.
LEMMA CancelledStaysOut ==
  ASSUME Bookkeeping, [Next]_vars
  PROVE  \A c \in jobCancelled : c \notin pending' \cup dead'
<1> USE DEF placeVars, jobVars, flagVars, waitVars, InUse, IdentityFree,
    HasCapacity, WasCancelled, MayRetry, Abort, Elapsed, Bookkeeping, TypeOK,
    OnePlace
<1>1. ASSUME NEW j \in Jobs, NEW o \in Options, Dispatch(j, o)
      PROVE  \A c \in jobCancelled : c \notin pending' \cup dead'
  BY <1>1 DEF Dispatch
<1>2. ASSUME NEW w \in Waiters, AwaitIdle(w)
      PROVE  \A c \in jobCancelled : c \notin pending' \cup dead'
  BY <1>2 DEF AwaitIdle
<1>3. ASSUME NEW j \in Jobs, CancelPending(j)
      PROVE  \A c \in jobCancelled : c \notin pending' \cup dead'
  BY <1>3 DEF CancelPending
<1>4. ASSUME NEW j \in Jobs, CancelRunning(j)
      PROVE  \A c \in jobCancelled : c \notin pending' \cup dead'
  BY <1>4 DEF CancelRunning
<1>5. CASE ClearDeadLetters
  BY <1>5 DEF ClearDeadLetters
<1>6. CASE CloseDrain
  BY <1>6 DEF CloseDrain
<1>7. CASE CloseNow
  BY <1>7 DEF CloseNow
<1>8. ASSUME NEW j \in Jobs, StartNext(j)
      PROVE  \A c \in jobCancelled : c \notin pending' \cup dead'
  BY <1>8 DEF StartNext
<1>9. CASE HandlerYields
  BY <1>9 DEF HandlerYields
<1>10. CASE PumpDone
  BY <1>10 DEF PumpDone
<1>11. CASE TimerFires
  BY <1>11 DEF TimerFires
<1>12. CASE Tick
  BY <1>12 DEF Tick
<1>13. ASSUME NEW j \in Jobs, Succeed(j)
       PROVE  \A c \in jobCancelled : c \notin pending' \cup dead'
  BY <1>13 DEF Succeed, EndDelivery, CanSettle
<1>14. ASSUME NEW j \in Jobs, Reject(j)
       PROVE  \A c \in jobCancelled : c \notin pending' \cup dead'
  BY <1>14 DEF Reject, EndDelivery, CanSettle, DropCancelled, Retry, DeadLetter
<1>15. ASSUME NEW j \in Jobs, OrphanSettles(j)
       PROVE  \A c \in jobCancelled : c \notin pending' \cup dead'
  BY <1>15 DEF OrphanSettles
<1>16. CASE UNCHANGED vars
  BY <1>16 DEF vars
<1> QED
  BY <1>1, <1>2, <1>3, <1>4, <1>5, <1>6, <1>7, <1>8, <1>9,
     <1>10, <1>11, <1>12, <1>13, <1>14, <1>15, <1>16
     DEF Next, Client, PumpStep, Settle, HandlerFails, AttemptTimesOut, Stopped

-----------------------------------------------------------------------------
\* The inductive invariant of the queue.
QueueInv ==
  /\ Bookkeeping /\ Flags
  /\ DedupTracksActiveJobs /\ RetryBudget
  /\ NoLostWakeup /\ NoStrandedWaiter /\ Quiet

LEMMA QueueInvInit == Init => QueueInv
<1> SUFFICES ASSUME Init PROVE QueueInv
  OBVIOUS
<1>1. Bookkeeping
  BY BookkeepingInit
<1>2. DedupTracksActiveJobs
  BY QueueAssumption DEF Init, DedupTracksActiveJobs
<1> QED
  BY <1>1, <1>2 DEF Init, QueueInv, Flags, RetryBudget, NoLostWakeup, NoStrandedWaiter, Quiet

THEOREM QueueInvariant == Spec => []QueueInv
<1>1. QueueInv /\ [Next]_vars => QueueInv'
  BY BookkeepingStep, FlagsStep, DedupStep, BudgetStep, WakeupStep, WaiterStep,
     QuietStep DEF QueueInv
<1> QED
  BY QueueInvInit, <1>1, PTL DEF Spec

\* At every moment the deduplication map is exactly the identities of the jobs
\* pending or in progress.
THEOREM DedupIsExact == Spec => []DedupTracksActiveJobs
BY QueueInvariant, PTL DEF QueueInv

\* Every job stays within its retry budget.
THEOREM BudgetIsRespected == Spec => []RetryBudget
BY QueueInvariant, PTL DEF QueueInv

\* In the event loop the timer is armed for exactly the earliest pending job.
THEOREM WakeupIsNeverLost == Spec => []NoLostWakeup
BY QueueInvariant, PTL DEF QueueInv

\* Nobody waits for an idle queue.
THEOREM WaiterIsNeverStranded == Spec => []NoStrandedWaiter
BY QueueInvariant, PTL DEF QueueInv

\* A closed queue holds no job, no identity and no timer.
THEOREM ClosedQueueIsQuiet == Spec => []ClosedIsQuiet
<1>1. QueueInv => ClosedIsQuiet
  BY CountZero DEF QueueInv, Bookkeeping, TypeOK, Flags, Quiet, DedupTracksActiveJobs, ClosedIsQuiet
<1> QED
  BY QueueInvariant, <1>1, PTL

\* A cancelled delivery is never retried nor dead-lettered.
THEOREM CancellationIsFinalAlways == Spec => CancellationIsFinal
<1>1. Bookkeeping /\ [Next]_vars
        => [\A j \in jobCancelled : j \notin pending' \cup dead']_vars
  BY CancelledStaysOut
<1> QED
  BY KeepsBooks, <1>1, PTL DEF Spec, CancellationIsFinal

-----------------------------------------------------------------------------
(* Every step of the queue is a step of the lifecycle or changes nothing a *)
(* client was promised.                                                    *)

\* The phases say where a job is.
LEMMA PhaseIs ==
  ASSUME Bookkeeping, NEW j \in Jobs
  PROVE  /\ Phase(j) = "queued" <=> j \in pending
         /\ Phase(j) = "executing" <=> j \in runningJobs \ jobCancelled
         /\ Phase(j) = "stopping" <=> j \in jobCancelled
         /\ Phase(j) = "dead" <=> j \in dead
         /\ Phase(j) = "none" <=> j \notin pending \cup runningJobs \cup dead
BY DEF Bookkeeping, TypeOK, OnePlace, Phase

LEMMA PhaseIsNext ==
  ASSUME Bookkeeping', NEW j \in Jobs
  PROVE  /\ Phase(j)' = "queued" <=> j \in pending'
         /\ Phase(j)' = "executing" <=> j \in runningJobs' \ jobCancelled'
         /\ Phase(j)' = "stopping" <=> j \in jobCancelled'
         /\ Phase(j)' = "dead" <=> j \in dead'
         /\ Phase(j)' = "none" <=> j \notin pending' \cup runningJobs' \cup dead'
BY DEF Bookkeeping, TypeOK, OnePlace, Phase

\* What the lifecycle counts and compares is what the queue keeps in its maps.
LEMMA ActiveIs ==
  ASSUME Bookkeeping
  PROVE  /\ Lifecycle!Delivering = runningJobs
         /\ Lifecycle!Active = pending \cup runningJobs
BY PhaseIs DEF Lifecycle!Delivering, Lifecycle!Active, Bookkeeping, TypeOK

LEMMA ActiveIsNext ==
  ASSUME Bookkeeping'
  PROVE  Lifecycle!Active' = pending' \cup runningJobs'
BY PhaseIsNext DEF Lifecycle!Delivering, Lifecycle!Active, Bookkeeping, TypeOK

\* Both modules count with the same operator.
LEMMA SameCount ==
  ASSUME NEW S
  PROVE  Lifecycle!Cardinality(S) = Cardinality(S)
BY DEF Lifecycle!Cardinality, Cardinality

-----------------------------------------------------------------------------
LEMMA InitRefines == Init => Lifecycle!Init
<1> SUFFICES ASSUME Init PROVE Lifecycle!Init
  OBVIOUS
<1>1. [j \in Jobs |-> Phase(j)] = [j \in Jobs |-> "none"]
  BY DEF Init, Phase
<1> QED
  BY <1>1 DEF Init, Lifecycle!Init, Gate, NullOptions

\* A step of one job: the phases of the others stay, so the new phase function
\* is the old one except at that job.
LEMMA OneMoves ==
  ASSUME NEW j \in Jobs, NEW to, Phase(j)' = to,
         \A i \in Jobs \ {j} : Phase(i)' = Phase(i)
  PROVE  [i \in Jobs |-> Phase(i)]' = [[i \in Jobs |-> Phase(i)] EXCEPT ![j] = to]
OBVIOUS

\* Resolving the waiters of an idle queue closes the gate or leaves it.
LEMMA ResolvingQuiesces ==
  ASSUME Bookkeeping, Bookkeeping', ResolveIdleWaiters(pending', running')
  PROVE  Lifecycle!MayQuiesce
<1>1. running' = 0 => runningJobs' = {}
  <2>1. IsFiniteSet(runningJobs')
    BY QueueAssumption, FS_Subset DEF Bookkeeping, TypeOK
  <2> QED BY <2>1, FS_EmptySet DEF Bookkeeping, ConcurrencyRespected
<1>2. CASE pending' = {} /\ running' = 0 /\ closing = "waiting"
  BY <1>1, <1>2, ActiveIsNext DEF Lifecycle!MayQuiesce, Gate, ResolveIdleWaiters
<1>3. CASE ~(pending' = {} /\ running' = 0 /\ closing = "waiting")
  BY <1>3 DEF Lifecycle!MayQuiesce, Gate, ResolveIdleWaiters, waitVars
<1> QED BY <1>2, <1>3

\* The end of a delivery may close the gate as well.
LEMMA EndingQuiesces ==
  ASSUME Bookkeeping, Bookkeeping', NEW j \in Jobs, EndDelivery(j, pending')
  PROVE  Lifecycle!MayQuiesce
<1>1. running' = running - 1
  BY DEF EndDelivery
<1>2. CASE ResolveIdleWaiters(pending', running')
  BY <1>2, ResolvingQuiesces
<1>3. CASE UNCHANGED waitVars
  BY <1>3 DEF Lifecycle!MayQuiesce, Gate, waitVars
<1> QED
  BY <1>1, <1>2, <1>3 DEF EndDelivery, PumpQueue

-----------------------------------------------------------------------------
\* Every step of the queue is a step of the lifecycle or a stutter.
LEMMA StepRefines ==
  ASSUME QueueInv, QueueInv', [Next]_vars
  PROVE  [Lifecycle!Next]_(Lifecycle!vars)
<1> DEFINE phase == [i \in Jobs |-> Phase(i)]
           Stutters == UNCHANGED Lifecycle!vars
           Goal == Lifecycle!Next \/ Stutters
<1> USE DEF placeVars, jobVars, flagVars, waitVars, InUse, IdentityFree,
            HasCapacity, WasCancelled, MayRetry, Abort, Elapsed
<1>b. Bookkeeping /\ Bookkeeping'
  BY DEF QueueInv
\* A step that leaves alone what the phases read is a stutter.
<1>s. ASSUME UNCHANGED <<pending, runningJobs, dead, jobCancelled>>
      PROVE  UNCHANGED phase
  BY <1>s DEF Phase
<1>1. ASSUME NEW j \in Jobs, NEW o \in Options, Dispatch(j, o)
      PROVE  Goal
  <2>1. Phase(j)' = "queued" /\ \A i \in Jobs \ {j} : Phase(i)' = Phase(i)
    BY <1>1 DEF Dispatch, Phase
  <2>2. phase' = [phase EXCEPT ![j] = "queued"]
    BY <2>1, OneMoves
  <2>3. closing = "open" /\ closing' = "open"
    BY <1>1 DEF Dispatch, QueueInv, Flags, PumpQueue, ResolveIdleWaiters
  <2>4. o.key # NoKey => \A i \in pending \cup runningJobs : opts[i].key # o.key
    BY <1>1, <1>b, OptionsTyped
       DEF Dispatch, QueueInv, DedupTracksActiveJobs, Bookkeeping, TypeOK, JobOptions, QueueAssumption
  <2>5. Phase(j) = "none"
    BY <1>1, <1>b, PhaseIs DEF Dispatch
  <2>6. o.maxAttempts \in { q.maxAttempts : q \in Options } /\ o.key \in Keys \cup {NoKey}
    BY OptionsTyped DEF JobOptions
  <2>7. Lifecycle!Submit(j, o.maxAttempts, o.key)
    BY <1>1, <1>b, <2>2, <2>3, <2>4, <2>5, ActiveIs
       DEF Lifecycle!Submit, Dispatch, Gate, Bookkeeping, TypeOK
  <2> QED BY <2>6, <2>7 DEF Lifecycle!Next
<1>2. ASSUME NEW w \in Waiters, AwaitIdle(w)
      PROVE  Goal
  BY <1>2, <1>s DEF AwaitIdle, Lifecycle!vars, Gate
<1>3. ASSUME NEW j \in Jobs, CancelPending(j)
      PROVE  Goal
  <2>1. Phase(j)' = "none" /\ \A i \in Jobs \ {j} : Phase(i)' = Phase(i)
    BY <1>3, <1>b DEF CancelPending, Phase, Bookkeeping, OnePlace
  <2>2. phase' = [phase EXCEPT ![j] = "none"]
    BY <2>1, OneMoves
  <2>3. Lifecycle!MayQuiesce
    <3>1. running' = running
      BY <1>3 DEF CancelPending
    <3> QED BY <1>3, <1>b, <3>1, ResolvingQuiesces DEF CancelPending
  <2>4. Lifecycle!Withdraw(j)
    BY <1>3, <1>b, <2>2, <2>3, PhaseIs
       DEF CancelPending, Lifecycle!Withdraw, Lifecycle!Moves
  <2> QED BY <2>4 DEF Lifecycle!Next
<1>4. ASSUME NEW j \in Jobs, CancelRunning(j)
      PROVE  Goal
  <2>1. CASE j \in jobCancelled
    BY <1>4, <1>s, <2>1 DEF CancelRunning, Lifecycle!vars, Gate
  <2>2. CASE j \notin jobCancelled
    <3>1. Phase(j)' = "stopping" /\ \A i \in Jobs \ {j} : Phase(i)' = Phase(i)
      BY <1>4, <1>b DEF CancelRunning, Phase, Bookkeeping, OnePlace
    <3>2. phase' = [phase EXCEPT ![j] = "stopping"]
      BY <3>1, OneMoves
    <3>3. Lifecycle!Interrupt(j)
      BY <1>4, <1>b, <2>2, <3>2, PhaseIs
         DEF CancelRunning, Lifecycle!Interrupt, Lifecycle!Moves, Gate
    <3> QED BY <3>3 DEF Lifecycle!Next
  <2> QED BY <2>1, <2>2
<1>5. CASE ClearDeadLetters
  <2>1. \A i \in Jobs : Phase(i)' = IF Phase(i) = "dead" THEN "none" ELSE Phase(i)
    BY <1>5, <1>b DEF ClearDeadLetters, Phase, Bookkeeping, OnePlace
  <2>2. Lifecycle!Forget
    BY <1>5, <2>1 DEF ClearDeadLetters, Lifecycle!Forget, Gate
  <2> QED BY <2>2 DEF Lifecycle!Next
<1>6. CASE CloseDrain
  <2>1. Lifecycle!Close
    BY <1>6, <1>s DEF CloseDrain, Lifecycle!Close, Gate
  <2> QED BY <2>1 DEF Lifecycle!Next
<1>7. CASE CloseNow
  <2>1. \A i \in Jobs : Phase(i)' = CASE Phase(i) = "queued" -> "none"
                                      [] Phase(i) = "executing" -> "stopping"
                                      [] OTHER -> Phase(i)
    BY <1>7, <1>b DEF CloseNow, Phase, Bookkeeping, OnePlace, TypeOK
  <2>2. Gate = "open" /\ Gate' = IF runningJobs = {} THEN "closed" ELSE "closing"
    BY <1>7, <1>b, CountZero DEF CloseNow, Gate
  <2>3. Lifecycle!CloseNow
    BY <1>7, <1>b, <2>1, <2>2, ActiveIs DEF CloseNow, Lifecycle!CloseNow
  <2> QED BY <2>3 DEF Lifecycle!Next
<1>8. ASSUME NEW j \in Jobs, StartNext(j)
      PROVE  Goal
  <2>1. j \in pending /\ j \notin jobCancelled
    BY <1>8, <1>b DEF StartNext, Ready, Bookkeeping, OnePlace, TypeOK
  <2>2. Phase(j)' = "executing" /\ \A i \in Jobs \ {j} : Phase(i)' = Phase(i)
    BY <1>8, <1>b, <2>1 DEF StartNext, Phase, Bookkeeping, OnePlace
  <2>3. phase' = [phase EXCEPT ![j] = "executing"]
    BY <2>2, OneMoves
  <2>4. Cardinality(runningJobs) < Concurrency
    BY <1>8, <1>b DEF StartNext, Bookkeeping, ConcurrencyRespected
  <2>5. attempt[j] < opts[j].maxAttempts
    BY <2>1 DEF QueueInv, RetryBudget
  <2>6. Phase(j) = "queued" /\ Cardinality(Lifecycle!Delivering) < Concurrency
    BY <1>b, <2>1, <2>4, ActiveIs, PhaseIs
  <2>7. Lifecycle!Moves(j, {"queued"}, "executing")
    BY <1>8, <2>3, <2>6 DEF StartNext, Lifecycle!Moves
  <2>8. Lifecycle!Begin(j)
    BY <1>8, <2>5, <2>6, <2>7, SameCount DEF StartNext, Lifecycle!Begin, Gate
  <2> QED BY <2>8 DEF Lifecycle!Next
<1>9. CASE HandlerYields
  BY <1>9, <1>s DEF HandlerYields, Lifecycle!vars, Gate
<1>10. CASE PumpDone
  <2>1. UNCHANGED <<phase, opts, attempt>> /\ pending' = pending /\ running' = running
    BY <1>10, <1>s DEF PumpDone
  <2>2. Lifecycle!MayQuiesce
    BY <1>10, <1>b, <2>1, ResolvingQuiesces DEF PumpDone
  <2>3. Lifecycle!Active' = Lifecycle!Active
    BY <1>10, <1>b, ActiveIs, ActiveIsNext DEF PumpDone
  <2>4. Lifecycle!Quiesce \/ UNCHANGED Gate
    BY <2>1, <2>2, <2>3 DEF Lifecycle!Quiesce, Lifecycle!MayQuiesce
  <2> QED BY <2>1, <2>4 DEF Lifecycle!Next, Lifecycle!vars
<1>11. CASE TimerFires
  <2>1. UNCHANGED waitVars
    BY <1>11 DEF TimerFires, PumpQueue, QueueInv, Flags, NoTimer
  <2> QED BY <1>11, <1>s, <2>1 DEF TimerFires, Lifecycle!vars, Gate
<1>12. CASE Tick
  BY <1>12, <1>s DEF Tick, Lifecycle!vars, Gate
<1>13. ASSUME NEW j \in Jobs, CanSettle(j), EndDelivery(j, pending'), pending' = pending,
              dead' = dead
       PROVE  Goal
  <2>1. Phase(j)' = "none" /\ \A i \in Jobs \ {j} : Phase(i)' = Phase(i)
    BY <1>13, <1>b DEF CanSettle, EndDelivery, Phase, Bookkeeping, OnePlace
  <2>2. phase' = [phase EXCEPT ![j] = "none"]
    BY <2>1, OneMoves
  <2>3. Phase(j) \in {"executing", "stopping"}
    BY <1>13, <1>b, PhaseIs DEF CanSettle
  <2>4. Lifecycle!Finish(j)
    BY <1>13, <1>b, <2>2, <2>3, EndingQuiesces
       DEF EndDelivery, Lifecycle!Finish, Lifecycle!Moves
  <2> QED BY <2>4 DEF Lifecycle!Next
<1>14. ASSUME NEW j \in Jobs, CanSettle(j), Retry(j)
       PROVE  Goal
  <2>1. Phase(j) = "executing"
    BY <1>14, <1>b, PhaseIs DEF CanSettle, Retry
  <2>2. Phase(j)' = "queued" /\ \A i \in Jobs \ {j} : Phase(i)' = Phase(i)
    BY <1>14, <1>b DEF CanSettle, Retry, EndDelivery, Phase, Bookkeeping, OnePlace
  <2>3. phase' = [phase EXCEPT ![j] = "queued"]
    BY <2>2, OneMoves
  <2>4. closing' = closing
    BY <1>14 DEF Retry, EndDelivery, PumpQueue, ResolveIdleWaiters
  <2>5. Lifecycle!Requeue(j)
    BY <1>14, <2>1, <2>3, <2>4
       DEF Retry, EndDelivery, Lifecycle!Requeue, Lifecycle!Moves, Gate
  <2> QED BY <2>5 DEF Lifecycle!Next
<1>15. ASSUME NEW j \in Jobs, CanSettle(j), DeadLetter(j)
       PROVE  Goal
  <2>1. Phase(j) = "executing"
    BY <1>15, <1>b, PhaseIs DEF CanSettle, DeadLetter
  <2>2. Phase(j)' = "dead" /\ \A i \in Jobs \ {j} : Phase(i)' = Phase(i)
    BY <1>15, <1>b DEF CanSettle, DeadLetter, EndDelivery, Phase, Bookkeeping, OnePlace
  <2>3. phase' = [phase EXCEPT ![j] = "dead"]
    BY <2>2, OneMoves
  <2>4. Lifecycle!MayQuiesce
    BY <1>15, <1>b, EndingQuiesces DEF DeadLetter
  <2>5. Lifecycle!Bury(j)
    BY <1>15, <2>1, <2>3, <2>4
       DEF DeadLetter, EndDelivery, Lifecycle!Bury, Lifecycle!Moves
  <2> QED BY <2>5 DEF Lifecycle!Next
<1>16. ASSUME NEW j \in Jobs, Settle(j)
       PROVE  Goal
  <2>1. CASE Succeed(j)
    BY <1>13, <2>1 DEF Succeed
  <2>2. CASE Reject(j)
    BY <1>13, <1>14, <1>15, <2>2 DEF Reject, DropCancelled
  <2> QED BY <1>16, <2>1, <2>2 DEF Settle, HandlerFails, AttemptTimesOut
<1>17. ASSUME NEW j \in Jobs, OrphanSettles(j)
       PROVE  Goal
  BY <1>17, <1>s DEF OrphanSettles, Lifecycle!vars, Gate
<1>18. CASE UNCHANGED vars
  BY <1>18, <1>s DEF vars, Lifecycle!vars, Gate
<1> QED
  BY <1>1, <1>2, <1>3, <1>4, <1>5, <1>6, <1>7, <1>8, <1>9, <1>10, <1>11,
     <1>12, <1>16, <1>17, <1>18
     DEF Next, Client, PumpStep, Stopped

\* The queue keeps the promise of the lifecycle.
THEOREM QueueImplementsLifecycle == Spec => ImplementsLifecycle
BY InitRefines, StepRefines, QueueInvariant, PTL
   DEF Spec, ImplementsLifecycle, Lifecycle!Spec
=============================================================================
