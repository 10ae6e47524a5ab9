-------------------------- MODULE JobQueueRefinement --------------------------
(***************************************************************************)
(* The queue of JobQueue implements the promise of JobLifecycle: its maps, *)
(* counter, flags and timer are one way to keep the phases of the jobs.    *)
(***************************************************************************)
EXTENDS JobQueue

\* A cancelled delivery is stopping; a job in no map is gone.
Phase(j) ==
  CASE j \in pending -> "queued"
    [] j \in runningJobs \cap jobCancelled -> "stopping"
    [] j \in runningJobs \ jobCancelled -> "executing"
    [] j \in dead -> "dead"
    [] OTHER -> "none"

Gate == CASE closing = "open" -> "open"
          [] closing = "waiting" -> "closing"
          [] closing = "closed" -> "closed"

Lifecycle == INSTANCE JobLifecycle WITH
  Limit    <- Concurrency,
  Budgets  <- { o.maxAttempts : o \in Options },
  phase    <- [j \in Jobs |-> Phase(j)],
  budget   <- [j \in Jobs |-> opts[j].maxAttempts],
  identity <- [j \in Jobs |-> opts[j].key],
  tries    <- attempt,
  gate     <- Gate

\* Every behaviour of the queue is one the lifecycle allows: the deduplication
\* map is as good as comparing the identities of the active jobs, the counter as
\* good as counting them, and close() resolves only when none is left.
ImplementsLifecycle == Lifecycle!Spec
=============================================================================
