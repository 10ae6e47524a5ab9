--------------------------- MODULE SchedulerProofs ---------------------------
(***************************************************************************)
(* Proofs about Scheduler, for every set of schedules, their deduplication *)
(* keys, and every queue that behaves like JobLifecycle.                   *)
(***************************************************************************)
EXTENDS Scheduler, TLAPS

\* After dispose() every schedule is cancelled, and the runs still in progress
\* are among those it awaits, but for those that no cancellation finds.
DisposeCovers ==
  /\ disposing # "no" => Created \subseteq cancelled
  /\ disposing = "waiting" => Running \subseteq awaited \cup overtaken

SchedulerInv ==
  /\ TypeOK /\ LoopUnbroken /\ SetFindsLiveTasks
  /\ DisposeCovers /\ DisposedIsQuiet

-----------------------------------------------------------------------------
LEMMA SchedulerInit == Init => SchedulerInv
BY SchedulerAssumption
   DEF Init, SchedulerInv, TypeOK, LoopUnbroken, SetFindsLiveTasks,
       DisposeCovers, DisposedIsQuiet, Created, Running, OnStack, Acting

\* Every step of the scheduler, and every step of the queue, keeps the schedules
\* in order.
LEMMA SchedulerStepKeeps ==
  ASSUME SchedulerInv, [Next]_vars
  PROVE  SchedulerInv'
<1> USE DEF SchedulerInv, TypeOK, LoopUnbroken, SetFindsLiveTasks, DisposeCovers,
            DisposedIsQuiet, Created, Running, OnStack, Acting, Enters, Calls
<1>1. ASSUME NEW t \in Tasks, Schedule(t)
      PROVE  SchedulerInv'
  BY <1>1 DEF Schedule
<1>2. ASSUME NEW t \in Tasks, Cancel(t)
      PROVE  SchedulerInv'
  BY <1>2 DEF Cancel, StillRunning
<1>3. CASE Dispose
  BY <1>3 DEF Dispose, StillRunning
<1>4. CASE DisposeReturns
  BY <1>4 DEF DisposeReturns, AwaitedRuns
<1>5. ASSUME NEW t \in Tasks, Execute(t)
      PROVE  SchedulerInv'
  BY <1>5 DEF Execute
<1>6. ASSUME NEW t \in Tasks, FactoryFails(t)
      PROVE  SchedulerInv'
  BY <1>6 DEF FactoryFails
<1>7. ASSUME NEW t \in Tasks, NEW j \in Jobs, DispatchNew(t, j)
      PROVE  SchedulerInv'
  BY <1>7 DEF DispatchNew
<1>8. ASSUME NEW t \in Tasks, DispatchDuplicate(t)
      PROVE  SchedulerInv'
  BY <1>8 DEF DispatchDuplicate
<1>9. ASSUME NEW t \in Tasks, DispatchRefused(t)
      PROVE  SchedulerInv'
  BY <1>9 DEF DispatchRefused
<1>10. ASSUME NEW t \in Tasks, RunEnds(t)
       PROVE  SchedulerInv'
  BY <1>10 DEF RunEnds, Rearm
<1>11. ASSUME NEW t \in Tasks, Start(t)
       PROVE  SchedulerInv'
  BY <1>11 DEF Start, Leaves
<1>12. ASSUME NEW t \in Tasks, Returns(t)
       PROVE  SchedulerInv'
  BY <1>12 DEF Returns, Leaves
<1>13. CASE UNCHANGED <<taskVars, owner>>
  BY <1>13 DEF taskVars
<1> QED
  BY <1>1, <1>2, <1>3, <1>4, <1>5, <1>6, <1>7, <1>8, <1>9, <1>10, <1>11, <1>12, <1>13
     DEF Next, SchedulerStep, Run, QueueStep, CloseQueue, vars

\* The schedules are in order in every behaviour.
THEOREM SchedulerInvariant == Spec => []SchedulerInv
BY SchedulerInit, SchedulerStepKeeps, PTL DEF Spec

\* The loop of a schedule neither dies nor doubles.
THEOREM LoopIsUnbroken == Spec => []LoopUnbroken
BY SchedulerInvariant, PTL DEF SchedulerInv

\* dispose() finds everything that can still act.
THEOREM SetFindsLiveTasksAlways == Spec => []SetFindsLiveTasks
BY SchedulerInvariant, PTL DEF SchedulerInv

\* A disposed scheduler does nothing more.
THEOREM DisposedSchedulerIsQuiet == Spec => []DisposedIsQuiet
BY SchedulerInvariant, PTL DEF SchedulerInv

-----------------------------------------------------------------------------
\* A job's identity is that of the schedule which dispatched it, and no two
\* active jobs share one.
Phases == {"none", "queued", "executing", "stopping", "dead"}
Identities ==
  /\ phase \in [Jobs -> Phases]
  /\ identity \in [Jobs -> Keys \cup {NoKey}]
  /\ owner \in [Jobs -> Tasks]
  /\ \A j \in Queue!Active : identity[j] = TaskKey[owner[j]]
  /\ \A i, j \in Queue!Active : identity[i] = identity[j] /\ identity[i] # NoKey => i = j

LEMMA IdentitiesStep ==
  ASSUME Identities, [Next]_vars
  PROVE  Identities'
<1> USE DEF Identities, Phases, Queue!Active, Queue!Delivering
<1>1. ASSUME NEW t \in Tasks, NEW j \in Jobs, DispatchNew(t, j)
      PROVE  Identities'
  BY <1>1, SchedulerAssumption DEF DispatchNew, JobIdentity, Queue!Submit
<1>2. ASSUME NEW j \in Jobs, Queue!Begin(j) \/ Queue!Finish(j) \/ Queue!Requeue(j)
                             \/ Queue!Bury(j) \/ Queue!Withdraw(j) \/ Queue!Interrupt(j),
             UNCHANGED owner
      PROVE  Identities'
  BY <1>2
     DEF Queue!Begin, Queue!Finish, Queue!Requeue, Queue!Bury, Queue!Withdraw,
         Queue!Interrupt, Queue!Moves
<1>3. ASSUME Queue!Forget \/ Queue!Quiesce \/ Queue!Close \/ Queue!CloseNow,
             UNCHANGED owner
      PROVE  Identities'
  BY <1>3 DEF Queue!Forget, Queue!Quiesce, Queue!Close, Queue!CloseNow
<1>4. CASE UNCHANGED <<owner, queueVars>>
  BY <1>4 DEF queueVars
<1>5. CASE SchedulerStep
  BY <1>1, <1>4, <1>5
     DEF SchedulerStep, Run, Schedule, Start, Cancel, Execute, Returns, FactoryFails,
         DispatchDuplicate, DispatchRefused, RunEnds, Dispose, DisposeReturns
<1>6. CASE QueueStep
  BY <1>2, <1>3, <1>6 DEF QueueStep
<1>7. CASE CloseQueue
  BY <1>3, <1>7 DEF CloseQueue
<1> QED
  BY <1>4, <1>5, <1>6, <1>7 DEF Next, vars

\* A schedule with a deduplication key of its own never has two jobs in the queue.
THEOREM KeyedTaskIsSingleAlways == Spec => []KeyedTaskIsSingle
<1>1. Init => Identities
  BY SchedulerAssumption
     DEF Init, Queue!Init, Identities, Phases, Queue!Active, Queue!Delivering
<1>2. Identities => KeyedTaskIsSingle
  BY DEF Identities, KeyedTaskIsSingle, Queue!Active, Queue!Delivering
<1> QED
  BY <1>1, <1>2, IdentitiesStep, PTL DEF Spec
=============================================================================
