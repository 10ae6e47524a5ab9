------------------------------ MODULE Scheduler ------------------------------
(***************************************************************************)
(* InMemoryScheduler (src/kernel/jobs/scheduler.ts) over a job queue: each *)
(* task runs its payload factory, dispatches a job, and arms its timer     *)
(* again.  The queue is the abstract one of JobLifecycle, which            *)
(* InMemoryJobQueue implements.                                            *)
(*                                                                         *)
(* An action is the synchronous code between two awaits.  Where that code  *)
(* calls an observer or a factory which may call the scheduler again, it   *)
(* is two actions, and the task stands on the call stack in between.  The  *)
(* length of an interval is left out: an armed timer may fire at any time. *)
(***************************************************************************)
EXTENDS Integers, Sequences, FiniteSets

CONSTANTS
  Tasks,       \* schedules a client may create
  TaskKey,     \* the deduplication identity in each task's jobOptions
  Jobs, Keys, NoKey, Budgets, Limit  \* the queue's, see JobLifecycle

ASSUME SchedulerAssumption ==
  /\ TaskKey \in [Tasks -> Keys \cup {NoKey}]
  /\ NoKey \notin Keys
  /\ Tasks # {}
  /\ Limit \in Nat \ {0}

VARIABLES
  tasks,       \* the set InMemoryScheduler.tasks
  stage,       \* how far the run of each task is
  armed,       \* tasks whose timer is set
  cancelled,   \* tasks whose flag is set
  disposing,   \* the promise of the first dispose(): "no", "waiting", "done"
  awaited,     \* the tasks whose run dispose() found in progress
  stack,       \* the tasks whose synchronous code has the thread, innermost first
  overtaken,   \* history: the tasks cancelled while they were on the stack
  owner,       \* the task that dispatched each job
  phase, budget, identity, tries, gate  \* the queue's, see JobLifecycle

taskVars  == <<tasks, stage, armed, cancelled, disposing, awaited, stack, overtaken>>
queueVars == <<phase, budget, identity, tries, gate>>
vars == <<taskVars, owner, queueVars>>

Queue == INSTANCE JobLifecycle

Created == { t \in Tasks : stage[t] # "none" }
\* The tasks whose run has an unsettled promise in its field "running".
Running == { t \in Tasks : stage[t] \in {"factory", "dispatching", "reporting"} }
\* createSchedule and execute call observers, and execute the factory, before
\* they set the timer and "running".
OnStack == { t \in Tasks : stage[t] \in {"scheduling", "starting"} }
\* The tasks whose run is in progress.
Acting == Running \cup { t \in Tasks : stage[t] = "starting" }

Init ==
  /\ tasks = {} /\ armed = {} /\ cancelled = {}
  /\ stage = [t \in Tasks |-> "none"]
  /\ disposing = "no" /\ awaited = {}
  /\ stack = <<>> /\ overtaken = {}
  /\ owner = [j \in Jobs |-> CHOOSE t \in Tasks : TRUE]
  /\ Queue!Init

-----------------------------------------------------------------------------
(* The call stack.                                                         *)

\* Nothing but the innermost call goes on until it returns.
Free == stack = <<>>
Calls(t) == stack' = <<t>> \o stack
Leaves(t) == stack # <<>> /\ Head(stack) = t /\ stack' = Tail(stack)

Enters(t, s) == stage' = [stage EXCEPT ![t] = s]

-----------------------------------------------------------------------------
(* Client calls, which an observer or a factory on the stack may make too. *)

\* createSchedule, up to the observer's return; a disposed scheduler throws.
Schedule(t) ==
  /\ disposing = "no"
  /\ stage[t] = "none"
  /\ tasks' = tasks \cup {t}
  /\ Enters(t, "scheduling") /\ Calls(t)
  /\ UNCHANGED <<armed, cancelled, disposing, awaited, overtaken, owner, queueVars>>

\* Then start(), which does not look whether the task is cancelled by now.
Start(t) ==
  /\ stage[t] = "scheduling"
  /\ armed' = armed \cup {t}
  /\ Enters(t, "idle") /\ Leaves(t)
  /\ UNCHANGED <<tasks, cancelled, disposing, awaited, overtaken, owner, queueVars>>

\* Mutant: a cancelled task leaves the set although its run is in progress.
DropAll(ts) == {}
\* The tasks of ts that their cancellation leaves in the set: those with a
\* promise in "running" leave it when their run ends.
StillRunning(ts) == ts \cap Running

\* A client has the task's handle once createSchedule has returned.
Cancel(t) ==
  /\ t \in Created \ cancelled
  /\ stage[t] # "scheduling"
  /\ cancelled' = cancelled \cup {t}
  /\ overtaken' = overtaken \cup ({t} \cap OnStack)
  /\ armed' = armed \ {t}
  /\ tasks' = (tasks \ {t}) \cup StillRunning({t})
  /\ UNCHANGED <<stage, disposing, awaited, stack, owner, queueVars>>

\* The first dispose(): cancel every task, then wait for each promise that
\* "running" holds now.  A later call returns at once.
Dispose ==
  /\ disposing = "no"
  /\ disposing' = "waiting"
  /\ awaited' = tasks \cap Running
  /\ cancelled' = cancelled \cup tasks
  /\ overtaken' = overtaken \cup (tasks \cap OnStack)
  /\ armed' = armed \ tasks
  /\ tasks' = StillRunning(tasks)
  /\ UNCHANGED <<stage, stack, owner, queueVars>>

\* Mutant: dispose() waits for tasks instead of their runs.
AwaitedTasks == awaited \cap Created
AwaitedRuns == awaited \cap Running

DisposeReturns ==
  /\ Free
  /\ disposing = "waiting"
  /\ AwaitedRuns = {}
  /\ disposing' = "done"
  /\ tasks' = {}
  /\ UNCHANGED <<stage, armed, cancelled, awaited, stack, overtaken, owner, queueVars>>

-----------------------------------------------------------------------------
(* A run: execute and the closure createSchedule gives it.                 *)

\* The timer fires.  It is that of a cancelled task only if the task was
\* cancelled before start() armed it.
Execute(t) ==
  /\ Free
  /\ t \in armed
  /\ armed' = armed \ {t}
  /\ \/ t \in cancelled /\ UNCHANGED <<stage, stack>>
     \/ t \notin cancelled /\ Enters(t, "starting") /\ Calls(t)
  /\ UNCHANGED <<tasks, cancelled, disposing, awaited, overtaken, owner, queueVars>>

\* The observer and the factory have returned, and "running" is assigned.  What
\* the factory throws is caught later.
Returns(t) ==
  /\ stage[t] = "starting"
  /\ Enters(t, "factory") /\ Leaves(t)
  /\ UNCHANGED <<tasks, armed, cancelled, disposing, awaited, overtaken, owner, queueVars>>

FactoryFails(t) ==
  /\ Free /\ stage[t] = "factory"
  /\ Enters(t, "reporting")
  /\ UNCHANGED <<tasks, armed, cancelled, disposing, awaited, stack, overtaken, owner, queueVars>>

\* The identity in the jobOptions handed to dispatch.
JobIdentity(t) == TaskKey[t]

\* The factory's value is dispatched, whether or not the task was cancelled in
\* the meantime.
DispatchNew(t, j) ==
  /\ Free /\ stage[t] = "factory"
  /\ \E b \in Budgets : Queue!Submit(j, b, JobIdentity(t))
  /\ owner' = [owner EXCEPT ![j] = t]
  /\ Enters(t, "dispatching")
  /\ UNCHANGED <<tasks, armed, cancelled, disposing, awaited, stack, overtaken>>

\* The queue has an active job with the task's identity: dispatch returns that
\* job's receipt.
DispatchDuplicate(t) ==
  /\ Free /\ stage[t] = "factory"
  /\ gate = "open"
  /\ \E j \in Queue!Active : identity[j] = JobIdentity(t) /\ JobIdentity(t) # NoKey
  /\ Enters(t, "dispatching")
  /\ UNCHANGED <<tasks, armed, cancelled, disposing, awaited, stack, overtaken, owner, queueVars>>

\* A queue that is closing throws.
DispatchRefused(t) ==
  /\ Free /\ stage[t] = "factory"
  /\ gate # "open"
  /\ Enters(t, "reporting")
  /\ UNCHANGED <<tasks, armed, cancelled, disposing, awaited, stack, overtaken, owner, queueVars>>

\* Mutants of the two decisions of the finally block: only a run that succeeded
\* arms the timer again; it is armed whether or not the task was cancelled.
RearmSuccess(t) == IF t \in cancelled \/ stage[t] = "reporting" THEN armed ELSE armed \cup {t}
RearmAlways(t) == armed \cup {t}
Rearm(t) == IF t \in cancelled THEN armed ELSE armed \cup {t}

\* The dispatch has resolved, or onError has: the finally block.
RunEnds(t) ==
  /\ Free /\ stage[t] \in {"dispatching", "reporting"}
  /\ Enters(t, "idle")
  /\ armed' = Rearm(t)
  /\ tasks' = IF t \in cancelled THEN tasks \ {t} ELSE tasks
  /\ UNCHANGED <<cancelled, disposing, awaited, stack, overtaken, owner, queueVars>>

-----------------------------------------------------------------------------
(* The queue's own steps.                                                  *)

QueueStep ==
  /\ Free
  /\ \/ \E j \in Jobs :
          \/ Queue!Begin(j) \/ Queue!Finish(j) \/ Queue!Requeue(j)
          \/ Queue!Bury(j) \/ Queue!Withdraw(j) \/ Queue!Interrupt(j)
     \/ Queue!Forget
     \/ Queue!Quiesce
  /\ UNCHANGED <<taskVars, owner>>

CloseQueue ==
  /\ Queue!Close \/ Queue!CloseNow
  /\ UNCHANGED <<taskVars, owner>>

Run(t) ==
  \/ FactoryFails(t) \/ DispatchDuplicate(t) \/ DispatchRefused(t) \/ RunEnds(t)
  \/ \E j \in Jobs : DispatchNew(t, j)

SchedulerStep ==
  \/ \E t \in Tasks :
       Schedule(t) \/ Start(t) \/ Cancel(t) \/ Execute(t) \/ Returns(t) \/ Run(t)
  \/ Dispose
  \/ DisposeReturns

Next == SchedulerStep \/ QueueStep \/ CloseQueue

Spec == Init /\ [][Next]_vars

\* Synchronous code returns; timers fire, and factories, dispatches and error
\* handlers settle.  These wait their turn in the event loop, which another
\* task's synchronous code delays but never takes away: strong fairness.
Fairness ==
  /\ \A t \in Tasks : /\ WF_vars(Start(t)) /\ WF_vars(Returns(t))
                     /\ SF_vars(Execute(t)) /\ SF_vars(Run(t))
  /\ SF_vars(DisposeReturns)
FairSpec == Spec /\ Fairness

-----------------------------------------------------------------------------
\* Types; a timer belongs to a schedule that exists and is not cancelled, save
\* one whose own creation was overtaken by a cancellation.
TypeOK ==
  /\ tasks \subseteq Tasks /\ armed \subseteq Tasks /\ cancelled \subseteq Tasks
  /\ stage \in [Tasks -> {"none", "scheduling", "idle", "starting", "factory",
                          "dispatching", "reporting"}]
  /\ disposing \in {"no", "waiting", "done"}
  /\ awaited \subseteq Tasks /\ overtaken \subseteq cancelled
  /\ stack \in Seq(Tasks)
  /\ owner \in [Jobs -> Tasks]
  /\ armed \cup cancelled \subseteq Created
  /\ (armed \cup OnStack) \cap cancelled \subseteq overtaken

\* The loop of a task never dies and never doubles: once it is started and while
\* it is not cancelled, either its timer is armed or one run of it is in
\* progress, whatever fails and whatever its factory calls.
LoopUnbroken ==
  \A t \in Created \ cancelled :
    stage[t] # "scheduling" => (t \in armed <=> t \notin Acting)

\* dispose() finds, in the set of tasks, every task that can still act: those
\* not cancelled, and the cancelled ones whose run is in progress, save a task
\* cancelled by its own observer or factory before execute assigned "running".
SetFindsLiveTasks ==
  disposing # "done" => tasks = (Created \ cancelled) \cup (Running \ overtaken)

\* dispose() waits for every run in progress: after it has resolved the only
\* runs and timers left are of tasks that were cancelled from their own
\* synchronous code, and every other task never calls a factory or the queue
\* again.
DisposedIsQuiet == disposing = "done" => armed \cup Acting \subseteq overtaken

\* A task whose jobOptions carry a deduplication key of its own never has two
\* jobs in the queue.
KeyedTaskIsSingle ==
  \A i, j \in Queue!Active :
    owner[i] = owner[j] /\ TaskKey[owner[i]] # NoKey => i = j

\* A task that is not cancelled runs again and again, and no run lasts forever.
TaskKeepsRunning ==
  \A t \in Tasks :
    /\ t \in Created ~> t \in Acting \cup cancelled
    /\ t \in Acting ~> t \notin Acting

\* dispose() resolves.
DisposeResolves == disposing = "waiting" ~> disposing = "done"

\* docs/jobs.md: the scheduler "runs fixed-delay, non-overlapping tasks through a
\* JobQueue": no two deliveries of one task are in progress together.
NonOverlapping ==
  \A i, j \in Queue!Delivering : owner[i] = owner[j] => i = j
=============================================================================
