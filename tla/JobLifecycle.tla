---------------------------- MODULE JobLifecycle ----------------------------
(***************************************************************************)
(* What a job queue promises its clients, without timers, counters, maps   *)
(* or a pump loop: the phases a job goes through, how many deliveries may  *)
(* be in progress, who owns a deduplication identity, and what close()     *)
(* means.  JobQueue implements it (JobQueueRefinement).                    *)
(***************************************************************************)
EXTENDS Integers, FiniteSets

CONSTANTS
  Jobs,      \* ids
  Keys,      \* deduplication identities
  NoKey,     \* no identity
  Budgets,   \* deliveries a job may be given
  Limit      \* deliveries that may be in progress together

VARIABLES
  phase,     \* where each job is
  budget,    \* the deliveries each job was given
  identity,  \* the identity each job was given
  tries,     \* the deliveries each job has used
  gate       \* "open", "closing" or "closed"

vars == <<phase, budget, identity, tries, gate>>

Delivering == { j \in Jobs : phase[j] \in {"executing", "stopping"} }
Active == { j \in Jobs : phase[j] = "queued" } \cup Delivering

Init ==
  /\ phase = [j \in Jobs |-> "none"]
  /\ budget = [j \in Jobs |-> 1]
  /\ identity = [j \in Jobs |-> NoKey]
  /\ tries = [j \in Jobs |-> 0]
  /\ gate = "open"

\* The promise of close() may be kept in the step that makes the queue idle, or
\* in a later one.
MayQuiesce ==
  \/ UNCHANGED gate
  \/ gate = "closing" /\ Active' = {} /\ gate' = "closed"

Moves(j, from, to) ==
  /\ phase[j] \in from
  /\ phase' = [phase EXCEPT ![j] = to]
  /\ UNCHANGED <<budget, identity>>

\* An identity belongs to at most one active job.
Submit(j, b, k) ==
  /\ gate = "open"
  /\ phase[j] = "none"
  /\ k # NoKey => \A i \in Active : identity[i] # k
  /\ phase' = [phase EXCEPT ![j] = "queued"]
  /\ budget' = [budget EXCEPT ![j] = b]
  /\ identity' = [identity EXCEPT ![j] = k]
  /\ tries' = [tries EXCEPT ![j] = 0]
  /\ UNCHANGED gate

Begin(j) ==
  /\ Cardinality(Delivering) < Limit
  /\ tries[j] < budget[j]
  /\ Moves(j, {"queued"}, "executing")
  /\ tries' = [tries EXCEPT ![j] = @ + 1]
  /\ UNCHANGED gate

Finish(j) ==
  /\ Moves(j, {"executing", "stopping"}, "none")
  /\ UNCHANGED tries /\ MayQuiesce

\* A failed delivery is retried or dead-lettered, unless it was cancelled.
Requeue(j) ==
  /\ tries[j] < budget[j]
  /\ Moves(j, {"executing"}, "queued")
  /\ UNCHANGED <<tries, gate>>

Bury(j) ==
  /\ Moves(j, {"executing"}, "dead")
  /\ UNCHANGED tries /\ MayQuiesce

Withdraw(j) ==
  /\ Moves(j, {"queued"}, "none")
  /\ UNCHANGED tries /\ MayQuiesce

Interrupt(j) ==
  /\ Moves(j, {"executing"}, "stopping")
  /\ UNCHANGED <<tries, gate>>

Forget ==
  /\ phase' = [j \in Jobs |-> IF phase[j] = "dead" THEN "none" ELSE phase[j]]
  /\ UNCHANGED <<budget, identity, tries, gate>>

Close ==
  /\ gate = "open"
  /\ gate' = "closing"
  /\ UNCHANGED <<phase, budget, identity, tries>>

\* A close that drops what is queued and interrupts what executes.
CloseNow ==
  /\ gate = "open"
  /\ phase' = [j \in Jobs |-> CASE phase[j] = "queued" -> "none"
                                [] phase[j] = "executing" -> "stopping"
                                [] OTHER -> phase[j]]
  /\ gate' = IF Delivering = {} THEN "closed" ELSE "closing"
  /\ UNCHANGED <<budget, identity, tries>>

Quiesce ==
  /\ gate = "closing" /\ Active = {}
  /\ gate' = "closed"
  /\ UNCHANGED <<phase, budget, identity, tries>>

Next ==
  \/ \E j \in Jobs :
       \/ \E b \in Budgets, k \in Keys \cup {NoKey} : Submit(j, b, k)
       \/ Begin(j) \/ Finish(j) \/ Requeue(j) \/ Bury(j) \/ Withdraw(j)
       \/ Interrupt(j)
  \/ Forget \/ Close \/ CloseNow \/ Quiesce

Spec == Init /\ [][Next]_vars
=============================================================================
