--------------------------- MODULE JobWorkerProofs ---------------------------
(***************************************************************************)
(* Proofs about JobWorker, for every set of jobs, any number of deliveries *)
(* and handlers, every capacity and every TTL of the store.                *)
(***************************************************************************)
EXTENDS JobWorker, IdempotencyProofs

\* A controller that is aborted belongs to a handler that runs.
WorkerTypeOK ==
  /\ handler \in [Calls -> BOOLEAN]
  /\ aborted \in [Calls -> BOOLEAN]
  /\ timed \in [Calls -> BOOLEAN]
  /\ signal \in [Calls -> {"none", "open", "aborted"}]

WorkerInv == WorkerTypeOK /\ AbortReachesHandlers

LEMMA WorkerInit == Init => WorkerInv
BY DEF Init, IdemInit, WorkerInv, WorkerTypeOK, AbortReachesHandlers,
       Attempting

\* What a step of the worker does to the store is a step of the store.
LEMMA WorkerStepsTheStore == [Next]_vars => [IdemNext]_idemVars
BY DEF Next, vars, Answered, StartHandler, StartFails, AttemptReturns, BadPayload,
       HandlerSettles, OrphanSettles, Timeout, RejectTimedOut, SignalAborts, RunSettles, StoreAction,
       IdemNext

\* Every step of the worker keeps its handlers linked to their attempts.
LEMMA WorkerStep ==
  ASSUME WorkerInv, FlightTypeOK, [Next]_vars
  PROVE  WorkerInv'
<1> USE DEF WorkerInv, WorkerTypeOK, AbortReachesHandlers, Attempting,
            Underway, Flying, Busy, Answers, FlightTypeOK
<1>1. ASSUME NEW c \in Calls, NEW i \in Ids, Answered(c, i)
      PROVE  WorkerInv'
  <2>1. /\ ~handler[c]
        /\ \A d \in Calls : d # c => state'[d] = state[d]
        /\ UNCHANGED <<handler, aborted, timed, signal>>
    BY <1>1 DEF Answered, Skip, Join, Refuse, workerVars
  <2> QED
    BY <2>1
<1>2. ASSUME NEW c \in Calls, NEW i \in Ids, NEW t \in BOOLEAN,
             NEW s \in {"none", "open", "aborted"}, StartHandler(c, i, t, s)
      PROVE  WorkerInv'
  <2>1. state' = [state EXCEPT ![c] = "entering"]
    BY <1>2 DEF StartHandler, Begin
  <2>2. /\ handler' = [handler EXCEPT ![c] = TRUE]
        /\ aborted' = [aborted EXCEPT ![c] = (s = "aborted")]
        /\ timed' = [timed EXCEPT ![c] = t]
        /\ signal' = [signal EXCEPT ![c] = s]
    BY <1>2 DEF StartHandler, Linked
  <2>3. WorkerTypeOK'
    BY <2>2
  <2>4. ASSUME NEW d \in Calls
        PROVE  /\ handler'[d] /\ ~(state'[d] \in Underway /\ handler'[d]) => aborted'[d]
               /\ state'[d] \in Underway /\ handler'[d] /\ signal'[d] = "aborted" => aborted'[d]
    BY <2>1, <2>2, <2>4
  <2> QED
    BY <2>3, <2>4
<1>3. ASSUME NEW c \in Calls, NEW i \in Ids, StartFails(c, i)
      PROVE  WorkerInv'
  <2>1. /\ ~handler[c]
        /\ \A d \in Calls : d # c => state'[d] = state[d]
        /\ UNCHANGED <<handler, aborted, timed, signal>>
    BY <1>3 DEF StartFails, Begin, workerVars
  <2> QED
    BY <2>1
<1>4. ASSUME NEW c \in Calls, BadPayload(c)
      PROVE  WorkerInv'
  BY <1>4 DEF BadPayload, WorkFails, workerVars
<1>5. ASSUME NEW c \in Calls, HandlerSettles(c)
      PROVE  WorkerInv'
  <2>1. \A d \in Calls : d # c => state'[d] = state[d]
    BY <1>5 DEF HandlerSettles, WorkSucceeds, WorkFails
  <2> QED
    BY <1>5, <2>1 DEF HandlerSettles, Returned, Unlink
<1>6. ASSUME NEW c \in Calls, OrphanSettles(c)
      PROVE  WorkerInv'
  BY <1>6 DEF OrphanSettles, Returned, idemVars, callVars
<1>7. ASSUME NEW c \in Calls, Timeout(c)
      PROVE  WorkerInv'
  BY <1>7 DEF Timeout, RejectTimedOut, WorkFails, AbortController, Unlink
<1>8. ASSUME NEW c \in Calls, SignalAborts(c)
      PROVE  WorkerInv'
  BY <1>8 DEF SignalAborts, AbortController, idemVars, callVars
<1>9. ASSUME NEW c \in Calls, RunSettles(c)
      PROVE  WorkerInv'
  <2>1. /\ state[c] \notin Underway
        /\ \A d \in Calls : state'[d] = state[d] \/ d = c \/ state[d] = "joined"
        /\ \A d \in Calls : state'[d] \in Underway => state'[d] = state[d]
        /\ UNCHANGED <<handler, aborted, timed, signal>>
    BY <1>9 DEF RunSettles, Settle, Waiting, Outcome, workerVars
  <2> QED
    BY <2>1
<1>12. ASSUME NEW c \in Calls, AttemptReturns(c)
       PROVE  WorkerInv'
  <2>1. /\ state[c] = "entering" /\ state' = [state EXCEPT ![c] = "working"]
        /\ UNCHANGED <<handler, aborted, timed, signal>>
    BY <1>12 DEF AttemptReturns, Register, workerVars
  <2> QED
    BY <2>1
<1>10. CASE StoreAction
  BY <1>10 DEF StoreAction, Clear, Tick, callVars, workerVars
<1>11. CASE UNCHANGED vars
  BY <1>11 DEF vars, idemVars, callVars, workerVars
<1> QED
  BY <1>1, <1>2, <1>3, <1>4, <1>5, <1>6, <1>7, <1>8, <1>9, <1>10, <1>11, <1>12 DEF Next

LEMMA WorkerInvariance == Spec => [](FlightInv /\ WorkerInv)
<1>1. Init => FlightInv /\ WorkerInv
  BY FlightInit, WorkerInit DEF Init
<1>2. FlightInv /\ WorkerInv /\ [Next]_vars => (FlightInv /\ WorkerInv)'
  BY FlightStep, WorkerStep, WorkerStepsTheStore DEF FlightInv
<1> QED
  BY <1>1, <1>2, PTL DEF Spec

\* A handler that outlives its attempt, or whose delivery was withdrawn, has been
\* told to stop (worker.ts:98, worker.ts:108).
THEOREM AbortReachesHandlersAlways == Spec => []AbortReachesHandlers
<1>1. WorkerInv => AbortReachesHandlers
  BY DEF WorkerInv
<1> QED
  BY <1>1, WorkerInvariance, PTL

\* However a broker redelivers, at most one handler of a job runs that has not
\* been told to stop (worker.ts:65, worker.ts:98).
THEOREM OneUnabortedHandlerAlways == Spec => []OneUnabortedHandler
<1>1. FlightInv /\ WorkerInv => OneUnabortedHandler
  <2> SUFFICES ASSUME FlightInv, WorkerInv, NEW c \in Calls, NEW d \in Calls,
                      handler[c], handler[d], ~aborted[c], ~aborted[d],
                      request[c] = request[d]
               PROVE  c = d
    BY DEF OneUnabortedHandler
  <2>1. state[c] \in Underway /\ state[d] \in Underway /\ request[c] \in Ids
    BY DEF WorkerInv, AbortReachesHandlers, Attempting, FlightInv, FlightTypeOK
  <2> QED
    BY <2>1, OneUnderway
<1> QED
  BY <1>1, WorkerInvariance, PTL

\* A job counts as done only when a handler of it resolves inside its attempt,
\* neither after a timeout nor without a handler (worker.ts:57).
THEOREM DoneOnlyInItsAttempt == Spec => DoneOnlyInAttempt
<1> DEFINE Resolves(i) == \E c \in Calls : request[c] = i /\ Attempting(c) /\ ~handler'[c]
<1>1. ASSUME WorkerInv, [Next]_vars, NEW i \in everWon' \ everWon
      PROVE  Resolves(i)
  <2>1. ASSUME NEW c \in Calls, HandlerSettles(c)
        PROVE  Resolves(i)
    <3>1. handler[c] \in BOOLEAN /\ ~handler'[c]
      BY <1>1, <2>1 DEF HandlerSettles, Returned, WorkerInv, WorkerTypeOK
    <3>2. everWon' = everWon \cup {request[c]} \/ everWon' = everWon
      BY <2>1 DEF HandlerSettles, WorkSucceeds, WorkFails, history
    <3>3. request[c] = i
      BY <3>2
    <3> QED
      BY <2>1, <3>1, <3>3 DEF HandlerSettles
  <2>2. \/ \E c \in Calls : HandlerSettles(c)
        \/ UNCHANGED everWon
    BY <1>1 DEF Next, vars, Answered, StartHandler, StartFails, AttemptReturns, Register,
                BadPayload, OrphanSettles, Timeout, RejectTimedOut, SignalAborts, RunSettles, StoreAction, Skip, Join,
                Refuse, Begin, Enter, WorkFails, Settle, Clear, Tick, idemVars, history
  <2> QED
    BY <2>1, <2>2
<1>2. WorkerInv /\ [Next]_vars =>
        [\A i \in everWon' \ everWon : Resolves(i)]_vars
  BY <1>1
<1> QED
  BY <1>2, WorkerInvariance, PTL DEF Spec, DoneOnlyInAttempt

\* With its jobs the worker's store keeps what it promises, and a call is told that
\* its job is done only if it was (idempotency.ts:66, worker.ts:65).
THEOREM WorkerRemembers == Spec => []RemembersSuccesses
<1>1. Init => FlightInv /\ RememberInv
  BY FlightInit, RememberStart DEF Init
<1>2. FlightInv /\ RememberInv /\ [Next]_vars => (FlightInv /\ RememberInv)'
  BY FlightStep, RememberStep, WorkerStepsTheStore
<1>3. RememberInv => RemembersSuccesses
  BY DEF RememberInv
<1> QED
  BY <1>1, <1>2, <1>3, PTL DEF Spec
=============================================================================
