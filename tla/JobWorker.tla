------------------------------ MODULE JobWorker ------------------------------
(***************************************************************************)
(* JobWorker (src/kernel/jobs/worker.ts) with an idempotency store: a      *)
(* broker delivers jobs, possibly several times and at the same time, and  *)
(* acknowledges a delivery whose run resolves.                             *)
(*                                                                         *)
(* A call of run is a call of runOnce (module Idempotency) whose work      *)
(* decodes the payload and runs a handler under a timeout and an abort     *)
(* signal.  Nothing stops a handler: it may go on after the run that       *)
(* started it has been rejected.                                           *)
(***************************************************************************)
EXTENDS Idempotency

VARIABLES
  handler,  \* whether the handler that a call started is running
  aborted,  \* whether the controller of that handler has been aborted
  timed,    \* whether an attempt in progress has a timer
  signal    \* the signal an attempt in progress is linked to: "none", "open"
            \* or "aborted"

workerVars == <<handler, aborted, timed, signal>>
vars == <<idemVars, workerVars>>

Init ==
  /\ IdemInit
  /\ handler = [c \in Calls |-> FALSE]
  /\ aborted = [c \in Calls |-> FALSE]
  /\ timed = [c \in Calls |-> FALSE]
  /\ signal = [c \in Calls |-> "none"]

-----------------------------------------------------------------------------
\* linkSignal aborts the controller at once when the signal already is.
\* Mutant: it only listens.
ListenOnly(s) == FALSE
Linked(s) == s = "aborted"

\* Duplicates, and what a full store refuses, start no handler.
Answered(c, i) ==
  /\ ~handler[c]
  /\ Skip(c, i) \/ Join(c, i) \/ Refuse(c, i)
  /\ UNCHANGED workerVars

\* The payload decodes and job.handle is called, which may run other jobs at once.
StartHandler(c, i, t, s) ==
  /\ ~handler[c]
  /\ Begin(c, i)
  /\ handler' = [handler EXCEPT ![c] = TRUE]
  /\ aborted' = [aborted EXCEPT ![c] = Linked(s)]
  /\ timed' = [timed EXCEPT ![c] = t]
  /\ signal' = [signal EXCEPT ![c] = s]

\* The payload does not decode, or job.handle throws.
StartFails(c, i) ==
  /\ ~handler[c]
  /\ Begin(c, i)
  /\ UNCHANGED workerVars

AttemptReturns(c) == Register(c) /\ UNCHANGED workerVars

BadPayload(c) ==
  /\ ~handler[c]
  /\ WorkFails(c)
  /\ UNCHANGED workerVars

Attempting(c) == state[c] \in Underway /\ handler[c]

\* clearTimeout and removeSignal, when the attempt is over.
Unlink(c) ==
  /\ timed' = [timed EXCEPT ![c] = FALSE]
  /\ signal' = [signal EXCEPT ![c] = "none"]

Returned(c) ==
  /\ handler' = [handler EXCEPT ![c] = FALSE]
  /\ aborted' = [aborted EXCEPT ![c] = FALSE]

\* The handler settles in time and decides the attempt.
HandlerSettles(c) ==
  /\ Attempting(c)
  /\ WorkSucceeds(c) \/ WorkFails(c)
  /\ Returned(c)
  /\ Unlink(c)

\* It settles too late: nobody listens.
OrphanSettles(c) ==
  /\ Free /\ handler[c] /\ ~Attempting(c)
  /\ Returned(c)
  /\ UNCHANGED <<idemVars, timed, signal>>

\* The timer aborts the controller, then rejects.  Mutants: it only rejects; it
\* only aborts.
RejectOnly(c) == aborted
AbortController(c) == [aborted EXCEPT ![c] = TRUE]
AbortOnly(c) == UNCHANGED idemVars
RejectTimedOut(c) == WorkFails(c)

Timeout(c) ==
  /\ Attempting(c) /\ timed[c]
  /\ RejectTimedOut(c)
  /\ aborted' = AbortController(c)
  /\ Unlink(c)
  /\ UNCHANGED handler

\* The broker aborts the delivery.  Its listener is there until the run of the
\* attempt ends; the attempt itself goes on.
SignalAborts(c) ==
  /\ Attempting(c) /\ signal[c] = "open"
  /\ signal' = [signal EXCEPT ![c] = "aborted"]
  /\ aborted' = AbortController(c)
  /\ UNCHANGED <<idemVars, handler, timed>>

RunSettles(c) == Settle(c) /\ UNCHANGED workerVars

StoreAction == (Clear \/ Tick) /\ UNCHANGED workerVars

Next ==
  \/ \E c \in Calls, i \in Ids : Answered(c, i) \/ StartFails(c, i)
  \/ \E c \in Calls, i \in Ids, t \in BOOLEAN, s \in {"none", "open", "aborted"} :
       StartHandler(c, i, t, s)
  \/ \E c \in Calls :
       \/ AttemptReturns(c) \/ BadPayload(c) \/ HandlerSettles(c)
       \/ OrphanSettles(c) \/ Timeout(c) \/ SignalAborts(c) \/ RunSettles(c)
  \/ StoreAction

Spec == Init /\ [][Next]_vars

\* What is called returns.  Timers fire and promises settle their reactions, however
\* often something else has the thread; a handler's promise owes nothing.
FairSpec ==
  /\ Spec
  /\ \A c \in Calls :
       /\ WF_vars(AttemptReturns(c))
       /\ SF_vars(Timeout(c)) /\ SF_vars(BadPayload(c)) /\ SF_vars(RunSettles(c))

-----------------------------------------------------------------------------
\* Whatever the broker redelivers, at most one handler of a job runs that has
\* not been told to stop, and it is the one of the attempt in flight.
OneUnabortedHandler ==
  \A c, d \in Calls :
    handler[c] /\ handler[d] /\ ~aborted[c] /\ ~aborted[d] /\ request[c] = request[d] => c = d

\* Whatever should stop a handler reaches it: one that outlives its attempt, and
\* one whose delivery the broker withdrew before or during the attempt, has been
\* told to stop.
AbortReachesHandlers ==
  \A c \in Calls :
    /\ handler[c] /\ ~Attempting(c) => aborted[c]
    /\ Attempting(c) /\ signal[c] = "aborted" => aborted[c]

\* A job counts as done only when a handler of it resolves inside its attempt:
\* an orphan that resolves late does not count, nor does a timeout.
DoneOnlyInAttempt ==
  [][\A i \in everWon' \ everWon : \E c \in Calls :
       request[c] = i /\ Attempting(c) /\ ~handler'[c]]_vars

\* A delivery with a timeout is answered, however long its handler takes, and so
\* is every duplicate that joined it.
TimedIsAnswered ==
  \A c, d \in Calls :
    timed[d] /\ c \in Waiting(d) ~> state[c] \in Answers
=============================================================================
