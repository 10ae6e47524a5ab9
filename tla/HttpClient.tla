------------------------------ MODULE HttpClient ------------------------------
(***************************************************************************)
(* HttpClient (src/kernel/http/http-client): the attempts of a request     *)
(* under a timeout and the caller's signal, retries, the waits between     *)
(* them, and the body that text() and json() read afterwards.              *)
(*                                                                         *)
(* fetch and the body of a response are external: fetch rejects when its   *)
(* signal is aborted, and may settle in any way before.                    *)
(***************************************************************************)
EXTENDS Integers

CONSTANTS
  MaxAttempts,  \* retries + 1
  MaxBytes      \* maxResponseBytes

ASSUME HttpClientAssumption == MaxAttempts \in Nat \ {0} /\ MaxBytes \in Nat \ {0}

VARIABLES
  repeatable, \* whether the method is one of retryMethods
  phase,      \* where request() is
  attempt,    \* the attempt of its loop
  fetches,    \* how often fetch was called
  timer,      \* the timeout of the attempt is armed
  timedOut,
  listening,  \* the attempt, or the wait, listens to the caller's signal
  aborted,    \* the caller's signal
  controller, \* whether the signal that fetch was given is aborted
  sleeping,   \* the timer of the wait is armed
  badDelay,   \* history: a delay function has thrown or given no valid number
  wanted,     \* what the caller calls: "request", "text" or "json"
  kept,       \* the bytes of the body read so far
  result      \* how that call has settled

bodyVars == <<wanted, kept>>
httpVars == <<repeatable, phase, attempt, fetches, timer, timedOut, listening,
              aborted, controller, sleeping, badDelay, bodyVars, result>>

HttpInit ==
  /\ wanted \in {"request", "text", "json"} /\ kept = 0
  /\ repeatable \in BOOLEAN /\ aborted \in BOOLEAN
  /\ phase = "next" /\ attempt = 1 /\ fetches = 0
  /\ timer = FALSE /\ timedOut = FALSE /\ listening = FALSE
  /\ controller = FALSE /\ sleeping = FALSE /\ badDelay = FALSE
  /\ result = "none"

-----------------------------------------------------------------------------
\* fetchAttempt aborts at once when the caller already has.  Mutant: it only
\* listens.
AbortMissed == FALSE
AlreadyAborted == aborted

StartAttempt ==
  /\ phase = "next"
  /\ phase' = "fetch" /\ fetches' = fetches + 1
  /\ timer' = TRUE /\ timedOut' = FALSE
  /\ controller' = AlreadyAborted /\ listening' = ~aborted
  /\ UNCHANGED <<repeatable, attempt, aborted, sleeping, badDelay, result, bodyVars>>

\* Mutant: the timeout is noted, and does not abort.
NoteTimeout == controller
AbortFetch == TRUE

TimeOut ==
  /\ timer
  /\ timer' = FALSE /\ timedOut' = TRUE /\ controller' = AbortFetch
  /\ UNCHANGED <<repeatable, phase, attempt, fetches, listening, aborted, sleeping, badDelay, result, bodyVars>>

\* The finally block.  Mutant: the timer is left armed.
KeepTimer == timer
ClearTimer == FALSE
Disarm == timer' = ClearTimer /\ listening' = FALSE

MayRetry == repeatable /\ attempt < MaxAttempts

\* The response is handed out, its body is read, or cancelled for a retry.
Respond ==
  /\ phase = "fetch"
  /\ Disarm
  /\ \/ wanted = "request" /\ phase' = "settled" /\ result' = "response"
     \/ wanted # "request" /\ phase' = "body" /\ UNCHANGED result
     \/ MayRetry /\ phase' = "cancel" /\ UNCHANGED result
  /\ UNCHANGED <<repeatable, attempt, fetches, timedOut, aborted, controller, sleeping, badDelay, bodyVars>>

\* The catch block.
Catch(code) ==
  IF MayRetry /\ code \in {"NETWORK_ERROR", "TIMEOUT"}
  THEN phase' = "retry" /\ UNCHANGED result
  ELSE phase' = "settled" /\ result' = code

FetchRejects ==
  /\ phase = "fetch"
  /\ Disarm
  /\ Catch(IF timedOut THEN "TIMEOUT" ELSE IF aborted THEN "ABORTED" ELSE "NETWORK_ERROR")
  /\ UNCHANGED <<repeatable, attempt, fetches, timedOut, aborted, controller, sleeping, badDelay, bodyVars>>

CancelSettles ==
  /\ phase = "cancel"
  /\ \/ phase' = "responded" /\ UNCHANGED result
     \/ Catch("NETWORK_ERROR")
  /\ UNCHANGED <<repeatable, attempt, fetches, timer, timedOut, listening, aborted, controller, sleeping, badDelay, bodyVars>>

-----------------------------------------------------------------------------
NextAttempt == phase' = "next" /\ attempt' = attempt + 1

\* What rejects the wait after a response is caught, and what rejects the wait of
\* the catch block is the outcome.
WaitFails(code) ==
  IF phase = "responded" THEN Catch(IF code = "error" THEN "NETWORK_ERROR" ELSE code)
  ELSE phase' = "settled" /\ result' = code

\* waitForRetry: a bad delay, none, one for nothing, and one to sleep.
Wait ==
  /\ phase \in {"responded", "retry"} /\ ~sleeping
  /\ \/ badDelay' = TRUE /\ WaitFails("error") /\ UNCHANGED <<attempt, sleeping, listening>>
     \/ NextAttempt /\ UNCHANGED <<badDelay, sleeping, listening, result>>
     \/ aborted /\ WaitFails("ABORTED") /\ UNCHANGED <<attempt, badDelay, sleeping, listening>>
     \/ ~aborted /\ sleeping' = TRUE /\ listening' = TRUE /\ UNCHANGED <<phase, attempt, badDelay, result>>
  /\ UNCHANGED <<repeatable, fetches, timer, timedOut, aborted, controller, bodyVars>>

Wake ==
  /\ sleeping
  /\ sleeping' = FALSE /\ listening' = FALSE
  /\ NextAttempt
  /\ UNCHANGED <<repeatable, fetches, timer, timedOut, aborted, controller, badDelay, result, bodyVars>>

\* The caller's signal: its listener aborts the attempt or ends the wait.
\* Mutant: the wait goes on.
SleepOn == UNCHANGED <<phase, result, sleeping>>
EndSleep ==
  IF sleeping THEN sleeping' = FALSE /\ WaitFails("ABORTED")
  ELSE UNCHANGED <<phase, result, sleeping>>

CallerAborts ==
  /\ ~aborted
  /\ aborted' = TRUE /\ listening' = FALSE
  /\ controller' = (controller \/ (listening /\ ~sleeping))
  /\ EndSleep
  /\ UNCHANGED <<repeatable, attempt, fetches, timer, timedOut, badDelay, bodyVars>>

-----------------------------------------------------------------------------
HasBody == phase = "body"

EndBody(outcome) ==
  /\ phase' = "settled" /\ result' = outcome
  /\ UNCHANGED <<repeatable, attempt, fetches, timer, timedOut, listening, aborted, controller,
                 sleeping, badDelay, wanted>>

\* json() of a status that is no success, a length or a body above the limit: the
\* body is cancelled, and that may reject.
RejectBody ==
  /\ HasBody /\ UNCHANGED kept
  /\ EndBody("error") \/ EndBody("RESPONSE_TOO_LARGE") \/ (wanted = "json" /\ EndBody("HTTP_STATUS"))

\* Neither the timeout nor the caller's signal reaches the body.  Mutant: what is
\* too much is noticed with the next chunk.
FitsSoFar(size) == kept <= MaxBytes
Fits(size) == kept + size <= MaxBytes

ReadChunk ==
  /\ HasBody
  /\ \E size \in 1..MaxBytes : Fits(size) /\ kept' = kept + size
  /\ UNCHANGED <<repeatable, phase, attempt, fetches, timer, timedOut, listening, aborted,
                 controller, sleeping, badDelay, wanted, result>>

ReadEnds ==
  /\ HasBody /\ UNCHANGED kept
  /\ EndBody("value") \/ (wanted = "json" /\ EndBody("INVALID_JSON"))

\* What the event loop, fetch once it is aborted, and the body owe.
HttpProgress ==
  \/ StartAttempt \/ TimeOut \/ CancelSettles \/ Wait \/ Wake
  \/ controller /\ FetchRejects

HttpNext ==
  \/ HttpProgress \/ Respond \/ FetchRejects \/ CallerAborts
  \/ RejectBody \/ ReadChunk \/ ReadEnds

HttpSpec == HttpInit /\ [][HttpNext]_httpVars

-----------------------------------------------------------------------------
\* Once the caller has aborted, no fetch goes on with a signal that does not say
\* so and no wait is slept out, though a retry without a delay still calls fetch, with
\* such a signal (utils.ts:193); what has settled leaves no timer and no listener
\* behind and has fetched at most once when its method is not repeated
\* (README.md:658).  Only a bad delay (client.ts:155) and a body that breaks off
\* give an error that is not structured, and no more of a body is kept than the
\* limit.
AbortIsFinal ==
  /\ aborted => (phase = "fetch" => controller) /\ ~sleeping
  /\ phase \in {"settled", "body", "next", "cancel"} => ~timer /\ ~listening /\ ~sleeping
  /\ fetches <= (IF repeatable THEN MaxAttempts ELSE 1)
  /\ result = "error" => badDelay \/ wanted # "request"
  /\ kept <= MaxBytes

\* request() settles, at the latest with the timeout of its last attempt.
RequestSettles == phase = "fetch" ~> phase \in {"body", "settled"}
=============================================================================
