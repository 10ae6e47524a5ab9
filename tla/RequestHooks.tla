----------------------------- MODULE RequestHooks -----------------------------
(***************************************************************************)
(* The hooks that bootstrap installs around one request                    *)
(* (src/kernel/application/bootstrap/hooks.ts, support.ts): what they tell *)
(* the span, the metrics and the inspector, and when they dispose the      *)
(* scope of the request, which a stream may still need.                    *)
(*                                                                         *)
(* The server is external: it calls the hooks, may fail before and after   *)
(* any of them, reads or cancels the stream of a response, and calls       *)
(* onAfterResponse when that is over.  What the application does with a    *)
(* scope, and its disposal by a stop, are in module RequestScopes.         *)
(***************************************************************************)
EXTENDS Integers, Sequences

VARIABLES
  at,        \* how far the server is with the request
  response,  \* "none", "plain" or "stream": what it would answer now
  native,    \* that is a Response, returned or thrown
  answer,    \* its status, one of Statuses
  late,      \* history: a later hook, or the server, has changed that since it was read
  mapped,    \* requestScopes has the request
  reqScope   \* "none", "active", "disposing" or "disposed"

hookVars == <<at, response, native, answer, late>>
scopeVars == <<mapped, reqScope>>

VARIABLES
  span,    \* requestSpans has the request
  marked,  \* the sets endedSpans, recordedMetrics and recordedInspector
  sinks    \* the statuses that each has been told

telemetryVars == <<span, marked, sinks>>

VARIABLES
  stream,     \* the deferred stream: "none", "open", "closed", "failed" or "cancelled"
  pull,       \* how far its pull is
  cancel,     \* how far its cancel is
  cleaned     \* the flag disposed of deferResponseDisposal

streamVars == <<stream, pull, cancel, cleaned>>
hooksVars == <<hookVars, scopeVars, telemetryVars, streamVars>>

Sinks == {"span", "metrics", "inspector"}

\* 200; another number, in set.status or in a Response; or another status that is
\* no number yet: a name in set.status, or in a value that the server translates.
Statuses == {"ok", "other", "named"}

HooksInit ==
  /\ at = "arrived" /\ response = "none" /\ native = FALSE /\ answer = "none" /\ late = FALSE
  /\ mapped = FALSE /\ reqScope = "none"
  /\ span = FALSE /\ marked = {} /\ sinks = [k \in Sinks |-> <<>>]
  /\ stream = "none" /\ pull = "no" /\ cancel = "no" /\ cleaned = FALSE

-----------------------------------------------------------------------------
\* finishSpan, recordRequestMetrics and recordRequestInspector: each marks the
\* request before it calls an adapter, which may throw.  Mutant: they do not ask
\* whether they have.
Everyone == Sinks
Untold == Sinks \ marked

\* responseStatus: what is no number is reported as 200.
ResponseStatus(status) == IF status = "named" THEN "ok" ELSE status

Report(status) ==
  /\ marked' = Sinks
  /\ \E working \in SUBSET (Untold \ (IF span THEN {} ELSE {"span"})) :
       sinks' = [k \in Sinks |-> IF k \in working THEN Append(sinks[k], status) ELSE sinks[k]]
  /\ UNCHANGED span

\* disposeRequestScope up to its await: whoever comes second finds no scope.
DisposeMapped ==
  /\ mapped' = FALSE
  /\ reqScope' = IF mapped THEN "disposing" ELSE reqScope

Awaited == reqScope # "disposing"

ScopeDisposed ==
  /\ reqScope = "disposing"
  /\ reqScope' = "disposed"
  /\ UNCHANGED <<hookVars, mapped, telemetryVars, streamVars>>

-----------------------------------------------------------------------------
Serve(next) ==
  /\ at' = next
  /\ UNCHANGED <<late, streamVars>>

Raised(status, body) ==
  /\ answer' = status /\ response' = body /\ native' = (body # "none")

\* onRequest refuses a body that is too long, or the server finds no route.
TurnAway ==
  /\ at = "arrived"
  /\ Raised("other", "none") /\ Serve("raised")
  /\ UNCHANGED <<scopeVars, telemetryVars>>

\* derive; the tracer may fail.
Derive ==
  /\ at = "arrived"
  /\ span' \in BOOLEAN
  /\ Serve("derived")
  /\ UNCHANGED <<response, native, answer, scopeVars, marked, sinks>>

\* The route resolves something in the scope of the request, or does not.
Resolved ==
  /\ at = "derived"
  /\ mapped' \in BOOLEAN
  /\ reqScope' = IF mapped' THEN "active" ELSE "none"
  /\ Serve("handling")
  /\ UNCHANGED <<response, native, answer, telemetryVars>>

Returns ==
  /\ at = "handling"
  /\ answer' \in Statuses /\ native' = FALSE /\ response' \in {"plain", "stream"}
  /\ Serve("returned")
  /\ UNCHANGED <<scopeVars, telemetryVars>>

\* An error is thrown, or a Response with or without a body.
Throws ==
  /\ at \in {"derived", "handling"}
  /\ \/ Raised("other", "none")
     \/ \E body \in {"plain", "stream"} : Raised("ok", body)
  /\ Serve("raised")
  /\ UNCHANGED <<scopeVars, telemetryVars>>

-----------------------------------------------------------------------------
\* Mutant: the scope is disposed whatever is answered.
Never == FALSE
Streams == response = "stream"

AfterHandle ==
  /\ at = "returned"
  /\ IF Streams THEN UNCHANGED scopeVars ELSE DisposeMapped
  /\ Serve("reporting")
  /\ UNCHANGED <<response, native, answer, telemetryVars>>

AfterHandleEnds ==
  /\ at = "reporting" /\ Awaited
  /\ Report(ResponseStatus(answer))
  /\ Serve("answering")
  /\ UNCHANGED <<response, native, answer, scopeVars>>

\* A later hook, or the server with what was returned, fails.
FailsLater ==
  /\ at = "answering"
  /\ at' = "raised" /\ Raised("other", "none") /\ late' = TRUE
  /\ UNCHANGED <<scopeVars, telemetryVars, streamVars>>

\* A later hook changes the status of the answer, and does not fail.
Amends ==
  /\ at \in {"answering", "erring"}
  /\ answer' \in Statuses \ {answer} /\ late' = TRUE
  /\ UNCHANGED <<at, response, native, scopeVars, telemetryVars, streamVars>>

\* An error has the status it is serialized with, a thrown Response its own:
\* both are numbers, and become the status of the answer.
OnError ==
  /\ at = "raised"
  /\ Report(answer)
  /\ IF native /\ Streams
     THEN stream' = "open" /\ UNCHANGED scopeVars
     ELSE DisposeMapped /\ UNCHANGED stream
  /\ at' = "erring"
  /\ UNCHANGED <<response, native, answer, late, pull, cancel, cleaned>>

\* The wrapped stream is returned without waiting.
OnErrorEnds ==
  /\ at = "erring" /\ (stream # "none" \/ Awaited)
  /\ Serve("answered")
  /\ UNCHANGED <<response, native, answer, scopeVars, telemetryVars>>

Answers ==
  /\ at = "answering"
  /\ Serve("answered")
  /\ UNCHANGED <<response, native, answer, scopeVars, telemetryVars>>

-----------------------------------------------------------------------------
(* deferResponseDisposal.                                                  *)

StreamStep == UNCHANGED <<hookVars, telemetryVars>>

\* cleanup up to its await.
CleanUp ==
  /\ cleaned' = TRUE
  /\ IF cleaned THEN UNCHANGED scopeVars ELSE DisposeMapped

\* The stream asks for its first chunk as soon as it is made.
Pull ==
  /\ stream = "open" /\ pull = "no"
  /\ pull' = "reading"
  /\ UNCHANGED <<scopeVars, stream, cancel, cleaned>> /\ StreamStep

Chunk ==
  /\ pull = "reading" /\ cancel = "no"
  /\ pull' = "no"
  /\ UNCHANGED <<scopeVars, stream, cancel, cleaned>> /\ StreamStep

\* The body ends or fails, or has been cancelled under the read; the second
\* cleanup does not wait for the first.
BodyEnds ==
  /\ pull = "reading"
  /\ pull' \in (IF cleaned THEN {"done"} ELSE {"closing", "failing"})
  /\ CleanUp
  /\ UNCHANGED <<stream, cancel>> /\ StreamStep

\* Mutant: the end is passed on before the scope has been disposed.
AtOnce == TRUE
Disposed == Awaited

\* A stream that was cancelled in the meantime stays so.
PassedOn ==
  /\ pull \in {"closing", "failing"} /\ Disposed
  /\ pull' = "done"
  /\ stream' = IF stream # "open" THEN stream ELSE IF pull = "closing" THEN "closed" ELSE "failed"
  /\ UNCHANGED <<scopeVars, cancel, cleaned>> /\ StreamStep

Cancel ==
  /\ at = "answered" /\ stream = "open"
  /\ stream' = "cancelled" /\ cancel' = "waiting"
  /\ UNCHANGED <<scopeVars, pull, cleaned>> /\ StreamStep

\* What it awaits then, nobody sees.
CancelSettled ==
  /\ cancel = "waiting"
  /\ cancel' = "done"
  /\ CleanUp
  /\ UNCHANGED <<stream, pull>> /\ StreamStep

\* The server has sent it all.
AfterResponse ==
  /\ at = "answered" /\ stream # "open"
  /\ DisposeMapped
  /\ Serve("done")
  /\ UNCHANGED <<response, native, answer, telemetryVars>>

HooksNext ==
  \/ TurnAway \/ Derive \/ Resolved \/ Returns \/ Throws
  \/ AfterHandle \/ AfterHandleEnds \/ FailsLater \/ Amends \/ OnError \/ OnErrorEnds \/ Answers
  \/ Pull \/ Chunk \/ BodyEnds \/ PassedOn \/ Cancel \/ CancelSettled
  \/ AfterResponse \/ ScopeDisposed

HooksSpec == HooksInit /\ [][HooksNext]_hooksVars

-----------------------------------------------------------------------------
\* Whichever hooks a request runs through, also when a route answers and the
\* server then fails, each sink is told once at most (README.md:894), and all are
\* told the same.  That is the status of the answer if it is a number, and if
\* nothing has changed it after it was read (hooks.ts:171).
ToldOnce ==
  /\ \A k \in Sinks : Len(sinks[k]) <= 1
  /\ \A k, l \in Sinks : sinks[k] # <<>> /\ sinks[l] # <<>> => sinks[k] = sinks[l]
  /\ \A k \in Sinks : at = "answered" /\ ~late /\ sinks[k] # <<>> =>
       sinks[k] = <<answer>> \/ answer = "named"

\* As long as a stream may give something, thrown or returned, its resources are
\* there; and who has read one to its end, or to its failure, finds them disposed
\* (docs/dependency-injection.md:81).
StreamKeepsScope ==
  /\ stream = "open" /\ pull \in {"no", "reading"} => reqScope \in {"none", "active"}
  /\ at \in {"reporting", "answering", "answered"} /\ response = "stream" /\ ~native =>
       reqScope \in {"none", "active"}
  /\ stream \in {"closed", "failed"} => reqScope \in {"none", "disposed"}
=============================================================================
