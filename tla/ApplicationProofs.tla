--------------------------- MODULE ApplicationProofs ---------------------------
(***************************************************************************)
(* Proofs about HttpClient, RequestHooks, ApplicationLife, ImportOrder and *)
(* FeatureGraph, for every number of attempts, bytes, features, tokens and *)
(* health checks, and whatever the features provide, import and need.      *)
(***************************************************************************)
EXTENDS HttpClient, RequestHooks, ApplicationLife, FeatureGraph, TLAPS, FiniteSetTheorems,
        SequenceTheorems

-----------------------------------------------------------------------------
(* A request of the client.                                                *)

\* The timer and the listener belong to the attempt in progress or to the wait
\* after it.
HttpFlags ==
  /\ aborted \in BOOLEAN /\ controller \in BOOLEAN
  /\ timer => phase = "fetch"
  /\ sleeping => phase \in {"responded", "retry"}
  /\ listening => ~aborted /\ (phase = "fetch" \/ sleeping)
  /\ ~aborted /\ (phase = "fetch" \/ sleeping) => listening
  /\ aborted => (phase = "fetch" => controller) /\ ~sleeping
  /\ phase = "body" => wanted # "request"
  /\ result = "error" => badDelay \/ wanted # "request"

\* One fetch was made for each attempt begun, and a second attempt only of what
\* may be repeated.
HttpCounts ==
  /\ attempt \in 1..MaxAttempts /\ kept \in 0..MaxBytes
  /\ phase = "next" => fetches = attempt - 1
  /\ phase # "next" => fetches = attempt
  /\ attempt > 1 => repeatable
  /\ phase \in {"cancel", "responded", "retry"} => MayRetry

LEMMA HttpStart == HttpInit => HttpFlags /\ HttpCounts
<1>1. HttpInit => HttpFlags
  BY Zenon DEF HttpInit, HttpFlags
<1>2. HttpInit => HttpCounts
  BY HttpClientAssumption DEF HttpInit, HttpCounts
<1> QED
  BY <1>1, <1>2

LEMMA HttpFlagsStep ==
  ASSUME HttpFlags, [HttpNext]_httpVars
  PROVE  HttpFlags'
<1> USE DEF HttpFlags, bodyVars
<1>1. CASE StartAttempt
  BY <1>1, Zenon DEF StartAttempt, AlreadyAborted
<1>2. CASE TimeOut
  BY <1>2, Zenon DEF TimeOut, AbortFetch
<1>3. CASE Respond
  BY <1>3, Zenon DEF Respond, Disarm, ClearTimer
<1>4. CASE FetchRejects
  BY <1>4, Zenon DEF FetchRejects, Disarm, ClearTimer, Catch
<1>5. CASE CancelSettles
  BY <1>5, Zenon DEF CancelSettles, Catch
<1>6. CASE Wait
  <2>1. /\ UNCHANGED <<aborted, controller, timer, wanted>> /\ ~sleeping /\ ~timer
        /\ phase \in {"responded", "retry"}
    BY <1>6, Zenon DEF Wait
  <2>2. CASE badDelay' = TRUE /\ WaitFails("error") /\ UNCHANGED <<attempt, sleeping, listening>>
    BY <2>1, <2>2, Zenon DEF WaitFails, Catch
  <2>3. CASE NextAttempt /\ UNCHANGED <<badDelay, sleeping, listening, result>>
    BY <2>1, <2>3, Zenon DEF NextAttempt
  <2>4. CASE aborted /\ WaitFails("ABORTED") /\ UNCHANGED <<attempt, badDelay, sleeping, listening>>
    BY <2>1, <2>4, Zenon DEF WaitFails, Catch
  <2>5. CASE ~aborted /\ sleeping' = TRUE /\ listening' = TRUE /\ UNCHANGED <<phase, attempt, badDelay, result>>
    BY <2>1, <2>5, Zenon
  <2> QED
    BY <1>6, <2>2, <2>3, <2>4, <2>5, Zenon DEF Wait
<1>7. CASE Wake
  BY <1>7, Zenon DEF Wake, NextAttempt
<1>8. CASE CallerAborts
  BY <1>8, Zenon DEF CallerAborts, EndSleep, WaitFails, Catch
<1>9. CASE RejectBody \/ ReadChunk \/ ReadEnds
  <2>1. phase = "body" /\ ~timer /\ ~sleeping /\ ~listening /\ wanted # "request"
        /\ UNCHANGED <<aborted, controller, timer, sleeping, listening, wanted>>
    BY <1>9, Zenon DEF RejectBody, ReadChunk, ReadEnds, EndBody, HasBody
  <2>2. phase' \in {"body", "settled"}
    BY <1>9, Zenon DEF RejectBody, ReadChunk, ReadEnds, EndBody, HasBody
  <2> QED
    BY <2>1, <2>2, Zenon
<1>10. CASE UNCHANGED httpVars
  BY <1>10, Zenon DEF httpVars
<1> HIDE DEF HttpFlags
<1> QED
  BY <1>1, <1>2, <1>3, <1>4, <1>5, <1>6, <1>7, <1>8, <1>9, <1>10 DEF HttpNext, HttpProgress

LEMMA HttpCountsStep ==
  ASSUME HttpCounts, HttpFlags, [HttpNext]_httpVars
  PROVE  HttpCounts'
<1> USE HttpClientAssumption DEF HttpCounts, MayRetry, bodyVars
<1>1. CASE StartAttempt
  BY <1>1 DEF StartAttempt
<1>2. CASE TimeOut
  BY <1>2 DEF TimeOut
<1>3. CASE Respond
  BY <1>3 DEF Respond
<1>4. CASE FetchRejects
  BY <1>4 DEF FetchRejects, Catch
<1>5. CASE CancelSettles
  BY <1>5 DEF CancelSettles, Catch
<1>6. CASE Wait
  BY <1>6 DEF Wait, WaitFails, Catch, NextAttempt
<1>7. CASE Wake
  BY <1>7 DEF Wake, NextAttempt, HttpFlags
<1>8. CASE CallerAborts
  BY <1>8 DEF CallerAborts, EndSleep, WaitFails, Catch, HttpFlags
<1>9. CASE RejectBody \/ ReadChunk \/ ReadEnds
  BY <1>9 DEF RejectBody, ReadChunk, ReadEnds, EndBody, HasBody, Fits
<1>10. CASE UNCHANGED httpVars
  BY <1>10 DEF httpVars
<1> HIDE DEF HttpCounts
<1> QED
  BY <1>1, <1>2, <1>3, <1>4, <1>5, <1>6, <1>7, <1>8, <1>9, <1>10 DEF HttpNext, HttpProgress

\* Once the caller has aborted, every fetch has a signal that says so and no retry is
\* waited for, and whatever has settled leaves no timer and no listener behind, for
\* any number of retries (client.ts:78).
THEOREM AbortIsFinalAlways == HttpSpec => []AbortIsFinal
<1>1. HttpFlags /\ HttpCounts => AbortIsFinal
  BY HttpClientAssumption DEF HttpFlags, HttpCounts, MayRetry, AbortIsFinal
<1> QED
  BY <1>1, HttpStart, HttpFlagsStep, HttpCountsStep, PTL DEF HttpSpec

-----------------------------------------------------------------------------
(* The hooks around a request.                                             *)

\* The sets of telemetry are filled together, once, with the status of the answer
\* as it stands, if it is a number; what fails later finds them filled.
Told ==
  /\ sinks \in [Sinks -> Seq({"none"} \cup Statuses)]
  /\ answer \in {"none"} \cup Statuses
  /\ marked \in {{}, Sinks}
  /\ marked = {} => \A k \in Sinks : sinks[k] = <<>>
  /\ \E status \in {"none"} \cup Statuses :
       /\ \A k \in Sinks : sinks[k] \in {<<>>, <<status>>}
       /\ at \in {"answering", "erring", "answered"} /\ ~late => status = ResponseStatus(answer)
  /\ at \in {"arrived", "derived", "handling", "returned", "reporting"} => marked = {}
  /\ at = "raised" => answer # "named" /\ (marked # {} => late)

LEMMA ReportTellsOnce ==
  ASSUME Told, NEW status \in {"none"} \cup Statuses, Report(status)
  PROVE  /\ marked' = Sinks /\ sinks' \in [Sinks -> Seq({"none"} \cup Statuses)]
         /\ marked = {} => \A k \in Sinks : sinks'[k] \in {<<>>, <<status>>}
         /\ marked # {} => sinks' = sinks
<1>1. PICK working \in SUBSET Untold :
        sinks' = [k \in Sinks |-> IF k \in working THEN Append(sinks[k], status) ELSE sinks[k]]
  BY DEF Report
<1>2. marked' = Sinks
  BY DEF Report
<1>3. sinks' \in [Sinks -> Seq({"none"} \cup Statuses)]
  BY <1>1 DEF Told
<1>4. ASSUME marked = {}
      PROVE  \A k \in Sinks : sinks'[k] \in {<<>>, <<status>>}
  <2>1. \A k \in Sinks : sinks[k] = <<>>
    BY <1>4 DEF Told
  <2>2. Append(<<>>, status) = <<status>>
    OBVIOUS
  <2> QED
    BY <1>1, <2>1, <2>2
<1>5. ASSUME marked # {}
      PROVE  sinks' = sinks
  <2>1. working = {}
    BY <1>1, <1>5 DEF Told, Untold
  <2> QED
    BY <1>1, <2>1 DEF Told
<1> QED
  BY <1>2, <1>3, <1>4, <1>5

LEMMA ToldStart == HooksInit => Told
<1> SUFFICES ASSUME HooksInit PROVE Told
  OBVIOUS
<1>1. \A k \in Sinks : sinks[k] = <<>>
  BY DEF HooksInit
<1>2. sinks \in [Sinks -> Seq({"none"} \cup Statuses)]
  BY DEF HooksInit
<1> QED
  BY <1>1, <1>2 DEF HooksInit, Told

LEMMA ToldStep ==
  ASSUME Told, [HooksNext]_hooksVars
  PROVE  Told'
<1>1. ASSUME AfterHandleEnds \/ OnError
      PROVE  Told'
  <2> DEFINE heard == ResponseStatus(answer)
  <2>1. Report(heard) /\ UNCHANGED <<answer, late>> /\ at' \in {"answering", "erring"}
        /\ at \in {"reporting", "raised"} /\ heard \in {"none"} \cup Statuses
    BY <1>1 DEF AfterHandleEnds, OnError, Serve, Told, ResponseStatus, Statuses
  <2>2. CASE marked = {}
    <3>1. marked' = Sinks /\ sinks' \in [Sinks -> Seq({"none"} \cup Statuses)]
          /\ \A k \in Sinks : sinks'[k] \in {<<>>, <<heard>>}
      BY <2>1, <2>2, ReportTellsOnce DEF Told
    <3> QED
      BY <2>1, <3>1 DEF Told, Sinks
  <2>3. CASE marked # {}
    <3>1. marked' = Sinks /\ sinks' = sinks /\ late
      BY <2>1, <2>3, ReportTellsOnce DEF Told
    <3> QED
      BY <2>1, <3>1 DEF Told, Sinks
  <2> QED
    BY <2>2, <2>3
<1>2. ASSUME TurnAway \/ Derive \/ Resolved \/ Returns \/ Throws \/ AfterHandle
      PROVE  Told'
  <2>1. /\ UNCHANGED <<sinks, marked, late>> /\ marked = {}
        /\ answer' \in {"none"} \cup Statuses
        /\ at' \in {"derived", "handling", "returned", "reporting", "raised"}
        /\ at' = "raised" => answer' # "named"
    BY <1>2 DEF TurnAway, Derive, Resolved, Returns, Throws, AfterHandle, Serve, Raised,
                Told, telemetryVars, Statuses
  <2> QED
    BY <2>1 DEF Told
<1>3. ASSUME FailsLater
      PROVE  Told'
  <2>1. UNCHANGED <<sinks, marked>> /\ late' /\ at' = "raised" /\ answer' = "other"
    BY <1>3 DEF FailsLater, Raised, telemetryVars
  <2> QED
    BY <2>1 DEF Told, Statuses
<1>4. ASSUME OnErrorEnds \/ Answers \/ AfterResponse
      PROVE  Told'
  <2>1. UNCHANGED <<sinks, marked, late, answer>> /\ at \in {"erring", "answering", "answered"}
        /\ at' \in {"answered", "done"}
    BY <1>4 DEF OnErrorEnds, Answers, AfterResponse, Serve, telemetryVars
  <2> QED
    BY <2>1 DEF Told
<1>5. ASSUME UNCHANGED <<hookVars, telemetryVars>>
      PROVE  Told'
  <2>1. UNCHANGED <<sinks, marked, late, answer, at>>
    BY <1>5 DEF hookVars, telemetryVars
  <2> QED
    BY <2>1 DEF Told
<1>6. ASSUME Amends
      PROVE  Told'
  <2>1. UNCHANGED <<sinks, marked, at>> /\ late' /\ answer' \in Statuses
        /\ at \in {"answering", "erring"}
    BY <1>6 DEF Amends, telemetryVars
  <2> QED
    BY <2>1 DEF Told
<1>7. \/ AfterHandleEnds \/ OnError
      \/ TurnAway \/ Derive \/ Resolved \/ Returns \/ Throws \/ AfterHandle
      \/ FailsLater \/ Amends \/ OnErrorEnds \/ Answers \/ AfterResponse
      \/ UNCHANGED <<hookVars, telemetryVars>>
  BY DEF HooksNext, hooksVars, Pull, Chunk, BodyEnds, PassedOn, Cancel, CancelSettled,
         ScopeDisposed, StreamStep
<1> QED
  BY <1>1, <1>2, <1>3, <1>4, <1>5, <1>6, <1>7

\* Each sink is told once at most, all are told the same, and that is the status of
\* the answer if it is a number that nothing changed later (hooks.ts:127, 171, 181).
THEOREM ToldOnceAlways == HooksSpec => []ToldOnce
<1>1. ASSUME Told
      PROVE  ToldOnce
  <2>1. PICK status \in {"none"} \cup Statuses :
          /\ \A k \in Sinks : sinks[k] \in {<<>>, <<status>>}
          /\ at \in {"answering", "erring", "answered"} /\ ~late => status = ResponseStatus(answer)
    BY <1>1 DEF Told
  <2>2. \A k \in Sinks : Len(sinks[k]) <= 1
    <3> DEFINE one == <<status>>
    <3>1. Len(<<>>) = 0
      BY SMT
    <3>2. Len(one) = 1
      BY SMT
    <3>3. ASSUME NEW k \in Sinks
          PROVE  Len(sinks[k]) <= 1
      <4>1. sinks[k] = <<>> \/ sinks[k] = one
        BY <2>1
      <4>2. CASE sinks[k] = <<>>
        BY <4>2, <3>1
      <4>3. CASE sinks[k] = one
        <5> HIDE DEF one
        <5> QED
          BY <4>3, <3>2
      <4> QED
        BY <4>1, <4>2, <4>3
    <3> QED
      BY <3>3
  <2>3. \A k, l \in Sinks : sinks[k] # <<>> /\ sinks[l] # <<>> => sinks[k] = sinks[l]
    BY <2>1
  <2>4. \A k \in Sinks : at = "answered" /\ ~late /\ sinks[k] # <<>> =>
          sinks[k] = <<answer>> \/ answer = "named"
    BY <2>1 DEF ResponseStatus
  <2> QED
    BY <2>2, <2>3, <2>4 DEF ToldOnce
<1>2. Told => ToldOnce
  BY <1>1
<1> QED
  BY <1>2, ToldStart, ToldStep, PTL DEF HooksSpec

-----------------------------------------------------------------------------
(* The scope of a request outlives its stream.                             *)

\* Until the application has answered, nothing has disposed the scope.
ScopeIsIntact == reqScope \in {"none", "active"}

\* requestScopes holds the request exactly as long as its scope is active, and
\* the hooks take it out where they begin to dispose it.
MapTells ==
  /\ reqScope \in {"none", "active", "disposing", "disposed"}
  /\ mapped = (reqScope = "active")

HandlingKeeps ==
  /\ at \in {"arrived", "derived", "handling", "returned"} => ScopeIsIntact
  /\ at \in {"arrived", "derived", "handling"} => ~native /\ response = "none"
  /\ at \in {"returned", "reporting", "answering"} => ~native
  /\ at = "raised" /\ native => ScopeIsIntact
  /\ at \in {"raised", "erring"} /\ ~native => response = "none"
  /\ at \in {"reporting", "answering", "answered"} /\ ~native /\ response = "stream" =>
       ScopeIsIntact

\* cleanup runs once, after the last chunk or with a cancellation.
StreamKeeps ==
  /\ stream # "none" => native /\ at \in {"erring", "answered", "done"}
  /\ pull # "no" => stream # "none"
  /\ cancel # "no" => stream = "cancelled"
  /\ cleaned => ~mapped /\ stream # "none"
  /\ pull \in {"closing", "failing"} => cleaned
  /\ stream = "open" /\ cleaned => pull \notin {"no", "reading"}
  /\ stream = "open" => at \in {"erring", "answered"}
  /\ stream = "open" /\ ~cleaned => ScopeIsIntact
  /\ stream \in {"closed", "failed"} => cleaned /\ reqScope \in {"none", "disposed"}

Keeps == MapTells /\ HandlingKeeps /\ StreamKeeps

LEMMA KeepsStart == HooksInit => Keeps
  BY DEF HooksInit, Keeps, MapTells, HandlingKeeps, StreamKeeps, ScopeIsIntact

\* Before the application has returned, and without a stream.
LEMMA KeepsBefore ==
  ASSUME Keeps,
         TurnAway \/ Derive \/ Resolved \/ Returns \/ Throws \/ FailsLater
  PROVE  Keeps'
<1>1. UNCHANGED <<stream, pull, cancel, cleaned>> /\ stream = "none"
  <2>1. UNCHANGED streamVars
        /\ at \in {"arrived", "derived", "handling", "answering"}
    BY DEF TurnAway, Derive, Resolved, Returns, Throws, FailsLater, Serve
  <2> QED
    BY <2>1 DEF streamVars, Keeps, StreamKeeps
<1>2. MapTells'
  BY DEF TurnAway, Derive, Resolved, Returns, Throws, FailsLater, scopeVars, Keeps, MapTells
<1>3. HandlingKeeps'
  <2>1. CASE TurnAway \/ FailsLater
    <3>1. at' = "raised" /\ response' = "none" /\ native' = FALSE
      BY <2>1 DEF TurnAway, FailsLater, Serve, Raised
    <3> QED
      BY <3>1 DEF HandlingKeeps
  <2>2. CASE Derive
    BY <2>2 DEF Derive, Serve, scopeVars, Keeps, HandlingKeeps, ScopeIsIntact
  <2>3. CASE Resolved
    BY <2>3 DEF Resolved, Serve, Keeps, HandlingKeeps, ScopeIsIntact
  <2>4. CASE Returns
    BY <2>4 DEF Returns, Serve, scopeVars, Keeps, HandlingKeeps, ScopeIsIntact
  <2>5. CASE Throws
    <3>1. /\ at' = "raised" /\ UNCHANGED reqScope /\ ScopeIsIntact
          /\ native' \/ response' = "none"
      BY <2>5 DEF Throws, Serve, Raised, scopeVars, Keeps, HandlingKeeps
    <3> QED
      BY <3>1 DEF HandlingKeeps, ScopeIsIntact
  <2> QED
    BY <2>1, <2>2, <2>3, <2>4, <2>5
<1>4. StreamKeeps'
  BY <1>1 DEF Keeps, StreamKeeps
<1> QED
  BY <1>2, <1>3, <1>4 DEF Keeps

\* The hooks, of which two dispose the scope and one makes the stream.
LEMMA KeepsHooks ==
  ASSUME Keeps,
         AfterHandle \/ AfterHandleEnds \/ OnError \/ OnErrorEnds \/ Answers \/ AfterResponse
  PROVE  Keeps'
<1>1. MapTells'
  BY DEF AfterHandle, AfterHandleEnds, OnError, OnErrorEnds, Answers, AfterResponse,
         DisposeMapped, scopeVars, Keeps, MapTells
<1>2. HandlingKeeps'
  BY DEF AfterHandle, AfterHandleEnds, OnError, OnErrorEnds, Answers, AfterResponse,
         DisposeMapped, Serve, Streams, scopeVars, Keeps, MapTells, HandlingKeeps,
         StreamKeeps, ScopeIsIntact
<1>3. StreamKeeps'
  <2>1. CASE OnError
    BY <2>1 DEF OnError, DisposeMapped, Streams, scopeVars, Keeps, MapTells, HandlingKeeps,
                StreamKeeps, ScopeIsIntact
  <2>2. CASE AfterHandle \/ AfterHandleEnds \/ OnErrorEnds \/ Answers \/ AfterResponse
    BY <2>2 DEF AfterHandle, AfterHandleEnds, OnErrorEnds, Answers, AfterResponse,
                DisposeMapped, Serve, scopeVars, streamVars, Keeps, MapTells, HandlingKeeps,
                StreamKeeps, ScopeIsIntact
  <2> QED
    BY <2>1, <2>2
<1> QED
  BY <1>1, <1>2, <1>3 DEF Keeps

\* The stream, whose cleanup disposes the scope, that disposal itself, and a later
\* hook, which has no part in either.
LEMMA KeepsStream ==
  ASSUME Keeps,
         \/ Pull \/ Chunk \/ BodyEnds \/ PassedOn \/ Cancel \/ CancelSettled
         \/ ScopeDisposed \/ Amends \/ UNCHANGED hooksVars
  PROVE  Keeps'
<1>1. UNCHANGED <<at, response, native>>
  BY DEF Pull, Chunk, BodyEnds, PassedOn, Cancel, CancelSettled, ScopeDisposed, Amends,
         StreamStep, hookVars, hooksVars
<1>2. \/ UNCHANGED <<mapped, reqScope>>
      \/ ~cleaned /\ stream # "none" /\ DisposeMapped
      \/ reqScope = "disposing" /\ reqScope' = "disposed" /\ UNCHANGED mapped
  BY DEF Pull, Chunk, BodyEnds, PassedOn, Cancel, CancelSettled, ScopeDisposed, Amends,
         CleanUp, scopeVars, hooksVars, Keeps, StreamKeeps
<1>3. MapTells'
  BY <1>2 DEF DisposeMapped, Keeps, MapTells
<1>4. HandlingKeeps'
  BY <1>1, <1>2 DEF Keeps, MapTells, HandlingKeeps, StreamKeeps, ScopeIsIntact
<1>5. StreamKeeps'
  <2>1. CASE Pull \/ Chunk \/ Cancel
    BY <2>1, <1>1 DEF Pull, Chunk, Cancel, scopeVars, Keeps, StreamKeeps, ScopeIsIntact
  <2>2. CASE BodyEnds
    BY <2>2, <1>1 DEF BodyEnds, CleanUp, DisposeMapped, scopeVars, Keeps, MapTells,
                      StreamKeeps, ScopeIsIntact
  <2>3. CASE PassedOn
    BY <2>3, <1>1 DEF PassedOn, Disposed, Awaited, scopeVars, Keeps, MapTells, StreamKeeps,
                      ScopeIsIntact
  <2>4. CASE CancelSettled
    BY <2>4, <1>1 DEF CancelSettled, CleanUp, DisposeMapped, scopeVars, Keeps, MapTells,
                      StreamKeeps, ScopeIsIntact
  <2>5. CASE ScopeDisposed
    BY <2>5, <1>1 DEF ScopeDisposed, streamVars, Keeps, MapTells, StreamKeeps, ScopeIsIntact
  <2>6. CASE Amends \/ UNCHANGED hooksVars
    BY <2>6 DEF Amends, hooksVars, hookVars, scopeVars, streamVars, Keeps, StreamKeeps, ScopeIsIntact
  <2> QED
    BY <2>1, <2>2, <2>3, <2>4, <2>5, <2>6
<1> QED
  BY <1>3, <1>4, <1>5 DEF Keeps

\* A stream has the scope of its request as long as it may give something, and
\* its end means that the scope is disposed (support.ts:85, hooks.ts:112, 170).
THEOREM StreamKeepsScopeAlways == HooksSpec => []StreamKeepsScope
<1>1. Keeps /\ [HooksNext]_hooksVars => Keeps'
  BY KeepsBefore, KeepsHooks, KeepsStream DEF HooksNext
<1>2. Keeps => StreamKeepsScope
  BY DEF Keeps, MapTells, HandlingKeeps, StreamKeeps, ScopeIsIntact, StreamKeepsScope
<1> QED
  BY <1>1, <1>2, KeepsStart, PTL DEF HooksSpec

-----------------------------------------------------------------------------
(* The end of an application.                                              *)

\* There are n containers; the last of them have been disposed, in reverse, and
\* only those before hold instances.
Made(n) ==
  /\ created = 1..n
  /\ closed \in Seq(Int) /\ Len(closed) <= n
  /\ \A i \in 1..Len(closed) : closed[i] = n + 1 - i
  /\ live \subseteq 1..(n - Len(closed))
  /\ ending = "done" => Len(closed) = n
  /\ ending = "no" => closed = <<>>

\* Composing comes before starting, and starting before the end.
InOrder ==
  /\ boot \in {"singletons", "controllers", "initializing", "composed", "failed"}
  /\ ending \in {"no", "going", "done"}
  /\ boot \in {"singletons", "controllers", "initializing"} =>
       ending = "no" /\ start = "bootstrapping"
  /\ boot = "singletons" => created = 1..roots
  /\ boot = "failed" => ending # "no" /\ start \in {"bootstrapping", "rejected"}
  /\ start # "started" => ~installed /\ server = "idle" /\ stop = "no" /\ signal = "no"
  /\ start = "rejecting" => ending # "no"
  /\ start = "rejected" => ending = "done"
  /\ start = "started" => boot = "composed"
  /\ stop # "no" => ~installed
  /\ stop = "disposing" => ending # "no"
  /\ stop = "done" => ending = "done"
  /\ signal = "done" => ~installed

Orderly ==
  /\ roots \in {1, 2}
  /\ unresolved \subseteq created
  /\ \E n \in Nat \ {0} : Made(n)
  /\ InOrder

LEMMA OrderlyStart == LifeInit => Orderly
<1> SUFFICES ASSUME LifeInit PROVE Orderly
  OBVIOUS
<1>1. roots \in Nat \ {0} /\ created = 1..roots /\ live = {} /\ closed = <<>> /\ ending = "no"
  BY DEF LifeInit
<1>2. Made(roots)
  BY <1>1 DEF Made
<1>3. InOrder
  BY DEF LifeInit, InOrder
<1> QED
  BY <1>1, <1>2, <1>3 DEF LifeInit, Orderly

\* The container that is disposed next is the last of those that remain.
LEMMA LastIsLast ==
  ASSUME NEW n \in Nat \ {0}, Made(n), Remaining # {}
  PROVE  /\ Remaining = 1..(n - Len(closed))
         /\ LastMade = n - Len(closed)
         /\ n - Len(closed) \in Nat \ {0}
<1> DEFINE m == n - Len(closed)
<1>1. Len(closed) \in Nat /\ m \in Nat /\ DOMAIN closed = 1..Len(closed)
  BY DEF Made
<1>2. ASSUME NEW c \in 1..n
      PROVE  (\A i \in DOMAIN closed : closed[i] # c) <=> c <= m
  <2>1. ASSUME c <= m, NEW i \in DOMAIN closed
        PROVE  closed[i] # c
    <3>1. i \in 1..Len(closed)
      BY <1>1
    <3>2. closed[i] = n + 1 - i
      BY <3>1 DEF Made
    <3>3. i \in Nat /\ i <= Len(closed)
      BY <3>1, <1>1
    <3>4. n + 1 - i > c
      BY <2>1, <3>3, <1>1
    <3> QED
      BY <3>2, <3>4
  <2>2. ASSUME ~(c <= m)
        PROVE  \E i \in DOMAIN closed : closed[i] = c
    <3>1. n + 1 - c \in 1..Len(closed)
      BY <2>2, <1>1
    <3>2. closed[n + 1 - c] = n + 1 - (n + 1 - c)
      BY <3>1 DEF Made
    <3>3. closed[n + 1 - c] = c
      BY <3>2
    <3> QED
      BY <3>1, <3>3, <1>1
  <2> QED
    BY <2>1, <2>2
<1>3. Remaining = 1..m
  <2>1. Remaining = { c \in 1..n : c <= m }
    BY <1>2 DEF Remaining, Made
  <2> QED
    BY <2>1, <1>1
<1>4. m \in Nat \ {0}
  <2>1. PICK c \in Remaining : TRUE
    OBVIOUS
  <2>2. c \in 1..m
    BY <2>1, <1>3
  <2>3. m # 0
    BY <2>2
  <2> QED
    BY <2>3, <1>1
<1>5. LastMade = m
  <2>1. m \in 1..m /\ \A d \in 1..m : m >= d
    BY <1>4
  <2>2. \A c \in 1..m : (\A d \in 1..m : c >= d) => c = m
    BY <1>4
  <2> QED
    BY <2>1, <2>2, <1>3 DEF LastMade
<1> QED
  BY <1>3, <1>4, <1>5

\* A disposal of one container.
LEMMA OrderlyDisposal ==
  ASSUME Orderly, DisposeNext
  PROVE  Orderly'
<1>1. PICK n \in Nat \ {0} : Made(n)
  BY DEF Orderly
<1> DEFINE m == n - Len(closed)
<1>2. /\ ending = "going" /\ Remaining # {}
      /\ closed' = Append(closed, LastMade)
      /\ live' = live \ {LastMade}
      /\ ending' = IF Remaining = {LastMade} THEN "done" ELSE "going"
      /\ UNCHANGED <<roots, boot, unresolved, created, start, server, installed, signal, stop>>
  BY DEF DisposeNext, bootVars, endVars
<1>3. LastMade = m /\ m \in Nat \ {0} /\ Remaining = 1..m
  BY <1>1, <1>2, LastIsLast
<1>4. /\ closed \in Seq(Int) /\ closed' \in Seq(Int)
      /\ Len(closed) \in Nat /\ Len(closed') = Len(closed) + 1
      /\ \A i \in 1..Len(closed) : closed'[i] = closed[i]
      /\ closed'[Len(closed) + 1] = m
  BY <1>1, <1>2, <1>3 DEF Made
<1>5. Made(n)'
  <2>1. created' = 1..n
    BY <1>1, <1>2 DEF Made
  <2>2. Len(closed') <= n
    BY <1>3, <1>4
  <2>3. \A i \in 1..Len(closed') : closed'[i] = n + 1 - i
    <3>1. ASSUME NEW i \in 1..Len(closed')
          PROVE  closed'[i] = n + 1 - i
      <4>1. CASE i = Len(closed) + 1
        BY <4>1, <1>4
      <4>2. CASE i # Len(closed) + 1
        <5>1. i \in 1..Len(closed)
          BY <3>1, <4>2, <1>4
        <5>2. closed[i] = n + 1 - i
          BY <5>1, <1>1 DEF Made
        <5> QED
          BY <5>1, <5>2, <1>4
      <4> QED
        BY <4>1, <4>2
    <3> QED
      BY <3>1
  <2>4. live' \subseteq 1..(n - Len(closed'))
    <3>1. live \subseteq 1..m
      BY <1>1 DEF Made
    <3>2. n - Len(closed') = m - 1
      BY <1>4
    <3>3. (1..m) \ {m} \subseteq 1..(m - 1)
      BY <1>3
    <3> QED
      BY <1>2, <1>3, <3>1, <3>2, <3>3
  <2>5. ending' = "done" => Len(closed') = n
    <3>1. ASSUME ending' = "done"
          PROVE  m = 1
      <4>1. 1..m = {m}
        BY <3>1, <1>2, <1>3
      <4>2. 1 \in 1..m
        BY <1>3
      <4> QED
        BY <4>1, <4>2
    <3> QED
      BY <3>1, <1>4
  <2>6. ending' # "no"
    BY <1>2
  <2> QED
    BY <1>4, <2>1, <2>2, <2>3, <2>4, <2>5, <2>6 DEF Made
<1>6. InOrder'
  BY <1>2 DEF Orderly, InOrder
<1> QED
  BY <1>2, <1>5, <1>6 DEF Orderly

\* Composing: containers are made, and instances only in those that exist.
LEMMA OrderlyComposition ==
  ASSUME Orderly, ResolveSingletons \/ ResolveController \/ Initialized \/ ComposeFails
  PROVE  Orderly'
<1>1. PICK n \in Nat \ {0} : Made(n)
  BY DEF Orderly
<1>2. /\ boot \in {"singletons", "controllers", "initializing"}
      /\ UNCHANGED <<roots, start, server, installed, signal, stop, closed>>
  BY DEF ResolveSingletons, ResolveController, Initialized, ComposeFails, Boot, endVars
<1>3. /\ ending = "no" /\ start = "bootstrapping" /\ closed = <<>> /\ Len(closed) = 0
      /\ roots \in {1, 2} /\ Pods \in Nat \ {0}
  BY <1>1, <1>2, ApplicationLifeAssumption DEF Orderly, InOrder, Made
<1>4. created = 1..n /\ live \subseteq 1..n /\ unresolved \subseteq 1..n
      /\ (boot = "singletons" => created = 1..roots)
  BY <1>1, <1>3 DEF Orderly, InOrder, Made
<1>5. ASSUME NEW k \in Nat \ {0}, created' = 1..k, live' \subseteq 1..k, ending' # "done",
             unresolved' \subseteq created',
             \/ ending' = "no" /\ boot' \in {"controllers", "initializing", "composed"}
             \/ ending' = "going" /\ boot' = "failed"
      PROVE  Orderly'
  <2>1. Made(k)'
    BY <1>2, <1>3, <1>5 DEF Made
  <2>2. InOrder'
    BY <1>2, <1>3, <1>5 DEF Orderly, InOrder
  <2> QED
    BY <1>2, <1>3, <1>5, <2>1, <2>2 DEF Orderly
<1>6. CASE ResolveSingletons
  <2>1. /\ boot = "singletons" /\ boot' = "controllers" /\ created' = 1..(roots + Pods)
        /\ unresolved' = (roots + 1)..(roots + Pods) /\ live' \subseteq live \cup created
        /\ ending' = "no"
    BY <1>6, <1>3 DEF ResolveSingletons, Boot
  <2>2. 1..roots \subseteq 1..(roots + Pods) /\ roots + Pods \in Nat \ {0}
        /\ (roots + 1)..(roots + Pods) \subseteq 1..(roots + Pods)
    BY <1>3
  <2>3. live' \subseteq 1..(roots + Pods)
    BY <2>1, <2>2, <1>4
  <2> QED
    BY <2>1, <2>2, <2>3, <1>5
<1>7. CASE ResolveController
  <2>1. PICK f \in unresolved :
          /\ unresolved' = unresolved \ {f}
          /\ \E imported \in SUBSET ((roots + 1)..f) : live' = live \cup imported \cup {f}
    BY <1>7 DEF ResolveController
  <2>2. f \in 1..n /\ (roots + 1)..f \subseteq 1..n
    BY <2>1, <1>3, <1>4
  <2>3. live' \subseteq 1..n
    BY <2>1, <2>2, <1>4
  <2>4. created' = 1..n /\ ending' = "no" /\ boot' \in {"controllers", "initializing"}
    BY <1>7, <1>3, <1>4 DEF ResolveController, Boot
  <2>5. unresolved' \subseteq created'
    BY <2>1, <2>4, <1>4
  <2> QED
    BY <2>3, <2>4, <2>5, <1>5
<1>8. CASE Initialized
  <2>1. UNCHANGED <<created, live, unresolved>> /\ ending' = "no" /\ boot' = "composed"
    BY <1>8, <1>3 DEF Initialized, Boot
  <2> QED
    BY <2>1, <1>4, <1>5
<1>9. CASE ComposeFails
  <2>1. ending' = "going" /\ boot' = "failed" /\ UNCHANGED unresolved
    BY <1>9 DEF ComposeFails
  <2>2. live' \subseteq 1..n
    BY <1>9, <1>4 DEF ComposeFails
  <2>3. CASE boot = "singletons"
    <3>1. PICK k \in 0..(Pods - 1) : created' = 1..(roots + k)
      BY <1>9, <2>3 DEF ComposeFails
    <3>2. roots + k \in Nat \ {0} /\ 1..roots \subseteq 1..(roots + k)
      BY <1>3
    <3>3. live' \subseteq 1..(roots + k) /\ unresolved' \subseteq created'
      BY <3>1, <3>2, <2>1, <2>2, <2>3, <1>4
    <3> QED
      BY <3>1, <3>2, <3>3, <2>1, <1>5
  <2>4. CASE boot # "singletons"
    <3>1. created' = created
      BY <1>9, <2>4 DEF ComposeFails
    <3> QED
      BY <3>1, <2>1, <2>2, <1>4, <1>5
  <2> QED
    BY <2>3, <2>4
<1> QED
  BY <1>6, <1>7, <1>8, <1>9

\* Starting, stopping and probing touch no container.
LEMMA OrderlyRest ==
  ASSUME Orderly,
         \/ Listen \/ ListenFails \/ Rejects \/ Signal \/ Stop \/ OnStop
         \/ SignalSettles \/ ServerStopSettles \/ StopSettles
         \/ UNCHANGED <<bootVars, live, start, server, installed, endVars, ending, closed>>
  PROVE  Orderly'
<1>1. PICK n \in Nat \ {0} : Made(n)
  BY DEF Orderly
<1>2. /\ UNCHANGED <<roots, boot, unresolved, created, live, closed>>
      /\ ending' = ending \/ (ending = "no" /\ ending' = "going")
  BY DEF Listen, ListenFails, Rejects, Signal, Stop, OnStop, SignalSettles,
         ServerStopSettles, StopSettles, DisposeGraph, DisposeOnce, bootVars
<1>3. Made(n)'
  BY <1>1, <1>2 DEF Made
<1>4. InOrder'
  <2>1. CASE Listen \/ ListenFails \/ Rejects
    BY <2>1, <1>2 DEF Listen, ListenFails, Rejects, DisposeGraph, DisposeOnce, endVars,
                      Orderly, InOrder
  <2>2. CASE Signal \/ Stop \/ OnStop
    BY <2>2, <1>2 DEF Signal, Stop, OnStop, CallServerStop, DisposeOnce, endVars,
                      Orderly, InOrder
  <2>3. CASE SignalSettles \/ ServerStopSettles \/ StopSettles
    BY <2>3, <1>2 DEF SignalSettles, ServerStopSettles, StopSettles, DisposeOnce,
                      DisposalEnded, Orderly, InOrder
  <2>4. CASE UNCHANGED <<bootVars, live, start, server, installed, endVars, ending, closed>>
    BY <2>4 DEF bootVars, endVars, Orderly, InOrder
  <2> QED
    BY <2>1, <2>2, <2>3, <2>4
<1> QED
  BY <1>2, <1>3, <1>4 DEF Orderly

LEMMA OrderlyStep == Orderly /\ [LifeNext]_lifeVars => Orderly'
<1> SUFFICES ASSUME Orderly, [LifeNext]_lifeVars PROVE Orderly'
  OBVIOUS
<1>1. CASE Probe \/ Answer \/ \E c \in Checks : CheckTimesOut(c) \/ CheckSettles(c)
  <2>1. UNCHANGED <<bootVars, live, start, server, installed, endVars, ending, closed>>
    BY <1>1 DEF Probe, Answer, CheckTimesOut, CheckSettles, ProbeStep
  <2> QED
    BY <2>1, OrderlyRest
<1>2. CASE UNCHANGED lifeVars
  <2>1. UNCHANGED <<bootVars, live, start, server, installed, endVars, ending, closed>>
    BY <1>2 DEF lifeVars
  <2> QED
    BY <2>1, OrderlyRest
<1> QED
  BY <1>1, <1>2, OrderlyRest, OrderlyDisposal, OrderlyComposition DEF LifeNext, LifeProgress

\* Whatever fails while an application starts, runs or stops, its containers are
\* disposed once each, last made first, before start() rejects or stop() resolves,
\* and the signal handlers are gone (start.ts:43, 50, runtime.ts:214).
THEOREM LeftCleanAlways == LifeSpec => []LeftClean
<1>1. ASSUME Orderly
      PROVE  LeftClean
  <2>1. PICK n \in Nat \ {0} : Made(n)
    BY <1>1 DEF Orderly
  <2>2. DOMAIN closed = 1..Len(closed) /\ Len(closed) \in Nat
    BY <2>1 DEF Made
  <2>3. ASSUME NEW i \in DOMAIN closed, NEW j \in DOMAIN closed, i < j
        PROVE  closed[i] > closed[j]
    <3>1. closed[i] = n + 1 - i /\ closed[j] = n + 1 - j
      BY <2>1, <2>2 DEF Made
    <3>2. i \in Nat /\ j \in Nat
      BY <2>2
    <3> QED
      BY <2>3, <3>1, <3>2
  <2>4. ASSUME ending = "done"
        PROVE  live = {} /\ Len(closed) = Cardinality(created)
    <3>1. Len(closed) = n /\ created = 1..n /\ live \subseteq 1..(n - n)
      BY <2>1, <2>4 DEF Made
    <3>2. Cardinality(1..n) = n
      BY FS_Interval
    <3> QED
      BY <3>1, <3>2
  <2>5. /\ start = "rejected" \/ stop = "done" => ending = "done" /\ ~installed
        /\ signal = "done" => ~installed
    BY <1>1 DEF Orderly, InOrder
  <2> QED
    BY <2>3, <2>4, <2>5 DEF LeftClean
<1>2. Orderly => LeftClean
  BY <1>1
<1> QED
  BY <1>2, OrderlyStart, OrderlyStep, PTL DEF LifeSpec

-----------------------------------------------------------------------------
(* The order of the imports.                                               *)

OrderTypeOK ==
  /\ imports \in [Features -> Seq(Features)]
  /\ turn \in [Homes -> Nat]
  /\ visiting \in Seq(Homes) /\ ordered \in Seq(Features)
  /\ cycle \in BOOLEAN

\* The visits in progress: what their loops have come to has been visited, or is
\* visited by the next of them.
VisitsInv ==
  /\ visiting # <<>> /\ visiting[1] = Root
  /\ \A i, j \in 1..Len(visiting) : i # j => visiting[i] # visiting[j]
  /\ \A i \in 1..Len(visiting) : visiting[i] \notin Range(ordered)
  /\ \A i \in 1..Len(visiting) : turn[visiting[i]] <= Len(Listed(visiting[i]))
  /\ \A i \in 1..Len(visiting) : \A k \in 1..turn[visiting[i]] :
       \/ Listed(visiting[i])[k] \in Range(ordered)
       \/ /\ k = turn[visiting[i]]
          /\ i < Len(visiting) /\ visiting[i + 1] = Listed(visiting[i])[k]

\* Each visit in progress is needed by those before it.
WayInv ==
  /\ \A i \in 2..Len(visiting) : turn[Root] \in Features /\ visiting[i] \in Needed(turn[Root])
  /\ \A i, j \in 2..Len(visiting) : i < j => visiting[j] \in Imported(visiting[i])
  /\ cycle => \E f \in Features : f \in Imported(f)

Before(i) == { ordered[j] : j \in 1..(i - 1) }

\* What is in the order comes after all that has to come before it.
OrderedInv ==
  /\ \A i, j \in 1..Len(ordered) : i # j => ordered[i] # ordered[j]
  /\ \A i \in 1..Len(ordered) : Range(imports[ordered[i]]) \subseteq Before(i)
  /\ \A i \in 1..Len(ordered) : \A r \in Features : \A f \in Needed(r) :
       After(ordered[i], r) => f \in Before(i)

OrderInv == OrderTypeOK /\ VisitsInv /\ WayInv /\ OrderedInv

LEMMA Elements ==
  ASSUME NEW S, NEW s \in Seq(S)
  PROVE  /\ Len(s) \in Nat
         /\ \A i \in 1..Len(s) : s[i] \in S /\ s[i] \in Range(s)
         /\ \A x \in Range(s) : x \in S /\ \E i \in 1..Len(s) : s[i] = x
<1>1. Range(s) = { s[i] : i \in 1..Len(s) }
  BY RangeEquality
<1>2. Len(s) \in Nat /\ \A i \in 1..Len(s) : s[i] \in S
  OBVIOUS
<1> QED
  BY <1>1, <1>2

LEMMA FrontAndLast ==
  ASSUME NEW S, NEW s \in Seq(S), s # <<>>
  PROVE  /\ Len(s) \in Nat \ {0} /\ Last(s) = s[Len(s)] /\ Last(s) \in S
         /\ Front(s) \in Seq(S) /\ Len(Front(s)) = Len(s) - 1
         /\ \A i \in 1..(Len(s) - 1) : Front(s)[i] = s[i]
<1> DEFINE n == Len(s)
<1>1. n \in Nat \ {0} /\ n \in 1..n /\ \A i \in 1..n : s[i] \in S
  OBVIOUS
<1> HIDE DEF n
<1>2. /\ SubSeq(s, 1, n - 1) \in Seq(S)
      /\ Len(SubSeq(s, 1, n - 1)) = n - 1
      /\ \A i \in 1..(n - 1) : SubSeq(s, 1, n - 1)[i] = s[i]
  <2>1. n - 1 \in Int /\ 1 \in Int /\ \A i \in 1..(n - 1) : s[i] \in S
    BY <1>1
  <2>2. /\ SubSeq(s, 1, n - 1) \in Seq(S)
        /\ Len(SubSeq(s, 1, n - 1)) = IF 1 <= n - 1 THEN (n - 1) - 1 + 1 ELSE 0
        /\ \A i \in 1..((n - 1) - 1 + 1) : SubSeq(s, 1, n - 1)[i] = s[1 + i - 1]
    BY <2>1, SubSeqProperties
  <2> QED
    BY <1>1, <2>2
<1>3. Last(s) = s[n] /\ Front(s) = SubSeq(s, 1, n - 1)
  BY DEF Last, Front, n
<1> QED
  BY <1>1, <1>2, <1>3 DEF n

\* What is needed is a least set: it is closed under imports, and in every such set.
LEMMA Needs ==
  ASSUME imports \in [Features -> Seq(Features)], NEW f \in Features
  PROVE  /\ f \in Needed(f) /\ Needed(f) \subseteq Features /\ Complete(Needed(f))
         /\ \A fs \in SUBSET Features : f \in fs /\ Complete(fs) => Needed(f) \subseteq fs
         /\ Range(imports[f]) \subseteq Imported(f)
         /\ Imported(f) \subseteq Needed(f) /\ Complete(Imported(f))
<1>1. ASSUME NEW g \in Features
      PROVE  /\ g \in Needed(g) /\ Needed(g) \subseteq Features
             /\ \A fs \in SUBSET Features : g \in fs /\ Complete(fs) => Needed(g) \subseteq fs
  BY DEF Needed
<1>2. ASSUME NEW g \in Features
      PROVE  Range(imports[g]) \subseteq Features
  <2>1. imports[g] \in Seq(Features)
    BY <1>2
  <2> QED
    BY <2>1, Elements
<1>3. ASSUME NEW g \in Features
      PROVE  Complete(Needed(g))
  <2>1. ASSUME NEW h \in Needed(g), NEW k \in Range(imports[h])
        PROVE  k \in Needed(g)
    <3>1. h \in Features /\ k \in Features
      BY <1>1, <1>2, <2>1
    <3>2. ASSUME NEW fs \in SUBSET Features, g \in fs, Complete(fs)
          PROVE  k \in fs
      <4>1. h \in fs
        BY <1>1, <2>1, <3>2
      <4> QED
        BY <2>1, <3>2, <4>1 DEF Complete
    <3> QED
      BY <3>1, <3>2 DEF Needed
  <2> QED
    BY <2>1 DEF Complete
<1>4. Range(imports[f]) \subseteq Imported(f)
  BY <1>1, <1>2 DEF Imported
<1>5. Imported(f) \subseteq Needed(f)
  <2>1. ASSUME NEW g \in Range(imports[f])
        PROVE  Needed(g) \subseteq Needed(f)
    <3>1. g \in Features /\ g \in Needed(f)
      BY <1>1, <1>2, <1>3, <2>1 DEF Complete
    <3>2. Needed(f) \in SUBSET Features
      BY <1>1
    <3> QED
      BY <1>1, <1>3, <3>1, <3>2
  <2> QED
    BY <2>1 DEF Imported
<1>6. Complete(Imported(f))
  <2>1. ASSUME NEW g \in Range(imports[f])
        PROVE  Complete(Needed(g))
    BY <1>2, <1>3, <2>1
  <2> QED
    BY <2>1 DEF Complete, Imported
<1> QED
  BY <1>1, <1>3, <1>4, <1>5, <1>6

LEMMA SameImports ==
  ASSUME imports' = imports
  PROVE  /\ \A f : Needed(f)' = Needed(f) /\ Imported(f)' = Imported(f)
         /\ \A g, r : After(g, r)' <=> After(g, r)
         /\ \A h : Listed(h)' = Listed(h)
<1>1. \A f : Needed(f)' = Needed(f)
  BY DEF Needed, Complete
<1>2. \A f : Imported(f)' = Imported(f)
  BY DEF Imported, Needed, Complete
<1>3. \A g, r : After(g, r)' <=> After(g, r)
  BY DEF After, Needed, Complete
<1>4. \A h : Listed(h)' = Listed(h)
  BY DEF Listed
<1> QED
  BY <1>1, <1>2, <1>3, <1>4

LEMMA OrderedLeft ==
  ASSUME OrderedInv, UNCHANGED <<imports, ordered>>
  PROVE  OrderedInv'
<1>1. \A f : Needed(f)' = Needed(f)
  BY SameImports
<1>2. UNCHANGED <<imports, ordered>>
  OBVIOUS
<1>3. \A i, j \in 1..Len(ordered') : i # j => ordered'[i] # ordered'[j]
  BY <1>2 DEF OrderedInv
<1>4. \A i \in 1..Len(ordered') : Range(imports'[ordered'[i]]) \subseteq Before(i)'
  BY <1>2 DEF OrderedInv, Before
<1>5. \A i \in 1..Len(ordered') : \A r \in Features : \A f \in Needed(r)' :
        After(ordered[i], r)' => f \in Before(i)'
  BY <1>1, <1>2 DEF OrderedInv, Before, After
<1> QED
  BY <1>3, <1>4, <1>5 DEF OrderedInv

LEMMA WayLeft ==
  ASSUME WayInv, UNCHANGED <<imports, turn, visiting>>,
         cycle' => \E f \in Features : f \in Imported(f)'
  PROVE  WayInv'
BY SameImports DEF WayInv

LEMMA Lists ==
  ASSUME OrderTypeOK, NEW h \in Homes
  PROVE  /\ Listed(h) \in Seq(Features) /\ Len(Listed(h)) \in Nat
         /\ h # Root => h \in Features /\ Listed(h) = imports[h]
         /\ \A k \in 1..Len(Listed(Root)) : Listed(Root)[k] = k
         /\ Len(Listed(Root)) = Size
<1>1. Size \in Nat \ {0}
  BY ImportOrderAssumption
<1>2. /\ Listed(Root) = [f \in 1..Size |-> f] /\ Listed(Root) \in Seq(Features)
      /\ Len(Listed(Root)) = Size
  BY <1>1 DEF Listed, Features
<1>3. \A k \in 1..Len(Listed(Root)) : Listed(Root)[k] = k
  BY <1>1, <1>2
<1>4. h # Root => h \in Features /\ Listed(h) = imports[h]
  BY DEF Listed, Homes
<1>5. Listed(h) \in Seq(Features)
  <2>1. CASE h = Root
    BY <1>2, <2>1
  <2>2. CASE h # Root
    <3>1. imports \in [Features -> Seq(Features)]
      BY DEF OrderTypeOK
    <3> QED
      BY <1>4, <2>2, <3>1
  <2> QED
    BY <2>1, <2>2
<1>6. Len(Listed(h)) \in Nat
  BY <1>5
<1> QED
  BY <1>2, <1>3, <1>4, <1>5, <1>6

LEMMA OrderStart == OrderInit => OrderInv
<1> SUFFICES ASSUME OrderInit PROVE OrderInv
  OBVIOUS
<1>1. /\ imports \in [Features -> Seq(Features)] /\ turn = [h \in Homes |-> 0]
      /\ visiting = <<Root>> /\ ordered = <<>> /\ cycle = FALSE /\ Root \in Homes
  BY DEF OrderInit, SearchInit, Homes
<1>2. <<Root>> \in Seq(Homes) /\ <<>> \in Seq(Features) /\ Len(<<Root>>) = 1 /\ <<Root>>[1] = Root
      /\ <<Root>> # <<>>
  BY <1>1
<1>3. OrderTypeOK
  BY <1>1, <1>2 DEF OrderTypeOK
<1>4. Len(Listed(Root)) \in Nat
  BY <1>1, <1>3, Lists
<1>5. VisitsInv
  <2>1. Range(ordered) = {}
    BY <1>1 DEF Range
  <2>2. turn[Root] = 0
    BY <1>1
  <2> QED
    BY <1>1, <1>2, <1>4, <2>1, <2>2 DEF VisitsInv
<1>6. WayInv
  BY <1>1, <1>2 DEF WayInv
<1>7. OrderedInv
  BY <1>1 DEF OrderedInv
<1> QED
  BY <1>3, <1>5, <1>6, <1>7 DEF OrderInv

\* Where the walk is.
LEMMA AtTheVisitor ==
  ASSUME OrderInv
  PROVE  LET n == Len(visiting)
             v == Visitor
         IN  /\ n \in Nat \ {0} /\ v = visiting[n] /\ v \in Homes /\ (v = Root <=> n = 1)
             /\ \A i \in 1..n : visiting[i] \in Homes /\ (i # 1 => visiting[i] \in Features)
             /\ Front(visiting) \in Seq(Homes) /\ Len(Front(visiting)) = n - 1
             /\ \A i \in 1..(n - 1) : Front(visiting)[i] = visiting[i]
             /\ turn[v] \in 0..Len(Listed(v)) /\ Len(Listed(v)) \in Nat
             /\ Goes => /\ Callee \in Features /\ turn[v] + 1 \in 1..Len(Listed(v))
                        /\ v # Root => Callee \in Range(imports[v])
                        /\ v = Root => Callee = turn[Root] + 1
<1> DEFINE n == Len(visiting)
           v == Visitor
<1>1. /\ n \in Nat \ {0} /\ v = visiting[n] /\ v \in Homes
      /\ Front(visiting) \in Seq(Homes) /\ Len(Front(visiting)) = n - 1
      /\ \A i \in 1..(n - 1) : Front(visiting)[i] = visiting[i]
  BY FrontAndLast DEF OrderInv, OrderTypeOK, VisitsInv, Visitor
<1>2. \A i \in 1..n : visiting[i] \in Homes
  BY Elements DEF OrderInv, OrderTypeOK
<1>3. \A i \in 1..n : i # 1 => visiting[i] \in Features
  BY <1>1, <1>2 DEF OrderInv, VisitsInv, Homes
<1>4. v = Root <=> n = 1
  BY <1>1 DEF OrderInv, VisitsInv
<1>5. /\ Listed(v) \in Seq(Features) /\ Len(Listed(v)) \in Nat
      /\ v # Root => Listed(v) = imports[v]
  BY <1>1, Lists DEF OrderInv
<1>6. turn[v] \in 0..Len(Listed(v))
  <2>1. turn[v] \in Nat
    BY <1>1 DEF OrderInv, OrderTypeOK
  <2>2. turn[v] <= Len(Listed(v))
    BY <1>1 DEF OrderInv, VisitsInv
  <2> QED
    BY <1>5, <2>1, <2>2
<1>7. ASSUME Goes
      PROVE  /\ Callee \in Features /\ turn[v] + 1 \in 1..Len(Listed(v))
             /\ v # Root => Callee \in Range(imports[v])
             /\ v = Root => Callee = turn[Root] + 1
  <2>1. turn[v] + 1 \in 1..Len(Listed(v)) /\ Callee = Listed(v)[turn[v] + 1]
    BY <1>5, <1>6, <1>7 DEF Goes, Callee
  <2>2. Callee \in Features /\ Callee \in Range(Listed(v))
    BY <1>5, <2>1, Elements
  <2>3. v = Root => Callee = turn[Root] + 1
    BY <1>1, <2>1, Lists DEF OrderInv
  <2> QED
    BY <1>5, <2>1, <2>2, <2>3
<1> QED
  BY <1>1, <1>2, <1>3, <1>4, <1>5, <1>6, <1>7

\* A loop that has come to one feature more.
LEMMA TurnKept ==
  ASSUME OrderInv, Goes, turn' = Turned
  PROVE  /\ turn' \in [Homes -> Nat] /\ turn'[Visitor] = turn[Visitor] + 1
         /\ \A h \in Homes : h # Visitor => turn'[h] = turn[h]
<1>1. Visitor \in Homes /\ turn \in [Homes -> Nat]
  BY AtTheVisitor DEF OrderInv, OrderTypeOK
<1> QED
  BY <1>1 DEF Turned

LEMMA SkipStep ==
  ASSUME OrderInv, SkipVisited
  PROVE  OrderInv'
<1> DEFINE n == Len(visiting)
<1>1. /\ Goes /\ turn' = Turned /\ Callee \in Range(ordered)
      /\ UNCHANGED <<imports, visiting, ordered, cycle>>
  BY DEF SkipVisited, Visited
<1>2. /\ OrderTypeOK /\ VisitsInv /\ WayInv /\ OrderedInv
  BY DEF OrderInv
<1>3. PICK v : v = Visitor
  OBVIOUS
<1>4. /\ n \in Nat \ {0} /\ v = visiting[n] /\ v \in Homes /\ (v = Root <=> n = 1)
      /\ \A i \in 1..n : visiting[i] \in Homes
      /\ turn[v] + 1 \in 1..Len(Listed(v)) /\ Callee = Listed(v)[turn[v] + 1] /\ turn[v] \in Nat
  BY <1>1, <1>3, AtTheVisitor DEF Callee
<1>5. /\ turn' \in [Homes -> Nat] /\ turn'[v] = turn[v] + 1
      /\ \A h \in Homes : h # v => turn'[h] = turn[h]
  BY <1>1, <1>3, TurnKept
<1>6. OrderTypeOK'
  BY <1>1, <1>2, <1>5 DEF OrderTypeOK
<1>7. \A h : Listed(h)' = Listed(h)
  BY <1>1, SameImports
<1>8. VisitsInv'
  <2>1. ASSUME NEW i \in 1..n
        PROVE  /\ turn'[visiting[i]] <= Len(Listed(visiting[i]))
               /\ \A k \in 1..turn'[visiting[i]] :
                    \/ Listed(visiting[i])[k] \in Range(ordered)
                    \/ /\ k = turn'[visiting[i]]
                       /\ i < n /\ visiting[i + 1] = Listed(visiting[i])[k]
    <3>1. CASE visiting[i] = v
      <4>1. \A k \in 1..turn'[v] : k \in 1..turn[v] \/ k = turn[v] + 1
        BY <1>4, <1>5
      <4> QED
        BY <1>1, <1>2, <1>4, <1>5, <3>1, <4>1 DEF VisitsInv
    <3>2. CASE visiting[i] # v
      BY <1>2, <1>4, <1>5, <3>2 DEF VisitsInv
    <3> QED
      BY <3>1, <3>2
  <2> QED
    BY <1>1, <1>2, <1>7, <2>1 DEF VisitsInv
<1>9. WayInv'
  <2>1. \A i \in 2..n : turn'[Root] = turn[Root]
    <3>1. CASE n = 1
      BY <3>1
    <3>2. CASE n # 1
      BY <1>4, <1>5, <3>2 DEF Homes
    <3> QED
      BY <3>1, <3>2
  <2> QED
    BY <1>1, <1>2, <2>1, SameImports DEF WayInv
<1>10. OrderedInv'
  BY <1>1, <1>2, OrderedLeft
<1> QED
  BY <1>6, <1>8, <1>9, <1>10 DEF OrderInv

\* A feature whose visit goes on is needed by itself, by way of what it imports.
LEMMA CycleStep ==
  ASSUME OrderInv, FindCycle
  PROVE  OrderInv'
<1> DEFINE n == Len(visiting)
<1>1. /\ Goes /\ Callee \in Range(visiting) /\ cycle' = TRUE
      /\ UNCHANGED <<imports, turn, visiting, ordered>>
  BY DEF FindCycle
<1>2. OrderTypeOK /\ VisitsInv /\ WayInv /\ OrderedInv
  BY DEF OrderInv
<1>3. PICK c, v : c = Callee /\ v = Visitor
  OBVIOUS
<1>4. /\ n \in Nat \ {0} /\ v = visiting[n] /\ v \in Homes /\ (v = Root <=> n = 1)
      /\ c \in Features /\ Root \notin Features
      /\ v # Root => c \in Range(imports[v])
  BY <1>1, <1>3, AtTheVisitor DEF Features, Root
<1>5. PICK i \in 1..n : visiting[i] = c
  <2>1. visiting \in Seq(Homes) /\ c \in Range(visiting)
    BY <1>1, <1>2, <1>3 DEF OrderTypeOK
  <2> QED
    BY <2>1, Elements
<1>6. i # 1 /\ n # 1 /\ v \in Features
  <2>1. visiting[1] = Root
    BY <1>2 DEF VisitsInv
  <2> QED
    BY <1>4, <1>5, <2>1 DEF Homes
<1>7. c \in Imported(c)
  <2>1. imports \in [Features -> Seq(Features)] /\ c \in Imported(v)
    BY <1>2, <1>4, <1>6, Needs DEF OrderTypeOK
  <2>2. CASE i = n
    BY <1>4, <1>5, <2>1, <2>2
  <2>3. CASE i # n
    <3>1. v \in Imported(c)
      BY <1>2, <1>4, <1>5, <1>6, <2>3 DEF WayInv
    <3> QED
      BY <1>4, <1>6, <2>1, <3>1, Needs DEF Complete
  <2> QED
    BY <2>2, <2>3
<1>8. OrderTypeOK'
  BY <1>1, <1>2 DEF OrderTypeOK
<1>9. VisitsInv'
  BY <1>1, <1>2, SameImports DEF VisitsInv
<1>10. WayInv'
  <2>1. c \in Imported(c)'
    BY <1>1, <1>7, SameImports
  <2> QED
    BY <1>1, <1>2, <1>4, <2>1, WayLeft
<1>11. OrderedInv'
  BY <1>1, <1>2, OrderedLeft
<1> QED
  BY <1>8, <1>9, <1>10, <1>11 DEF OrderInv

LEMMA EnterStep ==
  ASSUME OrderInv, EnterFeature
  PROVE  OrderInv'
<1> DEFINE n == Len(visiting)
<1>1. PICK c, v : c = Callee /\ v = Visitor
  OBVIOUS
<1>2. /\ Goes /\ c \notin Range(ordered) /\ c \notin Range(visiting)
      /\ turn' = [Turned EXCEPT ![c] = 0] /\ visiting' = Append(visiting, c)
      /\ UNCHANGED <<imports, ordered, cycle>>
  BY <1>1 DEF EnterFeature, Visited
<1>3. OrderTypeOK /\ VisitsInv /\ WayInv /\ OrderedInv
  BY DEF OrderInv
<1>4. /\ n \in Nat \ {0} /\ v = visiting[n] /\ v \in Homes /\ (v = Root <=> n = 1)
      /\ \A i \in 1..n : visiting[i] \in Homes /\ (i # 1 => visiting[i] \in Features)
      /\ turn[v] + 1 \in 1..Len(Listed(v)) /\ c = Listed(v)[turn[v] + 1] /\ turn[v] \in Nat
      /\ c \in Features /\ c \in Homes /\ c # Root
  BY <1>1, <1>2, AtTheVisitor DEF Callee, Features, Homes, Root
<1>5. /\ v # Root => c \in Range(imports[v])
      /\ v = Root => c = turn[Root] + 1
  BY <1>1, <1>2, AtTheVisitor
<1>6. /\ visiting' \in Seq(Homes) /\ Len(visiting') = n + 1
      /\ \A i \in 1..n : visiting'[i] = visiting[i]
      /\ visiting'[n + 1] = c
  BY <1>2, <1>3, <1>4, AppendProperties DEF OrderTypeOK
<1>7. \A i \in 1..n : visiting[i] # c
  BY <1>2, <1>3, Elements DEF OrderTypeOK
<1>8. /\ turn' \in [Homes -> Nat] /\ turn'[v] = turn[v] + 1 /\ turn'[c] = 0
      /\ \A h \in Homes : h \notin {v, c} => turn'[h] = turn[h]
  <2>1. turn \in [Homes -> Nat] /\ Turned = [turn EXCEPT ![v] = @ + 1] /\ v # c
    BY <1>1, <1>3, <1>4, <1>7 DEF OrderTypeOK, Turned
  <2> QED
    BY <1>2, <1>4, <2>1
<1>9. OrderTypeOK'
  BY <1>2, <1>3, <1>6, <1>8 DEF OrderTypeOK
<1>10. \A h : Listed(h)' = Listed(h)
  BY <1>2, SameImports
<1> HIDE DEF n
<1>11. VisitsInv'
  <2>1. visiting' # <<>> /\ visiting'[1] = Root
    <3>1. 1 \in 1..n /\ visiting[1] = Root
      BY <1>3, <1>4 DEF VisitsInv
    <3> QED
      BY <1>4, <1>6, <3>1
  <2>2. \A i, j \in 1..(n + 1) : i # j => visiting'[i] # visiting'[j]
    <3>1. \A i, j \in 1..n : i # j => visiting[i] # visiting[j]
      BY <1>3 DEF VisitsInv, n
    <3>2. \A i \in 1..(n + 1) : i \in 1..n \/ i = n + 1
      BY <1>4
    <3> QED
      BY <1>6, <1>7, <3>1, <3>2
  <2>3. \A i \in 1..(n + 1) : visiting'[i] \notin Range(ordered)
    <3>1. \A i \in 1..n : visiting[i] \notin Range(ordered)
      BY <1>3 DEF VisitsInv, n
    <3>2. \A i \in 1..(n + 1) : i \in 1..n \/ i = n + 1
      BY <1>4
    <3> QED
      BY <1>2, <1>6, <3>1, <3>2
  <2>4. ASSUME NEW i \in 1..(n + 1), NEW h, h = visiting'[i]
        PROVE  /\ turn'[h] <= Len(Listed(h))
               /\ \A k \in 1..turn'[h] :
                    \/ Listed(h)[k] \in Range(ordered)
                    \/ k = turn'[h] /\ i < n + 1 /\ visiting'[i + 1] = Listed(h)[k]
    <3>1. CASE i = n + 1
      <4>1. h = c /\ turn'[h] = 0 /\ Len(Listed(c)) \in Nat
        BY <1>3, <1>4, <1>6, <1>8, <2>4, <3>1, Lists
      <4> QED
        BY <4>1
    <3>2. CASE i = n
      <4>1. h = v /\ turn'[h] = turn[v] + 1
        BY <1>4, <1>6, <1>8, <2>4, <3>2
      <4>2. \A k \in 1..turn[v] : Listed(v)[k] \in Range(ordered)
        BY <1>3, <1>4 DEF VisitsInv, n
      <4>3. \A k \in 1..(turn[v] + 1) : k \in 1..turn[v] \/ k = turn[v] + 1
        BY <1>4
      <4>4. visiting'[i + 1] = Listed(v)[turn[v] + 1] /\ i < n + 1
        BY <1>4, <1>6, <3>2
      <4>5. turn[v] + 1 <= Len(Listed(v))
        BY <1>3, <1>4, Lists
      <4> QED
        BY <4>1, <4>2, <4>3, <4>4, <4>5
    <3>3. CASE i \in 1..(n - 1)
      <4>1. i \in 1..n /\ i + 1 \in 1..n /\ i < n /\ i < n + 1 /\ n \in 1..n /\ i # n
        BY <1>4, <3>3
      <4>2. h = visiting[i] /\ h # v /\ h # c /\ h \in Homes
        <5>1. visiting[i] # visiting[n]
          BY <1>3, <4>1 DEF VisitsInv, n
        <5> QED
          BY <1>4, <1>6, <1>7, <2>4, <4>1, <5>1
      <4>3. turn'[h] = turn[h] /\ visiting'[i + 1] = visiting[i + 1]
        BY <1>6, <1>8, <4>1, <4>2
      <4>4. /\ turn[h] <= Len(Listed(h))
            /\ \A k \in 1..turn[h] :
                 \/ Listed(h)[k] \in Range(ordered)
                 \/ k = turn[h] /\ i < n /\ visiting[i + 1] = Listed(h)[k]
        BY <1>3, <4>1, <4>2 DEF VisitsInv, n
      <4> QED
        BY <4>1, <4>3, <4>4
    <3> QED
      BY <1>4, <3>1, <3>2, <3>3
  <2> QED
    BY <1>2, <1>6, <1>10, <2>1, <2>2, <2>3, <2>4 DEF VisitsInv
<1>12. WayInv'
  <2> DEFINE r == turn[Root]
  <2>1. imports \in [Features -> Seq(Features)] /\ turn[Root] \in Nat
    BY <1>3 DEF OrderTypeOK, Homes
  <2>2. CASE n = 1
    <3>1. turn'[Root] = c /\ \A i \in 2..(n + 1) : i = n + 1
      BY <1>4, <1>5, <1>8, <2>2
    <3>2. c \in Needed(c)
      BY <1>4, <2>1, Needs
    <3>3. \A i \in 2..Len(visiting') : turn'[Root] \in Features /\ visiting'[i] \in Needed(turn'[Root])
      BY <1>4, <1>6, <3>1, <3>2
    <3>4. \A i, j \in 2..Len(visiting') : ~(i < j)
      BY <1>6, <2>2
    <3>5. cycle' => \E f \in Features : f \in Imported(f)
      BY <1>2, <1>3 DEF WayInv
    <3> QED
      BY <1>2, <3>3, <3>4, <3>5, SameImports DEF WayInv
  <2>3. CASE n # 1
    <3>1. /\ v \in Features /\ n \in 2..n /\ c \in Range(imports[v])
          /\ \A i \in 2..(n + 1) : i \in 2..n \/ i = n + 1
          /\ \A i \in 2..n : i \in 1..n
      BY <1>4, <1>5, <2>3 DEF Homes
    <3>2. r \in Features /\ v \in Needed(r) /\ turn'[Root] = r
      <4>1. r \in Features /\ v \in Needed(r)
        BY <1>3, <1>4, <3>1 DEF WayInv, n
      <4>2. Root \in Homes /\ Root # v /\ Root # c
        BY <1>4, <2>3 DEF Homes
      <4> QED
        BY <1>8, <4>1, <4>2
    <3>3. c \in Needed(r) /\ c \in Imported(v)
      BY <2>1, <3>1, <3>2, Needs DEF Complete
    <3>4. \A i \in 2..n : visiting[i] \in Needed(r)
      BY <1>3 DEF WayInv, n
    <3>5. \A i \in 2..(n + 1) : turn'[Root] \in Features /\ visiting'[i] \in Needed(turn'[Root])
      BY <1>6, <3>1, <3>2, <3>3, <3>4
    <3>6. ASSUME NEW i \in 2..(n + 1), NEW j \in 2..(n + 1), i < j
          PROVE  visiting'[j] \in Imported(visiting'[i])
      <4>1. i \in 2..n /\ visiting'[i] = visiting[i]
        BY <1>4, <1>6, <3>6
      <4>2. CASE j \in 2..n
        <5>1. visiting[j] \in Imported(visiting[i])
          BY <1>3, <3>6, <4>1, <4>2 DEF WayInv, n
        <5> QED
          BY <1>6, <3>1, <4>1, <4>2, <5>1
      <4>3. CASE j = n + 1 /\ i = n
        BY <1>4, <1>6, <3>3, <4>1, <4>3
      <4>4. CASE j = n + 1 /\ i # n
        <5>1. i < n /\ visiting[i] \in Features
          BY <1>4, <4>1, <4>4
        <5>2. v \in Imported(visiting[i])
          BY <1>3, <1>4, <3>1, <4>1, <5>1 DEF WayInv, n
        <5>3. c \in Imported(visiting[i])
          BY <2>1, <3>1, <5>1, <5>2, Needs DEF Complete
        <5> QED
          BY <1>6, <4>1, <4>4, <5>3
      <4> QED
        BY <3>1, <4>2, <4>3, <4>4
    <3>7. cycle' => \E f \in Features : f \in Imported(f)
      BY <1>2, <1>3 DEF WayInv
    <3> QED
      BY <1>2, <1>6, <3>5, <3>6, <3>7, SameImports DEF WayInv
  <2> QED
    BY <2>2, <2>3
<1>13. OrderedInv'
  BY <1>2, <1>3, OrderedLeft
<1> QED
  BY <1>9, <1>11, <1>12, <1>13 DEF OrderInv

\* Of the features in the order, each has all that it needs before it.
LEMMA OrderIsComplete ==
  ASSUME OrderTypeOK, OrderedInv
  PROVE  /\ Complete(Range(ordered)) /\ Range(ordered) \in SUBSET Features
         /\ \A i \in 1..Len(ordered) : Complete(Before(i)) /\ Before(i) \in SUBSET Features
<1> DEFINE m == Len(ordered)
<1>1. /\ m \in Nat /\ \A i \in 1..m : ordered[i] \in Features /\ ordered[i] \in Range(ordered)
      /\ \A x \in Range(ordered) : x \in Features /\ \E i \in 1..m : ordered[i] = x
  BY Elements DEF OrderTypeOK
<1>2. \A i \in 1..m : Range(imports[ordered[i]]) \subseteq Before(i)
  BY DEF OrderedInv
<1> HIDE DEF m
<1>3. ASSUME NEW i \in 1..m
      PROVE  /\ Before(i) \subseteq Range(ordered) /\ Complete(Before(i))
             /\ Before(i) \in SUBSET Features
  <2>1. \A j \in 1..(i - 1) : j \in 1..m /\ \A k \in 1..(j - 1) : k \in 1..(i - 1)
    BY <1>1
  <2>2. \A j \in 1..(i - 1) : Before(j) \subseteq Before(i)
    BY <2>1 DEF Before
  <2>3. ASSUME NEW h \in Before(i)
        PROVE  Range(imports[h]) \subseteq Before(i)
    <3>1. PICK j \in 1..(i - 1) : h = ordered[j]
      BY <2>3 DEF Before
    <3> QED
      BY <1>2, <2>1, <2>2, <3>1
  <2> QED
    BY <1>1, <2>1, <2>3 DEF Before, Complete
<1>4. Complete(Range(ordered))
  BY <1>1, <1>2, <1>3 DEF Complete
<1> QED
  BY <1>1, <1>3, <1>4 DEF m

LEMMA LeaveStep ==
  ASSUME OrderInv, LeaveFeature
  PROVE  OrderInv'
<1>0. PICK n, m : n = Len(visiting) /\ m = Len(ordered)
  OBVIOUS
<1>1. PICK v : v = Visitor
  OBVIOUS
<1>2. /\ turn[v] = Len(Listed(v)) /\ v # Root
      /\ visiting' = Front(visiting) /\ ordered' = Append(ordered, v)
      /\ UNCHANGED <<imports, turn, cycle>>
  BY <1>1 DEF LeaveFeature
<1>3. OrderTypeOK /\ VisitsInv /\ WayInv /\ OrderedInv
  BY DEF OrderInv
<1>4. /\ n \in Nat /\ n > 1 /\ v = visiting[n] /\ v \in Homes
      /\ \A i \in 1..n : visiting[i] \in Homes /\ (i # 1 => visiting[i] \in Features)
      /\ visiting' \in Seq(Homes) /\ Len(visiting') = n - 1
      /\ \A i \in 1..(n - 1) : visiting'[i] = visiting[i]
  BY <1>0, <1>1, <1>2, AtTheVisitor
<1>5. v \in Features /\ Listed(v) = imports[v] /\ imports \in [Features -> Seq(Features)]
  BY <1>2, <1>3, <1>4, Lists DEF OrderTypeOK
<1>6. /\ ordered' \in Seq(Features) /\ m \in Nat /\ Len(ordered') = m + 1
      /\ \A i \in 1..m : ordered'[i] = ordered[i]
      /\ ordered'[m + 1] = v
  <2>1. ordered \in Seq(Features)
    BY <1>3 DEF OrderTypeOK
  <2>2. m \in Nat
    BY <1>0, <2>1
  <2> QED
    BY <1>0, <1>2, <1>5, <2>1, <2>2, AppendProperties
<1>7. /\ \A i \in 1..m : ordered[i] \in Range(ordered)
      /\ \A x \in Range(ordered) : x \in Features /\ \E i \in 1..m : ordered[i] = x
  BY <1>0, <1>3, Elements DEF OrderTypeOK
<1>8. Range(ordered') = Range(ordered) \cup {v}
  <2>1. \A i \in 1..(m + 1) : i \in 1..m \/ i = m + 1
    BY <1>6
  <2>2. \A x \in Range(ordered') : \E i \in 1..(m + 1) : ordered'[i] = x
    BY <1>6, Elements
  <2>3. \A i \in 1..(m + 1) : ordered'[i] \in Range(ordered')
    BY <1>6, Elements
  <2>4. \A i \in 1..m : i \in 1..(m + 1)
    BY <1>6
  <2>5. m + 1 \in 1..(m + 1)
    BY <1>6
  <2>6. Range(ordered') \subseteq Range(ordered) \cup {v}
    BY <1>6, <1>7, <2>1, <2>2
  <2>7. Range(ordered) \cup {v} \subseteq Range(ordered')
    BY <1>6, <1>7, <2>3, <2>4, <2>5
  <2> QED
    BY <2>6, <2>7
<1>9. OrderTypeOK'
  BY <1>2, <1>3, <1>4, <1>6 DEF OrderTypeOK
<1>10. \A h : Listed(h)' = Listed(h)
  BY <1>2, SameImports
<1>11. \A i \in 1..(n - 1) : i \in 1..n /\ i < n /\ i + 1 \in 1..n /\ (i + 1 = n \/ i + 1 \in 1..(n - 1))
  BY <1>4
<1>12. n \in 1..n /\ 1 \in 1..n /\ 1 \in 1..(n - 1)
  BY <1>4
<1>13. VisitsInv'
  <2>1. visiting' # <<>> /\ visiting'[1] = Root
    <3>1. visiting[1] = Root
      BY <1>3 DEF VisitsInv
    <3> QED
      BY <1>4, <1>12, <3>1
  <2>2. \A i, j \in 1..(n - 1) : i # j => visiting'[i] # visiting'[j]
    <3>1. \A i, j \in 1..n : i # j => visiting[i] # visiting[j]
      BY <1>0, <1>3 DEF VisitsInv
    <3> QED
      BY <1>4, <1>11, <3>1
  <2>3. ASSUME NEW i \in 1..(n - 1)
        PROVE  visiting'[i] \notin Range(ordered')
    <3>1. visiting[i] # visiting[n] /\ visiting[i] \notin Range(ordered)
      BY <1>0, <1>3, <1>11, <1>12 DEF VisitsInv
    <3> QED
      BY <1>4, <1>8, <3>1
  <2>4. ASSUME NEW i \in 1..(n - 1), NEW h, h = visiting'[i]
        PROVE  /\ turn'[h] <= Len(Listed(h))
               /\ \A k \in 1..turn'[h] :
                    \/ Listed(h)[k] \in Range(ordered')
                    \/ k = turn'[h] /\ i < n - 1 /\ visiting'[i + 1] = Listed(h)[k]
    <3>1. h = visiting[i] /\ turn'[h] = turn[h]
      BY <1>2, <1>4, <2>4
    <3>2. /\ turn[h] <= Len(Listed(h))
          /\ \A k \in 1..turn[h] :
               \/ Listed(h)[k] \in Range(ordered)
               \/ k = turn[h] /\ i < n /\ visiting[i + 1] = Listed(h)[k]
      BY <1>0, <1>3, <1>11, <3>1 DEF VisitsInv
    <3>3. CASE i + 1 = n
      BY <1>4, <1>8, <3>1, <3>2, <3>3
    <3>4. CASE i + 1 # n
      <4>1. i < n - 1 /\ visiting'[i + 1] = visiting[i + 1]
        BY <1>4, <1>11, <3>4
      <4> QED
        BY <1>8, <3>1, <3>2, <4>1
    <3> QED
      BY <3>3, <3>4
  <2> QED
    BY <1>2, <1>4, <1>10, <2>1, <2>2, <2>3, <2>4 DEF VisitsInv
<1>14. WayInv'
  <2>1. \A i \in 2..(n - 1) : i \in 2..n /\ i \in 1..(n - 1)
    BY <1>4
  <2>2. \A i \in 2..(n - 1) : turn'[Root] \in Features /\ visiting'[i] \in Needed(turn'[Root])
    BY <1>0, <1>2, <1>3, <1>4, <2>1 DEF WayInv
  <2>3. \A i, j \in 2..(n - 1) : i < j => visiting'[j] \in Imported(visiting'[i])
    <3>1. \A i, j \in 2..n : i < j => visiting[j] \in Imported(visiting[i])
      BY <1>0, <1>3 DEF WayInv
    <3> QED
      BY <1>4, <2>1, <3>1
  <2>4. cycle' => \E f \in Features : f \in Imported(f)'
    BY <1>2, <1>3, SameImports DEF WayInv
  <2>5. 2..Len(visiting') = 2..(n - 1)
    BY <1>4
  <2>6. (\A i \in 2..Len(visiting) : turn[Root] \in Features /\ visiting[i] \in Needed(turn[Root]))'
    BY <1>2, <2>2, <2>5 DEF Needed, Complete
  <2>7. (\A i, j \in 2..Len(visiting) : i < j => visiting[j] \in Imported(visiting[i]))'
    <3>1. \A f : Imported(f) = UNION { Needed(g) : g \in Range(imports[f]) }
      BY DEF Imported
    <3>2. \A g : Needed(g)' = Needed(g)
      BY <1>2, SameImports
    <3>3. ASSUME NEW f, NEW x
          PROVE  x \in Imported(f) <=> \E g \in Range(imports[f]) : x \in Needed(g)
      BY <3>1
    <3>4. ASSUME NEW i \in 2..(n - 1), NEW j \in 2..(n - 1), i < j
          PROVE  (visiting[j] \in Imported(visiting[i]))'
      <4>1. PICK g \in Range(imports[visiting'[i]]) : visiting'[j] \in Needed(g)
        BY <2>3, <3>3, <3>4
      <4>2. g \in Range(imports'[visiting'[i]]) /\ (visiting[j] \in Needed(g))'
        BY <1>2, <3>2, <4>1
      <4> QED
        BY <4>2 DEF Imported
    <3> QED
      BY <2>5, <3>4
  <2> QED
    BY <2>4, <2>6, <2>7 DEF WayInv
<1>15. /\ \A i \in 1..(m + 1) : i \in 1..m \/ i = m + 1
       /\ \A i \in 1..m : Before(i)' = Before(i)
       /\ Before(m + 1)' = Range(ordered)
  <2>1. \A i \in 1..(m + 1) : i \in 1..m \/ i = m + 1
    BY <1>6
  <2>2. \A i \in 1..m : Before(i)' = Before(i)
    <3>1. \A i \in 1..m : \A j \in 1..(i - 1) : j \in 1..m
      BY <1>6
    <3> QED
      BY <1>6, <3>1 DEF Before
  <2>3. Before(m + 1)' = Range(ordered)
    <3>1. (m + 1) - 1 = m
      BY <1>6
    <3>2. { ordered'[j] : j \in 1..m } = Range(ordered)
      BY <1>6, <1>7
    <3> QED
      BY <3>1, <3>2 DEF Before
  <2> QED
    BY <2>1, <2>2, <2>3
<1>16. OrderedInv'
  <2>1. \A i, j \in 1..(m + 1) : i # j => ordered'[i] # ordered'[j]
    <3>1. \A i, j \in 1..m : i # j => ordered[i] # ordered[j]
      BY <1>0, <1>3 DEF OrderedInv
    <3>2. \A i \in 1..m : ordered[i] # v
      <4>1. v \notin Range(ordered)
        BY <1>0, <1>3, <1>4, <1>12 DEF VisitsInv
      <4> QED
        BY <1>7, <4>1
    <3> QED
      BY <1>6, <1>15, <3>1, <3>2
  <2>2. Range(imports[v]) \subseteq Range(ordered)
    <3>1. \A k \in 1..Len(imports[v]) : imports[v][k] \in Range(ordered)
      BY <1>0, <1>2, <1>3, <1>4, <1>5, <1>12 DEF VisitsInv
    <3>2. imports[v] \in Seq(Features)
      BY <1>5
    <3>3. \A x \in Range(imports[v]) : \E k \in 1..Len(imports[v]) : imports[v][k] = x
      BY <3>2, Elements
    <3> QED
      BY <3>1, <3>3
  <2>3. ASSUME NEW r \in Features, After(v, r)
        PROVE  Needed(r) \subseteq Range(ordered)
    <3> DEFINE q == turn[Root]
    <3>1. q \in Features /\ v \in Needed(q)
      <4>1. n \in 2..n
        BY <1>4
      <4> QED
        BY <1>0, <1>3, <1>4, <4>1 DEF WayInv
    <3>2. r < q
      <4>1. r \in Nat /\ q \in Nat /\ q >= 1
        BY <3>1 DEF Features
      <4>2. q \notin 1..r
        BY <2>3, <3>1 DEF After
      <4> HIDE DEF q
      <4> QED
        BY <4>1, <4>2
    <3>3. r \in 1..q /\ r # q
      <4> HIDE DEF q
      <4> QED
        BY <3>1, <3>2 DEF Features
    <3>4. Listed(Root)[r] \in Range(ordered)
      <4>1. visiting[1] = Root
        BY <1>3 DEF VisitsInv
      <4> QED
        BY <1>0, <1>3, <1>12, <3>3, <4>1 DEF VisitsInv
    <3>5. Listed(Root)[r] = r
      <4>1. Root \in Homes
        BY DEF Homes
      <4>2. /\ \A k \in 1..Len(Listed(Root)) : Listed(Root)[k] = k
            /\ Len(Listed(Root)) = Size
        BY <1>3, <4>1, Lists
      <4> QED
        BY <4>2 DEF Features
    <3> QED
      BY <1>3, <1>5, <3>4, <3>5, OrderIsComplete, Needs
  <2>4. ASSUME NEW i \in 1..(m + 1)
        PROVE  Range(imports[ordered'[i]]) \subseteq Before(i)'
    <3>1. CASE i \in 1..m
      <4>1. Range(imports[ordered[i]]) \subseteq Before(i)
        BY <1>0, <1>3, <3>1 DEF OrderedInv
      <4> QED
        BY <1>6, <1>15, <3>1, <4>1
    <3>2. CASE i = m + 1
      BY <1>6, <1>15, <2>2, <3>2
    <3> QED
      BY <1>15, <3>1, <3>2
  <2>5. ASSUME NEW i \in 1..(m + 1), NEW g, g = ordered'[i],
               NEW r \in Features, NEW f \in Needed(r), After(g, r)
        PROVE  f \in Before(i)'
    <3>1. CASE i \in 1..m
      <4>1. g = ordered[i]
        BY <1>6, <2>5, <3>1
      <4>2. f \in Before(i)
        BY <1>0, <1>3, <2>5, <3>1, <4>1 DEF OrderedInv
      <4> QED
        BY <1>15, <3>1, <4>2
    <3>2. CASE i = m + 1
      BY <1>6, <1>15, <2>3, <2>5, <3>2
    <3> QED
      BY <1>15, <3>1, <3>2
  <2>6. \A i \in 1..(m + 1) : \A r \in Features : \A f \in Needed(r)' :
          After(ordered[i], r)' => f \in Before(i)'
    <3>1. \A f : Needed(f)' = Needed(f)
      BY <1>2, SameImports
    <3> QED
      BY <2>5, <3>1 DEF After
  <2> QED
    BY <1>2, <1>6, <2>1, <2>4, <2>6 DEF OrderedInv
<1> QED
  BY <1>9, <1>13, <1>14, <1>16 DEF OrderInv

LEMMA OrderStep ==
  ASSUME OrderInv, [OrderNext]_orderVars
  PROVE  OrderInv'
<1>1. CASE OrderNext
  BY <1>1, SkipStep, CycleStep, EnterStep, LeaveStep DEF OrderNext
<1>2. CASE UNCHANGED orderVars
  <2>1. UNCHANGED <<imports, turn, visiting, ordered, cycle>>
    BY <1>2 DEF orderVars, searchVars
  <2>2. OrderTypeOK'
    BY <2>1 DEF OrderInv, OrderTypeOK
  <2>3. VisitsInv'
    BY <2>1, SameImports DEF OrderInv, VisitsInv
  <2>4. WayInv'
    <3>1. cycle' => \E f \in Features : f \in Imported(f)'
      BY <2>1, SameImports DEF OrderInv, WayInv
    <3> QED
      BY <2>1, <3>1, WayLeft DEF OrderInv
  <2>5. OrderedInv'
    BY <2>1, OrderedLeft DEF OrderInv
  <2> QED
    BY <2>2, <2>3, <2>4, <2>5 DEF OrderInv
<1> QED
  BY <1>1, <1>2

\* The places of the features, when the walk has ended.
LEMMA Places ==
  ASSUME OrderInv, Ordered
  PROVE  /\ Len(ordered) = Size /\ Range(ordered) = Features
         /\ \A f \in Features : Place(f) \in 1..Len(ordered) /\ ordered[Place(f)] = f
         /\ \A f, g \in Features : f \in Before(Place(g)) => Place(f) < Place(g)
<1> DEFINE m == Len(ordered)
<1>1. OrderTypeOK /\ VisitsInv /\ OrderedInv
  BY DEF OrderInv
<1>2. /\ m \in Nat /\ \A i \in 1..m : ordered[i] \in Features /\ ordered[i] \in Range(ordered)
      /\ \A x \in Range(ordered) : x \in Features /\ \E i \in 1..m : ordered[i] = x
  BY <1>1, Elements DEF OrderTypeOK
<1>3. \A f \in Features : f \in Range(ordered)
  <2>1. /\ Root \in Homes /\ visiting = <<Root>> /\ turn[Root] = Size
        /\ Len(visiting) = 1 /\ visiting[1] = Root
    BY DEF Ordered, Homes
  <2>2. /\ \A k \in 1..Len(Listed(Root)) : Listed(Root)[k] = k
        /\ Len(Listed(Root)) = Size
    BY <1>1, <2>1, Lists
  <2>3. \A k \in 1..turn[Root] : Listed(Root)[k] \in Range(ordered)
    BY <1>1, <2>1 DEF VisitsInv
  <2> QED
    BY <2>1, <2>2, <2>3 DEF Features
<1>4. Range(ordered) = Features
  BY <1>2, <1>3
<1>5. \A i, j \in 1..m : ordered[i] = ordered[j] => i = j
  BY <1>1 DEF OrderedInv
<1>6. DOMAIN ordered = 1..m
  BY <1>1 DEF OrderTypeOK
<1>7. m = Size
  <2>1. Size \in Nat /\ 0 \in Int /\ 1 \in Int /\ m \in Int /\ Size \in Int
    BY <1>2, ImportOrderAssumption
  <2>2. ordered \in [1..m -> Features]
    BY <1>1 DEF OrderTypeOK
  <2>3. ordered \in Injection(1..m, Features)
    BY <1>5, <2>2 DEF Injection, IsInjective
  <2>4. ordered \in Surjection(1..m, Features)
    BY <1>2, <1>3, <2>2 DEF Surjection
  <2>5. ExistsBijection(1..m, Features)
    BY <2>3, <2>4 DEF ExistsBijection, Bijection
  <2>6. /\ IsFiniteSet(1..m) /\ Cardinality(1..m) = IF 1 > m THEN 0 ELSE m - 1 + 1
        /\ Cardinality(Features) = IF 1 > Size THEN 0 ELSE Size - 1 + 1
    BY <2>1, FS_Interval DEF Features
  <2>7. Cardinality(Features) = Cardinality(1..m)
    BY <2>5, <2>6, FS_Bijection
  <2> HIDE DEF m
  <2> QED
    BY <1>2, <2>1, <2>6, <2>7
<1> HIDE DEF m
<1>8. ASSUME NEW f \in Features
      PROVE  /\ Place(f) \in 1..m /\ ordered[Place(f)] = f
             /\ \A i \in 1..m : ordered[i] = f => Place(f) = i
  <2>1. \E i \in 1..m : ordered[i] = f
    BY <1>2, <1>3
  <2>2. Place(f) = CHOOSE i \in 1..m : ordered[i] = f
    BY <1>6 DEF Place
  <2>3. Place(f) \in 1..m /\ ordered[Place(f)] = f
    BY <2>1, <2>2
  <2> QED
    BY <1>5, <2>3
<1>9. ASSUME NEW f \in Features, NEW g \in Features, f \in Before(Place(g))
      PROVE  Place(f) < Place(g)
  <2>1. PICK j \in 1..(Place(g) - 1) : f = ordered[j]
    BY <1>9 DEF Before
  <2>2. Place(g) \in 1..m /\ j \in 1..m /\ j < Place(g)
    BY <1>2, <1>8, <2>1
  <2>3. Place(f) = j
    BY <1>8, <2>1, <2>2
  <2> QED
    BY <2>2, <2>3
<1> QED
  BY <1>4, <1>7, <1>8, <1>9 DEF m

\* Whatever the features import, they are ordered each once, after all that they
\* import and otherwise as they are listed; a walk that throws has found a feature
\* that imports itself, and one that returns had none to find (imports.ts:4).
THEOREM OrderIsRightAlways == OrderSpec => []OrderIsRight
<1>1. OrderInv => OrderIsRight
  <2> SUFFICES ASSUME OrderInv PROVE OrderIsRight
    OBVIOUS
  <2>1. OrderTypeOK /\ OrderedInv /\ imports \in [Features -> Seq(Features)]
    BY DEF OrderInv, OrderTypeOK
  <2>2. ASSUME Ordered
        PROVE  /\ \A f, g \in Features : f \in Imported(g) => Place(f) < Place(g)
               /\ \A r, g \in Features : \A f \in Needed(r) : After(g, r) => Place(f) < Place(g)
    <3>1. ASSUME NEW g \in Features, NEW f \in Features, f \in Imported(g)
          PROVE  f \in Before(Place(g))
      <4>1. /\ Place(g) \in 1..Len(ordered) /\ ordered[Place(g)] = g
        BY <2>2, <3>1, Places
      <4>2. /\ Range(imports[g]) \subseteq Before(Place(g))
            /\ Complete(Before(Place(g))) /\ Before(Place(g)) \in SUBSET Features
        BY <2>1, <4>1, OrderIsComplete DEF OrderedInv
      <4>3. PICK h \in Range(imports[g]) : f \in Needed(h)
        BY <3>1 DEF Imported
      <4>4. h \in Features
        BY <4>2, <4>3
      <4> QED
        BY <2>1, <4>2, <4>3, <4>4, Needs
    <3>2. ASSUME NEW r \in Features, NEW g \in Features, NEW f \in Needed(r), After(g, r)
          PROVE  f \in Before(Place(g)) /\ f \in Features
      <4>1. /\ Place(g) \in 1..Len(ordered) /\ ordered[Place(g)] = g
        BY <2>2, <3>2, Places
      <4>2. Needed(r) \subseteq Features
        BY <2>1, Needs
      <4> QED
        BY <2>1, <3>2, <4>1, <4>2 DEF OrderedInv
    <3> QED
      BY <2>2, <3>1, <3>2, Places
  <2>3. Ordered => Len(ordered) = Size /\ Range(ordered) = Features
    BY Places
  <2>4. cycle => \E f \in Features : f \in Imported(f)
    BY DEF OrderInv, WayInv
  <2> QED
    BY <2>2, <2>3, <2>4 DEF OrderIsRight
<1> QED
  BY <1>1, OrderStart, OrderStep, PTL DEF OrderSpec

-----------------------------------------------------------------------------
(* What the seal has looked at, composition and the routes of a request    *)
(* build.  The seal looks a need up from the feature that it began with,   *)
(* and resolution from the home of what needs it; they find the same when  *)
(* nothing is shadowed.                                                    *)

Containers == [home : Homes, request : BOOLEAN]
Wanted == Tokens \cup {Controller, Context}

\* The homes of what may be built for a scope of h.
Reach(h) == IF h = Root THEN {Root} ELSE {h, Root} \cup Imported(h)

\* A call of the seal and one of resolution find the same provider.
Alike(k, b) ==
  /\ k.token = b.token
  /\ IF b.token = Context THEN b.from.request ELSE Found(k.at, b.token) = Found(b.from, b.token)

\* The seal has looked at the path to what is to be built, and at one which began with
\* the singleton that it is built for, if any.
Foreseen(b) ==
  /\ b.from.home \in Reach(b.scope.home)
  /\ \E k \in checked : Alike(k, b) /\ k.stack = b.stack
  /\ \E k \in checked : Alike(k, b) /\ (k.request => b.scope.request)

\* What the seal has looked at was right, and it looks at the rest.
SealInv ==
  /\ stage \in {"pods", "declared"} => checked = {}
  /\ stage = "sealing" \/ sealed =>
       /\ Ordered
       /\ \A h \in Homes : ChecksOf(h) \subseteq checked \cup checking
       /\ \A k \in checked : Accepts(k) /\ NextChecks(k) \subseteq checked \cup checking
  /\ \A k \in checked \cup checking : k.at \in Containers /\ (k.at.request => k.request)
       /\ k.request \in BOOLEAN
  /\ sealed => checking = {} /\ stage \in {"sealed", "composing", "composed", "failed"}

Demands == [from : Containers, token : Wanted, stack : SUBSET Wanted, scope : Containers,
            user : SUBSET (Homes \X Wanted)]
Expected == { b \in Demands : Foreseen(b) }

BuildInv ==
  /\ stage \notin {"composing", "composed"} => building = <<>>
  /\ sealed /\ NothingShadowed => stage # "failed" /\ building \in Seq(Expected)

GraphInv == Applications /\ OrderInv /\ SealInv /\ BuildInv

-----------------------------------------------------------------------------
LEMMA Homely ==
  /\ Root \in Homes /\ Root \notin Features /\ Features \subseteq Homes
  /\ \A h \in Homes : (h # Root => h \in Features) /\ h # Root - 1
BY ImportOrderAssumption DEF Homes, Features, Root

LEMMA Graph ==
  ASSUME Applications
  PROVE  /\ imports \in [Features -> Seq(Features)]
         /\ \A f \in Features : Range(imports[f]) \subseteq Features
         /\ \A f \in Features : exports[f] \subseteq Provides(f) /\ exports[f] \subseteq Tokens
         /\ \A h, t : t \in Provides(h) =>
              /\ t # Context /\ t \in Wanted /\ <<h, t>> \in DOMAIN provider /\ h \in Homes
              /\ provider[<<h, t>>].needs \subseteq Tokens \cup {Context}
<1>1. imports \in [Features -> Seq(Features)]
  BY DEF Applications
<1>2. \A f \in Features : Range(imports[f]) \subseteq Features
  BY <1>1, Elements
<1>3. \A f \in Features : exports[f] \subseteq Provides(f) /\ exports[f] \subseteq Tokens
  BY DEF Applications
<1>4. ASSUME NEW h, NEW t, t \in Provides(h)
      PROVE  /\ t # Context /\ t \in Wanted /\ <<h, t>> \in DOMAIN provider /\ h \in Homes
             /\ provider[<<h, t>>].needs \subseteq Tokens \cup {Context}
  <2>1. t \in Tokens \cup {Controller} /\ <<h, t>> \in DOMAIN provider
    BY <1>4 DEF Provides
  <2>2. <<h, t>> \in Slots
    BY <2>1 DEF Applications
  <2>3. h \in Homes
    BY <2>2, Homely DEF Slots
  <2>4. provider[<<h, t>>].needs \subseteq Tokens \cup {Context}
    BY <2>1 DEF Applications
  <2> QED
    BY <2>1, <2>3, <2>4, FeatureGraphAssumption DEF Wanted
<1> QED
  BY <1>1, <1>2, <1>3, <1>4

\* Where a token is found.
LEMMA Finding ==
  ASSUME Applications, NEW c \in Containers, NEW t, t # Context
  PROVE  /\ Found(c, t) = Found(Plain(c.home), t)
         /\ Found(c, t) # None =>
              \E h \in Homes :
                /\ Found(c, t) = Plain(h) /\ t \in Provides(h)
                /\ h \in {c.home, Root} \/ (c.home # Root /\ h \in Range(imports[c.home]))
                /\ OwnerOf(c, t) # None => h \in {c.home, Root}
         /\ t \in Provides(c.home) => Found(c, t) = Plain(c.home)
         /\ t \notin Provides(c.home) /\ t \in Provides(Root) =>
              Found(c, t) = Plain(Root) /\ OwnerOf(c, t) = Plain(Root)
<1> DEFINE p == Plain(c.home)
<1>1. /\ c.home \in Homes /\ c.request \in BOOLEAN /\ c = [home |-> c.home, request |-> c.request]
      /\ p.home = c.home /\ p.request = FALSE
  BY DEF Containers, Plain
<1>2. \A h \in Homes : Plain(h) # None
  <2>1. \A h : Plain(h).home = h
    BY DEF Plain
  <2>2. None.home = Root - 1
    BY DEF None
  <2> QED
    BY <2>1, <2>2, Homely
<1>3. /\ t \in Own(p) <=> t \in Provides(c.home)
      /\ t \in Own(c) => t \in Provides(c.home) /\ c = p
  <2>1. ASSUME t \in Own(c)
        PROVE  t \in Provides(c.home) /\ c = p
    BY <1>1, <2>1 DEF Own, Plain
  <2> QED
    BY <1>1, <2>1 DEF Own
<1>4. OwnerOf(c, t) = IF t \in Provides(c.home) THEN p
                      ELSE IF t \in Provides(Root) THEN Plain(Root) ELSE None
  BY <1>3 DEF OwnerOf
<1>5. OwnerOf(p, t) = OwnerOf(c, t)
  BY <1>1, <1>3, <1>4 DEF OwnerOf
<1>6. ImportedOwnerOf(p, t) = ImportedOwnerOf(c, t)
  BY <1>1 DEF ImportedOwnerOf
<1>7. Found(c, t) = Found(p, t)
  BY <1>5, <1>6 DEF Found
<1>8. ASSUME t \in Provides(c.home)
      PROVE  Found(c, t) = p /\ OwnerOf(c, t) = p
  BY <1>1, <1>2, <1>4, <1>8 DEF Found
<1>9. ASSUME t \notin Provides(c.home), t \in Provides(Root)
      PROVE  Found(c, t) = Plain(Root) /\ OwnerOf(c, t) = Plain(Root)
  BY <1>2, <1>4, <1>9, Homely DEF Found
<1>10. ASSUME t \notin Provides(c.home), t \notin Provides(Root), Found(c, t) # None
       PROVE  /\ OwnerOf(c, t) = None /\ c.home # Root
              /\ \E h \in Range(imports[c.home]) : Found(c, t) = Plain(h) /\ t \in Provides(h) /\ h \in Homes
  <2>1. OwnerOf(c, t) = None /\ Found(c, t) = ImportedOwnerOf(c, t)
    BY <1>4, <1>10 DEF Found
  <2>2. c.home # Root
    BY <1>10, <2>1 DEF ImportedOwnerOf
  <2> DEFINE from == { g \in Range(imports[c.home]) : t \in exports[g] }
  <2>3. from # {} /\ Found(c, t) = Plain(CHOOSE g \in from : TRUE)
    BY <1>10, <2>1, <2>2 DEF ImportedOwnerOf
  <2>4. PICK h \in from : Found(c, t) = Plain(h)
    BY <2>3
  <2>5. c.home \in Features
    BY <1>1, <2>2, Homely
  <2>6. h \in Features /\ t \in Provides(h)
    BY <2>4, <2>5, Graph
  <2> QED
    BY <2>1, <2>2, <2>4, <2>6, Homely
<1> QED
  BY <1>1, <1>7, <1>8, <1>9, <1>10, Homely

\* The seal begins with every provider, in its home.
LEMMA Started ==
  ASSUME Applications, SealInv, sealed, NEW h, NEW t \in Provides(h)
  PROVE  \E k \in checked :
           /\ k.token = t /\ k.stack = {} /\ k.at.home = h /\ k.at \in Containers
           /\ k.request = InRequest(h, t) /\ Found(k.at, t) = Plain(h)
<1> DEFINE r == InRequest(h, t)
           c == [home |-> h, request |-> r]
           k == Check(c, t, {}, r)
<1>1. h \in Homes /\ t # Context
  BY Graph
<1>2. k \in ChecksOf(h)
  BY DEF ChecksOf
<1>3. k \in checked
  BY <1>1, <1>2 DEF SealInv
<1>4. r \in BOOLEAN
  BY DEF InRequest
<1>5. /\ k.token = t /\ k.stack = {} /\ k.at = c /\ k.request = r /\ c.home = h
      /\ c \in Containers
  BY <1>1, <1>4 DEF Check, Containers
<1>6. Found(c, t) = Plain(h)
  <2> HIDE DEF c, k, r
  <2> QED
    BY <1>1, <1>5, Finding
<1> QED
  BY <1>3, <1>5, <1>6

\* A call for a need of the provider of t at h, after a call for t.
Follows(n, k, h, t, d) ==
  /\ n.token = d /\ n.stack = k.stack \cup {t} /\ n.request = k.request
  /\ d = Context => k.request
  /\ d # Context => Found(n.at, d) = Found(Plain(h), d)

\* The seal goes on to what a provider needs, and finds for it what the home of the
\* provider finds.
LEMMA Walked ==
  ASSUME Applications, SealInv, sealed, NothingShadowed,
         NEW k \in checked, NEW h, NEW t \in Provides(h), k.token = t,
         Found(k.at, t) = Plain(h), NEW d \in provider[<<h, t>>].needs
  PROVE  \E n \in checked : Follows(n, k, h, t, d)
<1>1. /\ h \in Homes /\ t # Context /\ d \in Tokens \cup {Context} /\ <<h, t>> \in DOMAIN provider
      /\ Plain(h) # None
  <2>1. Plain(h).home = h /\ None.home = Root - 1
    BY DEF Plain, None
  <2> QED
    BY <2>1, Graph, Homely
<1>2. ASSUME NEW j \in checked, j.token = t, Found(j.at, t) = Plain(h)
      PROVE  \E n \in checked :
               /\ n.token = d /\ n.stack = j.stack \cup {t} /\ n.request = j.request
               /\ n.at = IF OwnerOf(j.at, t) = None THEN Plain(h) ELSE j.at
               /\ n.at \in Containers /\ Found(n.at, d) # None
               /\ n.at.request => n.request
  <2> DEFINE from == IF OwnerOf(j.at, t) = None THEN Plain(h) ELSE j.at
             n == Check(from, d, j.stack \cup {t}, j.request)
  <2>1. NeedsAt(Plain(h), t) = provider[<<h, t>>].needs
    BY DEF NeedsAt, Plain
  <2>2. n \in NextChecks(j)
    BY <1>2, <2>1 DEF NextChecks
  <2>3. n \in checked
    BY <1>2, <2>2 DEF SealInv
  <2>4. /\ n.token = d /\ n.stack = j.stack \cup {t} /\ n.request = j.request /\ n.at = from
    BY DEF Check
  <2>5. Accepts(n) /\ n.at \in Containers /\ (n.at.request => n.request)
    BY <2>3 DEF SealInv
  <2>6. Found(n.at, d) # None
    BY <2>4, <2>5 DEF Accepts
  <2> QED
    BY <2>3, <2>4, <2>5, <2>6
<1>3. PICK n \in checked :
        /\ n.token = d /\ n.stack = k.stack \cup {t} /\ n.request = k.request
        /\ n.at = IF OwnerOf(k.at, t) = None THEN Plain(h) ELSE k.at
        /\ n.at \in Containers /\ Found(n.at, d) # None
        /\ n.at.request => n.request
  BY <1>2
<1>4. k.at \in Containers /\ k.request \in BOOLEAN
  BY DEF SealInv
<1>5. ASSUME d = Context
      PROVE  n.at.request
  <2>1. \A g : Context \notin Provides(g)
    BY Graph
  <2>2. ASSUME ~n.at.request
        PROVE  FALSE
    <3>1. OwnerOf(n.at, Context) = None
      BY <2>1, <2>2 DEF OwnerOf, Own
    <3>2. ImportedOwnerOf(n.at, Context) # None
      BY <1>3, <1>5, <3>1 DEF Found
    <3>3. n.at.home # Root /\ \E g \in Range(imports[n.at.home]) : Context \in exports[g]
      BY <3>2 DEF ImportedOwnerOf
    <3>4. n.at.home \in Features
      BY <1>3, <3>3, Homely DEF Containers
    <3> QED
      BY <2>1, <3>3, <3>4, Graph
  <2> QED
    BY <2>2
<1>6. ASSUME d # Context
      PROVE  Found(n.at, d) = Found(Plain(h), d)
  <2>1. CASE OwnerOf(k.at, t) = None
    BY <1>3, <2>1
  <2>2. CASE OwnerOf(k.at, t) # None /\ h = k.at.home
    BY <1>3, <1>4, <1>6, <2>2, Finding
  <2>3. CASE OwnerOf(k.at, t) # None /\ h # k.at.home
    <3>1. \E g \in Homes : Found(k.at, t) = Plain(g) /\ g \in {k.at.home, Root}
      BY <1>1, <1>4, <2>3, Finding
    <3>2. h = Root
      BY <1>1, <2>3, <3>1 DEF Plain
    <3>3. k.at.home \in Features
      BY <1>4, <2>3, <3>2, Homely DEF Containers
    <3>4. d \notin Provides(k.at.home)
      BY <1>1, <3>2, <3>3 DEF NothingShadowed
    <3>5. d \in Provides(Root)
      <4>1. PICK j \in checked : j.token = t /\ j.at.home = h /\ j.at \in Containers
                                /\ Found(j.at, t) = Plain(h)
        BY Started
      <4>2. PICK m \in checked : /\ m.at = IF OwnerOf(j.at, t) = None THEN Plain(h) ELSE j.at
                                 /\ m.at \in Containers /\ Found(m.at, d) # None
        BY <1>2, <4>1
      <4>3. m.at.home = Root
        BY <3>2, <4>1, <4>2 DEF Plain
      <4>4. PICK g \in Homes : /\ d \in Provides(g)
                               /\ \/ g \in {m.at.home, Root}
                                  \/ m.at.home # Root
        BY <1>6, <4>2, Finding
      <4> QED
        BY <4>3, <4>4
    <3>6. Found(k.at, d) = Plain(Root)
      BY <1>4, <1>6, <3>4, <3>5, Finding
    <3>7. Plain(Root) \in Containers /\ Plain(Root).home = Root
      BY Homely DEF Plain, Containers
    <3>8. Found(Plain(Root), d) = Plain(Root)
      BY <1>6, <3>5, <3>7, Finding
    <3> QED
      BY <1>3, <2>3, <3>2, <3>6, <3>8
  <2> QED
    BY <2>1, <2>2, <2>3
<1>7. Follows(n, k, h, t, d)
  BY <1>3, <1>4, <1>5, <1>6 DEF Follows
<1> QED
  BY <1>7

\* What makes a token that the seal has foreseen.
LEMMA MakerKnown ==
  ASSUME Applications, SealInv, sealed, NEW b \in Demands, Foreseen(b), b.token # Context
  PROVE  \E h \in Homes :
           /\ Maker(b) = Plain(h) /\ b.token \in Provides(h) /\ h \in Reach(b.scope.home)
           /\ \A k \in checked : Alike(k, b) => k.token = b.token /\ Found(k.at, b.token) = Plain(h)
<1>1. b.from \in Containers /\ b.scope \in Containers
  BY DEF Demands
<1>2. PICK k \in checked : Alike(k, b)
  BY DEF Foreseen
<1>3. Found(b.from, b.token) # None
  <2>1. Accepts(k) /\ k.token = b.token /\ Found(k.at, b.token) = Found(b.from, b.token)
    BY <1>2 DEF SealInv, Alike
  <2> QED
    BY <2>1 DEF Accepts
<1>4. PICK h \in Homes :
        /\ Found(b.from, b.token) = Plain(h) /\ b.token \in Provides(h)
        /\ \/ h \in {b.from.home, Root}
           \/ b.from.home # Root /\ h \in Range(imports[b.from.home])
  BY <1>1, <1>3, Finding
<1>5. h \in Reach(b.scope.home)
  <2> DEFINE u == b.scope.home
             v == b.from.home
  <2>1. u \in Homes /\ v \in Homes /\ v \in Reach(u)
    BY <1>1 DEF Containers, Foreseen
  <2>2. CASE h \in {v, Root}
    BY <2>1, <2>2 DEF Reach
  <2>3. CASE v # Root /\ h \in Range(imports[v])
    <3>1. u # Root /\ u \in Features
      BY <2>1, <2>3, Homely DEF Reach
    <3>2. imports \in [Features -> Seq(Features)]
      BY Graph
    <3>3. Range(imports[u]) \subseteq Imported(u) /\ Complete(Imported(u))
      BY <3>1, <3>2, Needs
    <3>4. h \in Imported(u)
      BY <2>1, <2>3, <3>1, <3>3 DEF Reach, Complete
    <3> QED
      BY <3>1, <3>4 DEF Reach
  <2> QED
    BY <1>4, <2>2, <2>3
<1> QED
  BY <1>4, <1>5 DEF Maker, Alike

\* A scope that provides a need of what is built for it is the home of that.
LEMMA OwnNeed ==
  ASSUME Applications, NothingShadowed, NEW u \in Containers, NEW h \in Reach(u.home),
         NEW t \in Provides(h), NEW d \in provider[<<h, t>>].needs, d # Context, d \in Own(u)
  PROVE  u = Plain(h)
<1>1. /\ u.home \in Homes /\ u.request \in BOOLEAN /\ u = [home |-> u.home, request |-> u.request]
  BY DEF Containers
<1>2. ~u.request /\ d \in Provides(u.home)
  BY <1>1 DEF Own
<1>3. u.home = h
  <2>1. <<h, t>> \in DOMAIN provider
    BY Graph
  <2>2. ASSUME u.home # h
        PROVE  u.home \in Features /\ h \in Imported(u.home) \cup {Root}
    BY <1>1, <2>2, Homely DEF Reach
  <2> QED
    BY <1>2, <2>1, <2>2 DEF NothingShadowed
<1> QED
  BY <1>1, <1>2, <1>3 DEF Plain

\* What the seal has foreseen is not refused.
LEMMA WillBuild ==
  ASSUME Applications, SealInv, sealed, NothingShadowed, NEW b \in Demands, Foreseen(b)
  PROVE  Buildable(b)
<1>1. PICK k \in checked : Alike(k, b) /\ k.stack = b.stack
  BY DEF Foreseen
<1>2. PICK l \in checked : Alike(l, b) /\ (l.request => b.scope.request)
  BY DEF Foreseen
<1>3. Accepts(k) /\ Accepts(l) /\ k.token = b.token /\ l.token = b.token
  BY <1>1, <1>2 DEF SealInv, Alike
<1>4. b.token \notin b.stack
  BY <1>1, <1>3 DEF Accepts
<1>5. b.from \in Containers /\ b.scope \in Containers
  BY DEF Demands
<1>6. CASE b.token = Context
  <2>1. b.from.request
    BY <1>1, <1>6 DEF Alike
  <2>2. OwnerOf(b.from, Context) = b.from
    BY <2>1 DEF OwnerOf, Own
  <2>3. b.from # None
    BY <2>1 DEF None
  <2>4. Maker(b) = b.from
    BY <1>6, <2>2, <2>3 DEF Maker, Found
  <2>5. LifeOf(b) = "singleton" /\ NeedsAt(Maker(b), b.token) = {}
    BY <2>1, <2>4 DEF LifeOf, LifeAt, NeedsAt
  <2> QED
    BY <1>4, <2>3, <2>4, <2>5 DEF Buildable, CapturesRequest
<1>7. CASE b.token # Context
  <2> DEFINE t == b.token
  <2>1. PICK h \in Homes : /\ Maker(b) = Plain(h) /\ t \in Provides(h) /\ h \in Reach(b.scope.home)
                           /\ \A n \in checked : Alike(n, b) => Found(n.at, t) = Plain(h)
    BY <1>7, MakerKnown
  <2>2. Found(k.at, t) = Plain(h) /\ Found(l.at, t) = Plain(h)
    BY <1>1, <1>2, <2>1
  <2>3. Maker(b) # None
    BY <1>3, <2>1, <2>2 DEF Accepts
  <2>4. LifeOf(b) = "request" => b.scope.request
    BY <1>2, <1>3, <2>1, <2>2 DEF Accepts, ScopeFits, LifeOf
  <2>5. ~CapturesRequest(Plain(h), Plain(h), t)
    BY <1>3, <2>2 DEF Accepts
  <2>6. ASSUME CapturesRequest(Plain(h), b.scope, t)
        PROVE  FALSE
    <3>1. LifeAt(Plain(h), t) = "singleton" /\ NeedsAt(Plain(h), t) = provider[<<h, t>>].needs
      BY <2>6 DEF CapturesRequest, NeedsAt, Plain
    <3>2. PICK d \in provider[<<h, t>>].needs :
            LET from == IF d \in Own(b.scope) THEN b.scope ELSE Found(Plain(h), d)
            IN from # None /\ LifeAt(from, d) = "request"
      BY <2>6, <3>1 DEF CapturesRequest
    <3>3. LET from == IF d \in Own(Plain(h)) THEN Plain(h) ELSE Found(Plain(h), d)
          IN ~(from # None /\ LifeAt(from, d) = "request")
      BY <2>5, <3>1 DEF CapturesRequest
    <3>4. d \in Own(b.scope)
      <4>1. CASE d \in Own(Plain(h))
        <5>1. d \in Provides(h) /\ d # Context /\ Plain(h) \in Containers /\ Plain(h).home = h
          <6>1. d \in Provides(h)
            BY <4>1 DEF Own, Plain
          <6> QED
            BY <6>1, Graph DEF Plain, Containers
        <5>2. Found(Plain(h), d) = Plain(h)
          BY <5>1, Finding
        <5> QED
          BY <3>2, <3>3, <5>2
      <4> QED
        BY <3>2, <3>3, <4>1
    <3>5. LifeAt(b.scope, d) = "request"
      BY <3>2, <3>4
    <3>6. ~b.scope.request
      BY <3>5 DEF LifeAt
    <3>7. d # Context
      <4>1. d \in Provides(b.scope.home)
        BY <3>4, <3>6 DEF Own
      <4> QED
        BY <4>1, Graph
    <3>8. b.scope = Plain(h)
      BY <1>5, <2>1, <3>4, <3>7, OwnNeed
    <3> QED
      BY <3>2, <3>3, <3>4, <3>8
  <2> QED
    BY <1>4, <2>1, <2>3, <2>4, <2>6 DEF Buildable
<1> QED
  BY <1>6, <1>7

LEMMA ContextNeedsNothing ==
  ASSUME NEW b \in Demands, Foreseen(b), NEW d \in NeedsAt(Maker(b), b.token)
  PROVE  b.token # Context
<1>1. ASSUME b.token = Context
      PROVE  FALSE
  <2>1. b.from.request
    BY <1>1 DEF Foreseen, Alike
  <2>2. OwnerOf(b.from, Context) = b.from /\ b.from # None
    BY <2>1 DEF OwnerOf, Own, None
  <2>3. Maker(b) = b.from
    BY <1>1, <2>2 DEF Maker, Found
  <2> QED
    BY <2>1, <2>3 DEF NeedsAt
<1> QED
  BY <1>1

\* What it needs is foreseen as well.
LEMMA NextForeseen ==
  ASSUME Applications, SealInv, sealed, NothingShadowed, NEW b \in Demands, Foreseen(b),
         NEW d \in NeedsAt(Maker(b), b.token)
  PROVE  Foreseen(DemandFor(b, d))
<1> DEFINE t == b.token
           u == Under(b)
           n == DemandFor(b, d)
<1>1. b.from \in Containers /\ b.scope \in Containers
  BY DEF Demands
<1>2. t # Context
  BY ContextNeedsNothing
<1>3. PICK h \in Homes : /\ Maker(b) = Plain(h) /\ t \in Provides(h) /\ h \in Reach(b.scope.home)
                         /\ \A k \in checked : Alike(k, b) => k.token = t /\ Found(k.at, t) = Plain(h)
  BY <1>2, MakerKnown
<1>4. /\ d \in provider[<<h, t>>].needs
      /\ Plain(h) \in Containers /\ Plain(h).home = h /\ Plain(h).request = FALSE
  BY <1>3 DEF NeedsAt, Plain, Containers
<1>5. /\ n.from = IF d \in Own(u) THEN u ELSE Plain(h)
      /\ n.token = d /\ n.stack = b.stack \cup {t} /\ n.scope = u
  BY <1>3 DEF DemandFor, Demand
<1>6. u = IF LifeOf(b) = "singleton" THEN Plain(h) ELSE b.scope
  BY <1>3 DEF Under
<1>7. u \in Containers /\ h \in Reach(u.home)
  <2>1. h \in Reach(h)
    BY DEF Reach
  <2> QED
    BY <1>1, <1>3, <1>4, <1>6, <2>1
<1>8. PICK k \in checked : Alike(k, b) /\ k.stack = b.stack
  BY DEF Foreseen
<1>15. ASSUME NEW j \in checked, j.token = t, Found(j.at, t) = Plain(h)
       PROVE  \E m \in checked : Follows(m, j, h, t, d)
  BY <1>3, <1>4, <1>15, Walked
<1>9. PICK k1 \in checked : Follows(k1, k, h, t, d)
  BY <1>3, <1>8, <1>15
<1>10. PICK l1 \in checked :
         /\ l1.token = d /\ (l1.request => u.request)
         /\ d = Context => u.request
         /\ d # Context => Found(l1.at, d) = Found(Plain(h), d)
  <2>1. CASE LifeOf(b) = "singleton"
    <3>1. PICK l \in checked : l.token = t /\ l.request = InRequest(h, t) /\ Found(l.at, t) = Plain(h)
      BY <1>3, Started
    <3>2. ~InRequest(h, t)
      BY <1>3, <2>1 DEF LifeOf, InRequest
    <3>3. PICK l1 \in checked : Follows(l1, l, h, t, d)
      BY <1>3, <3>1, <1>15
    <3> QED
      BY <3>1, <3>2, <3>3 DEF Follows
  <2>2. CASE LifeOf(b) # "singleton"
    <3>1. PICK l \in checked : Alike(l, b) /\ (l.request => b.scope.request)
      BY DEF Foreseen
    <3>2. PICK l1 \in checked : Follows(l1, l, h, t, d)
      BY <1>3, <3>1, <1>15
    <3> QED
      BY <1>6, <2>2, <3>1, <3>2 DEF Follows
  <2> QED
    BY <2>1, <2>2
<1>11. ASSUME d = Context
       PROVE  n.from.request /\ n.from = u
  BY <1>5, <1>10, <1>11 DEF Own
<1>12. ASSUME d # Context
       PROVE  Found(n.from, d) = Found(Plain(h), d)
  BY <1>3, <1>4, <1>5, <1>7, <1>12, OwnNeed
<1>13. n.from.home \in Reach(n.scope.home)
  <2>1. u.home \in Reach(u.home)
    BY DEF Reach
  <2> QED
    BY <1>4, <1>5, <1>7, <2>1
<1>14. Alike(k1, n) /\ Alike(l1, n)
  BY <1>5, <1>9, <1>10, <1>11, <1>12 DEF Alike, Follows
<1>16. Foreseen(n)
  <2> HIDE DEF n, u
  <2> QED
    BY <1>5, <1>8, <1>9, <1>10, <1>13, <1>14 DEF Foreseen, Follows
<1> QED
  BY <1>16

\* What composition and a route of a request ask for.
LEMMA AskedForeseen ==
  ASSUME Applications, SealInv, sealed, NEW c \in Containers, NEW t, t # Context,
         Found(c, t) # None, ~c.request => t = Controller \/ LifeAt(Found(c, t), t) = "singleton"
  PROVE  Foreseen(Asked(c, t))
<1> DEFINE b == Asked(c, t)
<1>1. b.from = c /\ b.token = t /\ b.stack = {} /\ b.scope = c
  BY DEF Asked, Demand
<1>2. PICK h \in Homes : Found(c, t) = Plain(h) /\ t \in Provides(h)
  BY Finding
<1>3. PICK k \in checked : /\ k.token = t /\ k.stack = {} /\ k.request = InRequest(h, t)
                           /\ Found(k.at, t) = Plain(h)
  BY <1>2, Started
<1>4. InRequest(h, t) => c.request
  BY <1>2 DEF InRequest
<1>5. Alike(k, b)
  BY <1>1, <1>2, <1>3 DEF Alike
<1>6. c.home \in Reach(c.home)
  BY DEF Reach
<1>7. Foreseen(b)
  <2> HIDE DEF b
  <2> QED
    BY <1>1, <1>3, <1>4, <1>5, <1>6 DEF Foreseen
<1> QED
  BY <1>7

-----------------------------------------------------------------------------
\* The operators of the graph depend on the application alone.
LEMMA SameGraph ==
  ASSUME UNCHANGED choiceVars
  PROVE  /\ Applications => Applications'
         /\ \A h : Provides(h)' = Provides(h) /\ ChecksOf(h)' = ChecksOf(h) /\ Reach(h)' = Reach(h)
         /\ \A c, t : Found(c, t)' = Found(c, t)
         /\ \A k : Accepts(k)' = Accepts(k) /\ NextChecks(k)' = NextChecks(k)
         /\ \A k, b : Alike(k, b)' = Alike(k, b)
         /\ NothingShadowed' = NothingShadowed
<1>1. UNCHANGED <<imports, exports, provider>>
  BY DEF choiceVars
<1>2. \A h : Provides(h)' = Provides(h)
  BY <1>1 DEF Provides
<1>3. \A c : Own(c)' = Own(c)
  BY <1>2 DEF Own
<1>4. \A c, t : OwnerOf(c, t)' = OwnerOf(c, t)
  BY <1>2, <1>3 DEF OwnerOf
<1>5. \A c, t : ImportedOwnerOf(c, t)' = ImportedOwnerOf(c, t)
  BY <1>1 DEF ImportedOwnerOf
<1>6. \A c, t : Found(c, t)' = Found(c, t)
  BY <1>4, <1>5 DEF Found
<1>7. \A c, t : LifeAt(c, t)' = LifeAt(c, t) /\ NeedsAt(c, t)' = NeedsAt(c, t)
  BY <1>1 DEF LifeAt, NeedsAt
<1>8. \A c, l, t : CapturesRequest(c, l, t)' = CapturesRequest(c, l, t)
  BY <1>3, <1>6, <1>7 DEF CapturesRequest
<1>9. \A k : Accepts(k)' = Accepts(k)
  BY <1>6, <1>7, <1>8 DEF Accepts
<1>10. \A k : NextChecks(k)' = NextChecks(k)
  BY <1>4, <1>6, <1>7 DEF NextChecks
<1>11. \A h, t : InRequest(h, t)' = InRequest(h, t)
  BY <1>7 DEF InRequest
<1>12. \A h : ChecksOf(h)' = ChecksOf(h)
  BY <1>2, <1>11 DEF ChecksOf
<1>13. \A h : Imported(h)' = Imported(h)
  BY <1>1, SameImports
<1>14. \A h : Reach(h)' = Reach(h)
  BY <1>13 DEF Reach
<1>15. \A k, b : Alike(k, b)' = Alike(k, b)
  BY <1>6 DEF Alike
<1>16. NothingShadowed' = NothingShadowed
  BY <1>1, <1>2, <1>13 DEF NothingShadowed
<1>17. Applications => Applications'
  BY <1>1, <1>2 DEF Applications
<1> QED
  BY <1>2, <1>6, <1>9, <1>10, <1>12, <1>14, <1>15, <1>16, <1>17

LEMMA SameForeseen ==
  ASSUME UNCHANGED <<choiceVars, checked>>
  PROVE  \A b : Foreseen(b)' = Foreseen(b)
<1>1. (\A k, b : Alike(k, b)' = Alike(k, b)) /\ (\A h : Reach(h)' = Reach(h)) /\ checked' = checked
  BY SameGraph
<1> QED
  BY <1>1 DEF Foreseen

-----------------------------------------------------------------------------
LEMMA SealKept ==
  ASSUME SealInv, UNCHANGED <<choiceVars, sealVars>>,
         stage = "sealing" \/ sealed => UNCHANGED searchVars,
         stage' \in {"pods", "declared"} => checked = {}, stage' = "sealing" => stage = "sealing",
         sealed => stage' \in {"sealed", "composing", "composed", "failed"}
  PROVE  SealInv'
<1>1. /\ checked' = checked /\ checking' = checking /\ sealed' = sealed
  BY DEF sealVars
<1>2. /\ \A h : ChecksOf(h)' = ChecksOf(h)
      /\ \A k : Accepts(k)' = Accepts(k) /\ NextChecks(k)' = NextChecks(k)
  BY SameGraph
<1>3. ASSUME stage' = "sealing" \/ sealed'
      PROVE  Ordered'
  <2>1. Ordered /\ UNCHANGED searchVars
    BY <1>1, <1>3 DEF SealInv
  <2> QED
    BY <2>1 DEF Ordered, searchVars
<1>4. ASSUME stage' = "sealing" \/ sealed'
      PROVE  /\ \A h \in Homes : ChecksOf(h)' \subseteq checked' \cup checking'
             /\ \A k \in checked' : Accepts(k)' /\ NextChecks(k)' \subseteq checked' \cup checking'
  BY <1>1, <1>2, <1>4 DEF SealInv
<1> QED
  BY <1>1, <1>3, <1>4 DEF SealInv

\* The calls that the seal makes are for containers.
LEMMA ChecksTyped ==
  ASSUME Applications
  PROVE  /\ \A h \in Homes : \A k \in ChecksOf(h) :
              k.at \in Containers /\ (k.at.request => k.request) /\ k.request \in BOOLEAN
         /\ \A k : k.at \in Containers /\ (k.at.request => k.request) /\ k.request \in BOOLEAN /\ Accepts(k) =>
              \A n \in NextChecks(k) :
                n.at \in Containers /\ (n.at.request => n.request) /\ n.request \in BOOLEAN
<1>1. ASSUME NEW h \in Homes, NEW k \in ChecksOf(h)
      PROVE  k.at \in Containers /\ (k.at.request => k.request) /\ k.request \in BOOLEAN
  <2>1. PICK t \in Provides(h) :
          k = Check([home |-> h, request |-> InRequest(h, t)], t, {}, InRequest(h, t))
    BY <1>1 DEF ChecksOf
  <2>2. InRequest(h, t) \in BOOLEAN
    BY DEF InRequest
  <2> QED
    BY <2>1, <2>2 DEF Check, Containers
<1>2. ASSUME NEW k, k.at \in Containers, k.at.request => k.request, k.request \in BOOLEAN, Accepts(k),
             NEW n \in NextChecks(k)
      PROVE  n.at \in Containers /\ (n.at.request => n.request) /\ n.request \in BOOLEAN
  <2> DEFINE owner == Found(k.at, k.token)
  <2>1. /\ n.at = IF OwnerOf(k.at, k.token) = None THEN owner ELSE k.at
        /\ n.request = k.request
    BY <1>2 DEF NextChecks, Check
  <2>2. CASE OwnerOf(k.at, k.token) = None
    <3>1. owner = ImportedOwnerOf(k.at, k.token) /\ owner # None
      BY <1>2, <2>2 DEF Found, Accepts
    <3>2. k.at.home # Root
      BY <3>1 DEF ImportedOwnerOf
    <3> DEFINE from == { g \in Range(imports[k.at.home]) : k.token \in exports[g] }
    <3>3. from # {} /\ owner = Plain(CHOOSE g \in from : TRUE)
      BY <3>1, <3>2 DEF ImportedOwnerOf
    <3>4. PICK g \in from : owner = Plain(g)
      BY <3>3
    <3>5. g \in Homes
      BY <1>2, <3>2, <3>4, Graph, Homely DEF Containers
    <3>6. owner \in Containers /\ ~owner.request
      BY <3>4, <3>5 DEF Plain, Containers
    <3> QED
      BY <1>2, <2>1, <2>2, <3>6
  <2>3. CASE OwnerOf(k.at, k.token) # None
    BY <1>2, <2>1, <2>3
  <2> QED
    BY <2>2, <2>3
<1> QED
  BY <1>1, <1>2

LEMMA BeginSealStep ==
  ASSUME Applications, SealInv, BeginSeal
  PROVE  SealInv'
<1>1. /\ stage = "declared" /\ checked = {} /\ checked' = checked /\ ~sealed /\ sealed' = sealed
      /\ UNCHANGED <<choiceVars, searchVars>>
  BY DEF BeginSeal, SealInv
<1>2. CASE cycle
  BY <1>1, <1>2 DEF BeginSeal, SealInv
<1>3. CASE ~cycle
  <2>1. /\ stage' = "sealing" /\ checking' = UNION { ChecksOf(h) : h \in Homes } /\ Ordered
    BY <1>3 DEF BeginSeal
  <2>2. Ordered'
    BY <1>1, <2>1 DEF Ordered, searchVars
  <2>3. \A h : ChecksOf(h)' = ChecksOf(h)
    BY <1>1, SameGraph
  <2>4. \A k \in checking' : k.at \in Containers /\ (k.at.request => k.request) /\ k.request \in BOOLEAN
    BY <2>1, ChecksTyped
  <2> QED
    BY <1>1, <2>1, <2>2, <2>3, <2>4 DEF SealInv
<1> QED
  BY <1>2, <1>3

LEMMA ValidateStep ==
  ASSUME Applications, SealInv, Validate
  PROVE  SealInv'
<1>1. stage = "sealing" /\ ~sealed /\ UNCHANGED <<choiceVars, searchVars>>
  BY DEF Validate, SealInv
<1>2. CASE ~\A k \in checking : Accepts(k)
  <2>1. stage' = "rejected" /\ UNCHANGED sealVars
    BY <1>2 DEF Validate
  <2> QED
    BY <1>1, <2>1, SealKept
<1>3. CASE \A k \in checking : Accepts(k)
  <2>1. /\ checked' = checked \cup checking
        /\ checking' = UNION { NextChecks(k) : k \in checking }
        /\ sealed' = (checking' = {}) /\ stage' = IF sealed' THEN "sealed" ELSE "sealing"
    BY <1>3 DEF Validate
  <2>2. /\ \A h : ChecksOf(h)' = ChecksOf(h)
        /\ \A k : Accepts(k)' = Accepts(k) /\ NextChecks(k)' = NextChecks(k)
    BY <1>1, SameGraph
  <2>3. Ordered'
    BY <1>1 DEF SealInv, Ordered, searchVars
  <2>4. \A h \in Homes : ChecksOf(h)' \subseteq checked' \cup checking'
    BY <1>1, <2>1, <2>2 DEF SealInv
  <2>5. \A k \in checked' : Accepts(k)' /\ NextChecks(k)' \subseteq checked' \cup checking'
    BY <1>1, <1>3, <2>1, <2>2 DEF SealInv
  <2>6. \A k \in checked' \cup checking' :
          k.at \in Containers /\ (k.at.request => k.request) /\ k.request \in BOOLEAN
    BY <1>3, <2>1, ChecksTyped DEF SealInv
  <2>7. sealed' => checking' = {} /\ stage' = "sealed"
    BY <2>1
  <2>8. stage' \notin {"pods", "declared"}
    BY <2>1
  <2> QED
    BY <2>3, <2>4, <2>5, <2>6, <2>7, <2>8 DEF SealInv
<1> QED
  BY <1>2, <1>3

\* Calls that are to be made one after another.
LEMMA Sequenced ==
  ASSUME NEW G, NEW n \in Nat, NEW s \in [1..n -> G]
  PROVE  s \in Seq(G)
OBVIOUS

LEMMA OrdersOf ==
  ASSUME NEW S, IsFiniteSet(S), NEW ds \in Orders(S)
  PROVE  \E n \in Nat : DOMAIN ds = 1..n /\ \A i \in 1..n : ds[i] \in S
<1>1. Cardinality(S) \in Nat
  BY FS_CardinalityType
<1>2. ds \in [1..Cardinality(S) -> S]
  BY DEF Orders
<1> QED
  BY <1>1, <1>2

LEMMA FewTokens ==
  ASSUME NEW S, S \subseteq Wanted
  PROVE  IsFiniteSet(S)
<1>1. IsFiniteSet(Tokens)
  BY FeatureGraphAssumption
<1>2. IsFiniteSet(Tokens \cup {Controller})
  BY <1>1, FS_AddElement
<1>3. IsFiniteSet((Tokens \cup {Controller}) \cup {Context})
  BY <1>2, FS_AddElement
<1>4. Wanted = (Tokens \cup {Controller}) \cup {Context}
  BY DEF Wanted
<1> QED
  BY <1>3, <1>4, FS_Subset

LEMMA AskedTyped ==
  ASSUME NEW c \in Containers, NEW t \in Wanted
  PROVE  Asked(c, t) \in Demands
BY DEF Asked, Demand, Demands

\* What is needed by what is made, and by what container it is looked for.
LEMMA NeedTyped ==
  ASSUME Applications, SealInv, sealed, NEW b \in Demands, Foreseen(b),
         NEW d \in NeedsAt(Maker(b), b.token)
  PROVE  DemandFor(b, d) \in Demands
<1> DEFINE u == Under(b)
<1>1. b.from \in Containers /\ b.scope \in Containers /\ b.token \in Wanted /\ b.stack \subseteq Wanted
  BY DEF Demands
<1>2. b.token # Context
  BY ContextNeedsNothing
<1>3. PICK h \in Homes : Maker(b) = Plain(h) /\ b.token \in Provides(h)
  BY <1>2, MakerKnown
<1>4. Maker(b) \in Containers /\ Maker(b).home \in Homes
  BY <1>3 DEF Plain, Containers
<1>5. d \in Wanted
  <2>1. NeedsAt(Maker(b), b.token) = provider[<<h, b.token>>].needs
    BY <1>3 DEF NeedsAt, Plain
  <2> QED
    BY <1>3, <2>1, Graph DEF Wanted
<1>6. u \in Containers
  BY <1>1, <1>4 DEF Under
<1>7. /\ (IF d \in Own(u) THEN u ELSE Maker(b)) \in Containers
      /\ b.stack \cup {b.token} \in SUBSET Wanted
      /\ {<<Maker(b).home, b.token>>} \in SUBSET (Homes \X Wanted)
  BY <1>1, <1>4, <1>6
<1> HIDE DEF u
<1>8. DemandFor(b, d) = Demand(IF d \in Own(u) THEN u ELSE Maker(b), d, b.stack \cup {b.token},
                               u, {<<Maker(b).home, b.token>>})
  BY DEF DemandFor, u
<1> QED
  BY <1>5, <1>6, <1>7, <1>8 DEF Demand, Demands

LEMMA NeedsFew ==
  ASSUME Applications, NEW b \in Demands, SealInv, sealed, Foreseen(b)
  PROVE  IsFiniteSet(NeedsAt(Maker(b), b.token))
<1>1. ASSUME NEW d \in NeedsAt(Maker(b), b.token)
      PROVE  d \in Wanted
  <2>1. DemandFor(b, d) \in Demands
    BY <1>1, NeedTyped
  <2>2. DemandFor(b, d).token = d
    BY DEF DemandFor, Demand
  <2> QED
    BY <2>1, <2>2 DEF Demands
<1> QED
  BY <1>1, FewTokens

-----------------------------------------------------------------------------
\* What is built is still what the seal has foreseen.
LEMMA SameExpected ==
  ASSUME UNCHANGED <<choiceVars, sealVars>>
  PROVE  Expected' = Expected /\ NothingShadowed' = NothingShadowed /\ sealed' = sealed
<1>1. UNCHANGED <<choiceVars, checked>> /\ sealed' = sealed
  BY DEF sealVars
<1>2. \A b : Foreseen(b)' = Foreseen(b)
  BY <1>1, SameForeseen
<1>3. Expected' = Expected
  BY <1>2 DEF Expected, Demands, Containers, Wanted
<1> QED
  BY <1>1, <1>3, SameGraph

LEMMA Idle ==
  ASSUME building' = <<>>, stage' # "failed"
  PROVE  BuildInv'
<1>1. building' \in Seq(Expected')
  BY EmptySeq
<1> QED
  BY <1>1 DEF BuildInv

LEMMA ReuseStep ==
  ASSUME Applications, SealInv, BuildInv, ReuseInstance
  PROVE  BuildInv'
<1>1. /\ building # <<>> /\ building' = Tail(building) /\ stage' = stage
      /\ UNCHANGED <<choiceVars, sealVars>>
  BY DEF ReuseInstance
<1>2. ASSUME sealed, NothingShadowed
      PROVE  building' \in Seq(Expected) /\ stage' # "failed"
  BY <1>1, <1>2, HeadTailProperties DEF BuildInv
<1>3. stage' \in {"composing", "composed"}
  BY <1>1 DEF BuildInv
<1> QED
  BY <1>1, <1>2, <1>3, SameExpected DEF BuildInv

LEMMA MakeStep ==
  ASSUME Applications, SealInv, BuildInv, MakeInstance
  PROVE  BuildInv'
<1> DEFINE b == Head(building)
           S == NeedsAt(Maker(b), b.token)
<1>1. PICK ds \in Orders(S) : building' = [i \in DOMAIN ds |-> DemandFor(b, ds[i])] \o Tail(building)
  BY DEF MakeInstance
<1>2. building # <<>> /\ stage' = stage /\ UNCHANGED <<choiceVars, sealVars>>
  BY DEF MakeInstance
<1>3. ASSUME sealed, NothingShadowed
      PROVE  building' \in Seq(Expected) /\ stage' # "failed"
  <2>1. b \in Expected /\ Tail(building) \in Seq(Expected) /\ stage # "failed"
    BY <1>2, <1>3, HeadTailProperties DEF BuildInv
  <2>2. b \in Demands /\ Foreseen(b)
    BY <2>1 DEF Expected
  <2>3. ASSUME NEW d \in S
        PROVE  DemandFor(b, d) \in Expected
    <3>1. DemandFor(b, d) \in Demands
      BY <1>3, <2>2, <2>3, NeedTyped
    <3>2. Foreseen(DemandFor(b, d))
      BY <1>3, <2>2, <2>3, NextForeseen
    <3> QED
      BY <3>1, <3>2 DEF Expected
  <2>4. IsFiniteSet(S)
    BY <1>3, <2>2, NeedsFew
  <2>5. PICK n \in Nat : DOMAIN ds = 1..n /\ \A i \in 1..n : ds[i] \in S
    BY <1>1, <2>4, OrdersOf
  <2> DEFINE calls == [i \in 1..n |-> DemandFor(b, ds[i])]
  <2>6. calls \in [1..n -> Expected]
    BY <2>3, <2>5
  <2>7. building' = calls \o Tail(building)
    BY <1>1, <2>5
  <2> HIDE DEF calls
  <2>8. calls \in Seq(Expected)
    BY <2>6, Sequenced
  <2> QED
    BY <1>2, <2>1, <2>7, <2>8, ConcatProperties
<1>4. stage' \in {"composing", "composed"}
  BY <1>2 DEF BuildInv
<1> QED
  BY <1>2, <1>3, <1>4, SameExpected DEF BuildInv

LEMMA RefuseStep ==
  ASSUME Applications, SealInv, BuildInv, RefuseToken
  PROVE  BuildInv'
<1>1. /\ building # <<>> /\ ~Buildable(Head(building)) /\ building' = <<>> /\ stage' = "failed"
      /\ UNCHANGED <<choiceVars, sealVars>>
  BY DEF RefuseToken
<1>2. ~(sealed /\ NothingShadowed)
  <2>1. ASSUME sealed, NothingShadowed
        PROVE  FALSE
    <3>1. Head(building) \in Expected
      BY <1>1, <2>1, HeadTailProperties DEF BuildInv
    <3>2. Head(building) \in Demands /\ Foreseen(Head(building))
      BY <3>1 DEF Expected
    <3> QED
      BY <1>1, <2>1, <3>2, WillBuild
  <2> QED
    BY <2>1
<1> QED
  BY <1>1, <1>2, SameExpected DEF BuildInv

\* In the order of the walk each feature finds the containers of its imports.
LEMMA Available ==
  ASSUME OrderInv, Ordered
  PROVE  ImportsAvailable(ordered)
<1>1. DOMAIN ordered = 1..Len(ordered)
  BY DEF OrderInv, OrderTypeOK
<1> QED
  BY <1>1 DEF ImportsAvailable, OrderInv, OrderedInv, Before

LEMMA ComposeStep ==
  ASSUME Applications, OrderInv, SealInv, BuildInv, Compose
  PROVE  BuildInv'
<1>1. UNCHANGED <<choiceVars, sealVars>> /\ building = <<>>
  BY DEF Compose, BuildInv
<1>2. CASE cycle \/ ~ImportsAvailable(ordered)
  <2>1. stage' = "failed" /\ building' = <<>>
    BY <1>1, <1>2 DEF Compose
  <2>2. ~sealed
    BY <1>2, Available DEF SealInv, Ordered
  <2> QED
    BY <1>1, <2>1, <2>2, SameExpected DEF BuildInv
<1>3. CASE ~(cycle \/ ~ImportsAvailable(ordered))
  <2>1. stage' = "composing"
    BY <1>3 DEF Compose
  <2>2. PICK ts \in Orders(Shared), fs \in Orders(Controlled) :
          building' = [i \in DOMAIN ts |-> Asked(Plain(Root), ts[i])]
                        \o [i \in DOMAIN fs |-> Asked(Plain(fs[i]), Controller)]
    BY <1>3 DEF Compose
  <2>3. ASSUME sealed
        PROVE  building' \in Seq(Expected)
    <3>1. ASSUME NEW t \in Shared
          PROVE  Asked(Plain(Root), t) \in Expected
      <4> DEFINE c == Plain(Root)
      <4>1. c \in Containers /\ c.home = Root /\ ~c.request
        BY Homely DEF Plain, Containers
      <4>2. t \in Provides(Root) /\ LifeAt(c, t) = "singleton" /\ t # Context /\ t \in Wanted
        BY Graph DEF Shared
      <4>3. Found(c, t) = c /\ c # None
        <5>1. Found(c, t) = Plain(c.home)
          BY <4>1, <4>2, Finding
        <5>2. c # None
          BY <4>1, Homely DEF None
        <5> QED
          BY <4>1, <5>1, <5>2
      <4> HIDE DEF c
      <4>4. Foreseen(Asked(c, t)) /\ Asked(c, t) \in Demands
        BY <2>3, <4>1, <4>2, <4>3, AskedForeseen, AskedTyped
      <4> QED
        BY <4>4 DEF Expected, c
    <3>2. ASSUME NEW f \in Controlled
          PROVE  Asked(Plain(f), Controller) \in Expected
      <4> DEFINE c == Plain(f)
      <4>1. f \in Homes /\ Controller \in Provides(f)
        BY Homely DEF Controlled
      <4>2. c \in Containers /\ c.home = f /\ ~c.request
        BY <4>1 DEF Plain, Containers
      <4>3. Controller # Context /\ Controller \in Wanted
        BY FeatureGraphAssumption DEF Wanted
      <4>4. Found(c, Controller) # None
        <5>1. Found(c, Controller) = Plain(c.home)
          BY <4>1, <4>2, <4>3, Finding
        <5>2. c # None
          BY <4>1, <4>2, Homely DEF None
        <5> QED
          BY <4>2, <5>1, <5>2
      <4> HIDE DEF c
      <4>5. Foreseen(Asked(c, Controller)) /\ Asked(c, Controller) \in Demands
        BY <2>3, <4>2, <4>3, <4>4, AskedForeseen, AskedTyped
      <4> QED
        BY <4>5 DEF Expected, c
    <3>3. IsFiniteSet(Shared)
      BY Graph, FewTokens DEF Shared
    <3>4. IsFiniteSet(Controlled)
      <4>1. IsFiniteSet(Features)
        <5>1. 1 \in Int /\ Size \in Int
          BY ImportOrderAssumption
        <5> QED
          BY <5>1, FS_Interval DEF Features
      <4> QED
        BY <4>1, FS_Subset DEF Controlled
    <3>5. PICK n \in Nat : DOMAIN ts = 1..n /\ \A i \in 1..n : ts[i] \in Shared
      BY <2>2, <3>3, OrdersOf
    <3>6. PICK m \in Nat : DOMAIN fs = 1..m /\ \A i \in 1..m : fs[i] \in Controlled
      BY <2>2, <3>4, OrdersOf
    <3> DEFINE first == [i \in 1..n |-> Asked(Plain(Root), ts[i])]
               rest == [i \in 1..m |-> Asked(Plain(fs[i]), Controller)]
    <3>7. first \in [1..n -> Expected] /\ rest \in [1..m -> Expected]
      BY <3>1, <3>2, <3>5, <3>6
    <3>8. building' = first \o rest
      BY <2>2, <3>5, <3>6
    <3> HIDE DEF first, rest
    <3>9. first \in Seq(Expected) /\ rest \in Seq(Expected)
      BY <3>7, Sequenced
    <3> QED
      BY <3>8, <3>9, ConcatProperties
  <2> QED
    BY <1>1, <2>1, <2>3, SameExpected DEF BuildInv
<1> QED
  BY <1>2, <1>3

LEMMA ResolveStep ==
  ASSUME Applications, SealInv, BuildInv, NEW f \in Features, NEW t, ResolveInRequest(f, t)
  PROVE  BuildInv'
<1> DEFINE c == RequestOf(f)
<1>1. /\ stage = "composed" /\ stage' = stage /\ building' = <<Asked(c, t)>> /\ t \in Resolvable(f)
      /\ UNCHANGED <<choiceVars, sealVars>>
  BY DEF ResolveInRequest
<1>2. c \in Containers /\ c.home = f /\ c.request /\ f # Root
  BY Homely DEF RequestOf, Containers
<1>3. t # Context /\ t \in Wanted
  <2>1. ASSUME NEW g \in Range(imports[f]), t \in exports[g]
        PROVE  t \in Provides(g)
    BY <2>1, Graph
  <2> QED
    BY <1>1, <2>1, Graph DEF Resolvable
<1>4. Found(c, t) # None
  <2>1. \A h \in Homes : Plain(h) # None
    <3>1. \A h : Plain(h).home = h
      BY DEF Plain
    <3> QED
      BY <3>1, Homely DEF None
  <2>2. CASE t \in Provides(f)
    BY <1>2, <1>3, <2>1, <2>2, Finding, Homely
  <2>3. CASE t \notin Provides(f) /\ t \in Provides(Root)
    BY <1>2, <1>3, <2>1, <2>3, Finding, Homely
  <2>4. CASE t \notin Provides(f) /\ t \notin Provides(Root)
    <3> DEFINE from == { g \in Range(imports[c.home]) : t \in exports[g] }
    <3>1. from # {} /\ from \subseteq Homes
      BY <1>1, <1>2, <2>4, Graph, Homely DEF Resolvable
    <3>2. ImportedOwnerOf(c, t) = Plain(CHOOSE g \in from : TRUE)
      BY <1>2, <3>1 DEF ImportedOwnerOf
    <3>3. ImportedOwnerOf(c, t) # None
      BY <2>1, <3>1, <3>2
    <3> QED
      BY <3>3 DEF Found
  <2> QED
    BY <2>2, <2>3, <2>4
<1> HIDE DEF c
<1>5. ASSUME sealed
      PROVE  building' \in Seq(Expected) /\ stage' # "failed"
  <2>1. Foreseen(Asked(c, t)) /\ Asked(c, t) \in Demands
    BY <1>2, <1>3, <1>4, <1>5, AskedForeseen, AskedTyped
  <2>2. Asked(c, t) \in Expected
    BY <2>1 DEF Expected
  <2> QED
    BY <1>1, <2>2
<1> QED
  BY <1>1, <1>5, SameExpected DEF BuildInv

\* The parts of the invariant that a step of the graph leaves alone.
LEMMA GraphStep ==
  ASSUME GraphInv, [GraphNext]_graphVars
  PROVE  GraphInv'
<1>1. Applications /\ OrderInv /\ SealInv /\ BuildInv
  BY DEF GraphInv
<1>2. CASE Declare
  <2>1. /\ stage = "pods" /\ stage' \in {"declared", "refused"} /\ building' = building
        /\ UNCHANGED <<choiceVars, searchVars, sealVars>>
    BY <1>2 DEF Declare, buildVars
  <2>2. SealInv'
    BY <1>1, <2>1, SealKept DEF SealInv
  <2>3. BuildInv'
    BY <1>1, <2>1, Idle DEF BuildInv
  <2>4. Applications' /\ OrderInv'
    BY <1>1, <2>1, SameGraph, OrderStep DEF orderVars, choiceVars
  <2> QED
    BY <2>2, <2>3, <2>4 DEF GraphInv
<1>3. CASE WalkImports
  <2>1. /\ stage = "declared" /\ stage' = stage /\ building' = building /\ OrderNext
        /\ UNCHANGED <<exports, provider, sealVars>>
    BY <1>3 DEF WalkImports, buildVars
  <2>2. UNCHANGED choiceVars
    BY <2>1 DEF OrderNext, SkipVisited, FindCycle, EnterFeature, LeaveFeature, choiceVars
  <2>3. SealInv'
    BY <1>1, <2>1, <2>2, SealKept DEF SealInv
  <2>4. BuildInv'
    BY <1>1, <2>1, Idle DEF BuildInv
  <2>5. Applications' /\ OrderInv'
    BY <1>1, <2>1, <2>2, SameGraph, OrderStep
  <2> QED
    BY <2>3, <2>4, <2>5 DEF GraphInv
<1>4. CASE BeginSeal
  <2>1. /\ stage = "declared" /\ stage' # "failed" /\ building' = building
        /\ UNCHANGED <<choiceVars, searchVars>>
    BY <1>4 DEF BeginSeal, buildVars
  <2>2. SealInv' /\ BuildInv'
    BY <1>1, <1>4, <2>1, BeginSealStep, Idle DEF BuildInv
  <2>3. Applications' /\ OrderInv'
    BY <1>1, <2>1, SameGraph, OrderStep DEF orderVars, choiceVars
  <2> QED
    BY <2>2, <2>3 DEF GraphInv
<1>5. CASE Validate
  <2>1. /\ stage = "sealing" /\ stage' # "failed" /\ building' = building
        /\ UNCHANGED <<choiceVars, searchVars>>
    BY <1>5 DEF Validate, buildVars
  <2>2. SealInv' /\ BuildInv'
    BY <1>1, <1>5, <2>1, ValidateStep, Idle DEF BuildInv
  <2>3. Applications' /\ OrderInv'
    BY <1>1, <2>1, SameGraph, OrderStep DEF orderVars, choiceVars
  <2> QED
    BY <2>2, <2>3 DEF GraphInv
<1>6. ASSUME UNCHANGED <<choiceVars, searchVars, sealVars>>, BuildInv',
             stage' \notin {"pods", "declared", "sealing"} \/ stage' = stage,
             sealed => stage' \in {"sealed", "composing", "composed", "failed"}
      PROVE  GraphInv'
  <2>1. SealInv'
    BY <1>1, <1>6, SealKept DEF SealInv
  <2>2. Applications' /\ OrderInv'
    BY <1>1, <1>6, SameGraph, OrderStep DEF orderVars, choiceVars
  <2> QED
    BY <1>6, <2>1, <2>2 DEF GraphInv
<1>7. CASE Compose
  <2>1. UNCHANGED <<choiceVars, searchVars, sealVars>> /\ stage' \in {"composing", "failed"}
    BY <1>7 DEF Compose
  <2> QED
    BY <1>1, <1>6, <1>7, <2>1, ComposeStep
<1>8. CASE EndCompose
  <2>1. /\ UNCHANGED <<choiceVars, searchVars, sealVars>> /\ stage' = "composed" /\ building' = <<>>
    BY <1>8 DEF EndCompose, buildVars
  <2>2. BuildInv'
    BY <2>1, Idle
  <2> QED
    BY <1>6, <2>1, <2>2
<1>9. CASE RefuseToken
  <2>1. UNCHANGED <<choiceVars, searchVars, sealVars>> /\ stage' = "failed"
    BY <1>9 DEF RefuseToken
  <2> QED
    BY <1>1, <1>6, <1>9, <2>1, RefuseStep
<1>10. CASE ReuseInstance
  <2>1. UNCHANGED <<choiceVars, searchVars, sealVars>> /\ stage' = stage
    BY <1>10 DEF ReuseInstance
  <2> QED
    BY <1>1, <1>6, <1>10, <2>1, ReuseStep DEF SealInv
<1>11. CASE MakeInstance
  <2>1. UNCHANGED <<choiceVars, searchVars, sealVars>> /\ stage' = stage
    BY <1>11 DEF MakeInstance
  <2> QED
    BY <1>1, <1>6, <1>11, <2>1, MakeStep DEF SealInv
<1>12. CASE \E f \in Features : \E t \in Tokens \cup {Controller} : ResolveInRequest(f, t)
  <2>1. PICK f \in Features, t \in Tokens \cup {Controller} : ResolveInRequest(f, t)
    BY <1>12
  <2>2. UNCHANGED <<choiceVars, searchVars, sealVars>> /\ stage' = stage
    BY <2>1 DEF ResolveInRequest
  <2> QED
    BY <1>1, <1>6, <2>1, <2>2, ResolveStep DEF SealInv
<1>13. CASE UNCHANGED graphVars
  <2>1. UNCHANGED <<choiceVars, searchVars, sealVars>> /\ stage' = stage /\ building' = building
    BY <1>13 DEF graphVars, buildVars
  <2>2. BuildInv'
    BY <1>1, <2>1, SameExpected DEF BuildInv
  <2> QED
    BY <1>1, <1>6, <2>1, <2>2 DEF SealInv
<1> QED
  BY <1>2, <1>3, <1>4, <1>5, <1>7, <1>8, <1>9, <1>10, <1>11, <1>12, <1>13 DEF GraphNext

LEMMA GraphStart == GraphInit => GraphInv
<1> SUFFICES ASSUME GraphInit PROVE GraphInv
  OBVIOUS
<1>1. Applications /\ Undone
  BY DEF GraphInit
<1>2. OrderInv
  BY <1>1, OrderStart DEF Applications, Undone, OrderInit
<1>3. SealInv
  BY <1>1 DEF Undone, SealInv
<1>4. BuildInv
  <2>1. building = <<>> /\ stage = "pods" /\ building \in Seq(Expected)
    BY <1>1 DEF Undone
  <2> QED
    BY <2>1 DEF BuildInv
<1> QED
  BY <1>1, <1>2, <1>3, <1>4 DEF GraphInv

\* Whatever the features provide, import, export and need: what the seal accepts is
\* composed and serves, if no feature provides what a provider of the application, or
\* of what it imports, needs (architecture.ts:180, 215).
THEOREM SealIsSoundAlways == GraphSpec => []SealIsSound
<1>1. GraphInv => SealIsSound
  BY DEF GraphInv, BuildInv, SealIsSound
<1> QED
  BY <1>1, GraphStart, GraphStep, PTL DEF GraphSpec
=============================================================================
