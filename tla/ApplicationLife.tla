---------------------------- MODULE ApplicationLife ----------------------------
(***************************************************************************)
(* An application from start() to its end                                  *)
(* (src/kernel/application/start.ts, lifecycle.ts, bootstrap/runtime.ts,   *)
(* bootstrap/composition.ts, support.ts), and the readiness route          *)
(* (src/kernel/http/health.ts).                                            *)
(*                                                                         *)
(* Containers are numbered as they are created: that of the application,   *)
(* one for overrides if there are any, and those of the features in the    *)
(* order of their imports (module FeatureGraph).  The scopes of requests,  *)
(* which a disposal ends first, are those of module RequestScopes.  The    *)
(* server is external: listen may throw, stop may wait for requests, call  *)
(* the onStop hooks, and reject.                                           *)
(***************************************************************************)
EXTENDS Integers, Sequences, FiniteSets

CONSTANTS
  Pods,     \* number of features
  Checks,   \* health checks
  Timed     \* those with a timeoutMs

ASSUME ApplicationLifeAssumption == Pods \in Nat \ {0} /\ Timed \subseteq Checks

VARIABLES
  roots,      \* 1, or 2 with overrides
  boot,       \* how far composeApplication is
  unresolved, \* features whose controller it has still to resolve
  created,    \* containers that exist
  live,       \* those that hold instances
  start,      \* how far start() is
  server,     \* "idle", "listening", "draining" or "stopped"
  installed,  \* the signal handlers
  signal,     \* how far the shutdown of a signal is
  stop,       \* how far stop() is
  ending,     \* the disposal: "no", "going" or "done"
  closed      \* the containers disposed, in order

bootVars == <<roots, boot, unresolved, created>>
endVars == <<signal, stop>>

VARIABLES
  stopping,   \* the flag that healthRoutes' onStop sets
  probe,      \* how far a readiness request is
  check,      \* how far its checks are
  told        \* the checks whose signal has been aborted

probeVars == <<probe, check, told>>
lifeVars == <<bootVars, live, start, server, installed, endVars, ending, closed, stopping, probeVars>>

LifeInit ==
  /\ roots \in {1, 2}
  /\ boot = "singletons" /\ unresolved = {} /\ created = 1..roots /\ live = {}
  /\ start = "bootstrapping" /\ server = "idle" /\ installed = FALSE
  /\ signal = "no" /\ stop = "no" /\ ending = "no" /\ closed = <<>>
  /\ stopping = FALSE /\ probe = "none" /\ told = {}
  /\ check = [c \in Checks |-> "idle"]

-----------------------------------------------------------------------------
(* composeApplication.                                                     *)

Boot(next) ==
  /\ boot' = next
  /\ UNCHANGED <<roots, start, server, installed, endVars, ending, closed, stopping, probeVars>>

\* The singletons of the application, and then all containers of the features.
ResolveSingletons ==
  /\ boot = "singletons"
  /\ \E used \in SUBSET created : live' = live \cup used
  /\ created' = 1..(roots + Pods)
  /\ unresolved' = (roots + 1)..(roots + Pods)
  /\ Boot("controllers")

\* A controller and what it needs, here and in the features it imports.
ResolveController ==
  /\ boot = "controllers"
  /\ \E f \in unresolved :
       /\ unresolved' = unresolved \ {f}
       /\ \E imported \in SUBSET ((roots + 1)..f) : live' = live \cup imported \cup {f}
  /\ Boot(IF unresolved' = {} THEN "initializing" ELSE "controllers")
  /\ UNCHANGED created

Initialized ==
  /\ boot = "initializing"
  /\ Boot("composed")
  /\ UNCHANGED <<unresolved, created, live>>

\* Anything of it fails, the making of the containers included: what has been made
\* by then is disposed.
ComposeFails ==
  /\ boot \in {"singletons", "controllers", "initializing"}
  /\ boot' = "failed"
  /\ \E c \in created : live' = live \cup {c}
  /\ IF boot = "singletons" THEN \E k \in 0..(Pods - 1) : created' = 1..(roots + k)
     ELSE UNCHANGED created
  /\ ending' = "going"
  /\ UNCHANGED <<roots, unresolved, start, server, installed, endVars, closed, stopping, probeVars>>

-----------------------------------------------------------------------------
(* disposeScopes, in the catch block of bootstrap and in dispose().        *)

Remaining == { c \in created : \A i \in DOMAIN closed : closed[i] # c }

\* Mutant: in the order they were made.
FirstMade == CHOOSE c \in Remaining : \A d \in Remaining : c <= d
LastMade == CHOOSE c \in Remaining : \A d \in Remaining : c >= d

\* The dispose() of one container settles; a failure does not stop the loop.
DisposeNext ==
  /\ ending = "going" /\ Remaining # {}
  /\ closed' = Append(closed, LastMade)
  /\ live' = live \ {LastMade}
  /\ ending' = IF Remaining = {LastMade} THEN "done" ELSE "going"
  /\ UNCHANGED <<bootVars, start, server, installed, endVars, stopping, probeVars>>

\* dispose(): one disposal for the hook, disposeBootstrap and all their callers.
DisposeOnce == ending' = IF ending = "no" THEN "going" ELSE ending

-----------------------------------------------------------------------------
(* start().                                                                *)

Listen ==
  /\ boot = "composed" /\ start = "bootstrapping"
  /\ start' = "started" /\ server' = "listening"
  /\ installed' \in BOOLEAN
  /\ UNCHANGED <<bootVars, live, endVars, ending, closed, stopping, probeVars>>

\* Mutant: a server that cannot listen leaves its graph behind.
LeaveGraph == UNCHANGED ending
DisposeGraph == DisposeOnce

ListenFails ==
  /\ boot = "composed" /\ start = "bootstrapping"
  /\ start' = "rejecting"
  /\ DisposeGraph
  /\ UNCHANGED <<bootVars, live, server, installed, endVars, closed, stopping, probeVars>>

Rejects ==
  /\ \/ start = "bootstrapping" /\ boot = "failed"
     \/ start = "rejecting"
  /\ ending # "going"
  /\ start' = "rejected"
  /\ UNCHANGED <<bootVars, live, server, installed, endVars, ending, closed, stopping, probeVars>>

-----------------------------------------------------------------------------
(* A signal, and stop().                                                   *)

\* server.stop() of one of the two callers.
CallServerStop == server' = IF server = "listening" THEN "draining" ELSE server

Signal ==
  /\ installed /\ signal = "no"
  /\ signal' = "stopping"
  /\ CallServerStop
  /\ UNCHANGED <<bootVars, live, start, installed, stop, ending, closed, stopping, probeVars>>

\* cleanup() comes first.
Stop ==
  /\ start = "started" /\ stop = "no"
  /\ stop' = "stopping" /\ installed' = FALSE
  /\ CallServerStop
  /\ UNCHANGED <<bootVars, live, start, signal, ending, closed, stopping, probeVars>>

\* The server has stopped: it calls the onStop hooks.
OnStop ==
  /\ server = "draining"
  /\ server' = "stopped" /\ stopping' = TRUE
  /\ DisposeOnce
  /\ UNCHANGED <<bootVars, live, start, installed, endVars, closed, probeVars>>

\* What the signal waited for resolves or rejects, once the server has stopped or
\* because it does not: either way the handlers are removed.
SignalSettles ==
  /\ signal = "stopping"
  /\ signal' = "done" /\ installed' = FALSE
  /\ UNCHANGED <<bootVars, live, start, server, stop, ending, closed, stopping, probeVars>>

\* And what stop() waited for: either way the graph is disposed.  Mutant: only when
\* the server has stopped well.
OnlyIfStopped == server = "stopped"
EitherWay == TRUE

ServerStopSettles ==
  /\ stop = "stopping" /\ EitherWay
  /\ stop' = "disposing"
  /\ DisposeOnce
  /\ UNCHANGED <<bootVars, live, start, server, installed, signal, closed, stopping, probeVars>>

\* Mutant: stop() does not wait for a disposal that another has begun.
NotWaiting == TRUE
DisposalEnded == ending = "done"

StopSettles ==
  /\ stop = "disposing" /\ DisposalEnded
  /\ stop' = "done"
  /\ UNCHANGED <<bootVars, live, start, server, installed, signal, ending, closed, stopping, probeVars>>

-----------------------------------------------------------------------------
(* The readiness route.                                                    *)

ProbeStep == UNCHANGED <<bootVars, live, start, server, installed, endVars, ending, closed, stopping>>

Probe ==
  /\ start = "started" /\ server # "idle" /\ probe = "none"
  /\ probe' = IF stopping THEN "not ready" ELSE "checking"
  /\ check' = [c \in Checks |-> IF stopping THEN "idle" ELSE "running"]
  /\ UNCHANGED told
  /\ ProbeStep

\* Only a check with a timeout is told in the end.
CheckSettles(c) ==
  /\ probe = "checking" /\ check[c] = "running"
  /\ check' \in { [check EXCEPT ![c] = o] : o \in {"ok", "failed"} }
  /\ told' = told \cup ({c} \cap Timed)
  /\ UNCHANGED probe
  /\ ProbeStep

\* Mutant: the timer aborts the check, and waits for it.
StillRunning == "running"
TimedOut == "failed"

CheckTimesOut(c) ==
  /\ probe = "checking" /\ check[c] = "running" /\ c \in Timed \ told
  /\ check' = [check EXCEPT ![c] = TimedOut]
  /\ told' = told \cup {c}
  /\ UNCHANGED probe
  /\ ProbeStep

Answer ==
  /\ probe = "checking"
  /\ \A c \in Checks : check[c] \in {"ok", "failed"}
  /\ probe' = IF \A c \in Checks : check[c] = "ok" THEN "ready" ELSE "not ready"
  /\ UNCHANGED <<check, told>>
  /\ ProbeStep

-----------------------------------------------------------------------------
\* What goes on by itself; providers, the server and its stop settle, a check
\* that does not is timed out.
LifeProgress ==
  \/ ResolveSingletons \/ ResolveController \/ Initialized
  \/ DisposeNext \/ Listen \/ Rejects
  \/ ServerStopSettles \/ StopSettles \/ SignalSettles
  \/ \E c \in Checks : CheckTimesOut(c)
  \/ Answer

LifeNext ==
  \/ LifeProgress
  \/ ComposeFails \/ ListenFails \/ Signal \/ Stop \/ OnStop \/ Probe
  \/ \E c \in Checks : CheckSettles(c)

LifeSpec == LifeInit /\ [][LifeNext]_lifeVars /\ WF_lifeVars(LifeProgress)

-----------------------------------------------------------------------------
\* Whoever disposes, a container is disposed once, an importer before what it
\* imports and the roots last.  When start() has rejected or stop() has settled,
\* whatever failed on the way and whoever came first, nothing holds an instance and
\* no signal handler is left (start.ts:43, 50).
LeftClean ==
  /\ \A i, j \in DOMAIN closed : i < j => closed[i] > closed[j]
  /\ start = "rejected" \/ stop = "done" => live = {} /\ ~installed /\ Len(closed) = Cardinality(created)
  /\ signal = "done" => ~installed

\* start() settles once it has begun to compose, and stop() settles, also after a
\* signal and when the server rejects.  A readiness request is answered although
\* checks hang, when they have timeouts, and although the application stops in
\* between.
LifeSettles ==
  /\ (boot # "singletons") ~> (start \in {"started", "rejected"})
  /\ (stop # "no") ~> (stop = "done")
  /\ Timed = Checks => ((probe = "checking") ~> (probe \in {"ready", "not ready"}))
=============================================================================
