---------------------------- MODULE RequestScopes ----------------------------
(***************************************************************************)
(* Request scopes of a bootstrapped application                            *)
(* (src/kernel/application/bootstrap/runtime.ts, hooks.ts, support.ts):    *)
(* a request resolves the tokens of its route in a scope of its own, which *)
(* the hooks dispose when the request ends, and which a stop disposes too. *)
(*                                                                         *)
(* Whether the server answers the requests in progress before it stops, and *)
(* whether one still arrives, is up to the server: both may happen here.   *)
(***************************************************************************)
EXTENDS Container

CONSTANT Wants  \* the tokens that the route of each request gives injectHandler

ASSUME WantsAssumption == Wants \in [Scopes -> SUBSET Tokens]

VARIABLES
  request,       \* how far each request is; its scope has the same name
  activeScopes,  \* the set activeRequestScopes
  stop,          \* how far the disposal of the application is
  toStop,        \* the scopes it has found and not yet come to
  awaited,       \* the container whose disposal it awaits
  missed         \* history: scopes it does not dispose

stopVars == <<stop, toStop, awaited, missed>>
requestVars == <<request, activeScopes, stopVars>>
vars == <<containerVars, requestVars>>

Init ==
  /\ ContainerInit
  /\ request = [r \in Scopes |-> "none"]
  /\ activeScopes = {} /\ toStop = {} /\ awaited = {} /\ missed = {}
  /\ stop = "no"

-----------------------------------------------------------------------------
\* injectHandler: the first token creates the scope, and the tokens of the route
\* are resolved together.
Begin(r) ==
  /\ request[r] = "none"
  /\ request' = [request EXCEPT ![r] = "resolving"]
  /\ activeScopes' = activeScopes \cup {r}
  /\ Resolve(r, Wants[r])
  /\ missed' = IF stop = "no" THEN missed ELSE missed \cup {r}
  /\ UNCHANGED <<broken, order, created, initVars, disposeVars, stop, toStop, awaited>>

Outcomes(r) == { call[<<r, t>>] : t \in Wants[r] }

Handle(r) ==
  /\ request[r] = "resolving"
  /\ Outcomes(r) = {"done"}
  /\ request' = [request EXCEPT ![r] = "handling"]
  /\ UNCHANGED <<containerVars, activeScopes, stopVars>>

\* Mutant of the next definition: the scope is let go, and not disposed.
ForgetScope(r) == activeScopes' = activeScopes \ {r} /\ UNCHANGED disposing

\* disposeRequestScope; the later hooks of the request find no scope.
DisposeScope(r) ==
  /\ activeScopes' = activeScopes \ {r}
  /\ Dispose({r})

\* A token of the route could not be resolved, while others may still be.
ResolutionFails(r) ==
  /\ request[r] = "resolving" /\ "failed" \in Outcomes(r)
  /\ request' = [request EXCEPT ![r] = "ending"]
  /\ DisposeScope(r)
  /\ UNCHANGED <<buildVars, initVars, left, gone, call, stopVars>>

\* The handler returns or throws, or its stream ends.
HandlerEnds(r) ==
  /\ request[r] = "handling"
  /\ request' = [request EXCEPT ![r] = "ending"]
  /\ DisposeScope(r)
  /\ UNCHANGED <<buildVars, initVars, left, gone, call, stopVars>>

Respond(r) ==
  /\ request[r] = "ending" /\ disposing[r] = "done"
  /\ request' = [request EXCEPT ![r] = "answered"]
  /\ UNCHANGED <<containerVars, activeScopes, stopVars>>

-----------------------------------------------------------------------------
(* The disposal that onStop and disposeBootstrap share.                    *)

\* The scopes not yet disposed that it does not find: their requests are ending.
Stop ==
  /\ stop = "no"
  /\ stop' = "scopes"
  /\ toStop' = activeScopes
  /\ missed' = { r \in Scopes : disposing[r] \in {"waiting", "disposing"} }
  /\ UNCHANGED <<containerVars, request, activeScopes, awaited>>

\* Mutants of the next definition: the loop does not await, or it waits for the
\* request to take its scope off the set.
GoesOnAtOnce == TRUE
GoesOnWithoutScope ==
  \A c \in awaited : disposing[c] = "done" /\ c \notin activeScopes
\* One disposal is awaited after the other.
GoesOn == \A c \in awaited : disposing[c] = "done"

StopScope(r) ==
  /\ stop = "scopes" /\ r \in toStop /\ GoesOn
  /\ toStop' = toStop \ {r}
  /\ awaited' = {r}
  /\ Dispose({r})
  /\ UNCHANGED <<buildVars, initVars, left, gone, call, request,
                 activeScopes, stop, missed>>

StopFeature ==
  /\ stop = "scopes" /\ toStop = {} /\ GoesOn
  /\ stop' = "feature"
  /\ awaited' = {Feature}
  /\ activeScopes' = {}
  /\ Dispose({Feature})
  /\ UNCHANGED <<buildVars, initVars, left, gone, call, request, toStop, missed>>

Stopped ==
  /\ stop = "feature" /\ GoesOn
  /\ stop' = "done"
  /\ UNCHANGED <<containerVars, request, activeScopes, toStop, awaited, missed>>

-----------------------------------------------------------------------------
\* What goes on by itself once factories, initialize() and dispose() settle.
Proceed ==
  \/ \E r \in Scopes : Handle(r) \/ ResolutionFails(r) \/ Respond(r) \/ StopScope(r)
  \/ StopFeature \/ Stopped
  \/ ContainerStep /\ UNCHANGED requestVars

Next == Proceed \/ Stop \/ \E r \in Scopes : Begin(r) \/ HandlerEnds(r)

Spec == Init /\ [][Next]_vars

\* One assumption is enough, since nothing repeats.  A handler, or the stream it
\* answers with, may go on for ever.
FairSpec == Spec /\ WF_vars(Proceed)

-----------------------------------------------------------------------------
\* A singleton of the feature is disposed only after everything that requests made
\* from it (the order of runtime.ts:133), also for requests whose tokens are still
\* being resolved.  Only the scopes that are no longer, or not yet, on the set when
\* the stop copies it may be behind.
DependentsFirst ==
  \A d \in created, i \in gone :
    (i \in NeedsOf(d) /\ Held(d)) => d \in gone \/ d[1] \in missed

\* The stop ends although handlers and streams may not, and although it may find
\* builds, initializations and disposals in any state; and a request that fails
\* before its handler runs is answered: no call waits for a build or a round that
\* is over.
ScopesSettle ==
  /\ (stop # "no") ~> (stop = "done")
  /\ \A r \in Scopes :
       (request[r] \in {"resolving", "ending"}) ~> (request[r] \in {"handling", "answered"})
=============================================================================
