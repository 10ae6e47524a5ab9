------------------------------ MODULE Container ------------------------------
(***************************************************************************)
(* The dependency-injection containers of src/kernel/di: one container of  *)
(* a feature, whose parents are complete before it serves, and the request *)
(* scopes below it.  Modelled is what overlaps: resolveAsync, initialize   *)
(* and dispose.                                                            *)
(*                                                                         *)
(* An instance is named by the container that keeps it and its token: a    *)
(* singleton by its owner, the others by the scope that resolves them.  A  *)
(* token is resolved once per scope, so this names transients too.  Every  *)
(* instance has an initialize() and a dispose(); one without is one whose  *)
(* call returns at once.                                                   *)
(***************************************************************************)
EXTENDS Integers, Sequences, FiniteSets, SequencesExt

CONSTANTS
  Feature,    \* the container of the feature, which owns every provider
  Scopes,     \* request scopes
  Tokens,
  Lifetime,   \* "singleton", "request" or "transient", for each token
  Needs,      \* what a token needs, directly or not
  Failing     \* tokens whose factory or initialize() may fail

Containers == Scopes \cup {Feature}

\* The graph checks of resolution.ts: no cycle, no singleton that needs request
\* state.  A transient that others need is left out.
ASSUME ContainerAssumption ==
  /\ Feature \notin Scopes
  /\ Failing \subseteq Tokens
  /\ Lifetime \in [Tokens -> {"singleton", "request", "transient"}]
  /\ Needs \in [Tokens -> SUBSET Tokens]
  /\ \A t \in Tokens : t \notin Needs[t]
  /\ \A t \in Tokens : \A u \in Needs[t] :
       /\ Needs[u] \subseteq Needs[t]
       /\ Lifetime[u] # "transient"
       /\ Lifetime[t] = "singleton" => Lifetime[u] = "singleton"

\* cacheFor, and for a transient the scope that remembers it.
Home(s, t) == IF Lifetime[t] = "singleton" THEN <<Feature, t>> ELSE <<s, t>>

Instances == { Home(s, t) : s \in Scopes, t \in Tokens }
Cached(i) == Lifetime[i[2]] # "transient"
NeedsOf(i) == { Home(i[1], u) : u \in Needs[i[2]] }
Dependents(i) == { d \in Instances : i \in NeedsOf(d) }

Calls == Scopes \X Tokens  \* resolveAsync of a token in a scope

VARIABLES
  stage,        \* an instance is "none", "building" or "stored"
  broken,       \* builds one of whose dependencies has failed
  order,        \* creationOrder of each container
  initialized,  \* instances whose initialize() has succeeded
  at,           \* the place in order of the initialize() in progress, or 0
  failing,      \* containers whose round of initialization has a failure
  disposing,    \* how far the disposal of each container is
  left,         \* what a disposal has still to dispose, in order
  call,         \* how far each call of resolveAsync is
  created,      \* history: instances ever stored
  gone          \* history: instances disposed

buildVars == <<stage, broken, order, created>>
initVars == <<initialized, at, failing>>
disposeVars == <<disposing, left, gone>>
containerVars == <<buildVars, initVars, disposeVars, call>>

ContainerInit ==
  /\ stage = [i \in Instances |-> "none"]
  /\ broken = {} /\ initialized = {} /\ failing = {} /\ created = {} /\ gone = {}
  /\ order = [c \in Containers |-> <<>>]
  /\ at = [c \in Containers |-> 0]
  /\ disposing = [c \in Containers |-> "no"]
  /\ left = [c \in Containers |-> <<>>]
  /\ call = [k \in Calls |-> "idle"]

Disposed(c) == disposing[c] # "no"

-----------------------------------------------------------------------------
(* resolveAsync: build the instance and what it needs.                     *)

\* The calls for the tokens ts in scope s, made together.  The synchronous part
\* of buildAsync runs down the whole graph: it finds an instance, joins its
\* build or starts one.  A disposed scope or owner refuses.
Resolve(s, ts) ==
  LET wanted == { Home(s, t) : t \in ts } \cup UNION { NeedsOf(Home(s, t)) : t \in ts }
  IN IF Disposed(s) \/ Disposed(Feature)
     THEN /\ call' = [k \in Calls |-> IF k \in {s} \X ts THEN "failed" ELSE call[k]]
          /\ UNCHANGED stage
     ELSE /\ stage' = [i \in Instances |->
                         IF i \in wanted /\ stage[i] = "none" THEN "building" ELSE stage[i]]
          /\ call' = [k \in Calls |->
                        IF k \notin {s} \X ts THEN call[k]
                        ELSE IF stage[Home(s, k[2])] = "stored" THEN "built"
                        ELSE "building"]

\* Every need of a build has settled: it was there, or its build is over.
NeedsSettled(i) == \A n \in NeedsOf(i) : stage[n] # "building"

\* The calls that wait for the build of i.
Answer(i, to) ==
  [k \in Calls |-> IF call[k] = "building" /\ Home(k[1], k[2]) = i THEN to ELSE call[k]]

\* The factory or constructor returns.  Nothing asks whether the container has
\* been disposed in the meantime.
Built(i) ==
  /\ stage[i] = "building"
  /\ i \notin broken /\ NeedsSettled(i)
  /\ stage' = [stage EXCEPT ![i] = "stored"]
  /\ order' = [order EXCEPT ![i[1]] = Append(@, i)]
  /\ created' = created \cup {i}
  /\ call' = Answer(i, "built")
  /\ UNCHANGED <<broken, initVars, disposeVars>>

\* It throws, or a dependency has.  Those that wait for it fail in their turn.
BuildFails(i) ==
  /\ stage[i] = "building"
  /\ i \in broken \/ (i[2] \in Failing /\ NeedsSettled(i))
  /\ NeedsOf(i) \cap broken = {}
  /\ stage' = [stage EXCEPT ![i] = "none"]
  /\ broken' = (broken \ {i}) \cup { d \in Dependents(i) : stage[d] = "building" }
  /\ call' = Answer(i, "failed")
  /\ UNCHANGED <<order, created, initVars, disposeVars>>

-----------------------------------------------------------------------------
(* initialize: one round at a time over creationOrder, which may grow.     *)

ToInitialize(c, done) ==
  { j \in DOMAIN order[c] : order[c][j] \notin done }
Earliest(js) == CHOOSE j \in js : \A k \in js : j <= k

\* A call of c.initialize() by k: refused, joined, or answered at once.
Initialize(c, k, during, after) ==
  LET todo == ToInitialize(c, initialized)
      goes(to) == call' = [call EXCEPT ![k] = to]
  IN CASE Disposed(c) -> goes("failed") /\ UNCHANGED at
       [] ~Disposed(c) /\ at[c] # 0 -> goes(during) /\ UNCHANGED at
       [] ~Disposed(c) /\ at[c] = 0 /\ todo = {} -> goes(after) /\ UNCHANGED at
       [] OTHER -> goes(during) /\ at' = [at EXCEPT ![c] = Earliest(todo)]

\* Mutant: resolveAsync initializes its own container only.
SkipParent(k) ==
  /\ call[k] = "built"
  /\ call' = [call EXCEPT ![k] = "ready"]
  /\ UNCHANGED <<buildVars, initVars, disposeVars>>
InitializeParent(k) ==
  /\ call[k] = "built"
  /\ Initialize(Feature, k, "parent", "ready")
  /\ UNCHANGED <<buildVars, initialized, failing, disposeVars>>

InitializeOwn(k) ==
  /\ call[k] = "ready"
  /\ Initialize(k[1], k, "own", "done")
  /\ UNCHANGED <<buildVars, initialized, failing, disposeVars>>

\* What becomes of the calls that joined the round of c.
AfterRound(c, ok) ==
  [k \in Calls |->
     CASE call[k] = "parent" /\ c = Feature -> IF ok THEN "ready" ELSE "failed"
       [] call[k] = "own" /\ k[1] = c -> IF ok THEN "done" ELSE "failed"
       [] OTHER -> call[k]]

\* The initialize() in progress settles; a failure does not stop the round.
InstanceInitialized(c, ok) ==
  LET i == order[c][at[c]]
      now == IF ok THEN initialized \cup {i} ELSE initialized
      rest == { j \in ToInitialize(c, now) : j > at[c] }
      allOk == ok /\ c \notin failing
  IN /\ at[c] # 0
     /\ ok \/ i[2] \in Failing
     /\ initialized' = now
     /\ IF rest # {}
        THEN /\ at' = [at EXCEPT ![c] = Earliest(rest)]
             /\ failing' = IF ok THEN failing ELSE failing \cup {c}
             /\ UNCHANGED call
        ELSE /\ at' = [at EXCEPT ![c] = 0]
             /\ failing' = failing \ {c}
             /\ call' = AfterRound(c, allOk)
     /\ UNCHANGED <<buildVars, disposeVars>>

-----------------------------------------------------------------------------
(* dispose.                                                                *)

\* What the first dispose() of the containers cs does before it waits.
Dispose(cs) ==
  disposing' = [c \in Containers |->
                  IF c \in cs /\ ~Disposed(c) THEN "waiting" ELSE disposing[c]]

\* The map pending of a container: transients are not in it.
Pending(c) == { i \in Instances : i[1] = c /\ Cached(i) /\ stage[i] = "building" }

\* Mutant: dispose() does not wait for what is being built.
QuietUnlessInitializing(c) == at[c] = 0
\* Nothing can be added to either once the container is disposed.
Quiet(c) == Pending(c) = {} /\ at[c] = 0

\* The loop goes on with rest, or clears the maps.  What has been initialized is
\* not asked again.
DisposeRest(c, rest) ==
  /\ left' = [left EXCEPT ![c] = rest]
  /\ IF rest # <<>>
     THEN /\ disposing' = [disposing EXCEPT ![c] = "disposing"]
          /\ UNCHANGED <<order, stage>>
     ELSE /\ disposing' = [disposing EXCEPT ![c] = "done"]
          /\ order' = [order EXCEPT ![c] = <<>>]
          /\ stage' = [i \in Instances |->
                         IF i[1] = c /\ stage[i] = "stored" THEN "none" ELSE stage[i]]

DisposalBegins(c) ==
  /\ disposing[c] = "waiting" /\ Quiet(c)
  /\ DisposeRest(c, Reverse(order[c]))
  /\ UNCHANGED <<broken, created, initVars, gone, call>>

\* The dispose() of one instance settles; a failure does not stop the others.
InstanceDisposed(c) ==
  /\ disposing[c] = "disposing"
  /\ gone' = gone \cup {Head(left[c])}
  /\ DisposeRest(c, Tail(left[c]))
  /\ UNCHANGED <<broken, created, initVars, call>>

ContainerStep ==
  \/ \E i \in Instances : Built(i) \/ BuildFails(i)
  \/ \E k \in Calls : InitializeParent(k) \/ InitializeOwn(k)
  \/ \E c \in Containers, ok \in BOOLEAN : InstanceInitialized(c, ok)
  \/ \E c \in Containers : DisposalBegins(c) \/ InstanceDisposed(c)

-----------------------------------------------------------------------------
\* What resolveAsync hands out is ready: its initialize() has succeeded, and so
\* has that of everything it needs, in the scope or in the feature, however the
\* rounds of other calls overlapped (container.ts:77).
ResolvedIsInitialized ==
  \A k \in Calls : call[k] = "done" =>
    {Home(k[1], k[2])} \cup NeedsOf(Home(k[1], k[2])) \subseteq initialized

\* An instance is disposed only when no initialize() of its container is in
\* progress, and none begins afterwards (dispose.ts:12).
InitEndsBeforeDisposal ==
  \A c \in Containers : at[c] # 0 => disposing[c] \in {"no", "waiting"}

\* dispose() does not wait for a transient in the making: one finished afterwards
\* is handed to nobody and disposed by nobody.
Held(i) == Cached(i) \/ call[i] = "done"

\* A disposed container has disposed everything it ever created, even what was
\* still being built when dispose() was called; late transients are the exception.
NothingLeaks ==
  \A i \in created : disposing[i[1]] = "done" /\ Held(i) => i \in gone

\* README.md:156: async providers are resolved once, and Starpod "initializes
\* dependent providers in order": nothing is initialized while something it
\* needs still is.
InitializesInOrder ==
  \A c, d \in Containers : at[c] # 0 /\ at[d] # 0 =>
    order[d][at[d]] \notin NeedsOf(order[c][at[c]])
=============================================================================
