------------------------- MODULE RequestScopesProofs -------------------------
(***************************************************************************)
(* What the containers of an application hand out is initialized, and what *)
(* they create is disposed, completely and dependents first, whatever the  *)
(* providers, the scopes and the routes are.                               *)
(*                                                                         *)
(* RoundInv is InitEndsBeforeDisposal with the shape of two variables.     *)
(* LeakInv follows an instance from its build through creationOrder and    *)
(* the list of dispose() until it is gone.  NeedsInv ties what is built to *)
(* what it needs; ReadyInv the calls to the rounds; OrderInv the lists to  *)
(* the needs; StopInv the stop to the requests it finds.                   *)
(***************************************************************************)
EXTENDS RequestScopes, TLAPS, WellFoundedInduction

\* What the proof needs of the types: which containers have a round and a disposal.
Shape ==
  /\ DOMAIN at = Containers
  /\ disposing \in [Containers -> {"no", "waiting", "disposing", "done"}]

RoundInv == Shape /\ InitEndsBeforeDisposal

\* dispose() of a container leaves the rounds alone and goes no further than
\* waiting for them.
LEMMA DisposeKeeps ==
  ASSUME NEW cs, RoundInv, Dispose(cs), UNCHANGED at
  PROVE  RoundInv'
<1>1. Shape'
  BY DEF RoundInv, Shape, Dispose, Disposed
<1>2. InitEndsBeforeDisposal'
  BY DEF RoundInv, Shape, InitEndsBeforeDisposal, Dispose, Disposed
<1> QED
  BY <1>1, <1>2 DEF RoundInv

\* A round begins only in a container that has not been disposed.
LEMMA InitializeKeeps ==
  ASSUME NEW c \in Containers, NEW k, NEW during, NEW after, RoundInv,
         Initialize(c, k, during, after), UNCHANGED disposing
  PROVE  RoundInv'
<1> DEFINE first == Earliest(ToInitialize(c, initialized))
<1>1. at' = at \/ (~Disposed(c) /\ at' = [at EXCEPT ![c] = first])
  BY DEF Initialize
<1>2. CASE at' = at
  BY <1>2 DEF RoundInv, Shape, InitEndsBeforeDisposal
<1>3. CASE ~Disposed(c) /\ at' = [at EXCEPT ![c] = first]
  <2> HIDE DEF first
  <2>1. disposing[c] = "no"
    BY <1>3 DEF Disposed
  <2>2. Shape'
    BY <1>3 DEF RoundInv, Shape
  <2>3. InitEndsBeforeDisposal'
    BY <1>3, <2>1 DEF RoundInv, Shape, InitEndsBeforeDisposal
  <2> QED
    BY <2>2, <2>3 DEF RoundInv
<1> QED
  BY <1>1, <1>2, <1>3

\* The loop over the instances runs in a container without a round.
LEMMA DisposeRestKeeps ==
  ASSUME NEW c \in Containers, NEW rest, RoundInv, at[c] = 0,
         DisposeRest(c, rest), UNCHANGED at
  PROVE  RoundInv'
<1>1. \E to \in {"disposing", "done"} : disposing' = [disposing EXCEPT ![c] = to]
  BY DEF DisposeRest
<1>2. PICK to \in {"disposing", "done"} : disposing' = [disposing EXCEPT ![c] = to]
  BY <1>1
<1>3. Shape'
  BY <1>2 DEF RoundInv, Shape
<1>4. InitEndsBeforeDisposal'
  BY <1>2 DEF RoundInv, Shape, InitEndsBeforeDisposal
<1> QED
  BY <1>3, <1>4 DEF RoundInv

\* Every step of the containers by themselves keeps the invariant.
LEMMA ContainerKeeps ==
  ASSUME RoundInv, ContainerStep
  PROVE  RoundInv'
<1>1. ASSUME NEW i \in Instances, Built(i) \/ BuildFails(i)
      PROVE  RoundInv'
  BY <1>1 DEF Built, BuildFails, initVars, disposeVars, RoundInv, Shape,
              InitEndsBeforeDisposal
<1>2. ASSUME NEW k \in Calls, InitializeParent(k)
      PROVE  RoundInv'
  <2>1. Feature \in Containers
    BY DEF Containers
  <2> QED
    BY <1>2, <2>1, InitializeKeeps DEF InitializeParent, disposeVars
<1>3. ASSUME NEW k \in Calls, InitializeOwn(k)
      PROVE  RoundInv'
  <2>1. k[1] \in Containers
    BY DEF Calls, Containers
  <2> QED
    BY <1>3, <2>1, InitializeKeeps DEF InitializeOwn, disposeVars
<1>4. ASSUME NEW c \in Containers, NEW ok \in BOOLEAN, InstanceInitialized(c, ok)
      PROVE  RoundInv'
  <2>1. at[c] # 0 /\ UNCHANGED disposing
    BY <1>4 DEF InstanceInitialized, disposeVars
  <2>2. \E j : at' = [at EXCEPT ![c] = j]
    BY <1>4 DEF InstanceInitialized
  <2>3. PICK j : at' = [at EXCEPT ![c] = j]
    BY <2>2
  <2>4. Shape'
    BY <2>1, <2>3 DEF RoundInv, Shape
  <2>5. InitEndsBeforeDisposal'
    BY <2>1, <2>3 DEF RoundInv, Shape, InitEndsBeforeDisposal
  <2> QED
    BY <2>4, <2>5 DEF RoundInv
<1>5. ASSUME NEW c \in Containers, DisposalBegins(c)
      PROVE  RoundInv'
  <2>1. at[c] = 0 /\ DisposeRest(c, Reverse(order[c])) /\ UNCHANGED at
    BY <1>5 DEF DisposalBegins, Quiet, initVars
  <2> QED
    BY <2>1, DisposeRestKeeps
<1>6. ASSUME NEW c \in Containers, InstanceDisposed(c)
      PROVE  RoundInv'
  <2>1. disposing[c] = "disposing" /\ DisposeRest(c, Tail(left[c])) /\ UNCHANGED at
    BY <1>6 DEF InstanceDisposed, initVars
  <2>2. at[c] = 0
    BY <2>1 DEF RoundInv, InitEndsBeforeDisposal
  <2> QED
    BY <2>1, <2>2, DisposeRestKeeps
<1> QED
  BY <1>1, <1>2, <1>3, <1>4, <1>5, <1>6 DEF ContainerStep

\* Every step of the application keeps the invariant.
LEMMA StepKeeps ==
  ASSUME RoundInv, [Next]_vars
  PROVE  RoundInv'
<1>1. ASSUME NEW r \in Scopes, Begin(r)
      PROVE  RoundInv'
  BY <1>1 DEF Begin, initVars, disposeVars, RoundInv, Shape, InitEndsBeforeDisposal
<1>2. ASSUME NEW r \in Scopes, Handle(r) \/ Respond(r)
      PROVE  RoundInv'
  BY <1>2 DEF Handle, Respond, containerVars, initVars, disposeVars, RoundInv, Shape,
              InitEndsBeforeDisposal
<1>3. ASSUME NEW r \in Scopes, ResolutionFails(r) \/ HandlerEnds(r)
      PROVE  RoundInv'
  <2>1. Dispose({r}) /\ UNCHANGED at
    BY <1>3 DEF ResolutionFails, HandlerEnds, DisposeScope, initVars
  <2> QED
    BY <2>1, DisposeKeeps
<1>4. ASSUME NEW r \in Scopes, StopScope(r)
      PROVE  RoundInv'
  <2>1. Dispose({r}) /\ UNCHANGED at
    BY <1>4 DEF StopScope, initVars
  <2> QED
    BY <2>1, DisposeKeeps
<1>5. CASE StopFeature
  <2>1. Dispose({Feature}) /\ UNCHANGED at
    BY <1>5 DEF StopFeature, initVars
  <2> QED
    BY <2>1, DisposeKeeps
<1>6. CASE Stop \/ Stopped \/ UNCHANGED vars
  BY <1>6 DEF Stop, Stopped, vars, containerVars, initVars, disposeVars, RoundInv, Shape,
              InitEndsBeforeDisposal
<1>7. CASE ContainerStep
  BY <1>7, ContainerKeeps
<1> QED
  BY <1>1, <1>2, <1>3, <1>4, <1>5, <1>6, <1>7 DEF Next, Proceed

\* No instance is disposed while an initialize() of its container is in progress,
\* and none begins once the first has been disposed (dispose.ts:12).
THEOREM InitializationEndsFirst == Spec => []InitEndsBeforeDisposal
<1>1. Init => RoundInv
  BY DEF Init, ContainerInit, RoundInv, Shape, InitEndsBeforeDisposal
<1>2. RoundInv /\ [Next]_vars => RoundInv'
  BY StepKeeps
<1>3. RoundInv => InitEndsBeforeDisposal
  BY DEF RoundInv
<1> QED
  BY <1>1, <1>2, <1>3, PTL DEF Spec
-----------------------------------------------------------------------------
(* Nothing leaks.                                                          *)

\* A reversed sequence has the same elements; Append adds one, Head and Tail share
\* them out.
LEMMA RangeFacts ==
  ASSUME NEW S, NEW s \in Seq(S)
  PROVE  /\ Range(Reverse(s)) = Range(s)
         /\ \A x \in S : Range(Append(s, x)) = Range(s) \cup {x}
         /\ s # <<>> => Range(s) = {Head(s)} \cup Range(Tail(s))
<1>1. Range(Reverse(s)) = Range(s)
  <2>1. \A n \in 1..Len(s) : Len(s) - n + 1 \in 1..Len(s)
    OBVIOUS
  <2>2. DOMAIN Reverse(s) = 1..Len(s)
    BY DEF Reverse
  <2>3. \A n \in 1..Len(s) : Reverse(s)[n] = s[Len(s) - n + 1]
    BY DEF Reverse
  <2>4. \A n \in 1..Len(s) : s[n] = Reverse(s)[Len(s) - n + 1]
    BY <2>1 DEF Reverse
  <2>5. DOMAIN s = 1..Len(s)
    OBVIOUS
  <2> QED
    BY <2>1, <2>2, <2>3, <2>4, <2>5 DEF Range
<1>2. ASSUME NEW x \in S
      PROVE  Range(Append(s, x)) = Range(s) \cup {x}
  <2>1. DOMAIN Append(s, x) = 1..Len(s) + 1 /\ DOMAIN s = 1..Len(s)
    OBVIOUS
  <2>2. /\ \A n \in 1..Len(s) : Append(s, x)[n] = s[n]
        /\ Append(s, x)[Len(s) + 1] = x
    OBVIOUS
  <2> QED
    BY <2>1, <2>2 DEF Range
<1>3. ASSUME s # <<>>
      PROVE  Range(s) = {Head(s)} \cup Range(Tail(s))
  <2> DEFINE t == Tail(s)
  <2>1. DOMAIN t = 1..Len(s) - 1 /\ DOMAIN s = 1..Len(s) /\ Len(s) \in Nat /\ Len(s) >= 1
    BY <1>3
  <2>2. Head(s) = s[1] /\ \A n \in 1..Len(s) - 1 : t[n] = s[n + 1]
    BY <1>3
  <2> HIDE DEF t
  <2>3. ASSUME NEW n \in DOMAIN s
        PROVE  s[n] \in {Head(s)} \cup Range(t)
    <3>1. CASE n = 1
      BY <3>1, <2>2
    <3>2. CASE n # 1
      <4>1. n - 1 \in DOMAIN t /\ s[n] = t[n - 1]
        BY <3>2, <2>1, <2>2
      <4> QED
        BY <4>1 DEF Range
    <3> QED
      BY <3>1, <3>2
  <2>4. ASSUME NEW n \in DOMAIN t
        PROVE  t[n] \in Range(s)
    <3>1. n + 1 \in DOMAIN s /\ t[n] = s[n + 1]
      BY <2>1, <2>2
    <3> QED
      BY <3>1 DEF Range
  <2>5. Head(s) \in Range(s)
    BY <2>1, <2>2 DEF Range
  <2> QED
    BY <2>3, <2>4, <2>5 DEF Range, t
<1> QED
  BY <1>1, <1>2, <1>3
LeakTypes ==
  /\ stage \in [Instances -> {"none", "building", "stored"}]
  /\ DOMAIN call = Calls
  /\ order \in [Containers -> Seq(Instances)]
  /\ left \in [Containers -> Seq(Instances)]
  /\ created \subseteq Instances

Open(c) == disposing[c] \in {"no", "waiting"}

\* Until the loop of dispose() takes its list, the list has everything.
OrderKeeps == \A i \in created : Open(i[1]) => i \in Range(order[i[1]])

\* Then what is not gone is still ahead of the loop.
LeftKeeps ==
  \A i \in created : (disposing[i[1]] = "disposing" /\ Held(i)) =>
    i \in gone \cup Range(left[i[1]])

LoopRuns == \A c \in Containers : disposing[c] = "disposing" => left[c] # <<>>

\* The loop begins when no cached instance of the container is in the making.
BuildsAwaited ==
  \A i \in Instances : (Cached(i) /\ stage[i] = "building") => Open(i[1])

\* A transient in the making has been handed to nobody.
LateUnanswered ==
  \A i \in Instances :
    (~Cached(i) /\ stage[i] = "building") => call[i] \in {"building", "failed"}

LeakInv ==
  /\ LeakTypes
  /\ OrderKeeps
  /\ LeftKeeps
  /\ LoopRuns
  /\ BuildsAwaited
  /\ LateUnanswered
  /\ NothingLeaks

leakVars == <<stage, call, order, left, created, gone, disposing>>

\* Where instances live, and how an instance that is not cached names its call.
LEMMA Homes ==
  /\ \A i \in Instances : i[1] \in Containers
  /\ \A i \in Instances : ~Cached(i) => i \in Calls
  /\ \A x, u : Home(x, u)[1] \in {x, Feature} /\ Home(x, u)[2] = u
  /\ \A x, u : ~Cached(Home(x, u)) => Home(x, u) = <<x, u>>
<1>1. \A x, u : Home(x, u)[1] \in {x, Feature} /\ Home(x, u)[2] = u
  BY DEF Home
<1>2. \A x, u : ~Cached(Home(x, u)) => Home(x, u) = <<x, u>>
  BY <1>1 DEF Home, Cached
<1>3. \A i \in Instances : i[1] \in Containers
  BY <1>1 DEF Instances, Containers
<1>4. \A i \in Instances : ~Cached(i) => i \in Calls
  BY <1>2 DEF Instances, Calls
<1> QED
  BY <1>1, <1>2, <1>3, <1>4

LEMMA LeakUnchanged ==
  ASSUME LeakInv, UNCHANGED leakVars
  PROVE  LeakInv'
BY DEF leakVars, LeakInv, LeakTypes, OrderKeeps, LeftKeeps, LoopRuns, BuildsAwaited,
       LateUnanswered, NothingLeaks, Open, Held

LEMMA LeakDispose ==
  ASSUME NEW cs, RoundInv, LeakInv, Dispose(cs),
         UNCHANGED <<stage, call, order, left, created, gone>>
  PROVE  LeakInv'
<1>1. \A c \in Containers :
        \/ disposing'[c] = disposing[c]
        \/ disposing[c] = "no" /\ disposing'[c] = "waiting"
  BY DEF RoundInv, Shape, Dispose, Disposed
<1>2. \A i \in Instances : Held(i)' <=> Held(i)
  BY DEF Held
<1>3. LeakTypes' /\ LoopRuns' /\ LateUnanswered'
  BY <1>1 DEF LeakInv, LeakTypes, LoopRuns, LateUnanswered
<1>4. OrderKeeps' /\ BuildsAwaited'
  BY <1>1, Homes DEF LeakInv, LeakTypes, OrderKeeps, BuildsAwaited, Open
<1>5. LeftKeeps' /\ NothingLeaks'
  BY <1>1, <1>2, Homes DEF LeakInv, LeakTypes, LeftKeeps, NothingLeaks
<1> QED
  BY <1>3, <1>4, <1>5 DEF LeakInv

LEMMA LeakResolve ==
  ASSUME NEW s \in Scopes, NEW ts \in SUBSET Tokens, RoundInv, LeakInv, Resolve(s, ts),
         UNCHANGED <<order, left, created, gone, disposing>>
  PROVE  LeakInv'
<1> DEFINE wanted == { Home(s, t) : t \in ts } \cup UNION { NeedsOf(Home(s, t)) : t \in ts }
<1>1. \A k \in Calls : call'[k] = "done" => call[k] = "done"
  BY DEF Resolve, LeakInv, LeakTypes
<1>2. DOMAIN call' = Calls /\ stage' \in [Instances -> {"none", "building", "stored"}]
  BY DEF Resolve, LeakInv, LeakTypes
<1>3. \A i \in Instances : Held(i)' => Held(i)
  BY <1>1, Homes DEF Held
<1>4. ASSUME NEW i \in Instances, stage[i] # "building", stage'[i] = "building"
      PROVE  ~Disposed(s) /\ ~Disposed(Feature) /\ i \in wanted
  BY <1>4 DEF Resolve
<1>5. \A i \in wanted : i[1] \in {s, Feature}
  <2>1. \A t \in ts : Home(s, t)[1] \in {s, Feature}
    BY Homes
  <2>2. ASSUME NEW t \in ts, NEW i \in NeedsOf(Home(s, t))
        PROVE  i[1] \in {s, Feature}
    BY <2>1, Homes DEF NeedsOf
  <2> QED
    BY <2>1, <2>2
<1>6. \A i \in wanted : ~Cached(i) => i \in {s} \X ts
  <2>1. ASSUME NEW t \in ts, ~Cached(Home(s, t))
        PROVE  Home(s, t) \in {s} \X ts
    BY <2>1, Homes
  <2>2. ASSUME NEW t \in ts, NEW i \in NeedsOf(Home(s, t))
        PROVE  Cached(i)
    <3>1. Home(s, t)[2] = t
      BY Homes
    <3>2. PICK u \in Needs[t] : i = Home(Home(s, t)[1], u)
      BY <3>1 DEF NeedsOf
    <3>3. i[2] = u
      BY <3>2, Homes
    <3>4. Lifetime[u] # "transient"
      BY ContainerAssumption DEF ContainerAssumption
    <3> QED
      BY <3>3, <3>4 DEF Cached
  <2> QED
    BY <2>1, <2>2
<1> HIDE DEF wanted
<1>7. LeakTypes' /\ LoopRuns' /\ OrderKeeps'
  BY <1>2 DEF LeakInv, LeakTypes, LoopRuns, OrderKeeps, Open
<1>8. LeftKeeps' /\ NothingLeaks'
  BY <1>3 DEF LeakInv, LeakTypes, LeftKeeps, NothingLeaks
<1>9. BuildsAwaited'
  <2> SUFFICES ASSUME NEW i \in Instances, Cached(i), stage'[i] = "building"
               PROVE  Open(i[1])'
    BY DEF BuildsAwaited, Cached
  <2>1. CASE stage[i] = "building"
    BY <2>1 DEF LeakInv, BuildsAwaited, Open
  <2>2. CASE stage[i] # "building"
    BY <2>2, <1>4, <1>5 DEF Disposed, Open
  <2> QED
    BY <2>1, <2>2
<1>10. LateUnanswered'
  <2> SUFFICES ASSUME NEW i \in Instances, ~Cached(i), stage'[i] = "building"
               PROVE  call'[i] \in {"building", "failed"}
    BY DEF LateUnanswered, Cached
  <2>1. i \in Calls
    BY Homes
  <2>2. Home(i[1], i[2]) = i
    BY <2>1 DEF Calls, Home, Cached
  <2>3. CASE stage[i] = "building"
    <3>1. call[i] \in {"building", "failed"}
      BY <2>3 DEF LeakInv, LateUnanswered
    <3>2. i \in {s} \X ts => Home(s, i[2]) = i
      BY <2>2
    <3>3. ~(i \in {s} \X ts /\ stage[Home(s, i[2])] = "stored")
      BY <2>3, <3>2
    <3>4. call'[i] \in {call[i], "failed", "building"}
      BY <2>1, <3>3 DEF Resolve
    <3> QED
      BY <3>1, <3>4
  <2>4. CASE stage[i] # "building"
    <3>1. ~Disposed(s) /\ ~Disposed(Feature) /\ i \in {s} \X ts
      BY <2>4, <1>4, <1>6
    <3>2. stage[i] # "stored"
      BY <2>4, <3>1 DEF Resolve
    <3>3. Home(s, i[2]) = i
      BY <2>2, <3>1
    <3> QED
      BY <2>1, <3>1, <3>2, <3>3 DEF Resolve
  <2> QED
    BY <2>3, <2>4
<1> QED
  BY <1>7, <1>8, <1>9, <1>10 DEF LeakInv

LEMMA LeakContainer ==
  ASSUME RoundInv, LeakInv, ContainerStep
  PROVE  LeakInv'
<1>1. ASSUME NEW i \in Instances, Built(i)
      PROVE  LeakInv'
  <2> DEFINE c == i[1]
  <2>1. /\ stage[i] = "building"
        /\ stage' = [stage EXCEPT ![i] = "stored"]
        /\ order' = [order EXCEPT ![c] = Append(@, i)]
        /\ created' = created \cup {i}
        /\ UNCHANGED <<left, gone, disposing>>
    BY <1>1 DEF Built, disposeVars
  <2>2. /\ DOMAIN call' = Calls
        /\ \A k \in Calls : call'[k] \in {call[k], "built"}
    BY <1>1 DEF Built, Answer
  <2>3. c \in Containers /\ order[c] \in Seq(Instances)
    BY Homes DEF LeakInv, LeakTypes
  <2>4. Range(Append(order[c], i)) = Range(order[c]) \cup {i}
    BY <2>3, RangeFacts
  <2>5. \A j \in Instances : Held(j)' => Held(j)
    BY <2>2, Homes DEF Held
  <2>6. Held(i) => Open(c)
    BY <2>1 DEF Held, LeakInv, BuildsAwaited, LateUnanswered
  <2>7. LeakTypes'
    BY <2>1, <2>2, <2>3 DEF LeakInv, LeakTypes
  <2>8. OrderKeeps'
    <3> SUFFICES ASSUME NEW j \in created', Open(j[1])
                 PROVE  j \in Range(order'[j[1]])
      BY <2>1 DEF OrderKeeps, Open
    <3>1. CASE j = i
      BY <3>1, <2>1, <2>3, <2>4 DEF LeakInv, LeakTypes
    <3>2. CASE j # i
      <4>1. j \in Range(order[j[1]])
        BY <3>2, <2>1 DEF LeakInv, OrderKeeps
      <4> QED
        BY <4>1, <2>1, <2>3, <2>4 DEF LeakInv, LeakTypes
    <3> QED
      BY <3>1, <3>2
  <2>9. LeftKeeps' /\ NothingLeaks'
    BY <2>1, <2>5, <2>6 DEF LeakInv, LeakTypes, LeftKeeps, NothingLeaks, Open
  <2>10. LoopRuns' /\ BuildsAwaited'
    BY <2>1 DEF LeakInv, LeakTypes, LoopRuns, BuildsAwaited, Open
  <2>11. LateUnanswered'
    <3> SUFFICES ASSUME NEW j \in Instances, ~Cached(j), stage'[j] = "building"
                 PROVE  call'[j] \in {"building", "failed"}
      BY DEF LateUnanswered, Cached
    <3>1. j # i /\ stage[j] = "building" /\ j \in Calls
      BY <2>1, Homes DEF LeakInv, LeakTypes
    <3>2. Home(j[1], j[2]) = j
      BY <3>1 DEF Calls, Home, Cached
    <3>3. call'[j] = call[j]
      BY <3>1, <3>2, <1>1 DEF Built, Answer
    <3> QED
      BY <3>1, <3>3 DEF LeakInv, LateUnanswered
  <2> QED
    BY <2>7, <2>8, <2>9, <2>10, <2>11 DEF LeakInv
<1>2. ASSUME NEW i \in Instances, BuildFails(i)
      PROVE  LeakInv'
  <2>1. /\ stage' = [stage EXCEPT ![i] = "none"]
        /\ UNCHANGED <<order, created, left, gone, disposing>>
    BY <1>2 DEF BuildFails, disposeVars
  <2>2. /\ DOMAIN call' = Calls
        /\ \A k \in Calls : call'[k] \in {call[k], "failed"}
    BY <1>2 DEF BuildFails, Answer
  <2>3. \A j \in Instances : Held(j)' => Held(j)
    BY <2>2, Homes DEF Held
  <2>4. \A j \in Instances : stage'[j] = "building" => stage[j] = "building"
    BY <2>1 DEF LeakInv, LeakTypes
  <2>5. LeakTypes' /\ OrderKeeps' /\ LoopRuns'
    BY <2>1, <2>2 DEF LeakInv, LeakTypes, OrderKeeps, LoopRuns, Open
  <2>6. LeftKeeps' /\ NothingLeaks'
    BY <2>1, <2>3 DEF LeakInv, LeakTypes, LeftKeeps, NothingLeaks
  <2>7. BuildsAwaited'
    BY <2>1, <2>4 DEF LeakInv, BuildsAwaited, Open
  <2>8. LateUnanswered'
    BY <2>2, <2>4, Homes DEF LeakInv, LateUnanswered, Cached
  <2> QED
    BY <2>5, <2>6, <2>7, <2>8 DEF LeakInv
<1>3. ASSUME DOMAIN call' = Calls,
             UNCHANGED <<stage, order, left, created, gone, disposing>>,
             \A j \in Calls : call'[j] # call[j] =>
               /\ call[j] \notin {"building", "failed"}
               /\ call'[j] = "done" => Open(j[1])
      PROVE  LeakInv'
  <2>1. \A i \in Instances : (Held(i)' /\ ~Held(i)) => Open(i[1])
    BY <1>3, Homes DEF Held
  <2>2. LeakTypes' /\ OrderKeeps' /\ LoopRuns' /\ BuildsAwaited'
    BY <1>3 DEF LeakInv, LeakTypes, OrderKeeps, LoopRuns, BuildsAwaited, Open
  <2>3. LeftKeeps' /\ NothingLeaks'
    BY <1>3, <2>1 DEF LeakInv, LeakTypes, LeftKeeps, NothingLeaks, Open
  <2>4. LateUnanswered'
    BY <1>3, Homes DEF LeakInv, LateUnanswered, Cached
  <2> QED
    BY <2>2, <2>3, <2>4 DEF LeakInv
<1>4. ASSUME NEW k \in Calls, InitializeParent(k)
      PROVE  LeakInv'
  <2>1. /\ call[k] = "built"
        /\ UNCHANGED <<stage, order, left, created, gone, disposing>>
        /\ \E to : to # "done" /\ call' = [call EXCEPT ![k] = to]
    BY <1>4 DEF InitializeParent, Initialize, buildVars, disposeVars
  <2> QED
    BY <2>1, <1>3 DEF LeakInv, LeakTypes
<1>5. ASSUME NEW k \in Calls, InitializeOwn(k)
      PROVE  LeakInv'
  <2>1. /\ call[k] = "ready"
        /\ UNCHANGED <<stage, order, left, created, gone, disposing>>
    BY <1>5 DEF InitializeOwn, buildVars, disposeVars
  <2>2. \E to : (to = "done" => ~Disposed(k[1])) /\ call' = [call EXCEPT ![k] = to]
    BY <1>5 DEF InitializeOwn, Initialize
  <2> QED
    BY <2>1, <2>2, <1>3 DEF LeakInv, LeakTypes, Disposed, Open
<1>6. ASSUME NEW c \in Containers, NEW ok \in BOOLEAN, InstanceInitialized(c, ok)
      PROVE  LeakInv'
  <2>1. /\ at[c] # 0
        /\ UNCHANGED <<stage, order, left, created, gone, disposing>>
        /\ call' = call \/ \E b \in BOOLEAN : call' = AfterRound(c, b)
    BY <1>6 DEF InstanceInitialized, buildVars, disposeVars
  <2>2. Open(c)
    BY <2>1 DEF RoundInv, InitEndsBeforeDisposal, Open
  <2>3. CASE call' = call
    BY <2>1, <2>3, LeakUnchanged DEF leakVars
  <2>4. ASSUME NEW b \in BOOLEAN, call' = AfterRound(c, b)
        PROVE  LeakInv'
    <3>1. /\ DOMAIN call' = Calls
          /\ \A j \in Calls : call'[j] # call[j] =>
               /\ call[j] \notin {"building", "failed"}
               /\ call'[j] = "done" => j[1] = c
      BY <2>4 DEF AfterRound
    <3> QED
      BY <2>1, <2>2, <3>1, <1>3
  <2> QED
    BY <2>1, <2>3, <2>4
<1>7. ASSUME NEW c \in Containers, NEW rest \in Seq(Instances), ~Open(c)',
             DisposeRest(c, rest), UNCHANGED <<call, created>>,
             \A i \in Instances : (Cached(i) /\ stage[i] = "building") => i[1] # c,
             \A i \in created : (i[1] = c /\ Held(i)) => i \in gone' \cup Range(rest),
             gone \subseteq gone'
      PROVE  LeakInv'
  <2>1. \E to \in {"disposing", "done"} :
          /\ disposing' = [disposing EXCEPT ![c] = to]
          /\ to = "disposing" <=> rest # <<>>
    BY <1>7 DEF DisposeRest
  <2>2. PICK to \in {"disposing", "done"} :
          /\ disposing' = [disposing EXCEPT ![c] = to]
          /\ to = "disposing" <=> rest # <<>>
    BY <2>1
  <2>3. /\ left' = [left EXCEPT ![c] = rest]
        /\ order' = order \/ order' = [order EXCEPT ![c] = <<>>]
    BY <1>7 DEF DisposeRest
  <2>4. /\ stage' \in [Instances -> {"none", "building", "stored"}]
        /\ \A i \in Instances : stage'[i] = "building" => stage[i] = "building"
    BY <1>7 DEF DisposeRest, LeakInv, LeakTypes
  <2>5. \A i \in Instances : Held(i)' <=> Held(i)
    BY <1>7 DEF Held
  <2>6. disposing'[c] = to /\ \A d \in Containers : d # c => disposing'[d] = disposing[d]
    BY <2>2 DEF RoundInv, Shape
  <2>7. LeakTypes'
    <3>1. left' \in [Containers -> Seq(Instances)]
      BY <1>7, <2>3 DEF LeakInv, LeakTypes
    <3>2. order' \in [Containers -> Seq(Instances)]
      <4>1. <<>> \in Seq(Instances) /\ order \in [Containers -> Seq(Instances)]
        BY DEF LeakInv, LeakTypes
      <4> QED
        BY <4>1, <2>3
    <3> QED
      BY <1>7, <2>4, <3>1, <3>2 DEF LeakInv, LeakTypes
  <2>8. OrderKeeps'
    BY <1>7, <2>3, <2>6, Homes DEF LeakInv, LeakTypes, OrderKeeps, Open
  <2>9. LeftKeeps'
    BY <1>7, <2>3, <2>5, <2>6, Homes DEF LeakInv, LeakTypes, LeftKeeps
  <2>10. LoopRuns'
    BY <2>2, <2>3, <2>6 DEF LeakInv, LeakTypes, LoopRuns
  <2>11. BuildsAwaited'
    BY <1>7, <2>4, <2>6, Homes DEF LeakInv, BuildsAwaited, Open, Cached
  <2>12. LateUnanswered'
    BY <1>7, <2>4 DEF LeakInv, LateUnanswered, Cached
  <2>13. NothingLeaks'
    <3> SUFFICES ASSUME NEW i \in created, disposing'[i[1]] = "done", Held(i)
                 PROVE  i \in gone'
      BY <1>7, <2>5 DEF NothingLeaks, LeakInv, LeakTypes
    <3>1. CASE i[1] = c
      <4>1. rest = <<>>
        BY <3>1, <2>2, <2>6
      <4>2. Range(rest) = {}
        BY <4>1 DEF Range
      <4> QED
        BY <3>1, <4>2, <1>7
    <3>2. CASE i[1] # c
      BY <3>2, <2>6, <1>7, Homes DEF LeakInv, LeakTypes, NothingLeaks
    <3> QED
      BY <3>1, <3>2
  <2> QED
    BY <2>7, <2>8, <2>9, <2>10, <2>11, <2>12, <2>13 DEF LeakInv
<1>8. ASSUME NEW c \in Containers, DisposalBegins(c)
      PROVE  LeakInv'
  <2> DEFINE rest == Reverse(order[c])
  <2>1. /\ disposing[c] = "waiting" /\ Pending(c) = {}
        /\ DisposeRest(c, rest)
        /\ UNCHANGED <<call, created, gone>>
    BY <1>8 DEF DisposalBegins, Quiet
  <2>2. rest \in Seq(Instances) /\ Range(rest) = Range(order[c])
    <3>1. order[c] \in Seq(Instances)
      BY DEF LeakInv, LeakTypes
    <3>2. rest \in Seq(Instances)
      BY <3>1 DEF Reverse
    <3> QED
      BY <3>1, <3>2, RangeFacts
  <2>3. \A i \in Instances : (Cached(i) /\ stage[i] = "building") => i[1] # c
    BY <2>1 DEF Pending
  <2>4. \A i \in created : i[1] = c => i \in Range(rest)
    BY <2>1, <2>2 DEF LeakInv, OrderKeeps, Open
  <2> HIDE DEF rest
  <2>5. ~Open(c)'
    BY <2>1 DEF DisposeRest, RoundInv, Shape, Open
  <2> QED
    BY <2>1, <2>2, <2>3, <2>4, <2>5, <1>7
<1>9. ASSUME NEW c \in Containers, InstanceDisposed(c)
      PROVE  LeakInv'
  <2> DEFINE rest == Tail(left[c])
  <2>1. /\ disposing[c] = "disposing"
        /\ gone' = gone \cup {Head(left[c])}
        /\ DisposeRest(c, rest)
        /\ UNCHANGED <<call, created>>
    BY <1>9 DEF InstanceDisposed
  <2>2. left[c] \in Seq(Instances) /\ left[c] # <<>>
    BY <2>1 DEF LeakInv, LeakTypes, LoopRuns
  <2>3. rest \in Seq(Instances) /\ Range(left[c]) = {Head(left[c])} \cup Range(rest)
    BY <2>2, RangeFacts
  <2>4. \A i \in Instances : (Cached(i) /\ stage[i] = "building") => i[1] # c
    BY <2>1 DEF LeakInv, BuildsAwaited, Open
  <2>5. \A i \in created : (i[1] = c /\ Held(i)) => i \in gone' \cup Range(rest)
    BY <2>1, <2>3 DEF LeakInv, LeftKeeps
  <2> HIDE DEF rest
  <2>6. ~Open(c)'
    BY <2>1 DEF DisposeRest, RoundInv, Shape, Open
  <2> QED
    BY <2>1, <2>3, <2>4, <2>5, <2>6, <1>7
<1> QED
  BY <1>1, <1>2, <1>4, <1>5, <1>6, <1>8, <1>9 DEF ContainerStep

LEMMA LeakStep ==
  ASSUME RoundInv, LeakInv, [Next]_vars
  PROVE  LeakInv'
<1>1. ASSUME NEW r \in Scopes, Begin(r)
      PROVE  LeakInv'
  <2>1. Wants[r] \in SUBSET Tokens
    BY WantsAssumption DEF WantsAssumption
  <2>2. Resolve(r, Wants[r]) /\ UNCHANGED <<order, left, created, gone, disposing>>
    BY <1>1 DEF Begin, disposeVars
  <2> QED
    BY <2>1, <2>2, LeakResolve
<1>2. ASSUME NEW r \in Scopes, Handle(r) \/ Respond(r)
      PROVE  LeakInv'
  BY <1>2, LeakUnchanged DEF Handle, Respond, containerVars, buildVars, disposeVars, leakVars
<1>3. ASSUME NEW r \in Scopes, ResolutionFails(r) \/ HandlerEnds(r)
      PROVE  LeakInv'
  <2>1. Dispose({r}) /\ UNCHANGED <<stage, call, order, left, created, gone>>
    BY <1>3 DEF ResolutionFails, HandlerEnds, DisposeScope, buildVars
  <2> QED
    BY <2>1, LeakDispose
<1>4. ASSUME NEW r \in Scopes, StopScope(r)
      PROVE  LeakInv'
  <2>1. Dispose({r}) /\ UNCHANGED <<stage, call, order, left, created, gone>>
    BY <1>4 DEF StopScope, buildVars
  <2> QED
    BY <2>1, LeakDispose
<1>5. CASE StopFeature
  <2>1. Dispose({Feature}) /\ UNCHANGED <<stage, call, order, left, created, gone>>
    BY <1>5 DEF StopFeature, buildVars
  <2> QED
    BY <2>1, LeakDispose
<1>6. CASE Stop \/ Stopped \/ UNCHANGED vars
  BY <1>6, LeakUnchanged DEF Stop, Stopped, vars, containerVars, buildVars, disposeVars,
                             leakVars
<1>7. CASE ContainerStep
  BY <1>7, LeakContainer
<1> QED
  BY <1>1, <1>2, <1>3, <1>4, <1>5, <1>6, <1>7 DEF Next, Proceed

\* A container that has been disposed has disposed everything created in it, also
\* what was still being built when dispose() was called (dispose.ts:11).
THEOREM DisposalIsComplete == Spec => []NothingLeaks
<1>1. Init => RoundInv
  BY DEF Init, ContainerInit, RoundInv, Shape, InitEndsBeforeDisposal
<1>2. Init => LeakInv
  BY DEF Init, ContainerInit, LeakInv, LeakTypes, OrderKeeps, LeftKeeps, LoopRuns,
         BuildsAwaited, LateUnanswered, NothingLeaks, Instances, Calls, Containers
<1>3. RoundInv /\ LeakInv /\ [Next]_vars => RoundInv' /\ LeakInv'
  BY StepKeeps, LeakStep
<1>4. LeakInv => NothingLeaks
  BY DEF LeakInv
<1> QED
  BY <1>1, <1>2, <1>3, <1>4, PTL DEF Spec
-----------------------------------------------------------------------------
(* What is built has what it needs.                                        *)

StoredIsCreated == \A i \in Instances : stage[i] = "stored" => i \in created

CreatedIsStored == \A i \in created : Open(i[1]) => stage[i] = "stored"

CreatedHasNeeds == \A d \in created : NeedsOf(d) \subseteq created

\* A build that is not to fail waits for nothing that has failed.
BuildHasNeeds ==
  \A d \in Instances : stage[d] = "building" /\ d \notin broken =>
    \A n \in NeedsOf(d) : n \in created \/ stage[n] = "building"

NeedsInv == StoredIsCreated /\ CreatedIsStored /\ CreatedHasNeeds /\ BuildHasNeeds

\* Needs are instances, in the same container or in the feature, and cached; what
\* a need needs is needed too.
LEMMA NeedsFacts ==
  ASSUME NEW i \in Instances, NEW n \in NeedsOf(i)
  PROVE  /\ n \in Instances /\ n # i /\ Cached(n)
         /\ n[1] \in {i[1], Feature}
         /\ NeedsOf(n) \subseteq NeedsOf(i)
<1>1. PICK s \in Scopes, t \in Tokens : i = Home(s, t)
  BY DEF Instances
<1>2. i[2] = t /\ i[1] \in {s, Feature}
  BY <1>1, Homes
<1>3. PICK u \in Needs[t] : n = Home(i[1], u)
  BY <1>2 DEF NeedsOf
<1>4. /\ u \in Tokens /\ u # t /\ Needs[u] \subseteq Needs[t] /\ Lifetime[u] # "transient"
      /\ Lifetime[t] = "singleton" => Lifetime[u] = "singleton"
  BY ContainerAssumption DEF ContainerAssumption
<1>5. n[2] = u /\ n[1] \in {i[1], Feature}
  BY <1>3, Homes
<1>6. n = Home(s, u)
  <2>1. CASE Lifetime[u] = "singleton"
    BY <2>1, <1>3 DEF Home
  <2>2. CASE Lifetime[u] # "singleton"
    <3>1. Lifetime[t] # "singleton"
      BY <2>2, <1>4
    <3>2. i[1] = s
      BY <3>1, <1>1 DEF Home
    <3> QED
      BY <3>2, <1>3
  <2> QED
    BY <2>1, <2>2
<1>7. n \in Instances
  BY <1>4, <1>6 DEF Instances
<1>8. n # i /\ Cached(n)
  BY <1>2, <1>4, <1>5 DEF Cached
<1>9. NeedsOf(n) \subseteq NeedsOf(i)
  <2> SUFFICES ASSUME NEW v \in Needs[u]
               PROVE  Home(n[1], v) \in NeedsOf(i)
    BY <1>5 DEF NeedsOf
  <2>1. v \in Needs[t]
    BY <1>4
  <2>2. Home(n[1], v) = Home(i[1], v)
    <3>1. CASE Lifetime[u] = "singleton"
      <4>1. Lifetime[v] = "singleton"
        BY <3>1, <1>4, ContainerAssumption DEF ContainerAssumption
      <4> QED
        BY <4>1 DEF Home
    <3>2. CASE Lifetime[u] # "singleton"
      <4>1. n[1] = i[1]
        BY <3>2, <1>3 DEF Home
      <4> QED
        BY <4>1
    <3> QED
      BY <3>1, <3>2
  <2> QED
    BY <1>2, <2>1, <2>2 DEF NeedsOf
<1> QED
  BY <1>5, <1>7, <1>8, <1>9

\* A step that leaves the builds alone; disposals go forward only.
LEMMA NeedsUnchanged ==
  ASSUME LeakInv, NeedsInv, UNCHANGED <<stage, broken, created>>,
         \A c \in Containers : Open(c)' => Open(c)
  PROVE  NeedsInv'
<1>1. \A i \in created : Open(i[1])' => Open(i[1])
  BY Homes DEF LeakInv, LeakTypes
<1> QED
  BY <1>1 DEF NeedsInv, StoredIsCreated, CreatedIsStored, CreatedHasNeeds, BuildHasNeeds

LEMMA NeedsResolve ==
  ASSUME NEW s \in Scopes, NEW ts \in SUBSET Tokens, LeakInv, NeedsInv, Resolve(s, ts),
         UNCHANGED <<broken, created, disposing>>
  PROVE  NeedsInv'
<1> DEFINE wanted == { Home(s, t) : t \in ts } \cup UNION { NeedsOf(Home(s, t)) : t \in ts }
<1>1. \/ stage' = stage
      \/ stage' = [i \in Instances |->
                     IF i \in wanted /\ stage[i] = "none" THEN "building" ELSE stage[i]]
  BY DEF Resolve
<1>2. \A i \in wanted : NeedsOf(i) \subseteq wanted /\ NeedsOf(i) \subseteq Instances
  <2>1. \A t \in ts : Home(s, t) \in Instances
    BY DEF Instances
  <2>2. ASSUME NEW t \in ts, NEW i \in NeedsOf(Home(s, t))
        PROVE  NeedsOf(i) \subseteq NeedsOf(Home(s, t)) /\ NeedsOf(i) \subseteq Instances
    BY <2>1, NeedsFacts
  <2>3. \A t \in ts : NeedsOf(Home(s, t)) \subseteq Instances
    BY <2>1, NeedsFacts
  <2> QED
    BY <2>2, <2>3
<1> HIDE DEF wanted
<1>3. \A i \in Instances : /\ stage'[i] = "stored" <=> stage[i] = "stored"
                           /\ stage[i] = "building" => stage'[i] = "building"
                           /\ stage'[i] = "building" => stage[i] = "building" \/ i \in wanted
                           /\ i \in wanted => stage'[i] # "none" \/ stage' = stage
  BY <1>1 DEF LeakInv, LeakTypes
<1>4. StoredIsCreated' /\ CreatedIsStored' /\ CreatedHasNeeds'
  BY <1>3 DEF NeedsInv, StoredIsCreated, CreatedIsStored, CreatedHasNeeds, Open, LeakInv, LeakTypes
<1>5. BuildHasNeeds'
  <2> SUFFICES ASSUME NEW d \in Instances, stage'[d] = "building", d \notin broken,
                      NEW n \in NeedsOf(d)
               PROVE  n \in created \/ stage'[n] = "building"
    BY DEF BuildHasNeeds
  <2>1. n \in Instances
    BY NeedsFacts
  <2>2. CASE stage[d] = "building"
    BY <2>1, <2>2, <1>3 DEF NeedsInv, BuildHasNeeds
  <2>3. CASE stage[d] # "building"
    <3>1. d \in wanted /\ stage' # stage
      BY <2>3, <1>3
    <3>2. n \in wanted
      BY <3>1, <1>2
    <3>3. stage'[n] \in {"building", "stored"}
      BY <3>1, <3>2, <2>1, <1>1 DEF LeakInv, LeakTypes
    <3> QED
      BY <3>3, <2>1, <1>3 DEF NeedsInv, StoredIsCreated
  <2> QED
    BY <2>2, <2>3
<1> QED
  BY <1>4, <1>5 DEF NeedsInv

LEMMA NeedsBuilt ==
  ASSUME NEW i \in Instances, LeakInv, NeedsInv, Built(i)
  PROVE  NeedsInv' /\ NeedsOf(i) \subseteq created
<1>1. /\ stage[i] = "building" /\ i \notin broken /\ NeedsSettled(i)
      /\ stage' = [stage EXCEPT ![i] = "stored"] /\ created' = created \cup {i}
      /\ UNCHANGED <<broken, disposing>>
  BY DEF Built, disposeVars
<1>2. NeedsOf(i) \subseteq created
  BY <1>1 DEF NeedsInv, BuildHasNeeds, NeedsSettled
<1>3. \A j \in Instances : stage'[j] = IF j = i THEN "stored" ELSE stage[j]
  BY <1>1 DEF LeakInv, LeakTypes
<1>4. StoredIsCreated' /\ CreatedIsStored' /\ CreatedHasNeeds'
  BY <1>1, <1>2, <1>3 DEF NeedsInv, StoredIsCreated, CreatedIsStored, CreatedHasNeeds, Open,
                          LeakInv, LeakTypes
<1>5. BuildHasNeeds'
  <2> SUFFICES ASSUME NEW d \in Instances, stage'[d] = "building", d \notin broken',
                      NEW n \in NeedsOf(d)
               PROVE  n \in created' \/ stage'[n] = "building"
    BY DEF BuildHasNeeds
  <2>1. n \in Instances /\ stage[d] = "building" /\ d \notin broken
    BY <1>1, <1>3, NeedsFacts
  <2> QED
    BY <2>1, <1>1, <1>3 DEF NeedsInv, BuildHasNeeds
<1> QED
  BY <1>2, <1>4, <1>5 DEF NeedsInv

LEMMA NeedsBuildFails ==
  ASSUME NEW i \in Instances, LeakInv, NeedsInv, BuildFails(i)
  PROVE  NeedsInv'
<1>1. /\ stage[i] = "building" /\ stage' = [stage EXCEPT ![i] = "none"]
      /\ broken' = (broken \ {i}) \cup { d \in Dependents(i) : stage[d] = "building" }
      /\ UNCHANGED <<created, disposing>>
  BY DEF BuildFails, disposeVars
<1>2. \A j \in Instances : stage'[j] = IF j = i THEN "none" ELSE stage[j]
  BY <1>1 DEF LeakInv, LeakTypes
<1>3. StoredIsCreated' /\ CreatedIsStored' /\ CreatedHasNeeds'
  BY <1>1, <1>2 DEF NeedsInv, StoredIsCreated, CreatedIsStored, CreatedHasNeeds, Open,
                    LeakInv, LeakTypes
<1>4. BuildHasNeeds'
  <2> SUFFICES ASSUME NEW d \in Instances, stage'[d] = "building", d \notin broken',
                      NEW n \in NeedsOf(d)
               PROVE  n \in created \/ stage'[n] = "building"
    BY <1>1 DEF BuildHasNeeds
  <2>1. n \in Instances /\ stage[d] = "building" /\ d # i
    BY <1>2, NeedsFacts
  <2>2. d \notin broken /\ n # i
    BY <2>1, <1>1 DEF Dependents
  <2> QED
    BY <2>1, <2>2, <1>2 DEF NeedsInv, BuildHasNeeds
<1> QED
  BY <1>3, <1>4 DEF NeedsInv

\* The end of a disposal forgets what is stored in its container.
LEMMA NeedsDisposed ==
  ASSUME NEW c \in Containers, NEW rest, RoundInv, LeakInv, NeedsInv, DisposeRest(c, rest),
         ~Open(c)', UNCHANGED <<broken, created>>
  PROVE  NeedsInv'
<1>1. /\ \A i \in Instances : stage'[i] = stage[i] \/ (i[1] = c /\ stage[i] = "stored" /\ stage'[i] = "none")
      /\ \A d \in Containers : d # c => disposing'[d] = disposing[d]
  BY DEF DisposeRest, LeakInv, LeakTypes, RoundInv, Shape
<1>2. \A i \in Instances : stage'[i] = "building" <=> stage[i] = "building"
  BY <1>1
<1>3. StoredIsCreated' /\ CreatedHasNeeds'
  BY <1>1 DEF NeedsInv, StoredIsCreated, CreatedHasNeeds
<1>4. CreatedIsStored'
  <2> SUFFICES ASSUME NEW i \in created, Open(i[1])'
               PROVE  stage'[i] = "stored"
    BY DEF CreatedIsStored
  <2>1. i \in Instances /\ i[1] \in Containers /\ i[1] # c
    BY Homes DEF LeakInv, LeakTypes
  <2>2. Open(i[1])
    BY <2>1, <1>1 DEF Open
  <2> QED
    BY <2>1, <2>2, <1>1 DEF NeedsInv, CreatedIsStored
<1>5. BuildHasNeeds'
  BY <1>2, NeedsFacts DEF NeedsInv, BuildHasNeeds
<1> QED
  BY <1>3, <1>4, <1>5 DEF NeedsInv

\* A step of the application is a step of the containers, the calls of a request
\* that begins, or one that at most has a container wait for its disposal.
LEMMA StepKinds ==
  ASSUME RoundInv, [Next]_vars
  PROVE  \/ ContainerStep
         \/ \E s \in Scopes : /\ Resolve(s, Wants[s])
                              /\ UNCHANGED <<broken, order, created, initVars, disposeVars>>
         \/ /\ UNCHANGED <<buildVars, initVars, left, gone, call>>
            /\ \A c \in Containers :
                 disposing'[c] = disposing[c] \/ (disposing[c] = "no" /\ disposing'[c] = "waiting")
<1> DEFINE waits == \A c \in Containers :
                 disposing'[c] = disposing[c] \/ (disposing[c] = "no" /\ disposing'[c] = "waiting")
<1>1. ASSUME NEW cs, Dispose(cs)
      PROVE  waits
  BY <1>1 DEF Dispose, Disposed, RoundInv, Shape
<1>2. UNCHANGED disposing => waits
  OBVIOUS
<1> HIDE DEF waits
<1>3. ASSUME NEW r \in Scopes, Begin(r)
      PROVE  Resolve(r, Wants[r]) /\ UNCHANGED <<broken, order, created, initVars, disposeVars>>
  BY <1>3 DEF Begin
<1>4. ASSUME NEW r \in Scopes, ResolutionFails(r) \/ HandlerEnds(r) \/ StopScope(r)
      PROVE  UNCHANGED <<buildVars, initVars, left, gone, call>> /\ waits
  <2>1. Dispose({r}) /\ UNCHANGED <<buildVars, initVars, left, gone, call>>
    BY <1>4 DEF ResolutionFails, HandlerEnds, StopScope, DisposeScope
  <2> QED
    BY <2>1, <1>1
<1>5. CASE StopFeature
  <2>1. Dispose({Feature}) /\ UNCHANGED <<buildVars, initVars, left, gone, call>>
    BY <1>5 DEF StopFeature
  <2> QED
    BY <2>1, <1>1 DEF waits
<1>6. ASSUME UNCHANGED containerVars
      PROVE  UNCHANGED <<buildVars, initVars, left, gone, call>> /\ waits
  BY <1>6, <1>2 DEF containerVars, disposeVars
<1>7. ASSUME NEW r \in Scopes, Handle(r) \/ Respond(r)
      PROVE  UNCHANGED containerVars
  BY <1>7 DEF Handle, Respond
<1>8. Stop \/ Stopped \/ UNCHANGED vars => UNCHANGED containerVars
  BY DEF Stop, Stopped, vars
<1> HIDE DEF waits
<1>9. CASE ContainerStep
  BY <1>9
<1>10. CASE \E r \in Scopes : Begin(r)
  BY <1>10, <1>3
<1>11. CASE \E r \in Scopes : ResolutionFails(r) \/ HandlerEnds(r) \/ StopScope(r)
  BY <1>11, <1>4 DEF waits
<1>12. CASE Stop \/ Stopped \/ UNCHANGED vars \/ \E r \in Scopes : Handle(r) \/ Respond(r)
  BY <1>12, <1>6, <1>7, <1>8 DEF waits
<1>13. \/ ContainerStep \/ StopFeature \/ \E r \in Scopes : Begin(r)
       \/ \E r \in Scopes : ResolutionFails(r) \/ HandlerEnds(r) \/ StopScope(r)
       \/ Stop \/ Stopped \/ UNCHANGED vars \/ \E r \in Scopes : Handle(r) \/ Respond(r)
  BY DEF Next, Proceed
<1> QED
  BY <1>5, <1>9, <1>10, <1>11, <1>12, <1>13 DEF waits

\* What a step of a disposal does to the container c.
LEMMA DisposalSteps ==
  ASSUME NEW c \in Containers, RoundInv, LeakInv, DisposalBegins(c) \/ InstanceDisposed(c)
  PROVE  \E rest \in Seq(Instances) :
           /\ DisposeRest(c, rest) /\ at[c] = 0 /\ disposing[c] \in {"waiting", "disposing"}
           /\ ~Open(c)' /\ UNCHANGED <<broken, created, initVars, call>>
<1>1. order[c] \in Seq(Instances) /\ left[c] \in Seq(Instances)
  BY DEF LeakInv, LeakTypes
<1>2. ASSUME NEW rest, DisposeRest(c, rest)
      PROVE  ~Open(c)'
  BY <1>2 DEF DisposeRest, RoundInv, Shape, Open
<1>3. CASE DisposalBegins(c)
  <2>1. Reverse(order[c]) \in Seq(Instances)
    BY <1>1 DEF Reverse
  <2> QED
    BY <2>1, <1>2, <1>3 DEF DisposalBegins, Quiet
<1>4. CASE InstanceDisposed(c)
  <2>1. Tail(left[c]) \in Seq(Instances)
    BY <1>1, <1>4 DEF LeakInv, LoopRuns, InstanceDisposed
  <2>2. at[c] = 0
    BY <1>4 DEF InstanceDisposed, RoundInv, InitEndsBeforeDisposal
  <2> QED
    BY <2>1, <2>2, <1>2, <1>4 DEF InstanceDisposed
<1> QED
  BY <1>3, <1>4

LEMMA NeedsStep ==
  ASSUME RoundInv, LeakInv, NeedsInv, [Next]_vars
  PROVE  NeedsInv'
<1>1. ASSUME NEW s \in Scopes, Resolve(s, Wants[s]),
             UNCHANGED <<broken, order, created, initVars, disposeVars>>
      PROVE  NeedsInv'
  <2>1. Wants[s] \in SUBSET Tokens
    BY WantsAssumption DEF WantsAssumption
  <2> QED
    BY <2>1, <1>1, NeedsResolve DEF disposeVars
<1>2. ASSUME UNCHANGED <<buildVars, initVars, left, gone, call>>,
             \A c \in Containers :
               disposing'[c] = disposing[c] \/ (disposing[c] = "no" /\ disposing'[c] = "waiting")
      PROVE  NeedsInv'
  BY <1>2, NeedsUnchanged DEF buildVars, Open
<1>3. ASSUME NEW i \in Instances, Built(i) \/ BuildFails(i)
      PROVE  NeedsInv'
  BY <1>3, NeedsBuilt, NeedsBuildFails
<1>4. ASSUME UNCHANGED <<buildVars, disposeVars>>
      PROVE  NeedsInv'
  BY <1>4, NeedsUnchanged DEF buildVars, disposeVars, Open
<1>5. ASSUME NEW k \in Calls, InitializeParent(k) \/ InitializeOwn(k)
      PROVE  NeedsInv'
  BY <1>5, <1>4 DEF InitializeParent, InitializeOwn
<1>6. ASSUME NEW c \in Containers, NEW ok \in BOOLEAN, InstanceInitialized(c, ok)
      PROVE  NeedsInv'
  BY <1>6, <1>4 DEF InstanceInitialized
<1>7. ASSUME NEW c \in Containers, DisposalBegins(c) \/ InstanceDisposed(c)
      PROVE  NeedsInv'
  BY <1>7, DisposalSteps, NeedsDisposed
<1>8. ContainerStep => NeedsInv'
  BY <1>3, <1>5, <1>6, <1>7 DEF ContainerStep
<1> QED
  BY <1>1, <1>2, <1>8, StepKinds
-----------------------------------------------------------------------------
(* What is handed out is initialized.                                      *)

\* What a call hands out, with all that it needs.
Given(k) == {Home(k[1], k[2])} \cup NeedsOf(Home(k[1], k[2]))

\* A call that initializes has found its instance.
CallsFound ==
  \A k \in Calls : call[k] \in {"built", "parent", "ready", "own", "done"} =>
    Home(k[1], k[2]) \in created

\* What the feature keeps of it has been initialized when the parent is ready.
ParentReady ==
  \A k \in Calls : call[k] \in {"ready", "own", "done"} =>
    \A x \in Given(k) : x[1] = Feature => x \in initialized

\* A round without a failure has initialized everything before its place.
RoundReaches ==
  \A c \in Containers : at[c] # 0 =>
    /\ at[c] \in DOMAIN order[c]
    /\ c \notin failing =>
         \A j \in DOMAIN order[c] : j < at[c] => order[c][j] \in initialized

ReadyInv == CallsFound /\ ParentReady /\ ResolvedIsInitialized /\ RoundReaches

\* The least place is among the places, and before all others.
LEMMA EarliestIsLeast ==
  ASSUME NEW js \in SUBSET Nat, js # {}
  PROVE  Earliest(js) \in js /\ \A j \in js : Earliest(js) <= j
<1> DEFINE R == OpToRel(<, Nat)
<1>1. IsWellFoundedOn(R, Nat)
  BY NatLessThanWellFounded
<1>2. \A m, n \in Nat : <<m, n>> \in R <=> m < n
  BY DEF OpToRel
<1> HIDE DEF R
<1>3. PICK x \in js : \A y \in js : ~(<<y, x>> \in R)
  BY <1>1, WFMin
<1>4. \A y \in js : x <= y
  <2> TAKE y \in js
  <2>1. x \in Nat /\ y \in Nat /\ ~(y < x)
    BY <1>2, <1>3
  <2> QED
    BY <2>1
<1> QED
  BY <1>3, <1>4 DEF Earliest

\* Where what a call hands out lives.
LEMMA GivenFacts ==
  ASSUME NEW k \in Calls
  PROVE  /\ Home(k[1], k[2]) \in Instances
         /\ Given(k) \subseteq Instances
         /\ \A x \in Given(k) : x[1] \in {k[1], Feature}
<1>1. Home(k[1], k[2]) \in Instances /\ Home(k[1], k[2])[1] \in {k[1], Feature}
  BY Homes DEF Calls, Instances
<1>2. \A n \in NeedsOf(Home(k[1], k[2])) : n \in Instances /\ n[1] \in {Home(k[1], k[2])[1], Feature}
  BY <1>1, NeedsFacts
<1> QED
  BY <1>1, <1>2 DEF Given

\* When everything on the list of an open container is initialized, so is all that
\* a call with an instance gets from that container.
LEMMA ListCovers ==
  ASSUME NEW c \in Containers, NEW done, NEW k \in Calls, LeakInv, NeedsInv, ReadyInv, Open(c),
         \A j \in DOMAIN order[c] : order[c][j] \in done,
         call[k] \in {"built", "parent", "ready", "own", "done"}
  PROVE  \A x \in Given(k) : x[1] = c => x \in done
<1>1. Given(k) \subseteq created
  BY DEF Given, ReadyInv, CallsFound, NeedsInv, CreatedHasNeeds
<1>2. ASSUME NEW x \in created, x[1] = c
      PROVE  x \in done
  <2>1. x \in Range(order[c])
    BY <1>2 DEF LeakInv, OrderKeeps
  <2> QED
    BY <2>1 DEF Range
<1> QED
  BY <1>1, <1>2

\* A step that leaves the calls, the lists and the rounds alone.
LEMMA ReadyUnchanged ==
  ASSUME ReadyInv, UNCHANGED <<call, order, created, initVars>>
  PROVE  ReadyInv'
BY DEF ReadyInv, CallsFound, ParentReady, ResolvedIsInitialized, RoundReaches, Given, initVars

\* Calls that get no further than having found their instance.
LEMMA ReadyFound ==
  ASSUME LeakInv, ReadyInv, created \subseteq created', UNCHANGED initialized,
         \A k \in Calls : \/ call'[k] = call[k]
                          \/ call'[k] \in {"building", "failed"}
                          \/ call'[k] = "built" /\ Home(k[1], k[2]) \in created'
                          \/ call[k] = "built" /\ call'[k] = "parent"
                          \/ call[k] = "ready" /\ call'[k] = "own"
  PROVE  CallsFound' /\ ParentReady' /\ ResolvedIsInitialized'
<1>1. CallsFound'
  BY DEF ReadyInv, CallsFound
<1>2. ParentReady'
  <2> SUFFICES ASSUME NEW k \in Calls, call'[k] \in {"ready", "own", "done"},
                      NEW x \in Given(k), x[1] = Feature
               PROVE  x \in initialized
    BY DEF ParentReady, Given
  <2>1. call[k] \in {"ready", "own", "done"}
    OBVIOUS
  <2> QED
    BY <2>1 DEF ReadyInv, ParentReady
<1>3. ResolvedIsInitialized'
  <2> SUFFICES ASSUME NEW k \in Calls, call'[k] = "done"
               PROVE  Given(k) \subseteq initialized
    BY DEF ResolvedIsInitialized, Given
  <2>1. call[k] = "done"
    OBVIOUS
  <2> QED
    BY <2>1 DEF ReadyInv, ResolvedIsInitialized, Given
<1> QED
  BY <1>1, <1>2, <1>3

LEMMA ReadyResolve ==
  ASSUME NEW s \in Scopes, NEW ts \in SUBSET Tokens, LeakInv, NeedsInv, ReadyInv, Resolve(s, ts),
         UNCHANGED <<order, created, initVars>>
  PROVE  ReadyInv'
<1>1. ASSUME NEW k \in Calls
      PROVE  \/ call'[k] = call[k] \/ call'[k] \in {"building", "failed"}
             \/ call'[k] = "built" /\ Home(k[1], k[2]) \in created'
  <2>1. k \in {s} \X ts => k[1] = s
    OBVIOUS
  <2>2. Home(k[1], k[2]) \in Instances
    BY GivenFacts
  <2>3. \/ call'[k] = call[k] \/ call'[k] \in {"building", "failed"}
        \/ call'[k] = "built" /\ stage[Home(k[1], k[2])] = "stored"
    BY <2>1 DEF Resolve
  <2> QED
    BY <2>2, <2>3 DEF NeedsInv, StoredIsCreated
<1>2. CallsFound' /\ ParentReady' /\ ResolvedIsInitialized'
  BY <1>1, ReadyFound DEF initVars
<1>3. RoundReaches'
  BY DEF ReadyInv, RoundReaches, initVars
<1> QED
  BY <1>2, <1>3 DEF ReadyInv

LEMMA ReadyBuilds ==
  ASSUME NEW i \in Instances, LeakInv, ReadyInv, Built(i) \/ BuildFails(i)
  PROVE  ReadyInv'
<1>1. /\ \A k \in Calls : \/ call'[k] = call[k] \/ call'[k] = "failed"
                          \/ call'[k] = "built" /\ Home(k[1], k[2]) \in created'
      /\ created \subseteq created'
      /\ UNCHANGED initVars
  BY DEF Built, BuildFails, Answer
<1>2. CallsFound' /\ ParentReady' /\ ResolvedIsInitialized'
  BY <1>1, ReadyFound DEF initVars
<1>3. RoundReaches'
  <2> SUFFICES ASSUME NEW c \in Containers, at[c] # 0
               PROVE  /\ at[c] \in DOMAIN order'[c]
                      /\ c \notin failing =>
                           \A j \in DOMAIN order'[c] : j < at[c] => order'[c][j] \in initialized
    BY <1>1 DEF RoundReaches, initVars
  <2>1. order[c] \in Seq(Instances) /\ order'[c] \in {order[c], Append(order[c], i)}
    <3>1. order' = order \/ order' = [order EXCEPT ![i[1]] = Append(@, i)]
      BY DEF Built, BuildFails
    <3> QED
      BY <3>1 DEF LeakInv, LeakTypes
  <2>2. \A j \in DOMAIN order[c] : j \in DOMAIN order'[c] /\ order'[c][j] = order[c][j]
    BY <2>1
  <2>3. at[c] \in DOMAIN order[c]
    BY DEF ReadyInv, RoundReaches
  <2>4. \A j \in DOMAIN order'[c] : j < at[c] => j \in DOMAIN order[c]
    BY <2>1, <2>3
  <2> QED
    BY <2>2, <2>3, <2>4 DEF ReadyInv, RoundReaches
<1> QED
  BY <1>2, <1>3 DEF ReadyInv

\* A round begins at the first place that has not been initialized; a call is
\* answered at once when there is none.
LEMMA ReadyInitialize ==
  ASSUME NEW k \in Calls, RoundInv, LeakInv, NeedsInv, ReadyInv,
         InitializeParent(k) \/ InitializeOwn(k)
  PROVE  ReadyInv'
<1> DEFINE todo(c) == ToInitialize(c, initialized)
<1>1. ASSUME NEW c \in Containers, NEW during, NEW after, Initialize(c, k, during, after),
             UNCHANGED <<order, initialized, failing>>
      PROVE  RoundReaches'
  <2>1. order[c] \in Seq(Instances) /\ DOMAIN at = Containers
    BY DEF LeakInv, LeakTypes, RoundInv, Shape
  <2>2. \/ at' = at
        \/ todo(c) # {} /\ at' = [at EXCEPT ![c] = Earliest(todo(c))]
    BY <1>1 DEF Initialize
  <2>3. CASE at' = at
    BY <1>1, <2>3 DEF ReadyInv, RoundReaches
  <2>4. CASE todo(c) # {} /\ at' = [at EXCEPT ![c] = Earliest(todo(c))]
    <3>1. todo(c) \subseteq DOMAIN order[c] /\ todo(c) \in SUBSET Nat
      BY <2>1 DEF ToInitialize
    <3>2. Earliest(todo(c)) \in todo(c) /\ \A j \in todo(c) : Earliest(todo(c)) <= j
      BY <3>1, <2>4, EarliestIsLeast
    <3> DEFINE e == Earliest(todo(c))
    <3>3. e \in DOMAIN order[c] /\ \A j \in DOMAIN order[c] : j < e => order[c][j] \in initialized
      <4>1. \A j \in DOMAIN order[c] : j < e => ~(e <= j)
        BY <2>1, <3>1, <3>2
      <4> QED
        BY <4>1, <3>1, <3>2 DEF ToInitialize
    <3> HIDE DEF e
    <3>4. at' = [at EXCEPT ![c] = e]
      BY <2>4 DEF e
    <3> QED
      BY <1>1, <2>1, <3>3, <3>4 DEF ReadyInv, RoundReaches
  <2> QED
    BY <2>2, <2>3, <2>4
<1>2. k[1] \in Containers /\ Feature \in Containers
  BY DEF Calls, Containers
<1>3. ASSUME NEW c \in Containers, todo(c) = {}
      PROVE  \A j \in DOMAIN order[c] : order[c][j] \in initialized
  BY <1>3 DEF ToInitialize
<1>4. CASE InitializeParent(k)
  <2>1. /\ call[k] = "built" /\ Initialize(Feature, k, "parent", "ready")
        /\ UNCHANGED <<order, created, initialized, failing>>
    BY <1>4 DEF InitializeParent, buildVars
  <2>2. RoundReaches'
    BY <1>1, <1>2, <2>1
  <2>3. \/ call' = [call EXCEPT ![k] = "failed"] \/ call' = [call EXCEPT ![k] = "parent"]
        \/ /\ call' = [call EXCEPT ![k] = "ready"]
           /\ ~Disposed(Feature) /\ todo(Feature) = {}
    BY <2>1 DEF Initialize
  <2>4. CASE call' = [call EXCEPT ![k] = "failed"] \/ call' = [call EXCEPT ![k] = "parent"]
    <3>1. \A m \in Calls : \/ call'[m] = call[m] \/ call'[m] = "failed"
                           \/ call[m] = "built" /\ call'[m] = "parent"
      BY <2>1, <2>4 DEF LeakInv, LeakTypes
    <3> QED
      BY <2>1, <2>2, <3>1, ReadyFound DEF ReadyInv
  <2>5. CASE call' = [call EXCEPT ![k] = "ready"] /\ ~Disposed(Feature) /\ todo(Feature) = {}
    <3>1. \A x \in Given(k) : x[1] = Feature => x \in initialized
      BY <2>1, <2>5, <1>2, <1>3, ListCovers DEF Open, Disposed
    <3>2. \A m \in Calls : call'[m] = IF m = k THEN "ready" ELSE call[m]
      BY <2>5 DEF LeakInv, LeakTypes
    <3>3. CallsFound' /\ ParentReady' /\ ResolvedIsInitialized'
      BY <2>1, <3>1, <3>2 DEF ReadyInv, CallsFound, ParentReady, ResolvedIsInitialized, Given
    <3> QED
      BY <2>2, <3>3 DEF ReadyInv
  <2> QED
    BY <2>3, <2>4, <2>5
<1>5. CASE InitializeOwn(k)
  <2>1. /\ call[k] = "ready" /\ Initialize(k[1], k, "own", "done")
        /\ UNCHANGED <<order, created, initialized, failing>>
    BY <1>5 DEF InitializeOwn, buildVars
  <2>2. RoundReaches'
    BY <1>1, <1>2, <2>1
  <2>3. \/ call' = [call EXCEPT ![k] = "failed"] \/ call' = [call EXCEPT ![k] = "own"]
        \/ /\ call' = [call EXCEPT ![k] = "done"]
           /\ ~Disposed(k[1]) /\ todo(k[1]) = {}
    BY <2>1 DEF Initialize
  <2>4. CASE call' = [call EXCEPT ![k] = "failed"] \/ call' = [call EXCEPT ![k] = "own"]
    <3>1. \A m \in Calls : \/ call'[m] = call[m] \/ call'[m] = "failed"
                           \/ call[m] = "ready" /\ call'[m] = "own"
      BY <2>1, <2>4 DEF LeakInv, LeakTypes
    <3> QED
      BY <2>1, <2>2, <3>1, ReadyFound DEF ReadyInv
  <2>5. CASE call' = [call EXCEPT ![k] = "done"] /\ ~Disposed(k[1]) /\ todo(k[1]) = {}
    <3>1. \A x \in Given(k) : x[1] = k[1] => x \in initialized
      BY <2>1, <2>5, <1>2, <1>3, ListCovers DEF Open, Disposed
    <3>2. Given(k) \subseteq initialized
      BY <3>1, <2>1, GivenFacts DEF ReadyInv, ParentReady
    <3>3. \A m \in Calls : call'[m] = IF m = k THEN "done" ELSE call[m]
      BY <2>5 DEF LeakInv, LeakTypes
    <3>4. CallsFound' /\ ParentReady' /\ ResolvedIsInitialized'
      BY <2>1, <3>2, <3>3 DEF ReadyInv, CallsFound, ParentReady, ResolvedIsInitialized, Given
    <3> QED
      BY <2>2, <3>4 DEF ReadyInv
  <2> QED
    BY <2>3, <2>4, <2>5
<1> QED
  BY <1>4, <1>5

\* A round goes on to the next place, or ends with all of the list initialized.
LEMMA ReadyRound ==
  ASSUME NEW c \in Containers, NEW ok \in BOOLEAN, RoundInv, LeakInv, NeedsInv, ReadyInv,
         InstanceInitialized(c, ok)
  PROVE  ReadyInv'
<1> DEFINE now == initialized'
           rest == { j \in ToInitialize(c, now) : j > at[c] }
<1>1. /\ at[c] # 0 /\ initialized' = IF ok THEN initialized \cup {order[c][at[c]]} ELSE initialized
      /\ UNCHANGED <<order, created, disposing>>
  BY DEF InstanceInitialized, buildVars, disposeVars
<1>2. /\ order[c] \in Seq(Instances) /\ DOMAIN at = Containers
      /\ at[c] \in DOMAIN order[c] /\ Open(c)
  BY <1>1 DEF LeakInv, LeakTypes, RoundInv, Shape, ReadyInv, RoundReaches,
              InitEndsBeforeDisposal, Open
<1>3. \/ /\ rest # {} /\ at' = [at EXCEPT ![c] = Earliest(rest)]
         /\ failing' = IF ok THEN failing ELSE failing \cup {c}
         /\ UNCHANGED call
      \/ /\ rest = {} /\ at' = [at EXCEPT ![c] = 0] /\ failing' = failing \ {c}
         /\ call' = AfterRound(c, ok /\ c \notin failing)
  BY DEF InstanceInitialized
<1>4. ok /\ c \notin failing =>
        \A j \in DOMAIN order[c] : order[c][j] \in now \/ j \in rest
  <2> SUFFICES ASSUME ok, c \notin failing, NEW j \in DOMAIN order[c]
               PROVE  order[c][j] \in now \/ j \in rest
    OBVIOUS
  <2>1. j < at[c] \/ j = at[c] \/ j > at[c]
    BY <1>2
  <2>2. j < at[c] => order[c][j] \in now
    BY <1>1 DEF ReadyInv, RoundReaches
  <2>3. j = at[c] => order[c][j] \in now
    BY <1>1
  <2>4. j > at[c] => order[c][j] \in now \/ j \in rest
    BY DEF ToInitialize
  <2> QED
    BY <2>1, <2>2, <2>3, <2>4
<1>5. initialized \subseteq now
  BY <1>1
<1> DEFINE first == Earliest(rest)
<1>6. rest # {} => /\ first \in DOMAIN order[c]
                   /\ \A j \in DOMAIN order[c] : j < first => j \notin rest
  <2> SUFFICES ASSUME rest # {}
               PROVE  /\ first \in DOMAIN order[c]
                      /\ \A j \in DOMAIN order[c] : j < first => j \notin rest
    OBVIOUS
  <2>1. rest \subseteq DOMAIN order[c] /\ rest \in SUBSET Nat
    BY <1>2 DEF ToInitialize
  <2>2. Earliest(rest) \in rest /\ \A j \in rest : Earliest(rest) <= j
    BY <2>1, EarliestIsLeast
  <2>3. \A j \in DOMAIN order[c] : j < first => ~(first <= j)
    BY <1>2, <2>1, <2>2
  <2> QED
    BY <2>1, <2>2, <2>3
<1>7. rest # {} => at' = [at EXCEPT ![c] = first]
  BY <1>3
<1> HIDE DEF rest, first, now
<1>8. CASE rest # {}
  <2>1. RoundReaches'
    <3> SUFFICES ASSUME NEW d \in Containers, at'[d] # 0
                 PROVE  /\ at'[d] \in DOMAIN order[d]
                        /\ d \notin failing' =>
                             \A j \in DOMAIN order[d] : j < at'[d] => order[d][j] \in initialized'
      BY <1>1 DEF RoundReaches
    <3>1. CASE d = c
      <4>1. at'[d] = first
        BY <3>1, <1>2, <1>7, <1>8
      <4>2. d \notin failing' => ok /\ c \notin failing
        BY <3>1, <1>3, <1>8
      <4> QED
        BY <3>1, <4>1, <4>2, <1>4, <1>6, <1>8 DEF now
    <3>2. CASE d # c
      <4>1. at'[d] = at[d] /\ (d \notin failing' => d \notin failing)
        BY <3>2, <1>2, <1>3, <1>7, <1>8
      <4> QED
        BY <4>1, <1>5 DEF ReadyInv, RoundReaches, now
    <3> QED
      BY <3>1, <3>2
  <2>2. UNCHANGED call
    BY <1>3, <1>8
  <2>3. CallsFound' /\ ParentReady' /\ ResolvedIsInitialized'
    BY <1>1, <1>5, <2>2 DEF ReadyInv, CallsFound, ParentReady, ResolvedIsInitialized, Given, now
  <2> QED
    BY <2>1, <2>3 DEF ReadyInv
<1>9. CASE rest = {}
  <2>1. /\ at' = [at EXCEPT ![c] = 0] /\ failing' = failing \ {c}
        /\ call' = AfterRound(c, ok /\ c \notin failing)
    BY <1>3, <1>9
  <2>2. RoundReaches'
    BY <1>1, <1>2, <1>5, <2>1 DEF ReadyInv, RoundReaches, now
  <2>3. ASSUME NEW k \in Calls, call[k] \in {"parent", "own"}, ok, c \notin failing
        PROVE  \A x \in Given(k) : x[1] = c => x \in now
    BY <2>3, <1>2, <1>4, <1>9, ListCovers
  <2>4. ASSUME NEW k \in Calls
        PROVE  \/ call'[k] = call[k] \/ call'[k] = "failed"
               \/ call[k] = "parent" /\ c = Feature /\ call'[k] = "ready" /\ ok /\ c \notin failing
               \/ call[k] = "own" /\ c = k[1] /\ call'[k] = "done" /\ ok /\ c \notin failing
    BY <2>1 DEF AfterRound
  <2>5. CallsFound'
    BY <1>1, <2>4 DEF ReadyInv, CallsFound
  <2>6. ParentReady'
    <3> SUFFICES ASSUME NEW k \in Calls, call'[k] \in {"ready", "own", "done"},
                        NEW x \in Given(k), x[1] = Feature
                 PROVE  x \in now
      BY DEF ParentReady, Given, now
    <3>1. CASE call[k] \in {"ready", "own", "done"}
      BY <3>1, <1>5 DEF ReadyInv, ParentReady
    <3>2. CASE call[k] \notin {"ready", "own", "done"}
      BY <3>2, <2>3, <2>4
    <3> QED
      BY <3>1, <3>2
  <2>7. ResolvedIsInitialized'
    <3> SUFFICES ASSUME NEW k \in Calls, call'[k] = "done", NEW x \in Given(k)
                 PROVE  x \in now
      BY DEF ResolvedIsInitialized, Given, now
    <3>1. CASE call[k] = "done"
      BY <3>1, <1>5 DEF ReadyInv, ResolvedIsInitialized, Given
    <3>2. CASE call[k] # "done"
      <4>1. call[k] = "own" /\ c = k[1] /\ ok /\ c \notin failing
        BY <3>2, <2>4
      <4>2. x[1] = Feature => x \in now
        BY <4>1, <1>5 DEF ReadyInv, ParentReady
      <4> QED
        BY <4>1, <4>2, <2>3, GivenFacts
    <3> QED
      BY <3>1, <3>2
  <2> QED
    BY <2>2, <2>5, <2>6, <2>7 DEF ReadyInv
<1> QED
  BY <1>8, <1>9

LEMMA ReadyStep ==
  ASSUME RoundInv, LeakInv, NeedsInv, ReadyInv, [Next]_vars
  PROVE  ReadyInv'
<1>1. ASSUME NEW s \in Scopes, Resolve(s, Wants[s]),
             UNCHANGED <<broken, order, created, initVars, disposeVars>>
      PROVE  ReadyInv'
  <2>1. Wants[s] \in SUBSET Tokens
    BY WantsAssumption DEF WantsAssumption
  <2> QED
    BY <2>1, <1>1, ReadyResolve
<1>2. UNCHANGED <<buildVars, initVars, left, gone, call>> => ReadyInv'
  BY ReadyUnchanged DEF buildVars
<1>3. ASSUME NEW c \in Containers, DisposalBegins(c) \/ InstanceDisposed(c)
      PROVE  ReadyInv'
  <2>1. PICK rest \in Seq(Instances) :
           /\ DisposeRest(c, rest) /\ at[c] = 0
           /\ UNCHANGED <<broken, created, initVars, call>>
    BY <1>3, DisposalSteps
  <2>2. \A d \in Containers : d # c => order'[d] = order[d]
    BY <2>1 DEF DisposeRest, LeakInv, LeakTypes
  <2>3. RoundReaches'
    BY <2>1, <2>2 DEF ReadyInv, RoundReaches, initVars
  <2>4. CallsFound' /\ ParentReady' /\ ResolvedIsInitialized'
    BY <2>1 DEF ReadyInv, CallsFound, ParentReady, ResolvedIsInitialized, Given, initVars
  <2> QED
    BY <2>3, <2>4 DEF ReadyInv
<1>4. ContainerStep => ReadyInv'
  BY <1>3, ReadyBuilds, ReadyInitialize, ReadyRound DEF ContainerStep
<1> QED
  BY <1>1, <1>2, <1>4, StepKinds

\* Whatever rounds overlap and fail, what resolveAsync hands out is initialized, and
\* so is all that it needs (container.ts:77).
THEOREM HandedOutReady == Spec => []ResolvedIsInitialized
<1>1. Init => RoundInv /\ LeakInv
  BY DEF Init, ContainerInit, RoundInv, Shape, InitEndsBeforeDisposal,
         LeakInv, LeakTypes, OrderKeeps, LeftKeeps, LoopRuns,
         BuildsAwaited, LateUnanswered, NothingLeaks, Instances, Calls, Containers
<1>2. Init => NeedsInv
  BY DEF Init, ContainerInit, NeedsInv, StoredIsCreated, CreatedIsStored, CreatedHasNeeds,
         BuildHasNeeds
<1>3. Init => ReadyInv
  BY DEF Init, ContainerInit, ReadyInv, CallsFound, ParentReady, ResolvedIsInitialized,
         RoundReaches
<1>4. RoundInv /\ LeakInv /\ NeedsInv /\ ReadyInv /\ [Next]_vars
        => RoundInv' /\ LeakInv' /\ NeedsInv' /\ ReadyInv'
  BY StepKeeps, LeakStep, NeedsStep, ReadyStep
<1>5. ReadyInv => ResolvedIsInitialized
  BY DEF ReadyInv
<1> QED
  BY <1>1, <1>2, <1>3, <1>4, <1>5, PTL DEF Spec
-----------------------------------------------------------------------------
(* Dependents are disposed first.                                          *)

\* The lists of a container hold its own instances, the needs before what needs
\* them, and the other way round when they are disposed.
ListsHome ==
  \A c \in Containers :
    /\ \A p \in DOMAIN order[c] : order[c][p] \in created /\ order[c][p][1] = c
    /\ \A p \in DOMAIN left[c] : left[c][p][1] = c

OrderOrdered ==
  \A c \in Containers : \A p, q \in DOMAIN order[c] :
    order[c][q] \in NeedsOf(order[c][p]) => q < p

LeftOrdered ==
  \A c \in Containers : \A p, q \in DOMAIN left[c] :
    left[c][q] \in NeedsOf(left[c][p]) => p < q

GoneClosed == \A i \in gone : i \in Instances /\ ~Open(i[1])

OrderInv == ListsHome /\ OrderOrdered /\ LeftOrdered /\ GoneClosed

\* The lists are left alone, and no container opens again.
LEMMA OrderUnchanged ==
  ASSUME OrderInv, UNCHANGED <<order, left, gone, created>>,
         \A c \in Containers : ~Open(c) => ~Open(c)'
  PROVE  OrderInv'
BY Homes DEF OrderInv, ListsHome, OrderOrdered, LeftOrdered, GoneClosed

\* An instance goes to the end of its list after all that it needs, and before
\* anything that needs it.
LEMMA OrderBuilt ==
  ASSUME NEW i \in Instances, LeakInv, NeedsInv, OrderInv, Built(i)
  PROVE  OrderInv'
<1> DEFINE c == i[1]
<1>1. /\ stage[i] = "building"
      /\ order' = [order EXCEPT ![c] = Append(@, i)] /\ created' = created \cup {i}
      /\ UNCHANGED <<left, gone, disposing>>
  BY DEF Built, disposeVars
<1>2. c \in Containers /\ order[c] \in Seq(Instances)
  BY Homes DEF LeakInv, LeakTypes
<1>3. /\ order'[c] = Append(order[c], i)
      /\ \A d \in Containers : d # c => order'[d] = order[d]
  BY <1>1, <1>2 DEF LeakInv, LeakTypes
<1> DEFINE n == Len(order[c])
<1>4. /\ n \in Nat /\ DOMAIN order[c] = 1..n /\ DOMAIN order'[c] = 1..n+1
      /\ \A p \in 1..n : order'[c][p] = order[c][p]
      /\ order'[c][n+1] = i
  BY <1>2, <1>3
<1>5. ASSUME NEW x \in created
      PROVE  i \notin NeedsOf(x)
  <2> SUFFICES ASSUME i \in NeedsOf(x)
               PROVE  FALSE
    OBVIOUS
  <2>1. i \in created /\ Cached(i)
    BY NeedsFacts DEF NeedsInv, CreatedHasNeeds, LeakInv, LeakTypes
  <2>2. Open(c)
    BY <2>1, <1>1 DEF LeakInv, BuildsAwaited
  <2> QED
    BY <2>1, <2>2, <1>1 DEF NeedsInv, CreatedIsStored
<1>6. i \notin NeedsOf(i)
  BY NeedsFacts
<1>7. ListsHome'
  <2> SUFFICES ASSUME NEW d \in Containers, NEW p \in DOMAIN order'[d]
               PROVE  order'[d][p] \in created' /\ order'[d][p][1] = d
    BY <1>1 DEF OrderInv, ListsHome
  <2>1. CASE d = c
    <3>1. p \in 1..n \/ p = n + 1
      BY <2>1, <1>4
    <3> QED
      BY <2>1, <3>1, <1>1, <1>2, <1>4 DEF OrderInv, ListsHome
  <2>2. CASE d # c
    BY <2>2, <1>1, <1>3 DEF OrderInv, ListsHome
  <2> QED
    BY <2>1, <2>2
<1>8. OrderOrdered'
  <2> SUFFICES ASSUME NEW d \in Containers, NEW p \in DOMAIN order'[d], NEW q \in DOMAIN order'[d],
                      order'[d][q] \in NeedsOf(order'[d][p])
               PROVE  q < p
    BY DEF OrderOrdered, NeedsOf, Home
  <2>1. CASE d = c
    <3>1. CASE q = n + 1
      <4>1. p \in 1..n \/ p = n + 1
        BY <2>1, <1>4
      <4>2. p \in 1..n => order'[c][p] \in created
        BY <1>2, <1>4 DEF OrderInv, ListsHome
      <4> QED
        BY <2>1, <3>1, <4>1, <4>2, <1>4, <1>5, <1>6
    <3>2. CASE q # n + 1
      <4>1. q \in 1..n
        BY <2>1, <3>2, <1>4
      <4>2. CASE p = n + 1
        BY <4>1, <4>2, <1>4
      <4>3. CASE p # n + 1
        <5>1. p \in 1..n
          BY <2>1, <4>3, <1>4
        <5> QED
          BY <2>1, <4>1, <5>1, <1>2, <1>4 DEF OrderInv, OrderOrdered
      <4> QED
        BY <4>2, <4>3
    <3> QED
      BY <3>1, <3>2
  <2>2. CASE d # c
    BY <2>2, <1>3 DEF OrderInv, OrderOrdered
  <2> QED
    BY <2>1, <2>2
<1>9. LeftOrdered' /\ GoneClosed'
  BY <1>1 DEF OrderInv, LeftOrdered, GoneClosed, Open, NeedsOf, Home
<1> QED
  BY <1>7, <1>8, <1>9 DEF OrderInv

\* The loop of dispose() takes the list backwards, and keeps to it.
LEMMA OrderDisposal ==
  ASSUME NEW c \in Containers, RoundInv, LeakInv, OrderInv,
         DisposalBegins(c) \/ InstanceDisposed(c)
  PROVE  OrderInv'
<1>1. PICK rest \in Seq(Instances) :
         /\ rest = IF disposing[c] = "waiting" THEN Reverse(order[c]) ELSE Tail(left[c])
         /\ DisposeRest(c, rest) /\ ~Open(c)' /\ UNCHANGED created
         /\ gone' = gone \/ (left[c] # <<>> /\ gone' = gone \cup {Head(left[c])})
         /\ disposing[c] = "waiting" \/ left[c] # <<>>
  <2>1. order[c] \in Seq(Instances) /\ left[c] \in Seq(Instances)
    BY DEF LeakInv, LeakTypes
  <2>2. ~Open(c)'
    BY DisposalSteps
  <2>3. CASE DisposalBegins(c)
    <3>1. Reverse(order[c]) \in Seq(Instances)
      BY <2>1 DEF Reverse
    <3> QED
      BY <2>2, <2>3, <3>1 DEF DisposalBegins
  <2>4. CASE InstanceDisposed(c)
    <3>1. left[c] # <<>> /\ Tail(left[c]) \in Seq(Instances)
      BY <2>1, <2>4 DEF InstanceDisposed, LeakInv, LoopRuns
    <3> QED
      BY <2>2, <2>4, <3>1 DEF InstanceDisposed
  <2> QED
    BY <2>3, <2>4
<1>2. /\ order \in [Containers -> Seq(Instances)] /\ left \in [Containers -> Seq(Instances)]
  BY DEF LeakInv, LeakTypes
<1>3. /\ left'[c] = rest
      /\ \A d \in Containers : d # c => left'[d] = left[d] /\ disposing'[d] = disposing[d]
      /\ \A d \in Containers : order'[d] \in {order[d], <<>>}
  BY <1>1, <1>2 DEF DisposeRest, RoundInv, Shape
<1>4. \A p, q \in DOMAIN rest : rest[q] \in NeedsOf(rest[p]) => p < q
  <2>1. CASE disposing[c] = "waiting"
    <3> DEFINE n == Len(order[c])
    <3>1. /\ n \in Nat /\ DOMAIN order[c] = 1..n /\ DOMAIN rest = 1..n
          /\ \A p \in 1..n : rest[p] = order[c][n - p + 1] /\ n - p + 1 \in 1..n
      BY <2>1, <1>1, <1>2 DEF Reverse
    <3> SUFFICES ASSUME NEW p \in 1..n, NEW q \in 1..n, rest[q] \in NeedsOf(rest[p])
                 PROVE  p < q
      BY <3>1
    <3>2. n - q + 1 < n - p + 1
      BY <3>1 DEF OrderInv, OrderOrdered
    <3> QED
      BY <3>1, <3>2
  <2>2. CASE disposing[c] # "waiting"
    <3>1. /\ DOMAIN rest = 1..Len(left[c]) - 1 /\ DOMAIN left[c] = 1..Len(left[c])
          /\ Len(left[c]) \in Nat
          /\ \A p \in 1..Len(left[c]) - 1 : rest[p] = left[c][p + 1]
      BY <2>2, <1>1, <1>2
    <3> SUFFICES ASSUME NEW p \in DOMAIN rest, NEW q \in DOMAIN rest, rest[q] \in NeedsOf(rest[p])
                 PROVE  p < q
      OBVIOUS
    <3>2. p + 1 \in DOMAIN left[c] /\ q + 1 \in DOMAIN left[c]
      BY <3>1
    <3>3. p + 1 < q + 1
      BY <3>1, <3>2 DEF OrderInv, LeftOrdered
    <3> QED
      BY <3>1, <3>3
  <2> QED
    BY <2>1, <2>2
<1>5. \A p \in DOMAIN rest : rest[p][1] = c
  <2>1. CASE disposing[c] = "waiting"
    <3>1. \A p \in DOMAIN rest : \E q \in DOMAIN order[c] : rest[p] = order[c][q]
      BY <2>1, <1>1, <1>2 DEF Reverse
    <3> QED
      BY <3>1 DEF OrderInv, ListsHome
  <2>2. CASE disposing[c] # "waiting"
    <3>1. \A p \in DOMAIN rest : p + 1 \in DOMAIN left[c] /\ rest[p] = left[c][p + 1]
      BY <2>2, <1>1, <1>2
    <3> QED
      BY <3>1 DEF OrderInv, ListsHome
  <2> QED
    BY <2>1, <2>2
<1>6. ListsHome'
  <2>1. \A d \in Containers : \A p \in DOMAIN order'[d] :
           order'[d][p] \in created /\ order'[d][p][1] = d
    <3> TAKE d \in Containers
    <3>1. DOMAIN <<>> = {}
      OBVIOUS
    <3> QED
      BY <3>1, <1>3 DEF OrderInv, ListsHome
  <2>2. \A d \in Containers : \A p \in DOMAIN left'[d] : left'[d][p][1] = d
    BY <1>3, <1>5 DEF OrderInv, ListsHome
  <2> QED
    BY <1>1, <2>1, <2>2 DEF ListsHome
<1>7. OrderOrdered'
  <2>1. \A d \in Containers : \A p, q \in DOMAIN order'[d] :
           order'[d][q] \in NeedsOf(order'[d][p]) => q < p
    <3> TAKE d \in Containers
    <3>1. DOMAIN <<>> = {}
      OBVIOUS
    <3> QED
      BY <3>1, <1>3 DEF OrderInv, OrderOrdered
  <2> QED
    BY <2>1 DEF OrderOrdered, NeedsOf, Home
<1>8. LeftOrdered'
  <2>1. \A d \in Containers : \A p, q \in DOMAIN left'[d] :
           left'[d][q] \in NeedsOf(left'[d][p]) => p < q
    BY <1>3, <1>4 DEF OrderInv, LeftOrdered
  <2> QED
    BY <2>1 DEF LeftOrdered, NeedsOf, Home
<1>9. GoneClosed'
  <2>1. left[c] # <<>> => Head(left[c]) \in Instances /\ Head(left[c])[1] = c
    <3> SUFFICES ASSUME left[c] # <<>>
                 PROVE  Head(left[c]) \in Instances /\ Head(left[c])[1] = c
      OBVIOUS
    <3>1. 1 \in DOMAIN left[c] /\ Head(left[c]) = left[c][1] /\ left[c][1] \in Instances
      BY <1>2
    <3> QED
      BY <3>1 DEF OrderInv, ListsHome
  <2>2. ASSUME NEW i \in gone'
        PROVE  i \in Instances /\ ~Open(i[1])'
    <3>1. i \in Instances /\ (i[1] = c \/ ~Open(i[1]))
      BY <1>1, <2>1 DEF OrderInv, GoneClosed
    <3>2. i[1] \in Containers
      BY <3>1, Homes
    <3> QED
      BY <3>1, <3>2, <1>1, <1>3 DEF Open
  <2> QED
    BY <2>2 DEF GoneClosed
<1> QED
  BY <1>6, <1>7, <1>8, <1>9 DEF OrderInv

LEMMA OrderStep ==
  ASSUME RoundInv, LeakInv, NeedsInv, OrderInv, [Next]_vars
  PROVE  OrderInv'
<1>1. ASSUME UNCHANGED <<order, created, disposeVars>>
      PROVE  OrderInv'
  BY <1>1, OrderUnchanged DEF disposeVars, Open
<1>2. ASSUME UNCHANGED <<buildVars, initVars, left, gone, call>>,
             \A c \in Containers :
               disposing'[c] = disposing[c] \/ (disposing[c] = "no" /\ disposing'[c] = "waiting")
      PROVE  OrderInv'
  BY <1>2, OrderUnchanged DEF buildVars, Open
<1>3. ASSUME NEW i \in Instances, BuildFails(i)
      PROVE  OrderInv'
  BY <1>3, <1>1 DEF BuildFails
<1>4. ASSUME NEW k \in Calls, InitializeParent(k) \/ InitializeOwn(k)
      PROVE  OrderInv'
  BY <1>4, <1>1 DEF InitializeParent, InitializeOwn, buildVars
<1>5. ASSUME NEW c \in Containers, NEW ok \in BOOLEAN, InstanceInitialized(c, ok)
      PROVE  OrderInv'
  BY <1>5, <1>1 DEF InstanceInitialized, buildVars
<1>6. ContainerStep => OrderInv'
  BY <1>3, <1>4, <1>5, OrderBuilt, OrderDisposal DEF ContainerStep
<1> QED
  BY <1>1, <1>2, <1>6, StepKinds

\* A request that has not begun has nothing in its scope.
FreshScopes ==
  /\ DOMAIN request = Scopes
  /\ \A r \in Scopes : request[r] = "none" =>
       \A i \in Instances : i[1] = r => stage[i] = "none" /\ i \notin created

\* The feature is disposed by the stop only.
FeatureStops == disposing[Feature] # "no" => stop \in {"feature", "done"}

\* Before the stop, a scope whose disposal has not begun is on the set.
ScopesKnown ==
  stop = "no" =>
    missed = {} /\ \A r \in Scopes :
      request[r] = "none" \/ r \in activeScopes \/ disposing[r] # "no"

\* The stop answers for every scope it does not miss, and has come to the end of
\* them when it goes on to the feature.
ScopesStopped ==
  /\ stop # "no" => \A r \in Scopes :
       request[r] = "none" \/ r \in missed \cup toStop \cup awaited \/ disposing[r] = "done"
  /\ stop \in {"feature", "done"} => toStop = {} /\ \A r \in Scopes :
       request[r] = "none" \/ r \in missed \/ disposing[r] = "done"

StopInv == FreshScopes /\ FeatureStops /\ ScopesKnown /\ ScopesStopped

\* A step of the containers takes a disposal forward and begins none; it builds
\* only what some call has asked for.
LEMMA ContainerForward ==
  ASSUME RoundInv, LeakInv, ContainerStep
  PROVE  /\ \A c \in Containers : /\ disposing[c] = "done" => disposing'[c] = "done"
                                  /\ disposing[c] # "no" <=> disposing'[c] # "no"
         /\ \A i \in Instances :
              stage[i] = "none" => stage'[i] = "none" /\ (i \in created' => i \in created)
<1>1. ASSUME NEW i \in Instances, Built(i) \/ BuildFails(i)
      PROVE  /\ UNCHANGED disposing
             /\ \A j \in Instances :
                  stage[j] = "none" => stage'[j] = "none" /\ (j \in created' => j \in created)
  BY <1>1 DEF Built, BuildFails, disposeVars, LeakInv, LeakTypes
<1>2. ASSUME NEW k \in Calls, InitializeParent(k) \/ InitializeOwn(k)
      PROVE  UNCHANGED <<disposing, stage, created>>
  BY <1>2 DEF InitializeParent, InitializeOwn, buildVars, disposeVars
<1>3. ASSUME NEW c \in Containers, NEW ok \in BOOLEAN, InstanceInitialized(c, ok)
      PROVE  UNCHANGED <<disposing, stage, created>>
  BY <1>3 DEF InstanceInitialized, buildVars, disposeVars
<1>4. ASSUME NEW c \in Containers, DisposalBegins(c) \/ InstanceDisposed(c)
      PROVE  /\ \A d \in Containers : /\ disposing[d] = "done" => disposing'[d] = "done"
                                      /\ disposing[d] # "no" <=> disposing'[d] # "no"
             /\ \A i \in Instances :
                  stage[i] = "none" => stage'[i] = "none" /\ (i \in created' => i \in created)
  <2>1. PICK rest \in Seq(Instances) :
          /\ DisposeRest(c, rest) /\ disposing[c] \in {"waiting", "disposing"} /\ UNCHANGED created
    BY <1>4, DisposalSteps
  <2>2. \A i \in Instances : stage[i] = "none" => stage'[i] = "none"
    BY <2>1 DEF DisposeRest, LeakInv, LeakTypes
  <2>3. \E to \in {"disposing", "done"} : disposing' = [disposing EXCEPT ![c] = to]
    BY <2>1 DEF DisposeRest
  <2> QED
    BY <2>1, <2>2, <2>3 DEF RoundInv, Shape
<1> QED
  BY <1>1, <1>2, <1>3, <1>4 DEF ContainerStep

LEMMA StopStep ==
  ASSUME RoundInv, LeakInv, StopInv, [Next]_vars
  PROVE  StopInv' /\ missed \subseteq missed'
<1> USE DEF requestVars, stopVars
<1>0. /\ Scopes \subseteq Containers /\ Feature \in Containers /\ Feature \notin Scopes
      /\ disposing \in [Containers -> {"no", "waiting", "disposing", "done"}]
  BY ContainerAssumption DEF ContainerAssumption, Containers, RoundInv, Shape
<1>1. ASSUME NEW cs, Dispose(cs)
      PROVE  \A c \in Containers :
               disposing'[c] = IF c \in cs /\ disposing[c] = "no" THEN "waiting" ELSE disposing[c]
  BY <1>1 DEF Dispose, Disposed
<1>2. ASSUME NEW r \in Scopes, Begin(r)
      PROVE  StopInv' /\ missed \subseteq missed'
  <2>1. /\ request[r] = "none"
        /\ request' = [request EXCEPT ![r] = "resolving"]
        /\ activeScopes' = activeScopes \cup {r}
        /\ Resolve(r, Wants[r])
        /\ missed' = IF stop = "no" THEN missed ELSE missed \cup {r}
        /\ UNCHANGED <<created, disposing, stop, toStop, awaited>>
    BY <1>2 DEF Begin, disposeVars
  <2>2. DOMAIN request' = Scopes /\ \A s \in Scopes : request'[s] = "none" => request[s] = "none" /\ s # r
    BY <2>1 DEF StopInv, FreshScopes
  <2>3. \A i \in Instances : stage'[i] # stage[i] => i[1] \in {r, Feature}
    <3> DEFINE wanted == { Home(r, t) : t \in Wants[r] } \cup UNION { NeedsOf(Home(r, t)) : t \in Wants[r] }
    <3>1. \A i \in wanted : i[1] \in {r, Feature}
      <4>1. \A t \in Wants[r] : Home(r, t)[1] \in {r, Feature}
        BY Homes
      <4>2. ASSUME NEW t \in Wants[r], NEW i \in NeedsOf(Home(r, t))
            PROVE  i[1] \in {r, Feature}
        BY <4>1, Homes DEF NeedsOf
      <4> QED
        BY <4>1, <4>2
    <3>2. \/ stage' = stage
          \/ stage' = [i \in Instances |->
                     IF i \in wanted /\ stage[i] = "none" THEN "building" ELSE stage[i]]
      BY <2>1 DEF Resolve
    <3> HIDE DEF wanted
    <3> QED
      BY <3>1, <3>2
  <2>4. FreshScopes'
    BY <1>0, <2>1, <2>2, <2>3 DEF StopInv, FreshScopes
  <2>5. FeatureStops' /\ ScopesKnown' /\ ScopesStopped'
    BY <2>1, <2>2 DEF StopInv, FeatureStops, ScopesKnown, ScopesStopped
  <2> QED
    BY <2>1, <2>4, <2>5 DEF StopInv
<1>3. ASSUME NEW r \in Scopes, Handle(r) \/ Respond(r)
      PROVE  StopInv' /\ missed \subseteq missed'
  <2>1. /\ request[r] # "none" /\ \E to : to # "none" /\ request' = [request EXCEPT ![r] = to]
        /\ UNCHANGED <<stage, created, disposing, activeScopes, stop, toStop, awaited, missed>>
    BY <1>3 DEF Handle, Respond, containerVars, buildVars, disposeVars
  <2>2. DOMAIN request' = Scopes /\ \A s \in Scopes : request'[s] = "none" <=> request[s] = "none"
    BY <2>1 DEF StopInv, FreshScopes
  <2> QED
    BY <2>1, <2>2 DEF StopInv, FreshScopes, FeatureStops, ScopesKnown, ScopesStopped
<1>4. ASSUME NEW r \in Scopes, ResolutionFails(r) \/ HandlerEnds(r)
      PROVE  StopInv' /\ missed \subseteq missed'
  <2>1. /\ request[r] # "none" /\ request' = [request EXCEPT ![r] = "ending"]
        /\ activeScopes' = activeScopes \ {r} /\ Dispose({r})
        /\ UNCHANGED <<stage, created, stop, toStop, awaited, missed>>
    BY <1>4 DEF ResolutionFails, HandlerEnds, DisposeScope, buildVars
  <2>2. \A c \in Containers :
          disposing'[c] = IF c = r /\ disposing[c] = "no" THEN "waiting" ELSE disposing[c]
    BY <1>1, <2>1
  <2>3. DOMAIN request' = Scopes /\ \A s \in Scopes : request'[s] = "none" <=> request[s] = "none"
    BY <2>1 DEF StopInv, FreshScopes
  <2>4. FreshScopes' /\ FeatureStops'
    BY <1>0, <2>1, <2>2, <2>3 DEF StopInv, FreshScopes, FeatureStops
  <2>5. ScopesKnown' /\ ScopesStopped'
    BY <1>0, <2>1, <2>2, <2>3 DEF StopInv, ScopesKnown, ScopesStopped
  <2> QED
    BY <2>1, <2>4, <2>5 DEF StopInv
<1>5. CASE Stop
  <2>1. /\ stop = "no" /\ stop' = "scopes" /\ toStop' = activeScopes
        /\ missed' = { r \in Scopes : disposing[r] \in {"waiting", "disposing"} }
        /\ UNCHANGED <<stage, created, disposing, request, awaited>>
    BY <1>5 DEF Stop, containerVars, buildVars, disposeVars
  <2>2. missed \subseteq missed'
    BY <2>1 DEF StopInv, ScopesKnown
  <2>3. \A r \in Scopes : disposing[r] # "no" => r \in missed' \/ disposing[r] = "done"
    BY <1>0, <2>1
  <2>4. FreshScopes' /\ FeatureStops' /\ ScopesKnown'
    BY <2>1 DEF StopInv, FreshScopes, FeatureStops, ScopesKnown
  <2>5. ScopesStopped'
    BY <2>1, <2>3 DEF StopInv, ScopesKnown, ScopesStopped
  <2> QED
    BY <2>2, <2>4, <2>5 DEF StopInv
<1>6. ASSUME NEW r \in Scopes, StopScope(r)
      PROVE  StopInv' /\ missed \subseteq missed'
  <2>1. /\ stop = "scopes" /\ GoesOn /\ toStop' = toStop \ {r} /\ awaited' = {r} /\ Dispose({r})
        /\ UNCHANGED <<stage, created, request, activeScopes, stop, missed>>
    BY <1>6 DEF StopScope, buildVars
  <2>2. \A c \in Containers :
          disposing'[c] = IF c = r /\ disposing[c] = "no" THEN "waiting" ELSE disposing[c]
    BY <1>1, <2>1
  <2>3. FreshScopes' /\ FeatureStops' /\ ScopesKnown'
    BY <1>0, <2>1, <2>2 DEF StopInv, FreshScopes, FeatureStops, ScopesKnown
  <2>4. ScopesStopped'
    BY <1>0, <2>1, <2>2 DEF StopInv, ScopesStopped, GoesOn
  <2> QED
    BY <2>1, <2>3, <2>4 DEF StopInv
<1>7. CASE StopFeature
  <2>1. /\ stop = "scopes" /\ toStop = {} /\ GoesOn /\ stop' = "feature" /\ awaited' = {Feature}
        /\ Dispose({Feature})
        /\ UNCHANGED <<stage, created, request, toStop, missed>>
    BY <1>7 DEF StopFeature, buildVars
  <2>2. \A r \in Scopes : disposing'[r] = disposing[r]
    BY <1>0, <1>1, <2>1
  <2>3. FreshScopes' /\ FeatureStops' /\ ScopesKnown'
    BY <2>1 DEF StopInv, FreshScopes, FeatureStops, ScopesKnown
  <2>4. \A r \in Scopes : request[r] = "none" \/ r \in missed \/ disposing[r] = "done"
    BY <1>0, <2>1 DEF StopInv, ScopesStopped, GoesOn
  <2>5. ScopesStopped'
    BY <2>1, <2>2, <2>4 DEF ScopesStopped
  <2> QED
    BY <2>1, <2>3, <2>5 DEF StopInv
<1>8. CASE Stopped
  <2>1. /\ stop = "feature" /\ stop' = "done"
        /\ UNCHANGED <<stage, created, disposing, request, activeScopes, toStop, awaited, missed>>
    BY <1>8 DEF Stopped, containerVars, buildVars, disposeVars
  <2> QED
    BY <2>1 DEF StopInv, FreshScopes, FeatureStops, ScopesKnown, ScopesStopped
<1>9. CASE UNCHANGED vars
  <2>1. UNCHANGED <<stage, created, disposing, request, activeScopes, stop, toStop, awaited, missed>>
    BY <1>9 DEF vars, containerVars, buildVars, disposeVars
  <2> QED
    BY <2>1 DEF StopInv, FreshScopes, FeatureStops, ScopesKnown, ScopesStopped
<1>10. CASE ContainerStep /\ UNCHANGED requestVars
  <2>1. UNCHANGED <<request, activeScopes, stop, toStop, awaited, missed>>
    BY <1>10
  <2>2. /\ \A c \in Containers : /\ disposing[c] = "done" => disposing'[c] = "done"
                                 /\ disposing[c] # "no" <=> disposing'[c] # "no"
        /\ \A i \in Instances :
             stage[i] = "none" => stage'[i] = "none" /\ (i \in created' => i \in created)
    BY <1>10, ContainerForward
  <2>3. FreshScopes' /\ FeatureStops'
    BY <1>0, <2>1, <2>2 DEF StopInv, FreshScopes, FeatureStops
  <2>4. ScopesKnown' /\ ScopesStopped'
    BY <1>0, <2>1, <2>2 DEF StopInv, ScopesKnown, ScopesStopped
  <2> QED
    BY <2>1, <2>3, <2>4 DEF StopInv
<1> QED
  BY <1>2, <1>3, <1>4, <1>5, <1>6, <1>7, <1>8, <1>9, <1>10 DEF Next, Proceed

\* When something is gone that an instance of an open container needs, the stop has
\* missed that container.
LEMMA OpenIsMissed ==
  ASSUME LeakInv, OrderInv, StopInv, NEW d \in Instances, NEW i \in gone, i \in NeedsOf(d),
         Open(d[1]), stage[d] = "building" \/ d \in created
  PROVE  d[1] \in missed
<1>1. i[1] \in {d[1], Feature} /\ ~Open(i[1])
  BY NeedsFacts DEF OrderInv, GoneClosed
<1>2. d[1] # Feature /\ ~Open(Feature) /\ d[1] \in Containers
  BY <1>1, Homes
<1>3. d[1] \in Scopes /\ stop \in {"feature", "done"}
  BY <1>2 DEF Containers, Open, StopInv, FeatureStops
<1>4. request[d[1]] # "none" /\ disposing[d[1]] # "done"
  BY <1>3 DEF StopInv, FreshScopes, Open
<1> QED
  BY <1>3, <1>4 DEF StopInv, ScopesStopped

\* What is disposed now is needed by nothing that has still to be disposed.
LEMMA HeadIsFree ==
  ASSUME NEW c \in Containers, InstanceDisposed(c), RoundInv, LeakInv, OrderInv, StopInv,
         NEW d \in created, Held(d), Head(left[c]) \in NeedsOf(d)
  PROVE  d \in gone \/ d[1] \in missed
<1> DEFINE i == Head(left[c])
<1>1. /\ disposing[c] = "disposing" /\ left[c] \in Seq(Instances) /\ left[c] # <<>>
      /\ d \in Instances
  BY DEF InstanceDisposed, LeakInv, LeakTypes, LoopRuns
<1>2. 1 \in DOMAIN left[c] /\ i = left[c][1] /\ i[1] = c
  BY <1>1 DEF OrderInv, ListsHome
<1>3. c \in {d[1], Feature} /\ d[1] \in Containers
  BY <1>1, <1>2, NeedsFacts, Homes
<1>4. CASE d[1] = c
  <2>1. d \in gone \/ d \in Range(left[c])
    BY <1>1, <1>4 DEF LeakInv, LeftKeeps
  <2>2. ASSUME NEW p \in DOMAIN left[c], left[c][p] = d
        PROVE  FALSE
    <3>1. p < 1
      BY <1>2, <2>2 DEF OrderInv, LeftOrdered
    <3> QED
      BY <1>1, <3>1
  <2> QED
    BY <2>1, <2>2 DEF Range
<1>5. CASE d[1] # c
  <2>1. d[1] \in Scopes /\ stop \in {"feature", "done"}
    BY <1>1, <1>3, <1>5 DEF Containers, StopInv, FeatureStops
  <2>2. request[d[1]] # "none"
    BY <1>1, <2>1 DEF StopInv, FreshScopes
  <2>3. d[1] \in missed \/ disposing[d[1]] = "done"
    BY <2>1, <2>2 DEF StopInv, ScopesStopped
  <2> QED
    BY <2>3 DEF LeakInv, NothingLeaks
<1> QED
  BY <1>4, <1>5

LEMMA FirstStep ==
  ASSUME RoundInv, LeakInv, NeedsInv, OrderInv, StopInv, DependentsFirst, [Next]_vars
  PROVE  DependentsFirst'
<1>0. missed \subseteq missed' /\ created \subseteq Instances
  BY StopStep DEF LeakInv, LeakTypes
<1>1. ASSUME UNCHANGED <<created, gone>>, \A d \in created : Held(d)' => Held(d)
      PROVE  DependentsFirst'
  BY <1>0, <1>1 DEF DependentsFirst, NeedsOf, Home
<1>2. UNCHANGED <<call, created, gone>> => DependentsFirst'
  BY <1>1 DEF Held, Cached
<1>3. ASSUME NEW s \in Scopes, Resolve(s, Wants[s]), UNCHANGED <<created, disposeVars>>
      PROVE  DependentsFirst'
  <2>1. \A k \in Calls : call'[k] = "done" => call[k] = "done"
    BY <1>3 DEF Resolve, LeakInv, LeakTypes
  <2>2. \A d \in created : Held(d)' => Held(d)
    BY <1>0, <2>1, Homes DEF Held, Cached
  <2> QED
    BY <1>1, <1>3, <2>2 DEF disposeVars
<1>4. ASSUME NEW i \in Instances, Built(i)
      PROVE  DependentsFirst'
  <2>1. /\ stage[i] = "building" /\ created' = created \cup {i} /\ UNCHANGED gone
        /\ \A k \in Calls : call'[k] \in {call[k], "built"}
    BY <1>4 DEF Built, Answer, disposeVars
  <2>2. \A d \in Instances : Held(d)' => Held(d)
    BY <2>1, Homes DEF Held, Cached
  <2>3. Held(i) => Open(i[1])
    BY <2>1 DEF Held, LeakInv, BuildsAwaited, LateUnanswered
  <2> SUFFICES ASSUME NEW d \in created', NEW n \in gone, n \in NeedsOf(d), Held(d)
               PROVE  d \in gone \/ d[1] \in missed'
    BY <1>0, <2>1, <2>2 DEF DependentsFirst, NeedsOf, Home
  <2>4. CASE d \in created
    BY <1>0, <2>4 DEF DependentsFirst
  <2>5. CASE d = i
    BY <1>0, <2>1, <2>3, <2>5, OpenIsMissed
  <2> QED
    BY <2>1, <2>4, <2>5
<1>5. ASSUME NEW i \in Instances, BuildFails(i)
      PROVE  DependentsFirst'
  <2>1. /\ \A k \in Calls : call'[k] \in {call[k], "failed"}
        /\ UNCHANGED <<created, gone>>
    BY <1>5 DEF BuildFails, Answer, disposeVars
  <2>2. \A d \in created : Held(d)' => Held(d)
    BY <1>0, <2>1, Homes DEF Held, Cached
  <2> QED
    BY <1>1, <2>1, <2>2
<1>6. ASSUME UNCHANGED <<created, gone>>,
             \A k \in Calls : call'[k] = "done" => call[k] = "done" \/ Open(k[1])
      PROVE  DependentsFirst'
  <2> SUFFICES ASSUME NEW d \in created, NEW n \in gone, n \in NeedsOf(d), Held(d)'
               PROVE  d \in gone \/ d[1] \in missed
    BY <1>0, <1>6 DEF DependentsFirst, NeedsOf, Home
  <2>1. CASE Held(d)
    BY <2>1 DEF DependentsFirst
  <2>2. CASE ~Held(d)
    <3>1. d \in Calls /\ call'[d] = "done" /\ call[d] # "done"
      BY <1>0, <2>2, Homes DEF Held, Cached
    <3> QED
      BY <1>0, <1>6, <3>1, OpenIsMissed
  <2> QED
    BY <2>1, <2>2
<1>7. ASSUME NEW k \in Calls, InitializeParent(k)
      PROVE  DependentsFirst'
  <2>1. UNCHANGED <<created, gone>> /\ \E to : to # "done" /\ call' = [call EXCEPT ![k] = to]
    BY <1>7 DEF InitializeParent, Initialize, buildVars, disposeVars
  <2> QED
    BY <1>6, <2>1 DEF LeakInv, LeakTypes
<1>8. ASSUME NEW k \in Calls, InitializeOwn(k)
      PROVE  DependentsFirst'
  <2>1. UNCHANGED <<created, gone>>
    BY <1>8 DEF InitializeOwn, buildVars, disposeVars
  <2>2. \E to : (to = "done" => ~Disposed(k[1])) /\ call' = [call EXCEPT ![k] = to]
    BY <1>8 DEF InitializeOwn, Initialize
  <2> QED
    BY <1>6, <2>1, <2>2 DEF LeakInv, LeakTypes, Disposed, Open
<1>9. ASSUME NEW c \in Containers, NEW ok \in BOOLEAN, InstanceInitialized(c, ok)
      PROVE  DependentsFirst'
  <2>1. /\ at[c] # 0 /\ UNCHANGED <<created, gone>>
        /\ call' = call \/ \E b \in BOOLEAN : call' = AfterRound(c, b)
    BY <1>9 DEF InstanceInitialized, buildVars, disposeVars
  <2>2. Open(c)
    BY <2>1 DEF RoundInv, InitEndsBeforeDisposal, Open
  <2>3. \A k \in Calls : call'[k] = "done" => call[k] = "done" \/ k[1] = c
    BY <2>1 DEF AfterRound
  <2> QED
    BY <1>6, <2>1, <2>2, <2>3
<1>10. ASSUME NEW c \in Containers, DisposalBegins(c)
       PROVE  DependentsFirst'
  BY <1>2, <1>10 DEF DisposalBegins
<1>11. ASSUME NEW c \in Containers, InstanceDisposed(c)
       PROVE  DependentsFirst'
  <2>1. UNCHANGED <<call, created>> /\ gone' = gone \cup {Head(left[c])}
    BY <1>11 DEF InstanceDisposed
  <2> SUFFICES ASSUME NEW d \in created, NEW n \in gone', n \in NeedsOf(d), Held(d)
               PROVE  d \in gone' \/ d[1] \in missed'
    BY <2>1 DEF DependentsFirst, NeedsOf, Home, Held, Cached
  <2>2. CASE n \in gone
    BY <1>0, <2>1, <2>2 DEF DependentsFirst
  <2>3. CASE n = Head(left[c])
    BY <1>0, <1>11, <2>1, <2>3, HeadIsFree
  <2> QED
    BY <2>1, <2>2, <2>3
<1>12. ContainerStep => DependentsFirst'
  BY <1>4, <1>5, <1>7, <1>8, <1>9, <1>10, <1>11 DEF ContainerStep
<1>13. UNCHANGED <<buildVars, initVars, left, gone, call>> => DependentsFirst'
  BY <1>2 DEF buildVars
<1> QED
  BY <1>3, <1>12, <1>13, StepKinds

\* A singleton of the feature is disposed after all that requests made from it,
\* but for the scopes the stop did not find (runtime.ts:133).
THEOREM DependentsGoFirst == Spec => []DependentsFirst
<1>1. Init => RoundInv /\ LeakInv
  BY DEF Init, ContainerInit, RoundInv, Shape, InitEndsBeforeDisposal,
         LeakInv, LeakTypes, OrderKeeps, LeftKeeps, LoopRuns,
         BuildsAwaited, LateUnanswered, NothingLeaks, Instances, Calls, Containers
<1>2. Init => NeedsInv /\ DependentsFirst
  BY DEF Init, ContainerInit, NeedsInv, StoredIsCreated, CreatedIsStored, CreatedHasNeeds,
         BuildHasNeeds, DependentsFirst
<1>3. Init => OrderInv
  BY DEF Init, ContainerInit, OrderInv, ListsHome, OrderOrdered, LeftOrdered, GoneClosed
<1>4. Init => StopInv
  BY DEF Init, ContainerInit, StopInv, FreshScopes, FeatureStops, ScopesKnown, ScopesStopped,
         Containers
<1>5. RoundInv /\ LeakInv /\ NeedsInv /\ OrderInv /\ StopInv /\ DependentsFirst /\ [Next]_vars
        => RoundInv' /\ LeakInv' /\ NeedsInv' /\ OrderInv' /\ StopInv' /\ DependentsFirst'
  BY StepKeeps, LeakStep, NeedsStep, OrderStep, StopStep, FirstStep
<1> QED
  BY <1>1, <1>2, <1>3, <1>4, <1>5, PTL DEF Spec
=============================================================================
