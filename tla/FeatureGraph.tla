----------------------------- MODULE FeatureGraph -----------------------------
(***************************************************************************)
(* The graph of an application before and while it is put together: the    *)
(* checks of application() (src/kernel/application/feature.ts), the order  *)
(* of feature imports (module ImportOrder), the validation of the          *)
(* architecture seal (architecture.ts), the composition                    *)
(* (bootstrap/composition.ts) and the walks of src/kernel/di/resolution.ts *)
(* that seal and composition use.                                          *)
(*                                                                         *)
(* An application is picked in the initial state.  A container is a record *)
(* of its owner, Root or a feature, and whether it is a request scope      *)
(* below it.  The walks recurse in the code; here they keep the calls that *)
(* are still to be made.  Left out are "uses", which adds checks to the    *)
(* seal and nothing to the graph, the folders that the seal reads, and     *)
(* overrides.                                                              *)
(***************************************************************************)
EXTENDS ImportOrder, FiniteSets

CONSTANTS
  Tokens,        \* tokens of providers
  Controller,    \* stands for the token of each feature's own controller
  Context        \* REQUEST_CONTEXT, a value in every request scope

ASSUME FeatureGraphAssumption ==
  /\ IsFiniteSet(Tokens)
  /\ Controller \notin Tokens /\ Context \notin Tokens \cup {Controller}

VARIABLES
  exports,   \* the tokens that each feature exports
  provider,  \* lifetime and needs of each <<home, token>> there is a provider for
  stage,     \* "pods", "refused", "declared", "sealing", "sealed", "rejected",
             \* "composing", "composed" or "failed"
  sealed,    \* history: the seal found no violation
  checking,  \* calls of validateToken that the seal has still to make
  checked,   \* history: those that have found nothing
  building,  \* calls of buildAsync still to make, the next one first
  cache,     \* the home of the provider each cached instance was made by
  wired,     \* history: <<home, token, need, home of what it was given>>
  resolved   \* tokens that the route of a request has asked for

choiceVars == <<imports, exports, provider>>
sealVars == <<sealed, checking, checked>>
buildVars == <<building, cache, wired>>
graphVars == <<choiceVars, searchVars, stage, sealVars, buildVars, resolved>>

Slots == (Homes \X Tokens) \cup (Features \X {Controller})

Provides(h) == { t \in Tokens \cup {Controller} : <<h, t>> \in DOMAIN provider }

\* Any features and providers; pod() has seen to it that a feature provides what it
\* exports.
Applications ==
  /\ imports \in [Features -> Seq(Features)]
  /\ DOMAIN provider \subseteq Slots
  /\ provider \in [DOMAIN provider -> [life : {"singleton", "request", "transient"},
                                       needs : SUBSET (Tokens \cup {Context})]]
  /\ exports \in [Features -> SUBSET Tokens]
  /\ \A f \in Features : exports[f] \subseteq Provides(f)

Undone ==
  /\ stage = "pods" /\ SearchInit
  /\ sealed = FALSE /\ checking = {} /\ checked = {}
  /\ building = <<>> /\ cache = <<>> /\ wired = {} /\ resolved = {}

GraphInit == Applications /\ Undone

-----------------------------------------------------------------------------
(* application().                                                          *)

Unambiguous(f) ==
  /\ IsInjective(imports[f])
  /\ \A i, j \in DOMAIN imports[f] :
       i # j => exports[imports[f][i]] \cap exports[imports[f][j]] = {}
  /\ \A g \in Range(imports[f]) : g # f /\ exports[g] \cap Provides(f) = {}

Declare ==
  /\ stage = "pods"
  /\ stage' = IF \A f \in Features : Unambiguous(f) THEN "declared" ELSE "refused"
  /\ UNCHANGED <<choiceVars, searchVars, sealVars, buildVars, resolved>>

-----------------------------------------------------------------------------
(* orderFeatureImports, which seal and composition call, is a function of  *)
(* the features: its walk is made once for both.                           *)

WalkImports ==
  /\ stage = "declared" /\ OrderNext
  /\ UNCHANGED <<exports, provider, stage, sealVars, buildVars, resolved>>

-----------------------------------------------------------------------------
(* Where a container finds a token.                                        *)

None == [home |-> Root - 1, request |-> FALSE]
Plain(h) == [home |-> h, request |-> FALSE]
RequestOf(h) == [home |-> h, request |-> TRUE]

Own(c) == IF c.request THEN {Context} ELSE Provides(c.home)

\* ownerOf: the container itself, then its parents.
OwnerOf(c, t) ==
  IF t \in Own(c) THEN c
  ELSE IF t \in Provides(c.home) THEN Plain(c.home)
  ELSE IF t \in Provides(Root) THEN Plain(Root)
  ELSE None

\* importedOwnerOf; application() has seen to it that there is at most one.
ImportedOwnerOf(c, t) ==
  LET from == IF c.home = Root THEN {} ELSE { g \in Range(imports[c.home]) : t \in exports[g] }
  IN IF from = {} THEN None ELSE Plain(CHOOSE g \in from : TRUE)

Found(c, t) == IF OwnerOf(c, t) # None THEN OwnerOf(c, t) ELSE ImportedOwnerOf(c, t)

LifeAt(c, t) == IF c.request THEN "singleton" ELSE provider[<<c.home, t>>].life
NeedsAt(c, t) == IF c.request THEN {} ELSE provider[<<c.home, t>>].needs

\* assertNoRequestDependency, with providerOf.
CapturesRequest(owner, local, t) ==
  /\ LifeAt(owner, t) = "singleton"
  /\ \E d \in NeedsAt(owner, t) :
       LET from == IF d \in Own(local) THEN local ELSE Found(owner, d)
       IN from # None /\ LifeAt(from, d) = "request"

-----------------------------------------------------------------------------
(* The seal.                                                               *)

\* A call of validateToken, below those for the tokens on the stack.
Check(c, t, stack, inRequest) ==
  [at |-> c, token |-> t, stack |-> stack, request |-> inRequest]

\* assertApplicationGraph and assertFeatureGraph: singletons and the controller in
\* the container, the others in a request scope.
InRequest(h, t) == t # Controller /\ LifeAt(Plain(h), t) # "singleton"
ChecksOf(h) ==
  { Check([home |-> h, request |-> InRequest(h, t)], t, {}, InRequest(h, t)) : t \in Provides(h) }

\* The lifetime test of validateToken.  Mutant: it is left to resolution.
AnyScope(life, inRequest) == TRUE
ScopeFits(life, inRequest) == life = "request" => inRequest

Accepts(k) ==
  LET owner == Found(k.at, k.token)
  IN /\ owner # None /\ k.token \notin k.stack
     /\ ScopeFits(LifeAt(owner, k.token), k.request)
     /\ ~CapturesRequest(owner, owner, k.token)

\* Every need is looked up from the container that the search began with, or from
\* the one that the token was imported from.
NextChecks(k) ==
  LET owner == Found(k.at, k.token)
      from == IF OwnerOf(k.at, k.token) = None THEN owner ELSE k.at
  IN { Check(from, d, k.stack \cup {k.token}, k.request) : d \in NeedsAt(owner, k.token) }

BeginSeal ==
  /\ stage = "declared" /\ (Ordered \/ cycle)
  /\ stage' = IF cycle THEN "rejected" ELSE "sealing"
  /\ checking' = IF cycle THEN {} ELSE UNION { ChecksOf(h) : h \in Homes }
  /\ UNCHANGED <<choiceVars, searchVars, sealed, checked, buildVars, resolved>>

\* The calls of one depth are made in one step; a violation is only noted, so it
\* does not matter which is the first.
Validate ==
  /\ stage = "sealing"
  /\ IF \A k \in checking : Accepts(k)
     THEN /\ checked' = checked \cup checking
          /\ checking' = UNION { NextChecks(k) : k \in checking }
          /\ sealed' = (checking' = {})
          /\ stage' = IF sealed' THEN "sealed" ELSE "sealing"
     ELSE stage' = "rejected" /\ UNCHANGED sealVars
  /\ UNCHANGED <<choiceVars, searchVars, buildVars, resolved>>

-----------------------------------------------------------------------------
(* Resolution: buildSync and buildAsync, which agree in what they build    *)
(* from what.                                                              *)

\* A call from a container, for a scope; user is what needs the token, if anything.
Demand(c, t, stack, scope, user) ==
  [from |-> c, token |-> t, stack |-> stack, scope |-> scope, user |-> user]

Maker(b) == Found(b.from, b.token)
LifeOf(b) == LifeAt(Maker(b), b.token)

\* The scope of what it needs.
Under(b) == IF LifeOf(b) = "singleton" THEN Maker(b) ELSE b.scope

\* A request instance is cached by its token in the request scope, whoever provides
\* it.
Cached(b) == LifeOf(b) # "transient" /\ <<Under(b), b.token>> \in DOMAIN cache

Buildable(b) ==
  /\ Maker(b) # None /\ b.token \notin b.stack
  /\ LifeOf(b) = "request" => b.scope.request
  /\ Cached(b) \/ ~CapturesRequest(Maker(b), b.scope, b.token)

\* The parameters of a constructor are in some order.
Orders(S) == { ds \in [1..Cardinality(S) -> S] : IsInjective(ds) }

DemandFor(b, d) ==
  Demand(IF d \in Own(Under(b)) THEN Under(b) ELSE Maker(b), d, b.stack \cup {b.token},
       Under(b), {<<Maker(b).home, b.token>>})

Given(b, home) == wired \cup { <<u[1], u[2], b.token, home>> : u \in b.user }

RefuseToken ==
  /\ building # <<>> /\ ~Buildable(Head(building))
  /\ stage' = "failed" /\ building' = <<>>
  /\ UNCHANGED <<choiceVars, searchVars, sealVars, cache, wired, resolved>>

ReuseInstance ==
  /\ building # <<>>
  /\ LET b == Head(building)
     IN /\ Buildable(b) /\ Cached(b)
        /\ wired' = Given(b, cache[<<Under(b), b.token>>])
  /\ building' = Tail(building)
  /\ UNCHANGED <<choiceVars, searchVars, stage, sealVars, cache, resolved>>

\* No call below this one asks for the token again, so it may be cached at once.
MakeInstance ==
  /\ building # <<>>
  /\ LET b == Head(building)
     IN /\ Buildable(b) /\ ~Cached(b)
        /\ \E ds \in Orders(NeedsAt(Maker(b), b.token)) :
             building' = [i \in DOMAIN ds |-> DemandFor(b, ds[i])] \o Tail(building)
        /\ cache' = IF LifeOf(b) = "transient" THEN cache
                    ELSE (<<Under(b), b.token>> :> Maker(b).home) @@ cache
        /\ wired' = Given(b, Maker(b).home)
  /\ UNCHANGED <<choiceVars, searchVars, stage, sealVars, resolved>>

Asked(c, t) == Demand(c, t, {}, c, {})

\* Each feature finds the containers of its imports.
ImportsAvailable(fs) ==
  \A i \in DOMAIN fs : Range(imports[fs[i]]) \subseteq { fs[j] : j \in 1..(i - 1) }

Shared == { t \in Provides(Root) : LifeAt(Plain(Root), t) = "singleton" }
Controlled == { f \in Features : Controller \in Provides(f) }
Listing(fs) == \A i, j \in DOMAIN fs : i < j => fs[i] < fs[j]

\* composeApplication: the singletons of the application, the containers in the
\* order of the imports, and the controllers in that of the list.  A host may do
\* this without the seal.
Compose ==
  /\ stage \in {"sealed", "rejected"}
  /\ IF cycle \/ ~ImportsAvailable(ordered)
     THEN stage' = "failed" /\ UNCHANGED building
     ELSE /\ stage' = "composing"
          /\ \E ts \in Orders(Shared), fs \in Orders(Controlled) :
               /\ Listing(fs)
               /\ building' = [i \in DOMAIN ts |-> Asked(Plain(Root), ts[i])]
                                \o [i \in DOMAIN fs |-> Asked(Plain(fs[i]), Controller)]
  /\ UNCHANGED <<choiceVars, searchVars, sealVars, cache, wired, resolved>>

EndCompose ==
  /\ stage = "composing" /\ building = <<>>
  /\ stage' = "composed"
  /\ UNCHANGED <<choiceVars, searchVars, sealVars, buildVars, resolved>>

\* A route of f resolves a token of its feature, of the application, or imported,
\* in the scope of the one request of a behaviour.
Resolvable(f) ==
  Provides(f) \cup Provides(Root) \cup UNION { exports[g] : g \in Range(imports[f]) }

ResolveInRequest(f, t) ==
  /\ stage = "composed" /\ building = <<>>
  /\ t \in Resolvable(f)
  /\ <<f, t>> \notin resolved /\ \A p \in resolved : p[1] = f
  /\ resolved' = resolved \cup {<<f, t>>}
  /\ building' = <<Asked(RequestOf(f), t)>>
  /\ UNCHANGED <<choiceVars, searchVars, stage, sealVars, cache, wired>>

GraphNext ==
  \/ Declare \/ WalkImports \/ BeginSeal \/ Validate \/ Compose \/ EndCompose
  \/ RefuseToken \/ ReuseInstance \/ MakeInstance
  \/ \E f \in Features : \E t \in Tokens \cup {Controller} : ResolveInRequest(f, t)

GraphSpec == GraphInit /\ [][GraphNext]_graphVars

-----------------------------------------------------------------------------
\* No feature provides what a provider of the application, or of a feature that it
\* imports, needs.
NothingShadowed ==
  \A f \in Features : \A s \in DOMAIN provider :
    s[1] \in Imported(f) \cup {Root} => provider[s].needs \cap Provides(f) = {}

\* What the seal accepts is composed and serves, whatever else is shared,
\* imported or cached by then: assertApplicationGraph and assertFeatureGraph
\* (architecture.ts:180, 215) foresee what buildAsync will refuse.
SealIsSound == sealed /\ NothingShadowed => stage # "failed"

\* README.md:302: "The architecture seal checks feature wiring and the complete
\* constructor graph before the server starts": what it accepts is composed.
SealedBuilds == sealed => stage # "failed"

\* README.md:269: imported providers "are resolved from the original feature
\* container, including that provider's private constructor dependencies, so module
\* internals do not leak into the importer": what a feature provides and does not
\* export is what its own providers are given, and not another home's.
PrivateStaysPrivate ==
  sealed => \A w \in wired :
    w[1] \in Features /\ w[3] \in Provides(w[1]) \ exports[w[1]] => w[4] = w[1]
=============================================================================
