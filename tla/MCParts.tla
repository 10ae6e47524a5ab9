------------------------------- MODULE MCParts --------------------------------
(***************************************************************************)
(* Parts of the kernel that share no variable, side by side: a behaviour   *)
(* is one of a single part, chosen at the start, and the states of the     *)
(* parts add up.  A part that was not chosen stays in one initial state.   *)
(***************************************************************************)
EXTENDS Database, Locks, Migrations, MemoryCache, BruteForce, RateLimit,
        HttpClient, ApplicationLife, MCFeatureGraph, RequestHooks

CONSTANTS r1, r2, r3, k1, k2, k3, t1

VARIABLE part

Releases == (r1 :> {1, 2}) @@ (r2 :> {1, 2, 3}) @@ (r3 :> {1, 3})
Lives == { [ttl |-> 1, tags |-> {t1}], [ttl |-> 2, tags |-> {}] }
Writes == (k1 :> 1) @@ (k2 :> 0) @@ (k3 :> 0)

Parts == {"database", "locks", "migrations", "cache", "guard", "rate", "http", "life", "graph",
          "hooks"}

partsVars == <<dbVars, lockVars, migVars, cacheVars, guardVars, rateVars, httpVars,
               lifeVars, graphVars, hooksVars, part>>

\* The choices of the parts that have some.
DefaultChoices ==
  /\ IF part = "http" THEN TRUE ELSE wanted = "request" /\ repeatable = FALSE /\ aborted = FALSE
  /\ IF part = "life" THEN TRUE ELSE roots = 1
  /\ IF part = "graph" THEN TRUE
     ELSE imports = [f \in Features |-> <<>>] /\ provider = <<>>

Init ==
  /\ part \in Parts
  /\ DefaultChoices
  /\ DbInit /\ LocksInit /\ MigInit /\ CacheInit /\ GuardInit /\ RateInit
  /\ HttpInit /\ LifeInit /\ MCGraphInit /\ HooksInit

Frame(p) ==
  CASE p = "database" -> UNCHANGED dbVars
    [] p = "locks" -> UNCHANGED lockVars
    [] p = "migrations" -> UNCHANGED migVars
    [] p = "cache" -> UNCHANGED cacheVars
    [] p = "guard" -> UNCHANGED guardVars
    [] p = "rate" -> UNCHANGED rateVars
    [] p = "http" -> UNCHANGED httpVars
    [] p = "life" -> UNCHANGED lifeVars
    [] p = "graph" -> UNCHANGED graphVars
    [] p = "hooks" -> UNCHANGED hooksVars

Next ==
  /\ UNCHANGED part
  /\ \A p \in Parts \ {part} : Frame(p)
  /\ \/ part = "database" /\ DbNext
     \/ part = "locks" /\ LocksNext
     \/ part = "migrations" /\ MigNext
     \/ part = "cache" /\ CacheNext
     \/ part = "guard" /\ GuardNext
     \/ part = "rate" /\ RateNext
     \/ part = "http" /\ HttpNext
     \/ part = "life" /\ LifeNext
     \/ part = "graph" /\ GraphNext
     \/ part = "hooks" /\ HooksNext

Spec ==
  /\ Init /\ [][Next]_partsVars
  /\ WF_dbVars(part = "database" /\ DbProgress)
  /\ WF_httpVars(part = "http" /\ HttpProgress)
  /\ WF_lifeVars(part = "life" /\ LifeProgress)
=============================================================================
