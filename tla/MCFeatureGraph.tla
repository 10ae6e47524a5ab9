---------------------------- MODULE MCFeatureGraph ----------------------------
(***************************************************************************)
(* The applications that the runs explore: any import graph, of features   *)
(* that provide nothing; a few providers of any kind, of the application,  *)
(* of the first feature and of a last one that may import it; and          *)
(* providers that need each other in a row, some of them shadowed.         *)
(***************************************************************************)
EXTENDS FeatureGraph

CONSTANT MaxProviders   \* bound: providers of an application of any kind

\* Tokens are interchangeable.
Two == CHOOSE ts \in SUBSET Tokens : Cardinality(ts) = 2

Wishes(t) == SUBSET (({Context} \cup Two) \ {t})
Shapes(t) == [life : IF t = Controller THEN {"singleton"} ELSE {"singleton", "request", "transient"},
              needs : Wishes(t)]

Ends == {Root, 1, Size}
FewSlots == (Ends \X Two) \cup ({1, Size} \X {Controller})
FewProviders ==
  UNION { { p \in [ss -> UNION { Shapes(s[2]) : s \in ss }] : \A s \in ss : p[s] \in Shapes(s[2]) } :
          ss \in { s \in SUBSET FewSlots : Cardinality(s) <= MaxProviders } }

Needing(life, ds) == [life |-> life, needs |-> ds]
Controlling(t) == <<Size, Controller>> :> Needing("singleton", {t})

\* The controller of the last feature, or a route of it, needs t, of g, and that u, of
\* h; k may have a u of its own.
Chains ==
  { (IF c.life = "request" THEN <<>> ELSE Controlling(c.t))
      @@ (<<c.g, c.t>> :> Needing(c.life, {c.u})) @@ (<<c.h, c.u>> :> c.last)
      @@ (<<c.k, c.u>> :> Needing(c.own, {})) :
    c \in { d \in [g : Ends, h : Ends, k : Ends, t : Two, u : Two,
                   life : {"singleton", "request", "transient"},
                   own : {"singleton", "request"}, last : UNION { Shapes(t) : t \in Two }] :
             d.t # d.u /\ d.last \in Shapes(d.u) } }

\* Providers of the last feature and of the application, or of the first feature,
\* between them, of which the last has one that shadows a need of the others.
Knots ==
  UNION { { (<<Size, c.t>> :> Needing(c.life, {c.u})) @@ (<<Root, c.u>> :> Needing(c.life, {c.w}))
              @@ (<<Root, c.w>> :> Needing(c.life, {c.t})) @@ (<<Root, c.t>> :> Needing(c.own, {}))
              @@ (<<Size, c.w>> :> Needing(c.own, {})),
            Controlling(c.t) @@ (<<1, c.t>> :> Needing(c.life, {c.u}))
              @@ (<<1, c.u>> :> Needing(c.life, {c.w})) @@ (<<Size, c.w>> :> Needing(c.own, {c.u}))
              @@ (<<Root, c.u>> :> Needing(c.own, {})) @@ (<<Root, c.w>> :> Needing(c.own, {})) } :
          c \in { d \in [t : Tokens, u : Tokens, w : Tokens, life : {"request", "transient"},
                         own : {"singleton", "transient"}] :
                   Cardinality({d.t, d.u, d.w}) = 3 } }

\* The last feature may import the first one.
Importing(s) == [f \in Features |-> IF f = Size THEN s ELSE <<>>]

MCApplications ==
  /\ \/ /\ imports \in [Features -> SetToAllKPermutations(Features)]
        /\ provider = <<>>
     \/ /\ imports \in { Importing(s) : s \in {<<>>, <<1>>} }
        /\ provider \in FewProviders
     \/ /\ imports = Importing(<<1>>) /\ Size > 1
        /\ provider \in Chains \cup Knots
  /\ exports \in { [f \in Features |-> IF f = 1 THEN ts ELSE {}] :
                     ts \in SUBSET { t \in Tokens : <<1, t>> \in DOMAIN provider } }
  /\ Applications

MCGraphInit == MCApplications /\ Undone
MCGraphSpec == MCGraphInit /\ [][GraphNext]_graphVars
=============================================================================
