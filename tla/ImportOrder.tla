------------------------------ MODULE ImportOrder ------------------------------
(***************************************************************************)
(* orderFeatureImports (src/kernel/application/imports.ts): a depth-first  *)
(* walk of the imports, one step for each feature its loops come to.       *)
(*                                                                         *)
(* Features are named by their place in the list of the application; Root  *)
(* stands for that list.                                                   *)
(***************************************************************************)
EXTENDS Integers, Sequences, SequencesExt

CONSTANT Size   \* number of features

ASSUME ImportOrderAssumption == Size \in Nat \ {0}

Root == 0
Features == 1..Size
Homes == {Root} \cup Features

VARIABLES
  imports,   \* the imports of each feature, in order
  turn,      \* how far the loop of each visit is
  visiting,  \* the visits that have not ended, the first of them Root's
  ordered,   \* what has been visited, in that order
  cycle      \* the walk has thrown

searchVars == <<turn, visiting, ordered, cycle>>
orderVars == <<imports, searchVars>>

SearchInit ==
  /\ turn = [h \in Homes |-> 0]
  /\ visiting = <<Root>> /\ ordered = <<>> /\ cycle = FALSE

OrderInit == imports \in [Features -> Seq(Features)] /\ SearchInit

-----------------------------------------------------------------------------
Listed(h) == IF h = Root THEN [f \in Features |-> f] ELSE imports[h]

\* The visit whose loop is running, and the feature that it visits next.
Visitor == Last(visiting)
Goes == ~cycle /\ turn[Visitor] < Len(Listed(Visitor))
Callee == Listed(Visitor)[turn[Visitor] + 1]
Turned == [turn EXCEPT ![Visitor] = @ + 1]

\* Mutant: a feature that has been visited is visited again.
NeverVisited(f) == FALSE
Visited(f) == f \in Range(ordered)

SkipVisited ==
  /\ Goes /\ Visited(Callee)
  /\ turn' = Turned
  /\ UNCHANGED <<imports, visiting, ordered, cycle>>

FindCycle ==
  /\ Goes /\ ~Visited(Callee) /\ Callee \in Range(visiting)
  /\ cycle' = TRUE
  /\ UNCHANGED <<imports, turn, visiting, ordered>>

EnterFeature ==
  /\ Goes /\ ~Visited(Callee) /\ Callee \notin Range(visiting)
  /\ turn' = [Turned EXCEPT ![Callee] = 0]
  /\ visiting' = Append(visiting, Callee)
  /\ UNCHANGED <<imports, ordered, cycle>>

LeaveFeature ==
  /\ turn[Visitor] = Len(Listed(Visitor)) /\ Visitor # Root
  /\ visiting' = Front(visiting)
  /\ ordered' = Append(ordered, Visitor)
  /\ UNCHANGED <<imports, turn, cycle>>

OrderNext == SkipVisited \/ FindCycle \/ EnterFeature \/ LeaveFeature

OrderSpec == OrderInit /\ [][OrderNext]_orderVars

\* The walk has returned its order.
Ordered == turn[Root] = Size /\ visiting = <<Root>> /\ ~cycle

-----------------------------------------------------------------------------
\* A feature and all it imports, directly or not.
Complete(fs) == \A f \in fs : Range(imports[f]) \subseteq fs
Needed(f) == { g \in Features : \A fs \in SUBSET Features : f \in fs /\ Complete(fs) => g \in fs }
Imported(f) == UNION { Needed(g) : g \in Range(imports[f]) }

\* Of what is needed by the features up to r, nothing else comes before it.
After(g, r) == \A h \in 1..r : g \notin Needed(h)
Place(f) == CHOOSE i \in DOMAIN ordered : ordered[i] = f

\* The order has each feature once, after all that it imports, and otherwise keeps
\* that of the list (imports.ts:4): a feature moves up only before the first one
\* that needs it.  The walk throws instead when there is no such order, and only
\* then.
OrderIsRight ==
  /\ Ordered =>
       /\ Len(ordered) = Size /\ Range(ordered) = Features
       /\ \A f, g \in Features : f \in Imported(g) => Place(f) < Place(g)
       /\ \A r, g \in Features : \A f \in Needed(r) : After(g, r) => Place(f) < Place(g)
  /\ cycle => \E f \in Features : f \in Imported(f)
================================================================================
