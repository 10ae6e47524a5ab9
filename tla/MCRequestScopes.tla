--------------------------- MODULE MCRequestScopes ---------------------------
(***************************************************************************)
(* Instances of RequestScopes: S, a singleton made when it is first asked   *)
(* for; R, a request token that needs it; and X, a transient.               *)
(***************************************************************************)
EXTENDS RequestScopes, TLC

MCLifetime ==
  [t \in {"S", "R", "X"} |->
     CASE t = "S" -> "singleton" [] t = "R" -> "request" [] t = "X" -> "transient"]
MCNeeds == [t \in {"S", "R", "X"} |-> IF t = "R" THEN {"S"} ELSE {}]
MCWants == ("r1" :> {"R", "X"}) @@ ("r2" :> {"R"})
MCWantsOne == ("r1" :> {"R", "X"})
=============================================================================
