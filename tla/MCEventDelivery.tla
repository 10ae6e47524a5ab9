---------------------------- MODULE MCEventDelivery ----------------------------
(***************************************************************************)
(* Two events with one fault, or one event with three.                     *)
(***************************************************************************)
EXTENDS EventDelivery

TwoHandlers == <<"h", "i">>

MCInit == Init /\ IF record["b"] = "none" THEN faults = MaxFaults - 1 ELSE faults = 0

MCSpec == MCInit /\ [][Next]_vars /\ Fairness
=============================================================================
