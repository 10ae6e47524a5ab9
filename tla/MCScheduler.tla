---------------------------- MODULE MCScheduler ----------------------------
(* Two tasks: one with a deduplication key, one without.                   *)
EXTENDS Scheduler, TLC

MCTaskKey == ("keyed" :> "k") @@ ("plain" :> NoKey)
=============================================================================
