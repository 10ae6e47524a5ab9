----------------------------- MODULE MCJobQueue -----------------------------
(* Small instances of JobQueue: the option records a client chooses from.  *)
EXTENDS JobQueueRefinement, TLC

Opt(p, m, d, k, t) ==
  [ priority |-> p, maxAttempts |-> m, delay |-> d, key |-> k, timed |-> t ]

\* Priority, delay, retries, a deduplication identity and a timeout, each in a
\* record that also meets the others.
MCOptions ==
  { Opt(1, 1, 0, NoKey, FALSE), Opt(0, 2, 0, "k", TRUE),
    Opt(0, 2, 2, "k", FALSE),   Opt(0, 1, 1, NoKey, TRUE) }

LiveOptions == { Opt(1, 1, 0, NoKey, FALSE), Opt(0, 2, 1, "k", TRUE) }

MCBackoffs == {0, 1, NoDelay}

\* Ids are interchangeable in every safety property.
Ids == Permutations(Jobs)
=============================================================================
