------------------------------ MODULE RateLimit ------------------------------
(***************************************************************************)
(* MemoryRateLimitStore (src/kernel/security/rate-limit.ts): fixed windows *)
(* per key, as rateLimit consumes them before a request is handled.        *)
(***************************************************************************)
EXTENDS Integers, FiniteSets, FiniteSetsExt

CONSTANTS
  Clients,     \* the keys
  Limit,
  RateWindow,  \* windowMs, in ticks
  MaxBuckets   \* maxKeys

ASSUME RateLimitAssumption ==
  /\ IsFiniteSet(Clients)
  /\ Limit \in Nat \ {0} /\ RateWindow \in Nat \ {0} /\ MaxBuckets \in Nat \ {0}

VARIABLES
  buckets,  \* the map: count, to Limit + 1, and what is left of the window
  admitted  \* history: how long ago the latest requests of a key were admitted,
            \* the latest first; RateWindow when it is as long or there is none

rateVars == <<buckets, admitted>>

Empty == [count |-> 0, left |-> 0]
NobodyYet == [i \in 1..(2 * Limit) |-> RateWindow]

RateInit ==
  /\ buckets = [k \in Clients |-> Empty]
  /\ admitted = [k \in Clients |-> NobodyYet]

-----------------------------------------------------------------------------
\* purge.  Mutant: when the store is full, the buckets with the least left go too.
EvictOldest ==
  LET full == { k \in Clients : buckets[k].left > 0 }
  IN [k \in Clients |->
        IF k \notin full \/ (Cardinality(full) >= MaxBuckets /\ \A j \in full : buckets[k].left <= buckets[j].left)
        THEN Empty ELSE buckets[k]]
PurgeBuckets == [k \in Clients |-> IF buckets[k].left = 0 THEN Empty ELSE buckets[k]]

BucketsInUse == { k \in Clients : PurgeBuckets[k] # Empty }

Refused(k) == k \notin BucketsInUse /\ Cardinality(BucketsInUse) >= MaxBuckets

Counted(k) ==
  IF k \in BucketsInUse
  THEN [PurgeBuckets[k] EXCEPT !.count = Min({@ + 1, Limit + 1})]
  ELSE [count |-> 1, left |-> RateWindow]

WithOneMore(k) == [i \in 1..(2 * Limit) |-> IF i = 1 THEN 0 ELSE admitted[k][i - 1]]

\* consume: a full store refuses a new key, and a request over the limit counts.
Consume(k) ==
  IF Refused(k)
  THEN buckets' = PurgeBuckets /\ UNCHANGED admitted
  ELSE /\ buckets' = [PurgeBuckets EXCEPT ![k] = Counted(k)]
       /\ admitted' = IF Counted(k).count <= Limit
                      THEN [admitted EXCEPT ![k] = WithOneMore(k)] ELSE admitted

RateTick ==
  /\ buckets' = [k \in Clients |-> [buckets[k] EXCEPT !.left = IF @ > 0 THEN @ - 1 ELSE 0]]
  /\ admitted' = [k \in Clients |-> [i \in 1..(2 * Limit) |->
                    IF admitted[k][i] < RateWindow THEN admitted[k][i] + 1 ELSE RateWindow]]

\* clear() begins a new count for everyone.
ClearBuckets ==
  /\ buckets' = [k \in Clients |-> Empty]
  /\ admitted' = [k \in Clients |-> NobodyYet]

RateNext == RateTick \/ ClearBuckets \/ \E k \in Clients : Consume(k)

RateSpec == RateInit /\ [][RateNext]_rateVars

-----------------------------------------------------------------------------
\* In any span of one window, not only in those the store counts in, a key is
\* admitted less than twice its limit, and a key that had a bucket keeps it
\* however many others come: the last but 2 * Limit - 1 is a window ago.
SpanBounded == \A k \in Clients : admitted[k][2 * Limit] = RateWindow
=============================================================================
