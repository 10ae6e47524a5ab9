-------------------------------- MODULE Locks --------------------------------
(***************************************************************************)
(* MemoryLockStore and withLock (src/kernel/data/locks.ts): leases that    *)
(* expire while their holders work on, and holders that release late.      *)
(*                                                                         *)
(* An entry of the map has the token of its holder and expires with the    *)
(* holder's lease, so the holder stands for both; left is relative to now. *)
(***************************************************************************)
EXTENDS Integers, FiniteSets

CONSTANTS
  Holders,   \* calls of withLock that may overlap
  LockKeys,
  NoHolder,
  MaxKeys,   \* MemoryLockStoreOptions.maxKeys
  LeaseTtl   \* ttlMs, in ticks

ASSUME LocksAssumption ==
  /\ NoHolder \notin Holders /\ IsFiniteSet(LockKeys) /\ LockKeys # {}
  /\ MaxKeys \in Nat \ {0} /\ LeaseTtl \in Nat \ {0}

VARIABLES
  locks,   \* the map: whose token each key has
  left,    \* what is left of the lease of a holder
  holding  \* the key a holder works under, NoHolder when it holds none

lockVars == <<locks, left, holding>>

LocksInit ==
  /\ locks = [k \in LockKeys |-> NoHolder]
  /\ left = [h \in Holders |-> 0]
  /\ holding = [h \in Holders |-> NoHolder]

-----------------------------------------------------------------------------
\* purge, with which every acquire begins.  Mutant: it drops the last tick too.
PurgeEarly == [k \in LockKeys |-> IF locks[k] # NoHolder /\ left[locks[k]] > 1
                                  THEN locks[k] ELSE NoHolder]
Purge == [k \in LockKeys |-> IF locks[k] # NoHolder /\ left[locks[k]] > 0
                             THEN locks[k] ELSE NoHolder]

Held(map) == { k \in LockKeys : map[k] # NoHolder }

Acquire(h, k) ==
  /\ holding[h] = NoHolder
  /\ k \notin Held(Purge) /\ Cardinality(Held(Purge)) < MaxKeys
  /\ locks' = [Purge EXCEPT ![k] = h]
  /\ left' = [left EXCEPT ![h] = LeaseTtl]
  /\ holding' = [holding EXCEPT ![h] = k]

\* A held key, and a full store, give null: withLock throws.
Refuse(h, k) ==
  /\ holding[h] = NoHolder
  /\ k \in Held(Purge) \/ Cardinality(Held(Purge)) >= MaxKeys
  /\ locks' = Purge
  /\ UNCHANGED <<left, holding>>

\* The comparison of the tokens.  Mutant: whoever releases frees the key.
AnyToken(h) == holding[h]
OwnEntry(h) == IF locks[holding[h]] = h THEN holding[h] ELSE NoHolder

\* The work settles, either way, and its lease is released.
ReleaseLease(h) ==
  /\ holding[h] # NoHolder
  /\ locks' = [k \in LockKeys |-> IF k = OwnEntry(h) THEN NoHolder ELSE locks[k]]
  /\ holding' = [holding EXCEPT ![h] = NoHolder]
  /\ UNCHANGED left

LockTick ==
  /\ \E h \in Holders : left[h] > 0
  /\ left' = [h \in Holders |-> IF left[h] > 0 THEN left[h] - 1 ELSE 0]
  /\ UNCHANGED <<locks, holding>>

LocksNext ==
  \/ \E h \in Holders, k \in LockKeys : Acquire(h, k) \/ Refuse(h, k)
  \/ \E h \in Holders : ReleaseLease(h)
  \/ LockTick

LocksSpec == LocksInit /\ [][LocksNext]_lockVars

-----------------------------------------------------------------------------
\* Types; the map is bounded.
LocksTypeOK ==
  /\ locks \in [LockKeys -> Holders \cup {NoHolder}]
  /\ left \in [Holders -> 0..LeaseTtl]
  /\ holding \in [Holders -> LockKeys \cup {NoHolder}]
  /\ Cardinality(Held(locks)) <= MaxKeys

\* Until its lease expires or it releases it, a holder has its key, and nobody
\* else works under that key with a lease that has not expired: a holder that
\* overran its own lease does not free the next one's (locks.ts:52), and a full
\* store evicts nobody (README.md:868).
LeaseHeld ==
  \A h \in Holders :
    holding[h] # NoHolder /\ left[h] > 0 =>
      /\ locks[holding[h]] = h
      /\ \A g \in Holders : holding[g] = holding[h] /\ left[g] > 0 => g = h
=============================================================================
