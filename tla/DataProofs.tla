------------------------------ MODULE DataProofs ------------------------------
(***************************************************************************)
(* Proofs about Database, Locks, BruteForce, MemoryCache, RateLimit and    *)
(* Migrations, for every set of calls, holders, keys, attempts and         *)
(* releases, and every bound.                                              *)
(***************************************************************************)
EXTENDS Database, Locks, BruteForce, MemoryCache, RateLimit, Migrations, TLAPS,
        FiniteSetTheorems, SequenceTheorems, WellFoundedInduction

-----------------------------------------------------------------------------
(* The connection.                                                         *)

Working == { o \in Ops : op[o] = "working" }

\* What the flags say of each other: the state closed is that of a disposal,
\* what has not connected has no client, a round in progress has the only
\* connection, and a disposal that has looked finds nothing new.
DbFlags ==
  /\ state = "closed" <=> disposal # "no"
  /\ state \in {"disconnected", "connecting"} => conn = "none"
  /\ state = "connected" => conn = "open"
  /\ round = "connecting" => conn = "none"
  /\ conn = "open" <=> hasClient
  /\ conn = "closing" <=> round = "late" \/ disposal = "closing"
  /\ round = "late" => disposal # "no"
  /\ disposal \in {"waiting", "quiet", "closing", "done", "failed"} => round \notin Connecting
  /\ disposal \in {"closing", "done", "failed"} => ~hasClient
  /\ starter # NoOp => op[starter] = "starting"

\* The counter of beginOperation, and what it is for.
DbCounted ==
  /\ active = Cardinality(Working)
  /\ disposal \in {"quiet", "closing", "done", "failed"} => active = 0
  /\ active > 0 => conn = "open"

DbInv == DbTypeOK /\ DbFlags /\ DbCounted

LEMMA WorkingIsFinite == IsFiniteSet(Working) /\ Cardinality(Working) \in Nat
BY DatabaseAssumption, FS_Subset, FS_CardinalityType DEF Working

\* Someone works exactly when the counter is not 0.
LEMMA NobodyWorks ==
  ASSUME DbInv, NEW o \in Ops, op[o] = "working"
  PROVE  active > 0
<1>1. o \in Working
  BY DEF Working
<1>2. Cardinality(Working) # 0
  BY <1>1, WorkingIsFinite, FS_EmptySet
<1> QED
  BY <1>2, WorkingIsFinite DEF DbInv, DbCounted

LEMMA DbStart == DbInit => DbInv
<1> SUFFICES ASSUME DbInit PROVE DbInv
  OBVIOUS
<1>1. Working = {}
  BY DEF DbInit, Working
<1>2. DbCounted
  BY <1>1, FS_EmptySet DEF DbInit, DbCounted
<1> QED
  BY <1>2, DatabaseAssumption DEF DbInit, DbInv, DbTypeOK, DbFlags, Connecting

LEMMA DbStep ==
  ASSUME DbInv, [DbNext]_dbVars
  PROVE  DbInv'
<1> USE DEF DbInv, DbTypeOK, DbFlags, Connecting
<1>1. ASSUME NEW o \in Ops, Call(o)
      PROVE  DbInv'
  <2>1. Working' = Working /\ UNCHANGED <<hasClient, conn, active, disposal>>
    BY <1>1 DEF Call, Working
  <2>2. DbTypeOK'
    BY <1>1, DatabaseAssumption DEF Call
  <2>3. DbFlags'
    BY <1>1, <2>1 DEF Call
  <2> QED
    BY <2>1, <2>2, <2>3 DEF DbCounted
<1>2. ASSUME ConnectSucceeds \/ ConnectsTooLate \/ ConnectFails \/ ClearRound
      PROVE  DbInv'
  <2>1. Working' = Working /\ UNCHANGED <<active, disposal>>
    BY <1>2 DEF ConnectSucceeds, ConnectsTooLate, ConnectFails, ClearRound, Joined, Working
  <2>2. DbTypeOK'
    BY <1>2 DEF ConnectSucceeds, ConnectsTooLate, ConnectFails, ClearRound, Joined
  <2>3. DbFlags'
    BY <1>2, <2>1 DEF ConnectSucceeds, ConnectsTooLate, ConnectFails, ClearRound, TooLate,
                     Joined
  <2>4. conn = "open" => conn' = "open"
    BY <1>2 DEF ConnectSucceeds, ConnectsTooLate, ConnectFails, ClearRound
  <2>5. DbCounted'
    BY <2>1, <2>4 DEF DbCounted
  <2> QED
    BY <2>2, <2>3, <2>5
<1>3. ASSUME NEW o \in Ops, Start(o)
      PROVE  DbInv'
  <2>1. UNCHANGED <<state, hasClient, conn, round, starter, disposal>>
    BY <1>3 DEF Start
  <2>2. DbTypeOK' /\ (starter' # NoOp => op'[starter'] = "starting")
    BY <1>3, <2>1 DEF Start
  <2>3. CASE op'[o] = "working"
    <3>1. Working' = Working \cup {o} /\ o \notin Working /\ active' = active + 1
          /\ state = "connected"
      BY <1>3, <2>3 DEF Start, Working, ClientReady
    <3>2. Cardinality(Working') = Cardinality(Working) + 1
      BY <3>1, WorkingIsFinite, FS_AddElement
    <3> QED
      BY <2>1, <2>2, <3>1, <3>2 DEF DbCounted
  <2>4. CASE op'[o] # "working"
    <3>1. Working' = Working /\ active' = active
      BY <1>3, <2>4 DEF Start, Working
    <3> QED
      BY <2>1, <2>2, <3>1 DEF DbCounted
  <2> QED
    BY <2>3, <2>4
<1>4. ASSUME NEW o \in Ops, Release(o)
      PROVE  DbInv'
  <2>1. /\ UNCHANGED <<state, hasClient, conn, round, starter>>
        /\ active > 0 /\ active' = active - 1 /\ disposal' = Woken
    BY <1>4, NobodyWorks DEF Release
  <2>2. Working' = Working \ {o} /\ o \in Working
    BY <1>4 DEF Release, Working
  <2>3. Cardinality(Working') = Cardinality(Working) - 1
    BY <2>2, WorkingIsFinite, FS_RemoveElement
  <2>4. DbTypeOK' /\ DbFlags'
    BY <1>4, <2>1 DEF Release, Woken
  <2> QED
    BY <2>1, <2>3, <2>4 DEF DbCounted, Woken
<1>5. ASSUME Dispose \/ AfterRound \/ CloseClient \/ CloseSettles
      PROVE  DbInv'
  <2>1. Working' = Working /\ UNCHANGED <<round, starter, op, active>>
    BY <1>5 DEF Dispose, AfterRound, CloseClient, CloseSettles, Working
  <2>2. DbTypeOK'
    BY <1>5, <2>1 DEF Dispose, AfterRound, CloseClient, CloseSettles, WaitForIdle
  <2>3. DbFlags'
    BY <1>5, <2>1 DEF Dispose, AfterRound, CloseClient, CloseSettles, WaitForIdle
  <2>4. DbCounted'
    BY <1>5, <2>1 DEF Dispose, AfterRound, CloseClient, CloseSettles, WaitForIdle, DbCounted
  <2> QED
    BY <2>2, <2>3, <2>4
<1>6. ASSUME UNCHANGED dbVars
      PROVE  DbInv'
  <2>1. UNCHANGED <<state, hasClient, conn, round, starter, op, active, disposal>>
    BY <1>6 DEF dbVars
  <2>2. DbCounted'
    BY <2>1 DEF DbCounted, Working
  <2> QED
    BY <2>1, <2>2
<1> HIDE DEF DbInv
<1> QED
  BY <1>1, <1>2, <1>3, <1>4, <1>5, <1>6 DEF DbNext, DbProgress

\* However many operations overlap with dispose(), none works on a client that is
\* being closed, and no client is left behind (database.ts:66, 137).
THEOREM ClientIsOwnedAlways == DbSpec => []ClientIsOwned
<1>1. DbInv => ClientIsOwned
  BY NobodyWorks DEF DbInv, DbTypeOK, DbFlags, DbCounted, Connecting, ClientIsOwned
<1> QED
  BY <1>1, DbStart, DbStep, PTL DEF DbSpec

-----------------------------------------------------------------------------
(* The locks.                                                              *)

\* A holder whose lease lasts is the one the map names.
LocksInv ==
  /\ LocksTypeOK
  /\ \A h \in Holders : holding[h] # NoHolder /\ left[h] > 0 => locks[holding[h]] = h

LEMMA LocksStart == LocksInit => LocksInv
<1> SUFFICES ASSUME LocksInit PROVE LocksInv
  OBVIOUS
<1>1. Held(locks) = {}
  BY DEF LocksInit, Held
<1>2. Cardinality(Held(locks)) = 0
  BY <1>1, FS_EmptySet
<1> QED
  BY <1>2, LocksAssumption DEF LocksInit, LocksInv, LocksTypeOK

\* A map with fewer keys is no larger, and one more key makes it one larger.
LEMMA HeldBound ==
  ASSUME NEW map \in [LockKeys -> Holders \cup {NoHolder}]
  PROVE  /\ IsFiniteSet(Held(map)) /\ Cardinality(Held(map)) \in Nat
         /\ \A other \in [LockKeys -> Holders \cup {NoHolder}] :
              Held(other) \subseteq Held(map) => Cardinality(Held(other)) <= Cardinality(Held(map))
         /\ \A h \in Holders, k \in LockKeys :
              k \notin Held(map) =>
                Cardinality(Held([map EXCEPT ![k] = h])) = Cardinality(Held(map)) + 1
<1>1. IsFiniteSet(Held(map))
  BY LocksAssumption, FS_Subset DEF Held
<1>2. ASSUME NEW h \in Holders, NEW k \in LockKeys, k \notin Held(map)
      PROVE  Cardinality(Held([map EXCEPT ![k] = h])) = Cardinality(Held(map)) + 1
  <2>1. Held([map EXCEPT ![k] = h]) = Held(map) \cup {k}
    BY LocksAssumption DEF Held
  <2> QED
    BY <1>1, <1>2, <2>1, FS_AddElement
<1> QED
  BY <1>1, <1>2, FS_Subset, FS_CardinalityType

LEMMA LocksStep ==
  ASSUME LocksInv, [LocksNext]_lockVars
  PROVE  LocksInv'
<1> USE DEF LocksInv, LocksTypeOK
<1>purged. /\ Purge \in [LockKeys -> Holders \cup {NoHolder}]
           /\ Cardinality(Held(Purge)) \in Nat /\ Cardinality(Held(Purge)) <= MaxKeys
           /\ \A h \in Holders :
                holding[h] # NoHolder /\ left[h] > 0 => Purge[holding[h]] = h
  <2>1. Purge \in [LockKeys -> Holders \cup {NoHolder}] /\ Held(Purge) \subseteq Held(locks)
    BY DEF Purge, Held
  <2>2. Cardinality(Held(Purge)) \in Nat /\ Cardinality(Held(Purge)) <= Cardinality(Held(locks))
    BY <2>1, HeldBound
  <2>3. \A h \in Holders : holding[h] # NoHolder /\ left[h] > 0 => Purge[holding[h]] = h
    BY LocksAssumption DEF Purge
  <2> QED
    BY <2>1, <2>2, <2>3, HeldBound, LocksAssumption
<1>1. ASSUME NEW h \in Holders, NEW k \in LockKeys, Acquire(h, k)
      PROVE  LocksInv'
  <2>1. /\ holding[h] = NoHolder /\ k \notin Held(Purge)
        /\ Cardinality(Held(Purge)) < MaxKeys
        /\ locks' = [Purge EXCEPT ![k] = h] /\ left' = [left EXCEPT ![h] = LeaseTtl]
        /\ holding' = [holding EXCEPT ![h] = k]
    BY <1>1 DEF Acquire
  <2>2. locks' \in [LockKeys -> Holders \cup {NoHolder}] /\ left' \in [Holders -> 0..LeaseTtl]
        /\ holding' \in [Holders -> LockKeys \cup {NoHolder}]
    BY <2>1, <1>purged, LocksAssumption
  <2>3. Cardinality(Held(locks')) <= MaxKeys
    <3>1. Cardinality(Held([Purge EXCEPT ![k] = h])) = Cardinality(Held(Purge)) + 1
      BY <2>1, <1>purged, HeldBound
    <3>2. Cardinality(Held([Purge EXCEPT ![k] = h])) <= MaxKeys
      BY <2>1, <3>1, <1>purged, LocksAssumption
    <3> QED
      BY <2>1, <3>2
  <2>4. Purge[k] = NoHolder
    BY <2>1 DEF Held
  <2>5. ASSUME NEW g \in Holders, holding'[g] # NoHolder, left'[g] > 0
        PROVE  locks'[holding'[g]] = g
    BY <2>1, <2>4, <2>5, <1>purged, LocksAssumption
  <2>6. Held(locks)' = Held(locks')
    BY DEF Held
  <2> QED
    BY <2>2, <2>3, <2>5, <2>6
<1>2. ASSUME NEW h \in Holders, NEW k \in LockKeys, Refuse(h, k)
      PROVE  LocksInv'
  <2>1. locks' = Purge /\ UNCHANGED <<left, holding>>
    BY <1>2 DEF Refuse
  <2>2. Held(locks)' = Held(Purge)
    BY <2>1 DEF Held
  <2> QED
    BY <2>1, <2>2, <1>purged
<1>3. ASSUME NEW h \in Holders, ReleaseLease(h)
      PROVE  LocksInv'
  <2>1. /\ holding[h] # NoHolder /\ UNCHANGED left
        /\ locks' = [k \in LockKeys |-> IF k = OwnEntry(h) THEN NoHolder ELSE locks[k]]
        /\ holding' = [holding EXCEPT ![h] = NoHolder]
    BY <1>3 DEF ReleaseLease
  <2>2. locks' \in [LockKeys -> Holders \cup {NoHolder}]
        /\ holding' \in [Holders -> LockKeys \cup {NoHolder}]
    BY <2>1
  <2>3. Held(locks') \subseteq Held(locks)
    BY <2>1 DEF Held
  <2>4. Cardinality(Held(locks')) <= MaxKeys
    BY <2>2, <2>3, HeldBound, LocksAssumption
  <2>5. ASSUME NEW g \in Holders, holding'[g] # NoHolder, left'[g] > 0
        PROVE  locks'[holding'[g]] = g
    <3>1. g # h /\ holding'[g] = holding[g] /\ locks[holding[g]] = g
      BY <2>1, <2>5
    <3>2. holding[g] # OwnEntry(h)
      BY <3>1, <2>5 DEF OwnEntry
    <3> QED
      BY <2>1, <2>5, <3>1, <3>2
  <2>6. Held(locks)' = Held(locks')
    BY DEF Held
  <2> QED
    BY <2>1, <2>2, <2>4, <2>5, <2>6
<1>4. CASE LockTick
  <2>1. UNCHANGED <<locks, holding>>
        /\ left' = [h \in Holders |-> IF left[h] > 0 THEN left[h] - 1 ELSE 0]
    BY <1>4 DEF LockTick
  <2>2. Held(locks)' = Held(locks)
    BY <2>1 DEF Held
  <2>3. left' \in [Holders -> 0..LeaseTtl] /\ \A h \in Holders : left'[h] > 0 => left[h] > 0
    BY <2>1, LocksAssumption
  <2> QED
    BY <2>1, <2>2, <2>3
<1>5. CASE UNCHANGED lockVars
  <2>1. UNCHANGED <<locks, left, holding>>
    BY <1>5 DEF lockVars
  <2>2. Held(locks)' = Held(locks)
    BY <2>1 DEF Held
  <2> QED
    BY <2>1, <2>2
<1> HIDE DEF LocksInv
<1> QED
  BY <1>1, <1>2, <1>3, <1>4, <1>5 DEF LocksNext

\* A lease that lasts is its holder's alone, however many holders overrun theirs
\* and release late (locks.ts:45, 52).
THEOREM LeaseHeldAlways == LocksSpec => []LeaseHeld
<1>1. LocksInv => LeaseHeld
  BY DEF LocksInv, LocksTypeOK, LeaseHeld
<1> QED
  BY <1>1, LocksStart, LocksStep, PTL DEF LocksSpec

-----------------------------------------------------------------------------
(* The login guard.                                                        *)

\* A set of numbers has a least one.
LEMMA HasLeast ==
  ASSUME NEW T \in SUBSET Nat, T # {}
  PROVE  \E x \in T : \A y \in T : x <= y
<1> DEFINE R == OpToRel(<, Nat)
<1>1. IsWellFoundedOn(R, Nat)
  BY NatLessThanWellFounded
<1>2. \A m, n \in Nat : <<m, n>> \in R <=> m < n
  BY DEF OpToRel
<1> HIDE DEF R
<1>3. PICK x \in T : \A y \in T : ~(<<y, x>> \in R)
  BY <1>1, WFMin
<1>4. ASSUME NEW y \in T
      PROVE  x <= y
  <2>1. ~(y < x)
    BY <1>2, <1>3
  <2> QED
    BY <2>1
<1> QED
  BY <1>4

\* The states of a key: only a lockout, which its last failure began, has a lock.
GuardStates == [failures : 0..MaxFailures, window : Nat, lock : Nat]
LocksAtLimit(s) == s.failures # MaxFailures => s.lock = 0

GuardInv ==
  /\ states \in [Names -> GuardStates] /\ \A k \in Names : LocksAtLimit(states[k])
  /\ seen \in [Attempts -> GuardStates] /\ \A a \in Attempts : LocksAtLimit(seen[a])
  /\ saturated \in Nat
  /\ call \in [Attempts -> {"idle", "looked", "authenticating"}]
  /\ name \in [Attempts -> Names \cup {NoName}]
  /\ \A a \in Attempts : call[a] # "idle" => name[a] \in Names
  /\ \A a \in Attempts : call[a] = "authenticating" => seen[a].lock = 0

LEMMA PurgedIsState ==
  ASSUME NEW s \in GuardStates, LocksAtLimit(s)
  PROVE  Purged(s) \in GuardStates /\ LocksAtLimit(Purged(s)) /\ Purged(s).lock = s.lock
<1>1. Absent \in GuardStates /\ LocksAtLimit(Absent) /\ Absent.lock = 0
  BY BruteForceAssumption DEF Absent, GuardStates, LocksAtLimit
<1>2. CASE s.window = 0 /\ s.lock = 0
  BY <1>1, <1>2 DEF Purged
<1>3. CASE ~(s.window = 0 /\ s.lock = 0)
  BY <1>3 DEF Purged
<1> QED
  BY <1>2, <1>3

LEMMA LiveIsState ==
  ASSUME GuardInv
  PROVE  /\ Live \in [Names -> GuardStates]
         /\ \A k \in Names : LocksAtLimit(Live[k]) /\ Live[k].lock = states[k].lock
<1>1. \A k \in Names : Live[k] = Purged(states[k])
  BY DEF Live
<1>2. \A k \in Names : states[k] \in GuardStates /\ LocksAtLimit(states[k])
  BY DEF GuardInv
<1>3. \A k \in Names : Purged(states[k]) \in GuardStates /\ LocksAtLimit(Purged(states[k]))
                       /\ Purged(states[k]).lock = states[k].lock
  BY <1>2, PurgedIsState
<1> QED
  BY <1>1, <1>3 DEF Live

LEMMA NextCapacityIsTime == GuardInv => NextCapacity \in Nat
<1> SUFFICES ASSUME GuardInv PROVE NextCapacity \in Nat
  OBVIOUS
<1> DEFINE T == {Lockout} \cup { Max({Live[k].window, Live[k].lock}) : k \in Present }
<1>1. ASSUME NEW m \in Nat, NEW n \in Nat
      PROVE  Max({m, n}) \in Nat
  <2>1. \E x \in {m, n} : \A y \in {m, n} : x >= y
    <3>1. m >= n \/ n >= m
      OBVIOUS
    <3> QED
      BY <3>1
  <2>2. Max({m, n}) \in {m, n}
    BY <2>1 DEF Max
  <2> QED
    BY <2>2
<1>2. T \in SUBSET Nat
  <2>1. \A k \in Present : Live[k] \in GuardStates
    BY LiveIsState DEF Present
  <2>2. \A k \in Present : Live[k].window \in Nat /\ Live[k].lock \in Nat
    BY <2>1 DEF GuardStates
  <2>3. \A k \in Present : Max({Live[k].window, Live[k].lock}) \in Nat
    BY <1>1, <2>2
  <2> QED
    BY <2>3, BruteForceAssumption
<1>3. \E x \in T : \A y \in T : x <= y
  <2> HIDE DEF T
  <2>1. T # {}
    BY DEF T
  <2> QED
    BY <1>2, <2>1, HasLeast
<1>4. Min(T) \in T
  BY <1>3 DEF Min
<1> QED
  BY <1>2, <1>4 DEF NextCapacity

LEMMA GuardStart == GuardInit => GuardInv
  BY BruteForceAssumption DEF GuardInit, GuardInv, Absent, GuardStates, LocksAtLimit

\* One step of the guard: what a state was read before, and the locks.
Stands ==
  \A k \in Names :
    states'[k].lock < states[k].lock - 1 =>
      \E a \in Attempts : name[a] = k /\ call[a] # "idle" /\ call'[a] # call[a]
                          /\ seen[a].lock = 0

\* What a step leaves of the map of states.
StatesKept ==
  /\ states' \in [Names -> GuardStates]
  /\ \A k \in Names : LocksAtLimit(states'[k])

LEMMA ForgetKeeps ==
  ASSUME GuardInv, NEW k \in Names, Forget(k)
  PROVE  StatesKept /\ \A j \in Names \ {k} : states'[j] = states[j]
<1>1. Absent \in GuardStates /\ LocksAtLimit(Absent)
  BY BruteForceAssumption DEF Absent, GuardStates, LocksAtLimit
<1> QED
  BY <1>1 DEF Forget, GuardInv, StatesKept

LEMMA RecordKeeps ==
  ASSUME GuardInv, NEW k \in Names, RecordFailure(k)
  PROVE  /\ StatesKept /\ saturated' \in Nat
         /\ \A j \in Names : states'[j].lock >= states[j].lock
<1>1. /\ Live \in [Names -> GuardStates]
      /\ \A j \in Names : LocksAtLimit(Live[j]) /\ Live[j].lock = states[j].lock
                          /\ states[j].lock \in Nat
  BY LiveIsState DEF GuardInv, GuardStates
<1>2. CASE states' = Live /\ saturated' \in Nat
  BY <1>1, <1>2 DEF StatesKept
<1>3. CASE states' = [Live EXCEPT ![k] = Struck(k)] /\ ~(Live[k].lock > 0) /\ saturated' = saturated
  <2>1. Live[k] \in GuardStates
    BY <1>1
  <2>2. CountOneMore(k) \in 0..MaxFailures
    <3> DEFINE n == Live[k].failures + 1
    <3>1. n \in Nat /\ MaxFailures \in Nat
      BY <2>1, BruteForceAssumption DEF GuardStates
    <3>2. \E x \in {n, MaxFailures} : \A y \in {n, MaxFailures} : x <= y
      <4>1. n <= MaxFailures \/ MaxFailures <= n
        BY <3>1
      <4> HIDE DEF n
      <4> QED
        BY <3>1, <4>1
    <3>3. Min({n, MaxFailures}) \in {n, MaxFailures} /\ Min({n, MaxFailures}) <= MaxFailures
      BY <3>2 DEF Min
    <3> HIDE DEF n
    <3>4. Min({n, MaxFailures}) \in 0..MaxFailures
      BY <3>1, <3>3
    <3> QED
      BY <3>4 DEF CountOneMore, n
  <2>3. Struck(k) \in GuardStates /\ LocksAtLimit(Struck(k)) /\ Struck(k).lock \in Nat
    BY <2>1, <2>2, BruteForceAssumption DEF Struck, GuardStates, LocksAtLimit
  <2>4. /\ states' \in [Names -> GuardStates] /\ states'[k] = Struck(k)
        /\ \A j \in Names \ {k} : states'[j] = Live[j]
    BY <1>1, <1>3, <2>3
  <2>5. states[k].lock = 0
    BY <1>1, <1>3
  <2>6. StatesKept
    BY <1>1, <2>3, <2>4 DEF StatesKept
  <2>7. ASSUME NEW j \in Names
        PROVE  states'[j].lock >= states[j].lock
    <3>1. CASE j = k
      BY <3>1, <2>3, <2>4, <2>5
    <3>2. CASE j # k
      BY <3>2, <2>4, <1>1
    <3> QED
      BY <3>1, <3>2
  <2> QED
    BY <1>3, <2>6, <2>7 DEF GuardInv
<1> QED
  BY <1>2, <1>3, NextCapacityIsTime DEF RecordFailure, GuardInv

LEMMA AgedIsState ==
  ASSUME NEW s \in GuardStates, LocksAtLimit(s)
  PROVE  /\ Aged(s) \in GuardStates /\ LocksAtLimit(Aged(s))
         /\ Aged(s).lock >= s.lock - 1 /\ (s.lock = 0 => Aged(s).lock = 0)
<1>1. \A n \in Nat : Less(n) \in Nat /\ Less(n) >= n - 1 /\ (n = 0 => Less(n) = 0)
  BY DEF Less
<1>2. s.window \in Nat /\ s.lock \in Nat /\ s.failures \in 0..MaxFailures
  BY DEF GuardStates
<1>3. Aged(s) \in GuardStates /\ Aged(s).failures = s.failures /\ Aged(s).lock = Less(s.lock)
  <2> DEFINE w == Less(s.window)
             l == Less(s.lock)
  <2>1. w \in Nat /\ l \in Nat
    BY <1>1, <1>2
  <2>2. Aged(s) = [s EXCEPT !.window = w, !.lock = l]
    BY DEF Aged, GuardStates
  <2> HIDE DEF w, l
  <2>3. /\ [s EXCEPT !.window = w, !.lock = l] \in GuardStates
        /\ [s EXCEPT !.window = w, !.lock = l].failures = s.failures
        /\ [s EXCEPT !.window = w, !.lock = l].lock = l
    BY <2>1 DEF GuardStates
  <2> QED
    BY <2>2, <2>3 DEF l
<1> QED
  BY <1>1, <1>2, <1>3 DEF GuardStates, LocksAtLimit

LEMMA GuardStep ==
  ASSUME GuardInv, [GuardNext]_guardVars
  PROVE  GuardInv' /\ Stands
<1>1. ASSUME NEW a \in Attempts, NEW k \in Names, Look(a, k)
      PROVE  GuardInv' /\ Stands
  <2>1. /\ states' = Live /\ saturated' = saturated
        /\ call' = [call EXCEPT ![a] = "looked"] /\ name' = [name EXCEPT ![a] = k]
        /\ seen' = [seen EXCEPT ![a] = IF Live[k] = Absent /\ saturated > 0 THEN Closed
                                       ELSE Live[k]]
    BY <1>1 DEF Look
  <2>2. /\ Live \in [Names -> GuardStates]
        /\ \A j \in Names : LocksAtLimit(Live[j]) /\ Live[j].lock = states[j].lock
                            /\ states[j].lock \in Nat
    BY LiveIsState DEF GuardInv, GuardStates
  <2>3. Closed \in GuardStates /\ LocksAtLimit(Closed)
    BY BruteForceAssumption DEF GuardInv, Closed, GuardStates, LocksAtLimit
  <2>4. /\ seen' \in [Attempts -> GuardStates]
        /\ \A b \in Attempts : LocksAtLimit(seen'[b])
        /\ \A b \in Attempts \ {a} : seen'[b] = seen[b]
    BY <2>1, <2>2, <2>3 DEF GuardInv
  <2>5. GuardInv'
    BY <2>1, <2>2, <2>4 DEF GuardInv
  <2> QED
    BY <2>1, <2>2, <2>5 DEF Stands
<1>2. ASSUME NEW a \in Attempts, Decide(a)
      PROVE  GuardInv' /\ Stands
  <2> DEFINE s == seen[a]
  <2>1. /\ call[a] = "looked" /\ name[a] \in Names
        /\ s \in GuardStates /\ LocksAtLimit(s) /\ s.lock \in Nat
        /\ call' = [call EXCEPT ![a] = IF s.lock > 0 /\ ~Over(s) THEN "idle" ELSE "authenticating"]
        /\ UNCHANGED <<saturated, name, seen>>
    BY <1>2 DEF Decide, GuardInv, GuardStates
  <2>2. Over(s) => s.lock = 0
    BY <2>1 DEF Over, LocksAtLimit
  <2>3. call'[a] = "authenticating" => s.lock = 0
    BY <2>1, <2>2 DEF GuardInv
  <2>4. CASE UNCHANGED states
    <3>1. GuardInv'
      BY <2>1, <2>3, <2>4 DEF GuardInv
    <3>2. \A k \in Names : states[k].lock \in Nat
      BY DEF GuardInv, GuardStates
    <3> QED
      BY <3>1, <3>2, <2>4 DEF Stands
  <2>5. CASE Over(s) /\ Forget(name[a])
    <3>1. StatesKept /\ \A j \in Names \ {name[a]} : states'[j] = states[j]
      BY <2>1, <2>5, ForgetKeeps
    <3>2. GuardInv'
      BY <2>1, <2>3, <3>1 DEF GuardInv, StatesKept
    <3>3. \A k \in Names : states[k].lock \in Nat
      BY DEF GuardInv, GuardStates
    <3>4. call'[a] # call[a]
      BY <2>1 DEF GuardInv
    <3>5. Stands
      BY <2>1, <2>2, <2>5, <3>1, <3>3, <3>4 DEF Stands
    <3> QED
      BY <3>2, <3>5
  <2> QED
    BY <1>2, <2>4, <2>5 DEF Decide
<1>3. ASSUME NEW a \in Attempts, Succeed(a)
      PROVE  GuardInv' /\ Stands
  <2>1. /\ call[a] = "authenticating" /\ name[a] \in Names /\ seen[a].lock = 0
        /\ call' = [call EXCEPT ![a] = "idle"] /\ Forget(name[a])
        /\ UNCHANGED <<saturated, name, seen>>
    BY <1>3 DEF Succeed, GuardInv
  <2>2. StatesKept /\ \A j \in Names \ {name[a]} : states'[j] = states[j]
    BY <2>1, ForgetKeeps
  <2>3. GuardInv'
    BY <2>1, <2>2 DEF GuardInv, StatesKept
  <2>4. \A k \in Names : states[k].lock \in Nat
    BY DEF GuardInv, GuardStates
  <2>5. call'[a] # call[a]
    BY <2>1 DEF GuardInv
  <2> QED
    BY <2>1, <2>2, <2>3, <2>4, <2>5 DEF Stands
<1>4. ASSUME NEW a \in Attempts, Fail(a)
      PROVE  GuardInv' /\ Stands
  <2>1. /\ call[a] = "authenticating" /\ name[a] \in Names
        /\ call' = [call EXCEPT ![a] = "idle"] /\ RecordFailure(name[a])
        /\ UNCHANGED <<name, seen>>
    BY <1>4 DEF Fail, GuardInv
  <2>2. /\ StatesKept /\ saturated' \in Nat
        /\ \A j \in Names : states'[j].lock >= states[j].lock
    BY <2>1, RecordKeeps
  <2>3. GuardInv'
    BY <2>1, <2>2 DEF GuardInv, StatesKept
  <2>4. \A k \in Names : states[k].lock \in Nat /\ states'[k].lock \in Nat
    BY <2>2 DEF GuardInv, GuardStates, StatesKept
  <2> QED
    BY <2>2, <2>3, <2>4 DEF Stands
<1>5. ASSUME GuardTick
      PROVE  GuardInv' /\ Stands
  <2>1. /\ states' = [k \in Names |-> Aged(states[k])] /\ saturated' = Less(saturated)
        /\ seen' = [a \in Attempts |-> Aged(seen[a])] /\ UNCHANGED <<call, name>>
    BY <1>5 DEF GuardTick
  <2>2. \A k \in Names : Aged(states[k]) \in GuardStates /\ LocksAtLimit(Aged(states[k]))
                         /\ Aged(states[k]).lock >= states[k].lock - 1
    BY AgedIsState DEF GuardInv
  <2>3. \A a \in Attempts : Aged(seen[a]) \in GuardStates /\ LocksAtLimit(Aged(seen[a]))
                            /\ (seen[a].lock = 0 => Aged(seen[a]).lock = 0)
    BY AgedIsState DEF GuardInv
  <2>4. saturated' \in Nat
    BY <2>1 DEF GuardInv, Less
  <2>5. GuardInv'
    BY <2>1, <2>2, <2>3, <2>4 DEF GuardInv
  <2>6. \A k \in Names : states[k].lock \in Nat /\ Aged(states[k]).lock \in Nat
    BY <2>2 DEF GuardInv, GuardStates
  <2> QED
    BY <2>1, <2>2, <2>5, <2>6 DEF Stands
<1>6. ASSUME UNCHANGED guardVars
      PROVE  GuardInv' /\ Stands
  <2>1. UNCHANGED <<states, saturated, call, name, seen>>
    BY <1>6 DEF guardVars
  <2>2. \A k \in Names : states[k].lock \in Nat
    BY DEF GuardInv, GuardStates
  <2> QED
    BY <2>1, <2>2 DEF GuardInv, Stands
<1> QED
  BY <1>1, <1>2, <1>3, <1>4, <1>5, <1>6 DEF GuardNext

\* A lockout ends early only by an attempt that had read the state of its key
\* before the lockout began (brute-force.ts:169, 157).
THEOREM LockoutStandsAlways == GuardSpec => LockoutStands
<1>1. GuardInv /\ [GuardNext]_guardVars => GuardInv' /\ Stands
  BY GuardStep
<1>2. Stands => [\A k \in Names :
       states'[k].lock < states[k].lock - 1 =>
         \E a \in Attempts : name[a] = k /\ call[a] # "idle" /\ call'[a] # call[a]
                             /\ seen[a].lock = 0]_guardVars
  BY DEF Stands
<1> QED
  BY <1>1, <1>2, GuardStart, PTL DEF GuardSpec, LockoutStands

-----------------------------------------------------------------------------
(* The budget of the login guard.                                          *)

\* The attempts under a key that may still fail: those that authenticate, and
\* those that have read a state which lets them.
InPlay(k) == { a \in Attempts :
  name[a] = k /\ (call[a] = "authenticating" \/ (call[a] = "looked" /\ seen[a].failures # MaxFailures)) }

Budget == MaxFailures - 1 + Cardinality(Attempts)

\* While a key is at its limit, or the store closed for it, none joins those in play.
Tight(k) == strikes[k] + Cardinality(InPlay(k)) <= Budget

KeyBudget(k) ==
  /\ strikes[k] \in Nat /\ strikes[k] <= Budget
  /\ states[k].failures = MaxFailures => Tight(k)
  /\ states[k] = Absent /\ saturated > 0 => Tight(k)
  /\ states[k] # Absent /\ states[k].failures # MaxFailures => strikes[k] <= states[k].failures

Taken == { k \in Names : states[k] # Absent }

GuessInv ==
  /\ \A k \in Names : states[k].failures = 0 => states[k] = Absent
  /\ \A k \in Names : KeyBudget(k)
  /\ DOMAIN strikes = Names
  /\ Cardinality(Taken) <= MaxNames

\* A set of attempts is finite, a smaller one has fewer.
LEMMA FewerAttempts ==
  /\ Cardinality(Attempts) \in Nat
  /\ \A T \in SUBSET Attempts : Cardinality(T) \in Nat /\ Cardinality(T) <= Cardinality(Attempts)
  /\ \A T \in SUBSET Attempts : \A U \in SUBSET T : Cardinality(U) <= Cardinality(T)
  /\ \A T \in SUBSET Attempts : \A a \in T : \A U \in SUBSET (T \ {a}) :
       Cardinality(U) + 1 <= Cardinality(T)
<1>1. \A T \in SUBSET Attempts : IsFiniteSet(T) /\ Cardinality(T) \in Nat
  BY FS_Subset, FS_CardinalityType, BruteForceAssumption DEF BruteForceAssumption
<1>2. \A T \in SUBSET Attempts : \A U \in SUBSET T : Cardinality(U) <= Cardinality(T)
  BY <1>1, FS_Subset
<1>3. ASSUME NEW T \in SUBSET Attempts, NEW a \in T, NEW U \in SUBSET (T \ {a})
      PROVE  Cardinality(U) + 1 <= Cardinality(T)
  <2>1. Cardinality(T \ {a}) = Cardinality(T) - 1
    BY <1>1, FS_RemoveElement
  <2>2. U \in SUBSET Attempts /\ T \ {a} \in SUBSET Attempts
    OBVIOUS
  <2>3. Cardinality(U) <= Cardinality(T \ {a})
    BY <1>2, <2>2
  <2>4. Cardinality(U) \in Nat /\ Cardinality(T) \in Nat
    BY <1>1, <2>2
  <2> QED
    BY <2>1, <2>3, <2>4
<1> QED
  BY <1>1, <1>2, <1>3

\* A key that has been forgotten has its whole budget again.
LEMMA ForgottenKey ==
  ASSUME NEW k \in Names, states'[k] = Absent, strikes'[k] = 0
  PROVE  KeyBudget(k)'
<1>1. InPlay(k)' \in SUBSET Attempts
  BY DEF InPlay
<1>2. Cardinality(InPlay(k)') \in Nat /\ Cardinality(InPlay(k)') <= Cardinality(Attempts)
      /\ Cardinality(Attempts) \in Nat
  BY <1>1, FewerAttempts
<1>3. MaxFailures \in Nat \ {0}
  BY BruteForceAssumption DEF BruteForceAssumption
<1>4. Cardinality(InPlay(k)') <= Budget /\ 0 <= Budget
  BY <1>2, <1>3 DEF Budget
<1>5. Tight(k)'
  BY <1>2, <1>4 DEF Tight, Budget
<1> QED
  BY <1>4, <1>5 DEF KeyBudget, Budget

\* A key nothing happens to, but that fewer attempts are in play.
LEMMA SameKey ==
  ASSUME NEW k \in Names, KeyBudget(k), states'[k] = states[k], strikes'[k] = strikes[k],
         InPlay(k)' \subseteq InPlay(k), states[k] = Absent /\ saturated' > 0 => saturated > 0
  PROVE  KeyBudget(k)'
<1>1. InPlay(k) \in SUBSET Attempts /\ InPlay(k)' \in SUBSET Attempts
  BY DEF InPlay
<1>2. /\ Cardinality(InPlay(k)') \in Nat /\ Cardinality(InPlay(k)) \in Nat
      /\ Cardinality(InPlay(k)') <= Cardinality(InPlay(k)) /\ Cardinality(Attempts) \in Nat
  BY <1>1, FewerAttempts
<1>3. MaxFailures \in Nat
  BY BruteForceAssumption DEF BruteForceAssumption
<1>4. Tight(k) => Tight(k)'
  BY <1>2, <1>3 DEF Tight, Budget, KeyBudget
<1> QED
  BY <1>4 DEF KeyBudget, Budget

\* What purge leaves of a key.
LEMMA PurgedKey ==
  ASSUME NEW k \in Names, KeyBudget(k), states'[k] = Live[k], strikes'[k] = Remembered(k),
         InPlay(k)' \subseteq InPlay(k), saturated \in Nat
  PROVE  KeyBudget(k)'
<1>1. Live[k] = states[k] \/ Live[k] = Absent
  BY DEF Live, Purged
<1>2. CASE Live[k] = Absent /\ (states[k] # Absent \/ saturated = 0)
  <2>1. strikes'[k] = 0
    BY <1>2 DEF Remembered
  <2> QED
    BY <1>2, <2>1, ForgottenKey
<1>3. CASE ~(Live[k] = Absent /\ (states[k] # Absent \/ saturated = 0))
  <2>1. strikes'[k] = strikes[k] /\ states'[k] = states[k]
    BY <1>1, <1>3 DEF Remembered
  <2>2. states[k] = Absent => saturated > 0
    BY <1>1, <1>3
  <2> QED
    BY <2>1, <2>2, SameKey
<1> QED
  BY <1>2, <1>3

\* CountOneMore is a minimum of two.
LEMMA OneMore ==
  ASSUME GuardInv, NEW k \in Names
  PROVE  CountOneMore(k) = IF Live[k].failures < MaxFailures THEN Live[k].failures + 1
                           ELSE MaxFailures
<1> DEFINE m == Live[k].failures + 1
<1>1. Live[k].failures \in 0..MaxFailures /\ MaxFailures \in Nat
  BY LiveIsState, BruteForceAssumption DEF GuardStates, BruteForceAssumption
<1>2. ASSUME NEW x \in Nat, NEW y \in Nat, x <= y
      PROVE  Min({x, y}) = x
  <2>1. x \in {x, y} /\ \A z \in {x, y} : x <= z
    BY <1>2
  <2>2. Min({x, y}) \in {x, y} /\ \A z \in {x, y} : Min({x, y}) <= z
    BY <2>1 DEF Min
  <2>3. Min({x, y}) <= x /\ Min({x, y}) \in Nat /\ x <= Min({x, y})
    BY <2>1, <2>2
  <2> QED
    BY <2>3
<1>3. CASE Live[k].failures < MaxFailures
  <2>1. m \in Nat /\ m <= MaxFailures
    BY <1>1, <1>3
  <2> HIDE DEF m
  <2>2. Min({m, MaxFailures}) = m
    BY <1>1, <1>2, <2>1
  <2> QED
    BY <1>3, <2>2 DEF CountOneMore, m
<1>4. CASE ~(Live[k].failures < MaxFailures)
  <2>1. m \in Nat /\ MaxFailures <= m
    BY <1>1, <1>4
  <2> HIDE DEF m
  <2>2. Min({MaxFailures, m}) = MaxFailures
    BY <1>1, <1>2, <2>1
  <2>3. {MaxFailures, m} = {m, MaxFailures}
    OBVIOUS
  <2> QED
    BY <1>4, <2>2, <2>3 DEF CountOneMore, m
<1> QED
  BY <1>3, <1>4

\* A failure of an attempt in play takes one from the budget of its key.
LEMMA StruckKey ==
  ASSUME GuardInv, GuessInv, NEW k \in Names, NEW a \in InPlay(k), RecordFailure(k),
         strikes'[k] = Remembered(k) + 1, InPlay(k)' \subseteq InPlay(k) \ {a}
  PROVE  KeyBudget(k)'
<1>1. InPlay(k) \in SUBSET Attempts /\ InPlay(k)' \in SUBSET Attempts
  BY DEF InPlay
<1> DEFINE n == Cardinality(InPlay(k))
           m == Cardinality(InPlay(k)')
           all == Cardinality(Attempts)
<1>2. n \in Nat /\ m \in Nat /\ all \in Nat /\ m + 1 <= n /\ n <= all
  BY <1>1, FewerAttempts
<1>3. MaxFailures \in Nat \ {0} /\ saturated \in Nat
  BY BruteForceAssumption DEF BruteForceAssumption, GuardInv
<1>4. /\ states[k] \in GuardStates /\ Live[k] \in GuardStates
      /\ LocksAtLimit(Live[k]) /\ KeyBudget(k) /\ Live \in [Names -> GuardStates]
  BY LiveIsState DEF GuardInv, GuessInv
<1>5. Live[k] = states[k] \/ Live[k] = Absent
  BY DEF Live, Purged
<1>6. Absent.failures = 0
  BY DEF Absent
<1> HIDE DEF n, m, all
<1>7. Tight(k)' <=> strikes'[k] + m <= MaxFailures - 1 + all
  BY DEF Tight, Budget, m, all
<1>8. Tight(k) <=> strikes[k] + n <= MaxFailures - 1 + all
  BY DEF Tight, Budget, n, all
<1>9. ASSUME strikes'[k] = 1, states'[k] = Absent \/ states'[k].failures = 1
      PROVE  KeyBudget(k)'
  <2>1. Tight(k)' /\ strikes'[k] <= Budget
    BY <1>2, <1>3, <1>7, <1>9 DEF Budget, all
  <2> QED
    BY <1>9, <2>1 DEF KeyBudget, Budget
<1>10. ASSUME Tight(k), strikes'[k] = strikes[k] + 1,
              states'[k].failures = MaxFailures \/ states'[k] = Absent
       PROVE  KeyBudget(k)'
  <2>1. strikes[k] \in Nat
    BY <1>4 DEF KeyBudget
  <2>2. Tight(k)' /\ strikes'[k] <= Budget /\ strikes'[k] \in Nat
    BY <1>2, <1>3, <1>7, <1>8, <1>10, <2>1 DEF Budget, all
  <2> QED
    BY <1>10, <2>2 DEF KeyBudget, Budget
<1>11. CASE Live[k] = Absent /\ (states[k] # Absent \/ saturated = 0)
  <2>1. strikes'[k] = 1
    BY <1>11 DEF Remembered
  <2>2. states'[k] = Live[k] \/ states'[k] = Struck(k)
    BY <1>4 DEF RecordFailure
  <2>3. Struck(k).failures = 1
    <3>1. CountOneMore(k) = 1
      BY <1>3, <1>6, <1>11, OneMore
    <3> QED
      BY <3>1 DEF Struck
  <2> QED
    BY <1>9, <1>11, <2>1, <2>2, <2>3
<1>12. CASE Live[k] = Absent /\ states[k] = Absent /\ saturated > 0
  <2>1. k \notin Present
    BY <1>12 DEF Present
  <2>2. states'[k] = Absent
    BY <1>12, <2>1 DEF RecordFailure
  <2>3. strikes'[k] = strikes[k] + 1
    BY <1>3, <1>12 DEF Remembered
  <2>4. Tight(k)
    BY <1>4, <1>12 DEF KeyBudget
  <2> QED
    BY <1>10, <2>2, <2>3, <2>4
<1>13. CASE Live[k] # Absent
  <2>1. k \in Present /\ Live[k] = states[k] /\ strikes'[k] = strikes[k] + 1
    BY <1>5, <1>13 DEF Present, Remembered
  <2>2. \/ states'[k] = Live[k] /\ Live[k].lock > 0
       \/ states'[k] = Struck(k)
    BY <1>4, <2>1 DEF RecordFailure
  <2>3. Struck(k).failures = CountOneMore(k)
    BY DEF Struck
  <2>4. states[k].failures \in 0..MaxFailures
    BY <1>4 DEF GuardStates
  <2>5. CASE states[k].failures = MaxFailures
    <3>1. states'[k].failures = MaxFailures
      BY <1>3, <2>1, <2>2, <2>3, <2>5, OneMore
    <3>2. Tight(k)
      BY <1>4, <2>5 DEF KeyBudget
    <3> QED
      BY <1>10, <2>1, <3>1, <3>2
  <2>6. CASE states[k].failures # MaxFailures
    <3>1. states'[k] = Struck(k)
      BY <1>4, <2>1, <2>2, <2>6 DEF LocksAtLimit
    <3>2. states'[k].failures = states[k].failures + 1
      BY <1>3, <2>1, <2>3, <2>4, <2>6, <3>1, OneMore
    <3>3. strikes[k] \in Nat /\ strikes[k] <= states[k].failures
      BY <1>4, <1>13, <2>1, <2>6 DEF KeyBudget
    <3>4. strikes'[k] \in Nat /\ strikes'[k] <= states'[k].failures /\ strikes'[k] <= MaxFailures
      BY <1>3, <2>1, <2>4, <2>6, <3>2, <3>3
    <3>5. Tight(k)' /\ strikes'[k] <= Budget
      BY <1>2, <1>3, <1>7, <3>4 DEF Budget, all
    <3> QED
      BY <3>4, <3>5 DEF KeyBudget, Budget
  <2> QED
    BY <2>5, <2>6
<1> QED
  BY <1>3, <1>11, <1>12, <1>13

\* The store never has more keys than it may: one is added only where there is room.
LEMMA RoomKept ==
  ASSUME GuessInv, NEW k \in Names,
         \/ \A j \in Names : states'[j] # Absent => states[j] # Absent
         \/ RecordFailure(k) /\ Live \in [Names -> GuardStates]
  PROVE  Cardinality(Taken') <= MaxNames
<1>1. IsFiniteSet(Names) /\ MaxNames \in Nat
  BY BruteForceAssumption DEF BruteForceAssumption
<1>2. Taken \subseteq Names /\ Taken' \subseteq Names /\ Present \subseteq Taken
  BY DEF Taken, Present, Live, Purged
<1>3. IsFiniteSet(Taken) /\ IsFiniteSet(Taken') /\ IsFiniteSet(Present)
  BY <1>1, <1>2, FS_Subset
<1>4. ASSUME Taken' \subseteq Taken
      PROVE  Cardinality(Taken') <= MaxNames
  <2>1. Cardinality(Taken') <= Cardinality(Taken)
    BY <1>3, <1>4, FS_Subset
  <2>2. Cardinality(Taken') \in Nat /\ Cardinality(Taken) \in Nat
    BY <1>3, FS_CardinalityType
  <2> QED
    BY <1>1, <2>1, <2>2 DEF GuessInv
<1>5. CASE \A j \in Names : states'[j] # Absent => states[j] # Absent
  BY <1>4, <1>5 DEF Taken
<1>6. CASE RecordFailure(k) /\ Live \in [Names -> GuardStates]
  <2>1. CASE states' = Live
    BY <1>4, <2>1 DEF Taken, Live, Purged
  <2>2. CASE states' = [Live EXCEPT ![k] = Struck(k)] /\ (k \in Present \/ ~(Cardinality(Present) >= MaxNames))
    <3>1. Taken' \subseteq Present \cup {k}
      BY <1>6, <2>2 DEF Taken, Present
    <3>2. CASE k \in Present
      BY <1>2, <1>4, <3>1, <3>2
    <3>3. CASE k \notin Present /\ ~(Cardinality(Present) >= MaxNames)
      <4>1. IsFiniteSet(Present \cup {k}) /\ Cardinality(Present \cup {k}) = Cardinality(Present) + 1
        BY <1>3, <3>3, FS_AddElement
      <4>2. Cardinality(Taken') <= Cardinality(Present \cup {k})
        BY <3>1, <4>1, FS_Subset
      <4>3. Cardinality(Taken') \in Nat /\ Cardinality(Present) \in Nat
        BY <1>3, FS_CardinalityType
      <4> QED
        BY <1>1, <3>3, <4>1, <4>2, <4>3
    <3> QED
      BY <2>2, <3>2, <3>3
  <2> QED
    BY <1>6, <2>1, <2>2 DEF RecordFailure
<1> QED
  BY <1>5, <1>6

LEMMA GuessStep ==
  ASSUME GuardInv, GuardInv', GuessInv, [GuardNext]_guardVars
  PROVE  GuessInv'
<1> DEFINE Shaped == \A k \in Names : states'[k].failures = 0 => states'[k] = Absent
<1>0. /\ saturated \in Nat /\ MaxFailures \in Nat \ {0} /\ Absent.failures = 0
      /\ Live \in [Names -> GuardStates] /\ \A k \in Names : Live[k] \in {states[k], Absent}
      /\ \A k \in Names : Live[k].failures = 0 => Live[k] = Absent
  <2>1. Live \in [Names -> GuardStates] /\ \A k \in Names : Live[k] \in {states[k], Absent}
    BY LiveIsState DEF Live, Purged
  <2> QED
    BY <2>1, BruteForceAssumption DEF BruteForceAssumption, GuardInv, GuessInv, Absent
<1>1. ASSUME NEW a \in Attempts, NEW k \in Names, Look(a, k)
      PROVE  GuessInv'
  <2>1. /\ call[a] = "idle" /\ states' = Live /\ saturated' = saturated
        /\ call' = [call EXCEPT ![a] = "looked"] /\ name' = [name EXCEPT ![a] = k]
        /\ seen' = [seen EXCEPT ![a] = IF Live[k] = Absent /\ saturated > 0 THEN Closed
                                       ELSE Live[k]]
        /\ strikes' = [j \in Names |-> Remembered(j)]
    BY <1>1 DEF Look
  <2>2. /\ call'[a] = "looked" /\ name'[a] = k
        /\ seen'[a] = IF Live[k] = Absent /\ saturated > 0 THEN Closed ELSE Live[k]
        /\ \A b \in Attempts \ {a} : call'[b] = call[b] /\ name'[b] = name[b] /\ seen'[b] = seen[b]
    BY <2>1 DEF GuardInv
  <2>3. ASSUME NEW j \in Names
        PROVE  KeyBudget(j)'
    <3>1. InPlay(j)' \subseteq InPlay(j) \cup {a}
      BY <2>1, <2>2 DEF InPlay
    <3>2. CASE InPlay(j)' \subseteq InPlay(j)
      BY <1>0, <2>1, <3>2, PurgedKey DEF GuessInv
    <3>3. CASE ~(InPlay(j)' \subseteq InPlay(j))
      <4>1. a \in InPlay(j)'
        BY <3>1, <3>3
      <4>2. j = k /\ seen'[a].failures # MaxFailures
        BY <2>2, <4>1 DEF InPlay
      <4>3. Live[j].failures # MaxFailures /\ ~(Live[j] = Absent /\ saturated > 0)
        BY <2>2, <4>2 DEF Closed
      <4>4. CASE Live[j] = Absent
        <5>1. strikes'[j] = 0
          BY <1>0, <2>1, <4>3, <4>4 DEF Remembered
        <5> QED
          BY <2>1, <4>4, <5>1, ForgottenKey
      <4>5. CASE Live[j] # Absent
        <5>1. Live[j] = states[j] /\ strikes'[j] = strikes[j] /\ KeyBudget(j)
          BY <1>0, <2>1, <4>5 DEF Remembered, GuessInv
        <5> QED
          BY <2>1, <4>3, <4>5, <5>1 DEF KeyBudget, Budget
      <4> QED
        BY <4>4, <4>5
    <3> QED
      BY <3>2, <3>3
  <2>4. Cardinality(Taken') <= MaxNames
    <3>1. \A j \in Names : states'[j] # Absent => states[j] # Absent
      BY <1>0, <2>1
    <3> QED
      BY <3>1, RoomKept
  <2>5. Shaped /\ DOMAIN strikes' = Names
    BY <1>0, <2>1
  <2> QED
    BY <2>3, <2>4, <2>5 DEF GuessInv
<1>2. ASSUME NEW a \in Attempts, call[a] # "idle", Forget(name[a]), UNCHANGED <<saturated, name, seen>>,
             \E to : call' = [call EXCEPT ![a] = to]
      PROVE  GuessInv'
  <2> DEFINE k == name[a]
  <2>1. /\ k \in Names /\ states' = [states EXCEPT ![k] = Absent]
        /\ strikes' = [strikes EXCEPT ![k] = 0]
    BY <1>2 DEF Forget, GuardInv
  <2>2. \A b \in Attempts \ {a} : call'[b] = call[b]
    BY <1>2
  <2>3. ASSUME NEW j \in Names
        PROVE  KeyBudget(j)'
    <3>1. CASE j = k
      <4>1. states'[j] = Absent /\ strikes'[j] = 0
        BY <2>1, <3>1 DEF GuardInv, GuessInv
      <4> QED
        BY <4>1, ForgottenKey
    <3>2. CASE j # k
      <4>1. states'[j] = states[j] /\ strikes'[j] = strikes[j]
        BY <2>1, <3>2 DEF GuardInv, GuessInv
      <4>2. InPlay(j)' \subseteq InPlay(j)
        BY <1>2, <2>2, <3>2 DEF InPlay
      <4> QED
        BY <1>2, <4>1, <4>2, SameKey DEF GuessInv
    <3> QED
      BY <3>1, <3>2
  <2>4. Cardinality(Taken') <= MaxNames
    <3>1. \A j \in Names : states'[j] # Absent => states[j] # Absent
      BY <2>1 DEF GuardInv
    <3> QED
      BY <2>1, <3>1, RoomKept
  <2>5. Shaped /\ DOMAIN strikes' = Names
    BY <1>0, <2>1 DEF GuardInv, GuessInv
  <2> QED
    BY <2>3, <2>4, <2>5 DEF GuessInv
<1>3. ASSUME UNCHANGED <<states, strikes, saturated>>, \A k \in Names : InPlay(k)' \subseteq InPlay(k)
      PROVE  GuessInv'
  <2>1. \A k \in Names : KeyBudget(k)'
    BY <1>3, SameKey DEF GuessInv
  <2> QED
    BY <1>3, <2>1 DEF GuessInv, Taken
<1>4. ASSUME NEW a \in Attempts, Decide(a)
      PROVE  GuessInv'
  <2> DEFINE s == seen[a]
  <2>1. /\ call[a] = "looked" /\ UNCHANGED <<saturated, name, seen>>
        /\ call' = [call EXCEPT ![a] = IF s.lock > 0 /\ ~Over(s) THEN "idle" ELSE "authenticating"]
    BY <1>4 DEF Decide
  <2>2. CASE s # Absent /\ Over(s)
    BY <1>2, <1>4, <2>1, <2>2 DEF Decide
  <2>3. CASE ~(s # Absent /\ Over(s))
    <3>1. UNCHANGED <<states, strikes>>
      BY <1>4, <2>3 DEF Decide
    <3>2. s \in GuardStates
      BY DEF GuardInv
    <3>3. call'[a] = "authenticating" => s.failures # MaxFailures
      BY <1>0, <2>1, <2>3, <3>2 DEF Over, GuardStates, GuardInv
    <3>4. \A b \in Attempts \ {a} : call'[b] = call[b]
      BY <2>1
    <3>5. call'[a] # "looked"
      BY <2>1 DEF GuardInv
    <3>6. \A k \in Names : InPlay(k)' \subseteq InPlay(k)
      BY <2>1, <3>3, <3>4, <3>5 DEF InPlay
    <3> QED
      BY <1>3, <2>1, <3>1, <3>6
  <2> QED
    BY <2>2, <2>3
<1>5. ASSUME NEW a \in Attempts, Succeed(a)
      PROVE  GuessInv'
  BY <1>2, <1>5 DEF Succeed
<1>6. ASSUME NEW a \in Attempts, Fail(a)
      PROVE  GuessInv'
  <2> DEFINE k == name[a]
  <2>1. /\ call[a] = "authenticating" /\ RecordFailure(k) /\ k \in Names
        /\ call' = [call EXCEPT ![a] = "idle"] /\ UNCHANGED <<name, seen>>
        /\ strikes' = [j \in Names |-> Remembered(j) + (IF j = k THEN 1 ELSE 0)]
    BY <1>6 DEF Fail, GuardInv
  <2>2. call'[a] = "idle" /\ \A b \in Attempts \ {a} : call'[b] = call[b]
    BY <2>1 DEF GuardInv
  <2>3. \A j \in Names : InPlay(j)' \subseteq InPlay(j) \ {a}
    BY <2>1, <2>2 DEF InPlay
  <2>4. a \in InPlay(k)
    BY <2>1 DEF InPlay
  <2>5. ASSUME NEW j \in Names
        PROVE  KeyBudget(j)'
    <3>1. CASE j = k
      <4>1. strikes'[k] = Remembered(k) + 1
        BY <2>1
      <4> QED
        BY <2>1, <2>3, <2>4, <3>1, <4>1, StruckKey
    <3>2. CASE j # k
      <4>1. states'[j] = Live[j]
        BY <1>0, <2>1, <3>2 DEF RecordFailure
      <4>2. KeyBudget(j) /\ strikes[j] \in Nat
        BY DEF GuessInv, KeyBudget
      <4>3. strikes'[j] = Remembered(j)
        BY <2>1, <3>2, <4>2 DEF Remembered
      <4> QED
        BY <1>0, <2>3, <4>1, <4>2, <4>3, PurgedKey
    <3> QED
      BY <3>1, <3>2
  <2>6. Cardinality(Taken') <= MaxNames
    BY <1>0, <2>1, RoomKept
  <2>7. Shaped
    <3>1. Live[k] \in GuardStates
      BY <1>0, <2>1
    <3>2. CountOneMore(k) # 0
      BY <1>0, <2>1, <3>1, OneMore DEF GuardStates
    <3>3. Struck(k).failures # 0
      BY <3>2 DEF Struck
    <3> QED
      BY <1>0, <2>1, <3>3 DEF RecordFailure
  <2>8. DOMAIN strikes' = Names
    BY <2>1
  <2> QED
    BY <2>5, <2>6, <2>7, <2>8 DEF GuessInv
<1>7. CASE GuardTick
  <2>1. /\ states' = [k \in Names |-> Aged(states[k])] /\ saturated' = Less(saturated)
        /\ seen' = [a \in Attempts |-> Aged(seen[a])] /\ UNCHANGED <<call, name, strikes>>
    BY <1>7 DEF GuardTick
  <2>2. \A s \in GuardStates : Aged(s).failures = s.failures
    BY DEF Aged, GuardStates
  <2>3. Aged(Absent) = Absent
    <3>1. Less(0) = 0
      BY DEF Less
    <3>2. Absent \in GuardStates /\ LocksAtLimit(Absent)
      BY <1>0 DEF Absent, GuardStates, LocksAtLimit
    <3>3. Aged(Absent) \in GuardStates
      BY <3>2, AgedIsState
    <3>4. Aged(Absent).window = 0 /\ Aged(Absent).lock = 0 /\ Aged(Absent).failures = 0
      BY <3>1 DEF Aged, Absent
    <3>5. \A s \in GuardStates : s.window = 0 /\ s.lock = 0 /\ s.failures = 0 => s = Absent
      BY DEF GuardStates, Absent
    <3> QED
      BY <3>3, <3>4, <3>5
  <2>4. /\ \A k \in Names : states'[k].failures = states[k].failures
        /\ \A a \in Attempts : seen'[a].failures = seen[a].failures
    BY <2>1, <2>2 DEF GuardInv
  <2>5. \A k \in Names : states'[k] = Absent <=> states[k] = Absent
    BY <1>0, <2>1, <2>3, <2>4 DEF GuessInv
  <2>6. \A k \in Names : InPlay(k)' = InPlay(k)
    BY <2>1, <2>4 DEF InPlay
  <2>7. saturated' > 0 => saturated > 0
    BY <1>0, <2>1 DEF Less
  <2>8. ASSUME NEW k \in Names
        PROVE  KeyBudget(k)'
    <3>1. Tight(k)' <=> Tight(k)
      BY <2>1, <2>6 DEF Tight, Budget
    <3>2. KeyBudget(k)
      BY DEF GuessInv
    <3> QED
      BY <2>1, <2>4, <2>5, <2>7, <3>1, <3>2 DEF KeyBudget, Budget
  <2>9. Taken' = Taken
    BY <2>5 DEF Taken
  <2> QED
    BY <2>1, <2>4, <2>5, <2>8, <2>9 DEF GuessInv
<1>8. CASE UNCHANGED guardVars
  <2>1. UNCHANGED <<states, saturated, call, name, seen, strikes>>
    BY <1>8 DEF guardVars
  <2>2. \A k \in Names : InPlay(k)' = InPlay(k)
    BY <2>1 DEF InPlay
  <2> QED
    BY <1>3, <2>1, <2>2
<1> QED
  BY <1>1, <1>4, <1>5, <1>6, <1>7, <1>8 DEF GuardNext

\* The store is bounded, and until it forgets a key, no more authentications fail
\* under it than its budget and those that overlap with the last of it
\* (brute-force.ts:64, 73, 165).
THEOREM GuessesBoundedAlways == GuardSpec => []GuessesBounded
<1>1. GuardInit => GuessInv
  <2> SUFFICES ASSUME GuardInit
               PROVE  GuessInv
    OBVIOUS
  <2>1. /\ MaxFailures \in Nat \ {0} /\ MaxNames \in Nat /\ Absent.failures = 0
        /\ Cardinality(Attempts) \in Nat
    BY BruteForceAssumption, FewerAttempts DEF BruteForceAssumption, Absent
  <2>2. Taken = {}
    BY DEF GuardInit, Taken
  <2>3. Cardinality(Taken) = 0
    BY <2>2, FS_EmptySet
  <2>4. /\ \A k \in Names : states[k] = Absent /\ strikes[k] = 0
        /\ saturated = 0 /\ DOMAIN strikes = Names
    BY DEF GuardInit
  <2>5. 0 <= Budget
    BY <2>1 DEF Budget
  <2>6. \A k \in Names : KeyBudget(k)
    BY <2>1, <2>4, <2>5 DEF KeyBudget
  <2> QED
    BY <2>1, <2>3, <2>4, <2>6 DEF GuessInv
<1>2. GuardInv /\ GuessInv /\ [GuardNext]_guardVars => GuardInv' /\ GuessInv'
  BY GuardStep, GuessStep
<1>3. GuessInv => GuessesBounded
  BY DEF GuessInv, KeyBudget, Budget, GuessesBounded, Taken
<1> QED
  BY <1>1, <1>2, <1>3, GuardStart, PTL DEF GuardSpec

-----------------------------------------------------------------------------
(* The cache.                                                              *)

\* A finite set in order of age has an oldest member, which all others come after.
LEMMA OldestExists ==
  ASSUME NEW D, IsFiniteSet(D), D # {}, NEW after,
         \A j, k \in D : j # k => j \in after[k] \/ k \in after[j],
         \A k \in D : k \notin after[k],
         \A i, j, k \in D : j \in after[i] /\ k \in after[j] => k \in after[i]
  PROVE  \E k \in D : D \ {k} \subseteq after[k]
<1> DEFINE Upto(k) == D \ after[k]
           Size(k) == Cardinality(Upto(k))
           T == { Size(k) : k \in D }
<1>1. \A k \in D : IsFiniteSet(Upto(k)) /\ Cardinality(Upto(k)) \in Nat
  BY FS_Difference, FS_CardinalityType
<1>2. T \in SUBSET Nat /\ T # {}
  <2>1. \A k \in D : Size(k) \in Nat
    BY <1>1
  <2> HIDE DEF Size
  <2> QED
    BY <2>1
<1>3. PICK n \in T : \A m \in T : n <= m
  <2> HIDE DEF T
  <2> QED
    BY <1>2, HasLeast
<1>4. PICK k \in D : \A j \in D : Size(k) <= Size(j)
  <2> HIDE DEF Size
  <2> QED
    BY <1>3
<1>5. ASSUME NEW j \in D \ {k}, j \notin after[k]
      PROVE  FALSE
  <2>1. k \in after[j] /\ k \in Upto(k) /\ k \notin Upto(j)
    BY <1>5
  <2>2. Upto(j) \in SUBSET Upto(k)
    BY <2>1
  <2> HIDE DEF Upto
  <2>3. Upto(j) # Upto(k)
    BY <2>1
  <2>4. Cardinality(Upto(j)) <= Cardinality(Upto(k)) /\ Cardinality(Upto(k)) # Cardinality(Upto(j))
    BY <1>1, <2>2, <2>3, FS_Subset
  <2> QED
    BY <1>1, <1>4, <2>4
<1> QED
  BY <1>5

\* Those with fewer than n after them in such a set are at most n.
LEMMA NewestAreFew ==
  ASSUME NEW D, IsFiniteSet(D), NEW after, NEW n \in Nat,
         \A j, k \in D : j # k => j \in after[k] \/ k \in after[j],
         \A k \in D : k \notin after[k],
         \A i, j, k \in D : j \in after[i] /\ k \in after[j] => k \in after[i]
  PROVE  Cardinality({ k \in D : Cardinality(D \cap after[k]) < n }) <= n
<1> DEFINE T == { k \in D : Cardinality(D \cap after[k]) < n }
<1>1. IsFiniteSet(T) /\ Cardinality(T) \in Nat
  BY FS_Subset, FS_CardinalityType
<1>2. CASE T = {}
  <2>1. Cardinality(T) = 0
    BY <1>2, FS_EmptySet
  <2> HIDE DEF T
  <2>2. Cardinality(T) <= n
    BY <2>1
  <2> QED
    BY <2>2 DEF T
<1>3. CASE T # {}
  <2>1. T \subseteq D
    OBVIOUS
  <2>2. PICK k \in T : T \ {k} \subseteq after[k]
    <3> HIDE DEF T
    <3> QED
      BY <1>1, <1>3, <2>1, OldestExists
  <2>3. T \ {k} \in SUBSET (D \cap after[k]) /\ IsFiniteSet(D \cap after[k])
    BY <2>1, <2>2, FS_Intersection
  <2>4. Cardinality(T \ {k}) <= Cardinality(D \cap after[k]) /\ Cardinality(D \cap after[k]) < n
    BY <2>2, <2>3, FS_Subset
  <2>5. Cardinality(T \ {k}) = Cardinality(T) - 1
    <3> HIDE DEF T
    <3> QED
      BY <1>1, <2>2, FS_RemoveElement
  <2>6. Cardinality(D \cap after[k]) \in Nat
    BY <2>3, FS_CardinalityType
  <2>7. Cardinality(T) <= n
    <3> HIDE DEF T
    <3> QED
      BY <1>1, <2>4, <2>5, <2>6
  <2> QED
    BY <2>7
<1> QED
  BY <1>2, <1>3


Entries == [value : Nat, ttl : 0..Forever, tags : SUBSET Tags]

\* The map: its keys in order of use, no more than it may have, and an exact index.
MapInv ==
  /\ cached \subseteq Keys /\ IsFiniteSet(cached) /\ Cardinality(cached) <= MaxEntries
  /\ later \in [Keys -> SUBSET cached]
  /\ \A j, k \in cached : j # k => j \in later[k] \/ k \in later[j]
  /\ \A k \in cached : k \notin later[k]
  /\ \A i, j, k \in cached : j \in later[i] /\ k \in later[j] => k \in later[i]
  /\ entry \in [Keys -> Entries] /\ \A k \in Keys : entry[k].value <= MaxVersion[k]
  /\ tagKeys = [t \in Tags |-> { k \in cached : t \in entry[k].tags }]

\* The loads that began with no loader on the thread are few: each found all of
\* them in flight when it was let in.
FewLoads == IsFiniteSet(Loads) /\ Cardinality(Loads \ nested) <= MaxEntries

\* The loads, and what is served or may be stored is not older than the floor.
LoadInv ==
  /\ load \in [Keys -> {"none", "loading", "read", "settled"}]
  /\ loaded \in [Keys -> Entries] /\ \A k \in Keys : loaded[k].value <= MaxVersion[k]
  /\ FewLoads
  /\ source \in [Keys -> Nat] /\ floor \in [Keys -> Nat]
  /\ \A k \in Keys : floor[k] <= source[k] /\ source[k] <= MaxVersion[k]
  /\ \A k \in Keys : load[k] = "read" => loaded[k].value >= floor[k]
  /\ InvalidationHolds

CacheInv == MapInv /\ LoadInv

LEMMA BlankIsEntry == Blank \in Entries /\ Blank.value = 0
BY CacheAssumption DEF CacheAssumption, Blank, Entries

LEMMA CacheStart == CacheInit => CacheInv
<1> SUFFICES ASSUME CacheInit PROVE CacheInv
  OBVIOUS
<1>1. IsFiniteSet({}) /\ Cardinality({}) = 0 /\ Loads = {} /\ Loads \ nested = {}
  BY FS_EmptySet DEF CacheInit, Loads
<1>2. MapInv
  BY <1>1, BlankIsEntry, CacheAssumption DEF CacheAssumption, CacheInit, MapInv
<1>3. LoadInv
  BY <1>1, BlankIsEntry, CacheAssumption
     DEF CacheAssumption, CacheInit, LoadInv, FewLoads, InvalidationHolds
<1> QED
  BY <1>2, <1>3 DEF CacheInv

\* Fewer keys in the same order are in order.
LEMMA RemoveKeeps ==
  ASSUME MapInv, NEW dropped, RemoveEntries(dropped)
  PROVE  /\ MapInv' /\ cached' = cached \ dropped
         /\ \A k \in cached' : entry'[k] = entry[k]
<1>1. /\ cached' = cached \ dropped /\ entry' = Kept(dropped)
      /\ later' = OrderOf(cached \ dropped) /\ tagKeys' = Untag(dropped)
  BY DEF RemoveEntries
<1>2. /\ cached' \subseteq Keys /\ IsFiniteSet(cached')
      /\ Cardinality(cached') <= Cardinality(cached)
  BY <1>1, FS_Subset DEF MapInv
<1>3. Cardinality(cached') <= MaxEntries
  <2>1. Cardinality(cached') \in Nat /\ Cardinality(cached) \in Nat
    BY <1>2, FS_CardinalityType DEF MapInv
  <2> QED
    BY <1>2, <2>1, CacheAssumption DEF MapInv, CacheAssumption
<1>4. /\ later' \in [Keys -> SUBSET cached']
      /\ \A k \in cached' : later'[k] = later[k] \cap cached'
  BY <1>1 DEF OrderOf, MapInv
<1>5. /\ \A j, k \in cached' : j # k => j \in later'[k] \/ k \in later'[j]
      /\ \A k \in cached' : k \notin later'[k]
      /\ \A i, j, k \in cached' : j \in later'[i] /\ k \in later'[j] => k \in later'[i]
  <2>1. ASSUME NEW j \in cached', NEW k \in cached', j # k
        PROVE  j \in later'[k] \/ k \in later'[j]
    <3>1. j \in cached /\ k \in cached
      BY <1>1
    <3>2. j \in later[k] \/ k \in later[j]
      BY <2>1, <3>1 DEF MapInv
    <3> QED
      BY <1>4, <3>2
  <2>2. ASSUME NEW i \in cached', NEW j \in cached', NEW k \in cached',
               j \in later'[i], k \in later'[j]
        PROVE  k \in later'[i]
    <3>1. /\ i \in cached /\ j \in cached /\ k \in cached
          /\ j \in later[i] /\ k \in later[j]
      BY <1>1, <1>4, <2>2
    <3>2. k \in later[i]
      BY <3>1 DEF MapInv
    <3> QED
      BY <1>4, <3>2
  <2>3. \A k \in cached' : k \notin later'[k]
    <3>1. \A k \in cached : k \notin later[k]
      BY DEF MapInv
    <3> QED
      BY <1>1, <1>4, <3>1
  <2> QED
    BY <2>1, <2>2, <2>3
<1>6. /\ entry' \in [Keys -> Entries] /\ \A k \in Keys : entry'[k].value <= MaxVersion[k]
      /\ \A k \in cached' : entry'[k] = entry[k]
  BY <1>1, BlankIsEntry, CacheAssumption DEF Kept, MapInv, CacheAssumption
<1>7. tagKeys' = [t \in Tags |-> { k \in cached' : t \in entry'[k].tags }]
  BY <1>1, <1>6 DEF Untag, MapInv
<1> QED
  BY <1>1, <1>2, <1>3, <1>4, <1>5, <1>6, <1>7 DEF MapInv

\* The order with one more key, as its newest.
LEMMA NewestKeeps ==
  ASSUME MapInv, NEW k \in Keys, NEW rest \in SUBSET (cached \ {k}),
         cached' = rest \cup {k}, later' = AsNewest(k, rest)
  PROVE  /\ later' \in [Keys -> SUBSET cached']
         /\ \A i, j \in cached' : i # j => i \in later'[j] \/ j \in later'[i]
         /\ \A i \in cached' : i \notin later'[i]
         /\ \A h, i, j \in cached' : i \in later'[h] /\ j \in later'[i] => j \in later'[h]
<1>1. /\ later' \in [Keys -> SUBSET cached'] /\ later'[k] = {}
      /\ \A j \in rest : later'[j] = (later[j] \cap rest) \cup {k}
  BY DEF AsNewest, MapInv
<1>2. ASSUME NEW i \in cached', NEW j \in cached', i # j
      PROVE  i \in later'[j] \/ j \in later'[i]
  BY <1>1, <1>2 DEF MapInv
<1>3. ASSUME NEW i \in cached'
      PROVE  i \notin later'[i]
  BY <1>1 DEF MapInv
<1>4. ASSUME NEW h \in cached', NEW i \in cached', NEW j \in cached',
             i \in later'[h], j \in later'[i]
      PROVE  j \in later'[h]
  <2>1. h \in rest /\ i \in rest
    BY <1>1, <1>4
  <2>2. CASE j = k
    BY <1>1, <2>1, <2>2
  <2>3. CASE j # k
    BY <1>1, <1>4, <2>1, <2>3 DEF MapInv
  <2> QED
    BY <2>2, <2>3
<1> QED
  BY <1>1, <1>2, <1>3, <1>4

\* A key that is set finds room for itself.
LEMMA StoreKeeps ==
  ASSUME MapInv, NEW k \in Keys, NEW value \in Nat, value <= MaxVersion[k],
         NEW o, o.ttl \in 0..Forever, o.tags \subseteq Tags, Store(k, value, o)
  PROVE  /\ MapInv' /\ k \in cached' /\ cached' \subseteq cached \cup {k}
         /\ entry'[k].value = value /\ \A j \in cached' \ {k} : entry'[j] = entry[j]
<1> DEFINE others == cached \ {k}
           dropped == {k} \cup Evicted(k)
           rest == cached \ dropped
           new == [value |-> value, ttl |-> o.ttl, tags |-> o.tags]
<1>1. /\ cached' = rest \cup {k} /\ later' = AsNewest(k, rest)
      /\ entry' = [Kept(dropped) EXCEPT ![k] = new]
      /\ tagKeys' = [t \in Tags |-> Untag(dropped)[t] \cup (IF t \in o.tags THEN {k} ELSE {})]
  BY DEF Store
<1>2. rest = { j \in others : ~(Cardinality(later[j] \ {k}) >= MaxEntries - 1) }
  BY DEF Evicted
<1>3. \A j \in others : later[j] \ {k} = others \cap later[j]
  BY DEF MapInv
<1>4. IsFiniteSet(others)
  BY FS_Subset DEF MapInv
<1>5. \A j \in others : Cardinality(others \cap later[j]) \in Nat
  <2> HIDE DEF others
  <2> QED
    BY <1>4, FS_Intersection, FS_CardinalityType
<1>6. rest = { j \in others : Cardinality(others \cap later[j]) < MaxEntries - 1 }
  <2>1. MaxEntries - 1 \in Nat
    BY CacheAssumption DEF CacheAssumption
  <2>2. \A j \in others : ~(Cardinality(others \cap later[j]) >= MaxEntries - 1)
                          <=> Cardinality(others \cap later[j]) < MaxEntries - 1
    BY <1>5, <2>1
  <2> HIDE DEF others, rest
  <2> QED
    BY <1>2, <1>3, <2>2
<1>7. Cardinality(rest) <= MaxEntries - 1
  <2>1. MaxEntries - 1 \in Nat
    BY CacheAssumption DEF CacheAssumption
  <2>2. /\ \A i, j \in others : i # j => i \in later[j] \/ j \in later[i]
        /\ \A j \in others : j \notin later[j]
        /\ \A h, i, j \in others : i \in later[h] /\ j \in later[i] => j \in later[h]
    BY DEF MapInv
  <2> HIDE DEF others, rest
  <2>3. Cardinality({ j \in others : Cardinality(others \cap later[j]) < MaxEntries - 1 }) <= MaxEntries - 1
    BY <1>4, <2>1, <2>2, NewestAreFew
  <2> QED
    BY <1>6, <2>3
<1>8. IsFiniteSet(cached') /\ Cardinality(cached') <= MaxEntries
  <2>1. IsFiniteSet(rest) /\ Cardinality(rest) \in Nat /\ k \notin rest
    BY FS_Subset, FS_CardinalityType DEF MapInv
  <2> HIDE DEF rest
  <2>2. IsFiniteSet(rest \cup {k}) /\ Cardinality(rest \cup {k}) = Cardinality(rest) + 1
    BY <2>1, FS_AddElement
  <2> QED
    BY <1>1, <1>7, <2>1, <2>2, CacheAssumption DEF CacheAssumption
<1>9. rest \in SUBSET (cached \ {k})
  OBVIOUS
<1>10. new \in Entries /\ new.value = value /\ new.tags = o.tags
  BY DEF Entries
<1>11. /\ Kept(dropped) \in [Keys -> Entries]
       /\ \A j \in Keys : Kept(dropped)[j].value <= MaxVersion[j]
       /\ \A j \in rest : Kept(dropped)[j] = entry[j]
  BY BlankIsEntry, CacheAssumption DEF Kept, MapInv, CacheAssumption
<1>12. /\ entry' \in [Keys -> Entries] /\ entry'[k] = new
       /\ \A j \in Keys \ {k} : entry'[j] = Kept(dropped)[j]
  <2> HIDE DEF new
  <2> QED
    BY <1>1, <1>10, <1>11
<1>13. /\ \A j \in Keys : entry'[j].value <= MaxVersion[j]
       /\ \A j \in cached' \ {k} : j \in rest /\ entry'[j] = entry[j]
  <2>1. rest \subseteq Keys /\ cached' \ {k} \subseteq rest
    BY <1>1 DEF MapInv
  <2> HIDE DEF new, rest, dropped
  <2> QED
    BY <1>10, <1>11, <1>12, <2>1
<1>14. tagKeys' = [t \in Tags |-> { j \in cached' : t \in entry'[j].tags }]
  <2>1. \A t \in Tags : Untag(dropped)[t] = { j \in rest : t \in entry[j].tags }
    BY DEF Untag, MapInv
  <2>2. entry'[k].tags = o.tags
    BY <1>10, <1>12
  <2> HIDE DEF new, rest, dropped
  <2>3. ASSUME NEW t \in Tags
        PROVE  Untag(dropped)[t] \cup (IF t \in o.tags THEN {k} ELSE {})
                 = { j \in cached' : t \in entry'[j].tags }
    BY <1>1, <1>13, <1>9, <2>1, <2>2
  <2> QED
    BY <1>1, <2>3
<1>15. /\ k \in cached' /\ cached' \subseteq cached \cup {k} /\ cached' \subseteq Keys
  BY <1>1 DEF MapInv
<1>16. /\ later' \in [Keys -> SUBSET cached']
       /\ \A i, j \in cached' : i # j => i \in later'[j] \/ j \in later'[i]
       /\ \A i \in cached' : i \notin later'[i]
       /\ \A h, i, j \in cached' : i \in later'[h] /\ j \in later'[i] => j \in later'[h]
  <2> HIDE DEF rest
  <2> QED
    BY <1>1, <1>9, NewestKeeps
<1>17. entry'[k].value = value
  BY <1>10, <1>12
<1>18. MapInv'
  BY <1>8, <1>12, <1>13, <1>14, <1>15, <1>16 DEF MapInv
<1> QED
  BY <1>13, <1>15, <1>17, <1>18

\* Loads that end or move on stay few.
LEMMA FewStay ==
  ASSUME FewLoads, Loads' \subseteq Loads, Loads' \ nested' \subseteq Loads \ nested
  PROVE  FewLoads'
<1> DEFINE own == Loads \ nested
           rest == Loads' \ nested'
<1>1. IsFiniteSet(own) /\ IsFiniteSet(Loads')
  BY FS_Subset DEF FewLoads
<1>2. IsFiniteSet(rest) /\ Cardinality(rest) <= Cardinality(own)
  <2> HIDE DEF own
  <2> QED
    BY <1>1, FS_Subset DEF own
<1>3. Cardinality(own) \in Nat /\ Cardinality(rest) \in Nat
  BY <1>1, <1>2, FS_CardinalityType
<1>4. Cardinality(own) <= MaxEntries
  BY DEF FewLoads
<1>5. Cardinality(rest) <= MaxEntries
  <2> HIDE DEF own, rest
  <2> QED
    BY <1>2, <1>3, <1>4, CacheAssumption DEF CacheAssumption
<1> QED
  BY <1>1, <1>5 DEF FewLoads

\* One more load is let in where those in flight are fewer than the bound, or it
\* is nested.
LEMMA FewGrow ==
  ASSUME FewLoads, NEW k \in Keys, Loads' = Loads \cup {k}, k \notin Loads,
         Cardinality(InFlight) < MaxEntries,
         nested' = IF calling = <<>> THEN nested ELSE nested \cup {k}
  PROVE  FewLoads'
<1>1. IsFiniteSet(Loads')
  BY FS_AddElement DEF FewLoads
<1>2. CASE calling # <<>>
  <2>1. Loads' \ nested' = Loads \ nested
    BY <1>2
  <2> QED
    BY <1>1, <2>1 DEF FewLoads
<1>3. CASE calling = <<>>
  <2>1. InFlight = Loads
    BY <1>3 DEF InFlight, Calling
  <2>2. IsFiniteSet(Loads) /\ Cardinality(Loads) \in Nat
    BY FS_CardinalityType DEF FewLoads
  <2>3. Cardinality(Loads') = Cardinality(Loads) + 1
    BY <2>2, FS_AddElement
  <2> DEFINE own == Loads' \ nested'
  <2>4. IsFiniteSet(own) /\ Cardinality(own) <= Cardinality(Loads')
    BY <1>1, FS_Subset
  <2>5. Cardinality(own) \in Nat
    BY <2>4, FS_CardinalityType
  <2>6. Cardinality(own) <= MaxEntries
    <3> HIDE DEF own
    <3> QED
      BY <2>1, <2>2, <2>3, <2>4, <2>5, CacheAssumption DEF CacheAssumption
  <2> QED
    BY <1>1, <2>6 DEF FewLoads
<1> QED
  BY <1>2, <1>3

LEMMA CacheStep ==
  ASSUME CacheInv, [CacheNext]_cacheVars
  PROVE  CacheInv'
<1> USE DEF CacheInv, loadVars
<1> DEFINE Unmoved == UNCHANGED <<loadVars, source>>
<1>1. ASSUME UNCHANGED <<load, nested>>
      PROVE  FewLoads'
  BY <1>1, FewStay DEF Loads, LoadInv
<1>2. ASSUME UNCHANGED <<cached, later, entry, tagKeys>>
      PROVE  MapInv'
  BY <1>2 DEF MapInv
<1>3. ASSUME Unmoved, UNCHANGED floor, InvalidationHolds'
      PROVE  LoadInv'
  BY <1>1, <1>3 DEF LoadInv
<1>4. ASSUME NEW k \in Keys, RemoveEntries({k}), UNCHANGED <<source, floor>>
      PROVE  MapInv' /\ InvalidationHolds'
  <2>1. MapInv' /\ cached' \subseteq cached /\ \A j \in cached' : entry'[j] = entry[j]
    BY <1>4, RemoveKeeps
  <2> QED
    BY <1>4, <2>1 DEF LoadInv, InvalidationHolds
<1>5. ASSUME NEW k \in Keys, Get(k)
      PROVE  CacheInv'
  <2>1. CASE RemoveEntries({k})
    BY <1>3, <1>4, <1>5, <2>1 DEF Get
  <2>2. CASE Touch(k)
    <3>1. /\ k \in cached /\ later' = AsNewest(k, cached \ {k})
          /\ UNCHANGED <<cached, entry, tagKeys, loadVars, source, floor>>
      BY <1>5, <2>2 DEF Get, Touch
    <3>2. cached' = (cached \ {k}) \cup {k} /\ cached \ {k} \in SUBSET (cached \ {k})
      BY <3>1
    <3>3. /\ later' \in [Keys -> SUBSET cached']
          /\ \A i, j \in cached' : i # j => i \in later'[j] \/ j \in later'[i]
          /\ \A i \in cached' : i \notin later'[i]
          /\ \A h, i, j \in cached' : i \in later'[h] /\ j \in later'[i] => j \in later'[h]
      BY <3>1, <3>2, NewestKeeps
    <3>4. MapInv'
      <4>1. /\ cached' = cached /\ entry' = entry /\ tagKeys' = tagKeys
        BY <3>1
      <4>2. /\ cached' \subseteq Keys /\ IsFiniteSet(cached') /\ Cardinality(cached') <= MaxEntries
            /\ entry' \in [Keys -> Entries] /\ \A j \in Keys : entry'[j].value <= MaxVersion[j]
            /\ tagKeys' = [t \in Tags |-> { j \in cached' : t \in entry'[j].tags }]
        BY <4>1 DEF MapInv
      <4> QED
        BY <3>3, <4>2 DEF MapInv
    <3>5. InvalidationHolds'
      BY <3>1 DEF LoadInv, InvalidationHolds
    <3> QED
      BY <1>3, <3>1, <3>4, <3>5
  <2> QED
    BY <1>5, <2>1, <2>2 DEF Get
<1>6. ASSUME NEW k \in Keys, NEW o \in Options, Set(k, o)
      PROVE  CacheInv'
  <2>1. /\ o.ttl \in 0..Forever /\ o.tags \subseteq Tags
        /\ source[k] \in Nat /\ source[k] <= MaxVersion[k]
    BY CacheAssumption DEF CacheAssumption, LoadInv
  <2>2. /\ MapInv' /\ cached' \subseteq cached \cup {k} /\ entry'[k].value = source[k]
        /\ \A j \in cached' \ {k} : entry'[j] = entry[j]
    BY <1>6, <2>1, StoreKeeps DEF Set
  <2>3. InvalidationHolds'
    BY <1>6, <2>2 DEF Set, LoadInv, InvalidationHolds
  <2> QED
    BY <1>3, <1>6, <2>2, <2>3 DEF Set
<1>7. ASSUME NEW dropped, Invalidated(dropped), Unmoved,
             cached' \cap dropped = {}, cached' \subseteq cached,
             \A j \in cached' : entry'[j] = entry[j]
      PROVE  LoadInv'
  <2>1. /\ floor' \in [Keys -> Nat]
        /\ \A k \in Keys : floor'[k] = IF k \in dropped /\ load[k] # "read" THEN source[k] ELSE floor[k]
    BY <1>7 DEF Invalidated, LoadInv
  <2>2. /\ \A k \in Keys : floor'[k] <= source[k] /\ source[k] <= MaxVersion[k]
        /\ \A k \in Keys : load[k] = "read" => loaded[k].value >= floor'[k]
    BY <2>1, CacheAssumption DEF LoadInv, CacheAssumption
  <2>3. InvalidationHolds'
    BY <1>7, <2>1 DEF LoadInv, InvalidationHolds, MapInv
  <2> QED
    BY <1>1, <1>7, <2>1, <2>2, <2>3 DEF LoadInv
<1>8. ASSUME NEW k \in Keys, Delete(k)
      PROVE  CacheInv'
  <2>1. MapInv' /\ cached' = cached \ {k} /\ \A j \in cached' : entry'[j] = entry[j]
    BY <1>8, RemoveKeeps DEF Delete
  <2> QED
    BY <1>7, <1>8, <2>1 DEF Delete
<1>9. ASSUME NEW t \in Tags, InvalidateTag(t)
      PROVE  CacheInv'
  <2>1. /\ MapInv' /\ cached' = cached \ tagKeys[t]
        /\ \A j \in cached' : entry'[j] = entry[j]
    BY <1>9, RemoveKeeps DEF InvalidateTag
  <2>2. tagKeys[t] = Tagged(t)
    BY DEF MapInv, Tagged
  <2> QED
    BY <1>7, <1>9, <2>1, <2>2 DEF InvalidateTag
<1>10. CASE Clear
  <2>1. /\ cached' = {} /\ later' = [k \in Keys |-> {}] /\ entry' = Kept(Keys)
        /\ tagKeys' = [t \in Tags |-> {}] /\ Invalidated(Keys) /\ Unmoved
    BY <1>10 DEF Clear
  <2>2. IsFiniteSet({}) /\ Cardinality({}) = 0
    BY FS_EmptySet
  <2>3. MapInv'
    BY <2>1, <2>2, BlankIsEntry, CacheAssumption DEF MapInv, Kept, CacheAssumption
  <2> QED
    BY <1>7, <2>1, <2>3
<1>11. ASSUME NEW k \in Keys, NEW o \in Options, StartLoad(k, o)
       PROVE  CacheInv'
  <2>1. MapInv' /\ InvalidationHolds'
    BY <1>4, <1>11 DEF StartLoad
  <2>2. /\ load' = [load EXCEPT ![k] = "loading"] /\ UNCHANGED <<source, floor>>
        /\ loaded' = [loaded EXCEPT ![k] = [value |-> 0, ttl |-> o.ttl, tags |-> o.tags]]
        /\ k \notin Loads /\ Cardinality(InFlight) < MaxEntries
        /\ nested' = IF calling = <<>> THEN nested ELSE nested \cup {k}
    BY <1>11 DEF StartLoad
  <2>3. Loads' = Loads \cup {k}
    BY <2>2 DEF Loads, LoadInv
  <2>4. FewLoads'
    BY <2>2, <2>3, FewGrow DEF LoadInv
  <2> DEFINE new == [value |-> 0, ttl |-> o.ttl, tags |-> o.tags]
  <2>7. new \in Entries /\ new.value = 0 /\ MaxVersion[k] \in Nat
    BY CacheAssumption DEF CacheAssumption, Entries
  <2>8. loaded' \in [Keys -> Entries] /\ \A j \in Keys : loaded'[j].value <= MaxVersion[j]
    <3>1. loaded' = [loaded EXCEPT ![k] = new]
      BY <2>2
    <3> HIDE DEF new
    <3>2. loaded' \in [Keys -> Entries] /\ loaded'[k] = new
          /\ \A j \in Keys \ {k} : loaded'[j] = loaded[j]
      BY <2>7, <3>1 DEF LoadInv
    <3> QED
      BY <2>7, <3>2 DEF LoadInv
  <2>9. \A j \in Keys : load'[j] = "read" => load[j] = "read" /\ loaded'[j] = loaded[j]
    BY <2>2 DEF LoadInv
  <2>10. load' \in [Keys -> {"none", "loading", "read", "settled"}]
    BY <2>2 DEF LoadInv
  <2> QED
    BY <2>1, <2>2, <2>4, <2>8, <2>9, <2>10 DEF LoadInv
<1>12. ASSUME NEW k \in Keys, JoinOrRefuse(k)
       PROVE  CacheInv'
  BY <1>3, <1>4, <1>12 DEF JoinOrRefuse
<1>13. ASSUME NEW k \in Keys, NEW to \in {"none", "loading", "read", "settled"},
              load' = [load EXCEPT ![k] = to], load[k] # "none",
              nested' = nested \/ (to = "none" /\ nested' = nested \ {k})
       PROVE  /\ load' \in [Keys -> {"none", "loading", "read", "settled"}]
              /\ FewLoads'
              /\ \A j \in Keys \ {k} : load'[j] = load[j]
  <2>1. Loads' \subseteq Loads /\ (to = "none" => k \notin Loads')
    BY <1>13 DEF Loads, LoadInv
  <2>2. FewLoads'
    BY <1>13, <2>1, FewStay DEF LoadInv
  <2> QED
    BY <1>13, <2>2 DEF LoadInv
<1>14. ASSUME NEW k \in Keys, LoaderReads(k)
       PROVE  CacheInv'
  <2>1. MapInv' /\ InvalidationHolds'
    BY <1>2, <1>14 DEF LoaderReads, LoadInv, InvalidationHolds
  <2>2. /\ loaded' \in [Keys -> Entries] /\ loaded'[k].value = source[k]
        /\ \A j \in Keys \ {k} : loaded'[j] = loaded[j]
    BY <1>14 DEF LoaderReads, LoadInv, Entries
  <2>3. /\ load[k] = "loading" /\ load' = [load EXCEPT ![k] = "read"]
        /\ UNCHANGED <<nested, source, floor>>
    BY <1>14 DEF LoaderReads
  <2>4. /\ load' \in [Keys -> {"none", "loading", "read", "settled"}] /\ FewLoads'
        /\ \A j \in Keys \ {k} : load'[j] = load[j]
    BY <1>13, <2>3
  <2> QED
    BY <2>1, <2>2, <2>3, <2>4 DEF LoadInv
<1>15. ASSUME NEW k \in Keys, load' = [load EXCEPT ![k] = "settled"],
              loaded' = [loaded EXCEPT ![k] = Blank], load[k] # "none",
              UNCHANGED <<nested, source, floor>>, InvalidationHolds'
       PROVE  LoadInv'
  <2>1. /\ loaded' \in [Keys -> Entries] /\ \A j \in Keys : loaded'[j].value <= MaxVersion[j]
        /\ \A j \in Keys \ {k} : loaded'[j] = loaded[j]
    <3>1. loaded' \in [Keys -> Entries] /\ loaded'[k] = Blank
          /\ \A j \in Keys \ {k} : loaded'[j] = loaded[j]
      BY <1>15, BlankIsEntry DEF LoadInv
    <3>2. MaxVersion[k] \in Nat
      BY CacheAssumption DEF CacheAssumption
    <3> QED
      BY <3>1, <3>2, BlankIsEntry DEF LoadInv
  <2>2. load'[k] = "settled"
    BY <1>15 DEF LoadInv
  <2>3. /\ load' \in [Keys -> {"none", "loading", "read", "settled"}] /\ FewLoads'
        /\ \A j \in Keys \ {k} : load'[j] = load[j]
    BY <1>13, <1>15
  <2> QED
    BY <1>15, <2>1, <2>2, <2>3 DEF LoadInv
<1>16. ASSUME NEW k \in Keys, LoaderReturns(k)
       PROVE  CacheInv'
  <2>1. /\ loaded[k].value \in Nat /\ loaded[k].value <= MaxVersion[k]
        /\ loaded[k].ttl \in 0..Forever /\ loaded[k].tags \subseteq Tags
        /\ loaded[k].value >= floor[k]
    BY <1>16 DEF LoaderReturns, LoadInv, Entries
  <2>2. /\ MapInv' /\ cached' \subseteq cached \cup {k} /\ entry'[k].value = loaded[k].value
        /\ \A j \in cached' \ {k} : entry'[j] = entry[j]
    BY <1>16, <2>1, StoreKeeps DEF LoaderReturns
  <2>3. InvalidationHolds'
    BY <1>16, <2>1, <2>2 DEF LoaderReturns, LoadInv, InvalidationHolds
  <2> QED
    BY <1>15, <1>16, <2>2, <2>3 DEF LoaderReturns
<1>17. ASSUME NEW k \in Keys, LoaderFails(k)
       PROVE  CacheInv'
  <2>1. MapInv' /\ InvalidationHolds'
    BY <1>2, <1>17 DEF LoaderFails, LoadInv, InvalidationHolds
  <2> QED
    BY <1>15, <1>17, <2>1 DEF LoaderFails
<1>18. ASSUME NEW k \in Keys, EndLoad(k)
       PROVE  CacheInv'
  <2>1. MapInv' /\ InvalidationHolds'
    BY <1>2, <1>18 DEF EndLoad, LoadInv, InvalidationHolds
  <2>2. load'[k] = "none"
    BY <1>18 DEF EndLoad, LoadInv
  <2> QED
    BY <1>13, <1>18, <2>1, <2>2 DEF EndLoad, LoadInv
<1>19. ASSUME NEW k \in Keys, WriteSource(k)
       PROVE  CacheInv'
  <2>1. MapInv' /\ InvalidationHolds'
    BY <1>2, <1>19 DEF WriteSource, LoadInv, InvalidationHolds
  <2>2. /\ source' \in [Keys -> Nat]
        /\ \A j \in Keys : source[j] <= source'[j] /\ source'[j] <= MaxVersion[j]
    <3>1. source[k] < MaxVersion[k] /\ source' = [source EXCEPT ![k] = source[k] + 1]
      BY <1>19 DEF WriteSource
    <3>2. source[k] \in Nat /\ MaxVersion[k] \in Nat
      BY CacheAssumption DEF CacheAssumption, LoadInv
    <3>3. /\ source' \in [Keys -> Nat] /\ source'[k] = source[k] + 1
          /\ \A j \in Keys \ {k} : source'[j] = source[j]
      BY <3>1, <3>2 DEF LoadInv
    <3> QED
      BY <3>1, <3>2, <3>3 DEF LoadInv
  <2>3. \A j \in Keys : floor[j] <= source'[j]
    BY <2>2 DEF LoadInv
  <2> QED
    BY <1>1, <1>19, <2>1, <2>2, <2>3 DEF WriteSource, LoadInv
<1>20. CASE CacheTick
  <2>1. /\ entry' \in [Keys -> Entries]
        /\ \A k \in Keys : entry'[k].value = entry[k].value /\ entry'[k].tags = entry[k].tags
        /\ UNCHANGED <<cached, later, tagKeys, loadVars, source, floor>>
    <3> DEFINE Older(e) == [e EXCEPT !.ttl = IF e.ttl \in {0, Forever} THEN e.ttl ELSE e.ttl - 1]
    <3>1. /\ entry' = [k \in Keys |-> Older(entry[k])]
          /\ UNCHANGED <<cached, later, tagKeys, loadVars, source, floor>>
      BY <1>20 DEF CacheTick
    <3>2. \A e \in Entries : Older(e) \in Entries /\ Older(e).value = e.value /\ Older(e).tags = e.tags
      BY CacheAssumption DEF Entries, CacheAssumption
    <3> HIDE DEF Older
    <3> QED
      BY <3>1, <3>2 DEF MapInv
  <2>2. MapInv'
    BY <2>1 DEF MapInv
  <2>3. InvalidationHolds'
    BY <2>1 DEF LoadInv, InvalidationHolds, MapInv
  <2> QED
    BY <1>3, <2>1, <2>2, <2>3
<1>21. ASSUME NEW k \in Keys, Register(k)
       PROVE  CacheInv'
  BY <1>1, <1>2, <1>21 DEF Register, LoadInv, InvalidationHolds
<1>22. CASE UNCHANGED cacheVars
  <2>1. UNCHANGED <<cached, later, entry, tagKeys, loadVars, source, floor>>
    BY <1>22 DEF cacheVars
  <2> QED
    BY <1>2, <1>3, <2>1 DEF LoadInv, InvalidationHolds
<1> QED
  BY <1>5, <1>6, <1>8, <1>9, <1>10, <1>11, <1>12, <1>14, <1>16, <1>17, <1>18, <1>19, <1>20, <1>21,
     <1>22
     DEF CacheNext

\* Entries, and loads not begun inside another's loader, are each bounded, their order
\* of use is one, and the index of tags is exactly that of the entries, whatever
\* replaces, evicts or expires them (cache.ts:132, 188).
THEOREM CacheConsistentAlways == CacheSpec => []CacheConsistent
<1>1. CacheInv => CacheConsistent
  <2> SUFFICES ASSUME CacheInv PROVE CacheConsistent
    OBVIOUS
  <2>1. ASSUME NEW j \in cached, NEW k \in cached, j # k
        PROVE  j \in later[k] <=> k \notin later[j]
    BY <2>1 DEF CacheInv, MapInv
  <2>2. ASSUME NEW k \in Keys
        PROVE  entry[k] \in [value : 0..MaxVersion[k], ttl : 0..Forever, tags : SUBSET Tags]
    <3>1. entry[k] \in Entries /\ entry[k].value <= MaxVersion[k] /\ MaxVersion[k] \in Nat
      BY CacheAssumption DEF CacheInv, MapInv, CacheAssumption
    <3> QED
      BY <3>1 DEF Entries
  <2> QED
    BY <2>1, <2>2 DEF CacheInv, MapInv, LoadInv, FewLoads, CacheConsistent
<1> QED
  BY <1>1, CacheStart, CacheStep, PTL DEF CacheSpec

\* After an invalidation, a deletion or a clear no older value is served, but one
\* that a load had read before (cache.ts:140).
THEOREM InvalidationHoldsAlways == CacheSpec => []InvalidationHolds
<1>1. CacheInv => InvalidationHolds
  BY DEF CacheInv, LoadInv
<1> QED
  BY <1>1, CacheStart, CacheStep, PTL DEF CacheSpec

-----------------------------------------------------------------------------
(* The rate limiter.                                                       *)

Buckets == [count : 0..(Limit + 1), left : 0..RateWindow]
Spans == [1..(2 * Limit) -> 0..RateWindow]

Admissions(b) == IF b.count <= Limit THEN b.count ELSE Limit

\* A bucket b, and the ages a of the admissions of its key: those of its window are
\* as old as the window at most, and the Limit before them are older than a whole
\* one; when the window is over, so are those of it.
WindowKept(b, a) ==
  /\ b \in Buckets /\ a \in Spans
  /\ \A i, j \in 1..(2 * Limit) : i <= j => a[i] <= a[j]
  /\ b.left = 0 => a[Limit] = RateWindow
  /\ b.left > 0 => /\ Admissions(b) \in 1..Limit
                   /\ a[Admissions(b)] = RateWindow - b.left
                   /\ a[Admissions(b) + Limit] = RateWindow

RateInv ==
  /\ buckets \in [Clients -> Buckets] /\ admitted \in [Clients -> Spans]
  /\ \A k \in Clients : WindowKept(buckets[k], admitted[k])

LEMMA RateConstants == Limit \in Nat \ {0} /\ RateWindow \in Nat \ {0} /\ Limit \in 1..(2 * Limit)
BY RateLimitAssumption DEF RateLimitAssumption

LEMMA EmptyKept == WindowKept(Empty, NobodyYet)
BY RateConstants DEF WindowKept, Empty, NobodyYet, Buckets, Spans

\* An emptied bucket of a window that is over.
LEMMA DeadKept ==
  ASSUME NEW b, NEW a, WindowKept(b, a), b.left = 0
  PROVE  WindowKept(Empty, a)
BY RateConstants DEF WindowKept, Empty, Buckets

\* One more admission, in a window that is b from now on.
LEMMA AdmittedKept ==
  ASSUME NEW b \in Buckets, NEW a \in Spans, NEW k \in Clients, a = admitted[k],
         \A i, j \in 1..(2 * Limit) : i <= j => a[i] <= a[j],
         b.left > 0, b.count \in 1..Limit,
         IF b.count = 1 THEN b.left = RateWindow ELSE a[b.count - 1] = RateWindow - b.left,
         a[b.count + Limit - 1] = RateWindow
  PROVE  WindowKept(b, WithOneMore(k))
<1> DEFINE new == WithOneMore(k)
           n == 2 * Limit
<1>1. /\ n \in Nat /\ Limit \in Nat \ {0} /\ n = Limit + Limit /\ RateWindow \in Nat \ {0}
  BY RateConstants
<1>2. /\ DOMAIN new = 1..n /\ new[1] = 0
      /\ \A i \in 1..n : i # 1 => i - 1 \in 1..n /\ new[i] = a[i - 1]
      /\ new = [i \in 1..n |-> IF i = 1 THEN 0 ELSE a[i - 1]]
  BY <1>1 DEF WithOneMore
<1>3. \A i \in 1..n : a[i] \in 0..RateWindow
  BY DEF Spans
<1>4. new \in Spans
  <2> HIDE DEF new
  <2>1. \A i \in 1..n : new[i] \in 0..RateWindow
    BY <1>1, <1>2, <1>3
  <2> QED
    BY <1>2, <2>1 DEF Spans
<1> HIDE DEF new, n
<1>5. ASSUME NEW i \in 1..n, NEW j \in 1..n, i <= j
      PROVE  new[i] <= new[j]
  <2>1. CASE i = 1
    <3>1. new[j] \in 0..RateWindow
      BY <1>4 DEF Spans, n
    <3> QED
      BY <1>1, <1>2, <2>1, <3>1
  <2>2. CASE i # 1
    <3>1. j # 1 /\ i - 1 \in 1..n /\ j - 1 \in 1..n /\ i - 1 <= j - 1
      BY <1>1, <1>5, <2>2
    <3> QED
      BY <1>2, <2>2, <3>1 DEF n
  <2> QED
    BY <2>1, <2>2
<1>6. Admissions(b) = b.count /\ b.count \in Nat
  BY <1>1 DEF Admissions
<1>7. b.left \in 0..RateWindow
  BY DEF Buckets
<1>8. new[b.count] = RateWindow - b.left
  <2>1. CASE b.count = 1
    BY <1>1, <1>2, <1>7, <2>1
  <2>2. CASE b.count # 1
    <3>1. b.count \in 1..n
      BY <1>1, <1>6
    <3> QED
      BY <1>2, <2>2, <3>1
  <2> QED
    BY <2>1, <2>2
<1>9. new[b.count + Limit] = RateWindow
  <2>1. b.count + Limit \in 1..n /\ b.count + Limit # 1
    BY <1>1, <1>6
  <2>2. new[b.count + Limit] = a[(b.count + Limit) - 1]
    BY <1>2, <2>1
  <2>3. (b.count + Limit) - 1 = b.count + Limit - 1
    BY <1>1, <1>6
  <2> QED
    BY <2>2, <2>3
<1>10. b.left # 0
  BY <1>7
<1> QED
  BY <1>4, <1>5, <1>6, <1>8, <1>9, <1>10 DEF WindowKept, new, n

LEMMA RateStart == RateInit => RateInv
<1> SUFFICES ASSUME RateInit PROVE RateInv
  OBVIOUS
<1>1. Empty \in Buckets /\ NobodyYet \in Spans
  BY EmptyKept DEF WindowKept
<1> QED
  BY <1>1, EmptyKept DEF RateInit, RateInv

\* A tick lets a window end when its first admission is as old as it.
LEMMA TickKept ==
  ASSUME NEW b, NEW a, WindowKept(b, a), NEW c, NEW d,
         c = [b EXCEPT !.left = IF b.left > 0 THEN b.left - 1 ELSE 0],
         d = [i \in 1..(2 * Limit) |-> IF a[i] < RateWindow THEN a[i] + 1 ELSE RateWindow]
  PROVE  WindowKept(c, d)
<1> DEFINE n == 2 * Limit
<1>1. n \in Nat /\ Limit \in Nat \ {0} /\ n = Limit + Limit /\ RateWindow \in Nat \ {0}
  BY RateConstants
<1>2. /\ b \in Buckets /\ b.left \in 0..RateWindow /\ b.count \in 0..(Limit + 1)
      /\ \A i \in 1..n : a[i] \in 0..RateWindow
      /\ \A i, j \in 1..n : i <= j => a[i] <= a[j]
  BY DEF WindowKept, Buckets, Spans
<1>3. /\ c \in Buckets /\ c.count = b.count /\ c.left = IF b.left > 0 THEN b.left - 1 ELSE 0
  <2> DEFINE less == IF b.left > 0 THEN b.left - 1 ELSE 0
  <2>1. less \in 0..RateWindow
    BY <1>1, <1>2
  <2>2. c = [b EXCEPT !.left = less]
    OBVIOUS
  <2> HIDE DEF less
  <2>3. c \in Buckets /\ c.count = b.count /\ c.left = less
    BY <1>2, <2>1, <2>2 DEF Buckets
  <2> QED
    BY <2>3 DEF less
<1>4. Admissions(c) = Admissions(b)
  BY <1>3 DEF Admissions
<1> HIDE DEF n
<1>5. \A i \in 1..n : d[i] = (IF a[i] < RateWindow THEN a[i] + 1 ELSE RateWindow) /\ d[i] \in 0..RateWindow
  BY <1>1, <1>2 DEF n
<1>6. d \in Spans
  BY <1>5 DEF Spans, n
<1>7. ASSUME NEW i \in 1..n, NEW j \in 1..n, i <= j
      PROVE  d[i] <= d[j]
  BY <1>1, <1>2, <1>5, <1>7
<1>8. ASSUME b.left > 0
      PROVE  /\ Admissions(b) \in 1..Limit /\ Admissions(b) \in 1..n /\ Admissions(b) + Limit \in 1..n
             /\ d[Admissions(b)] = RateWindow - c.left
             /\ d[Admissions(b) + Limit] = RateWindow
  <2>1. /\ Admissions(b) \in 1..Limit
        /\ a[Admissions(b)] = RateWindow - b.left
        /\ a[Admissions(b) + Limit] = RateWindow
    BY <1>8 DEF WindowKept
  <2>2. Admissions(b) \in 1..n /\ Admissions(b) + Limit \in 1..n
    BY <1>1, <2>1
  <2> QED
    BY <1>1, <1>2, <1>3, <1>5, <1>8, <2>1, <2>2
<1>9. ASSUME c.left = 0
      PROVE  d[Limit] = RateWindow
  <2>1. Limit \in 1..n
    BY <1>1
  <2>2. CASE b.left = 0
    BY <1>1, <1>5, <2>1, <2>2 DEF WindowKept
  <2>3. CASE b.left > 0
    <3>1. d[Admissions(b)] = RateWindow /\ Admissions(b) <= Limit /\ Admissions(b) \in 1..n
      BY <1>1, <1>8, <1>9, <2>3
    <3>2. d[Admissions(b)] <= d[Limit] /\ d[Limit] \in 0..RateWindow
      BY <1>5, <1>7, <2>1, <3>1
    <3> QED
      BY <1>1, <3>1, <3>2
  <2> QED
    BY <1>2, <2>2, <2>3
<1>10. c.left > 0 => b.left > 0
  BY <1>2, <1>3
<1> QED
  BY <1>3, <1>4, <1>6, <1>7, <1>8, <1>9, <1>10 DEF WindowKept, n

\* One more, until the bucket is full.
LEMMA CountOnce ==
  ASSUME NEW m \in 0..(Limit + 1)
  PROVE  Min({m + 1, Limit + 1}) = IF m <= Limit THEN m + 1 ELSE Limit + 1
<1> DEFINE x == m + 1
           y == Limit + 1
<1>1. x \in Nat /\ y \in Nat /\ Limit \in Nat
  BY RateConstants
<1>2. CASE m <= Limit
  <2>1. x <= y
    BY <1>1, <1>2
  <2> HIDE DEF x, y
  <2>2. Min({x, y}) \in {x, y} /\ \A z \in {x, y} : Min({x, y}) <= z
    BY <1>1, <2>1 DEF Min
  <2>3. Min({x, y}) = x
    BY <1>1, <2>1, <2>2
  <2> QED
    BY <1>2, <2>3 DEF x, y
<1>3. CASE ~(m <= Limit)
  <2>1. y <= x
    BY <1>1, <1>3
  <2> HIDE DEF x, y
  <2>2. Min({x, y}) \in {x, y} /\ \A z \in {x, y} : Min({x, y}) <= z
    BY <1>1, <2>1 DEF Min
  <2>3. Min({x, y}) = y
    BY <1>1, <2>1, <2>2
  <2> QED
    BY <1>3, <2>3 DEF x, y
<1> QED
  BY <1>2, <1>3

LEMMA RateStep ==
  ASSUME RateInv, [RateNext]_rateVars
  PROVE  RateInv'
<1>0. /\ buckets \in [Clients -> Buckets] /\ admitted \in [Clients -> Spans]
      /\ \A k \in Clients : WindowKept(buckets[k], admitted[k])
      /\ Empty \in Buckets /\ NobodyYet \in Spans
  BY EmptyKept DEF RateInv, WindowKept
<1>1. ASSUME NEW k \in Clients
      PROVE  /\ PurgeBuckets[k] = IF buckets[k].left = 0 THEN Empty ELSE buckets[k]
             /\ WindowKept(PurgeBuckets[k], admitted[k])
             /\ PurgeBuckets[k] \in Buckets
             /\ k \in BucketsInUse <=> buckets[k].left > 0
  <2>1. PurgeBuckets[k] = IF buckets[k].left = 0 THEN Empty ELSE buckets[k]
    BY DEF PurgeBuckets
  <2>2. WindowKept(buckets[k], admitted[k]) /\ buckets[k].left \in Nat
    BY <1>0, RateConstants DEF Buckets
  <2>3. WindowKept(PurgeBuckets[k], admitted[k])
    BY <2>1, <2>2, DeadKept
  <2>4. Empty.left = 0
    BY DEF Empty
  <2> QED
    BY <2>1, <2>2, <2>3, <2>4 DEF BucketsInUse, WindowKept
<1>2. /\ PurgeBuckets \in [Clients -> Buckets] /\ DOMAIN PurgeBuckets = Clients
      /\ \A k \in Clients : WindowKept(PurgeBuckets[k], admitted[k])
  BY <1>0, <1>1 DEF PurgeBuckets
<1>3. ASSUME NEW k \in Clients
      PROVE  /\ Counted(k) \in Buckets
             /\ IF Counted(k).count <= Limit
                THEN WindowKept(Counted(k), WithOneMore(k))
                ELSE WindowKept(Counted(k), admitted[k])
  <2> DEFINE b == buckets[k]
             a == admitted[k]
             c == Counted(k)
  <2>1. /\ Limit \in Nat \ {0} /\ RateWindow \in Nat \ {0}
        /\ b \in Buckets /\ b.count \in 0..(Limit + 1) /\ b.left \in 0..RateWindow
        /\ WindowKept(b, a) /\ a \in Spans
        /\ \A i, j \in 1..(2 * Limit) : i <= j => a[i] <= a[j]
    BY <1>0, RateConstants DEF Buckets, WindowKept
  <2>2. CASE k \in BucketsInUse
    <3>1. b.left > 0 /\ PurgeBuckets[k] = b
      BY <1>1, <2>1, <2>2
    <3> DEFINE more == Min({b.count + 1, Limit + 1})
    <3>2. more = IF b.count <= Limit THEN b.count + 1 ELSE Limit + 1
      BY <2>1, CountOnce
    <3>3. c = [b EXCEPT !.count = more]
      BY <2>2, <3>1 DEF Counted
    <3>4. more \in 0..(Limit + 1)
      BY <2>1, <3>2
    <3> HIDE DEF b, more, c
    <3>5. c \in Buckets /\ c.count = more /\ c.left = b.left
      BY <2>1, <3>3, <3>4 DEF Buckets
    <3>6. /\ Admissions(b) \in 1..Limit
          /\ a[Admissions(b)] = RateWindow - b.left
          /\ a[Admissions(b) + Limit] = RateWindow
      BY <2>1, <3>1 DEF WindowKept
    <3>7. CASE more <= Limit
      <4>1. b.count + 1 <= Limit /\ more = b.count + 1 /\ Admissions(b) = b.count /\ b.count # 0
        BY <2>1, <3>2, <3>6, <3>7 DEF Admissions
      <4>2. c.count \in 1..Limit /\ c.count # 1 /\ c.count - 1 = b.count
            /\ c.count + Limit - 1 = b.count + Limit
        BY <2>1, <3>5, <4>1
      <4>3. /\ IF c.count = 1 THEN c.left = RateWindow ELSE a[c.count - 1] = RateWindow - c.left
            /\ a[c.count + Limit - 1] = RateWindow /\ c.left > 0
        BY <3>1, <3>5, <3>6, <4>1, <4>2
      <4>4. WindowKept(c, WithOneMore(k))
        BY <2>1, <3>5, <4>2, <4>3, AdmittedKept
      <4> QED
        BY <3>5, <3>7, <4>4 DEF c
    <3>8. CASE ~(more <= Limit)
      <4>1. Admissions(c) = Limit /\ Admissions(b) = Limit
        BY <2>1, <3>2, <3>5, <3>8 DEF Admissions
      <4>2. WindowKept(c, a)
        BY <2>1, <3>1, <3>5, <4>1 DEF WindowKept
      <4> QED
        BY <3>5, <3>8, <4>2 DEF c
    <3> QED
      BY <3>7, <3>8
  <2>3. CASE k \notin BucketsInUse
    <3>1. b.left = 0 /\ c = [count |-> 1, left |-> RateWindow]
      BY <1>1, <2>1, <2>3 DEF Counted
    <3>2. /\ c \in Buckets /\ c.count = 1 /\ c.left = RateWindow /\ a[Limit] = RateWindow
      BY <2>1, <3>1 DEF Buckets, WindowKept
    <3>3. c.count + Limit - 1 = Limit /\ c.count \in 1..Limit /\ c.left > 0
      BY <2>1, <3>2
    <3> HIDE DEF c
    <3>4. WindowKept(c, WithOneMore(k))
      BY <2>1, <3>2, <3>3, AdmittedKept
    <3>5. c.count <= Limit
      BY <2>1, <3>2
    <3> QED
      BY <3>2, <3>4, <3>5 DEF c
  <2> QED
    BY <2>2, <2>3
<1>4. ASSUME NEW k \in Clients, Consume(k)
      PROVE  RateInv'
  <2>1. CASE Refused(k)
    BY <1>0, <1>2, <1>4, <2>1 DEF Consume, RateInv
  <2>2. CASE ~Refused(k)
    <3>1. buckets' = [PurgeBuckets EXCEPT ![k] = Counted(k)]
      BY <1>4, <2>2 DEF Consume
    <3>2. /\ buckets' \in [Clients -> Buckets] /\ buckets'[k] = Counted(k)
          /\ \A j \in Clients \ {k} : buckets'[j] = PurgeBuckets[j]
      BY <1>2, <1>3, <3>1
    <3>3. CASE Counted(k).count <= Limit
      <4>1. admitted' = [admitted EXCEPT ![k] = WithOneMore(k)]
        BY <1>4, <2>2, <3>3 DEF Consume
      <4>2. WindowKept(Counted(k), WithOneMore(k))
        BY <1>3, <3>3
      <4>3. WithOneMore(k) \in Spans
        BY <4>2 DEF WindowKept
      <4>4. /\ admitted' \in [Clients -> Spans] /\ admitted'[k] = WithOneMore(k)
            /\ \A j \in Clients \ {k} : admitted'[j] = admitted[j]
        BY <1>0, <4>1, <4>3
      <4>5. ASSUME NEW j \in Clients
            PROVE  WindowKept(buckets'[j], admitted'[j])
        BY <1>2, <3>2, <4>2, <4>4
      <4> QED
        BY <3>2, <4>4, <4>5 DEF RateInv
    <3>4. CASE ~(Counted(k).count <= Limit)
      <4>1. admitted' = admitted
        BY <1>4, <2>2, <3>4 DEF Consume
      <4>2. ASSUME NEW j \in Clients
            PROVE  WindowKept(buckets'[j], admitted'[j])
        BY <1>2, <1>3, <3>2, <3>4, <4>1
      <4> QED
        BY <1>0, <3>2, <4>1, <4>2 DEF RateInv
    <3> QED
      BY <3>3, <3>4
  <2> QED
    BY <2>1, <2>2
<1>5. CASE RateTick
  <2>1. ASSUME NEW k \in Clients
        PROVE  WindowKept(buckets'[k], admitted'[k])
    <3>1. /\ buckets'[k] = [buckets[k] EXCEPT !.left = IF buckets[k].left > 0 THEN buckets[k].left - 1 ELSE 0]
          /\ admitted'[k] = [i \in 1..(2 * Limit) |->
               IF admitted[k][i] < RateWindow THEN admitted[k][i] + 1 ELSE RateWindow]
      BY <1>0, <1>5 DEF RateTick, Buckets
    <3> QED
      BY <1>0, <3>1, TickKept
  <2>2. DOMAIN buckets' = Clients /\ DOMAIN admitted' = Clients
        /\ buckets' = [k \in Clients |-> buckets'[k]] /\ admitted' = [k \in Clients |-> admitted'[k]]
    BY <1>5 DEF RateTick
  <2>3. \A k \in Clients : buckets'[k] \in Buckets /\ admitted'[k] \in Spans
    BY <2>1 DEF WindowKept
  <2> QED
    BY <2>1, <2>2, <2>3 DEF RateInv
<1>6. CASE ClearBuckets
  BY <1>0, <1>6, EmptyKept DEF ClearBuckets, RateInv
<1>7. CASE UNCHANGED rateVars
  BY <1>0, <1>7 DEF rateVars, RateInv
<1> QED
  BY <1>4, <1>5, <1>6, <1>7 DEF RateNext

\* In any span of one window a key is admitted less than twice its limit, however
\* many keys there are (rate-limit.ts:71).
THEOREM SpanBoundedAlways == RateSpec => []SpanBounded
<1>1. RateInv => SpanBounded
  <2> SUFFICES ASSUME RateInv, NEW k \in Clients PROVE admitted[k][2 * Limit] = RateWindow
    BY DEF SpanBounded
  <2> DEFINE n == 2 * Limit
             a == admitted[k]
             b == buckets[k]
  <2>1. /\ Limit \in Nat \ {0} /\ RateWindow \in Nat /\ n = Limit + Limit /\ n \in 1..n
    BY RateConstants
  <2>2. /\ WindowKept(b, a) /\ b.left \in Nat /\ \A i \in 1..n : a[i] \in 0..RateWindow
    BY RateConstants DEF RateInv, Buckets, Spans
  <2>3. PICK i \in 1..n : a[i] = RateWindow
    <3>1. CASE b.left = 0
      BY <2>1, <2>2, <3>1 DEF WindowKept
    <3>2. CASE b.left > 0
      <4>1. Admissions(b) \in 1..Limit /\ a[Admissions(b) + Limit] = RateWindow
        BY <2>2, <3>2 DEF WindowKept
      <4>2. Admissions(b) + Limit \in 1..n
        BY <2>1, <4>1
      <4> QED
        BY <4>1, <4>2
    <3> QED
      BY <2>2, <3>1, <3>2
  <2>4. a[i] <= a[n]
    BY <2>1, <2>2, <2>3 DEF WindowKept
  <2> HIDE DEF n
  <2>5. a[n] = RateWindow
    BY <2>1, <2>2, <2>3, <2>4
  <2> QED
    BY <2>5 DEF n
<1> QED
  BY <1>1, RateStart, RateStep, PTL DEF RateSpec

-----------------------------------------------------------------------------
(* The migrations.                                                         *)

Increasing(s) == \A i, j \in 1..Len(s) : i < j => s[i] < s[j]

\* A journal s shows migrations of reg, in order and without a gap.
Gapless(s, reg) ==
  \A i \in 1..Len(s) : s[i] \in reg /\ { s[j] : j \in 1..(i - 1) } = { m \in reg : m < s[i] }

MigTypeOK ==
  /\ journal \in Seq(Migrations) /\ changed \subseteq Migrations /\ todo \subseteq Migrations
  /\ owner \in Runners \cup {NoRunner} /\ run \in {"none", "up", "down"} /\ made \in Nat
  /\ cut \in [Directions -> SUBSET Migrations]

\* A run has the lock and reads the journal right until it ends: an up has to do
\* what the journal does not show, a down the last of what it shows.
PlanFits ==
  /\ run = "none" => owner = NoRunner /\ todo = {} /\ made = 0
  /\ run # "none" => owner \in Runners /\ Gapless(journal, Registered[owner])
  /\ run = "up" => todo = Registered[owner] \ Range(journal)
  /\ run = "down" => /\ todo \subseteq Range(journal)
                     /\ \A m \in todo, n \in Range(journal) \ todo : n < m
  /\ made # 0 => /\ run # "none" /\ made \in todo /\ made = Due
                 /\ made \in changed <=> run = "up"

\* What has been made and not marked may be missing, beside what was cut short.
Truth ==
  /\ (changed \ Range(journal)) \ {made} \subseteq cut["up"]
  /\ (Range(journal) \ changed) \ {made} \subseteq cut["down"]

MigInv == MigTypeOK /\ Increasing(journal) /\ PlanFits /\ Truth

LEMMA NumberedFromOne == 0 \notin Migrations /\ Migrations \subseteq Nat
BY MigrationsAssumption DEF MigrationsAssumption

LEMMA ReadIsGapless ==
  ASSUME NEW r, journal \in Seq(Migrations)
  PROVE  ReadApplied(r) <=> Gapless(journal, Registered[r])
BY DEF ReadApplied, Before, Gapless

LEMMA ShownBy ==
  ASSUME NEW s \in Seq(Migrations)
  PROVE  /\ Len(s) \in Nat /\ DOMAIN s = 1..Len(s)
         /\ \A i \in 1..Len(s) : s[i] \in Migrations /\ s[i] \in Nat /\ s[i] \in Range(s)
         /\ Range(s) = { s[i] : i \in 1..Len(s) } /\ Range(s) \subseteq Migrations
<1>1. Len(s) \in Nat /\ DOMAIN s = 1..Len(s) /\ \A i \in 1..Len(s) : s[i] \in Migrations
  OBVIOUS
<1>2. Range(s) = { s[i] : i \in 1..Len(s) }
  BY <1>1 DEF Range
<1> QED
  BY <1>1, <1>2, NumberedFromOne

LEMMA MigStart == MigInit => MigInv
<1> SUFFICES ASSUME MigInit PROVE MigInv
  OBVIOUS
<1>1. journal \in Seq(Migrations) /\ Len(journal) = 0 /\ Range(journal) = {}
  BY DEF MigInit, Range
<1> QED
  BY <1>1 DEF MigInit, MigInv, MigTypeOK, PlanFits, Truth, Increasing, Directions

\* The next migration of a run comes at the end of the journal.
LEMMA DueAtTheEnd ==
  ASSUME MigTypeOK, Increasing(journal), PlanFits, run # "none", todo # {}
  PROVE  /\ Due \in todo /\ Due \in Migrations /\ Due # 0
         /\ run = "up" => Range(journal) = { m \in Registered[owner] : m < Due }
         /\ run = "down" => Len(journal) > 0 /\ Due = journal[Len(journal)]
<1>0. /\ todo \in SUBSET Nat /\ 0 \notin Migrations
      /\ Range(journal) = { journal[i] : i \in 1..Len(journal) } /\ Range(journal) \subseteq Nat
      /\ \A i \in 1..Len(journal) : journal[i] \in Range(journal)
      /\ Len(journal) \in Nat
  <2>1. journal \in Seq(Migrations) /\ todo \subseteq Migrations
    BY DEF MigTypeOK
  <2> QED
    BY <2>1, NumberedFromOne, ShownBy
<1>1. CASE run = "up"
  <2> DEFINE Least(m) == \A n \in todo : m <= n
  <2>1. \E m \in todo : Least(m)
    BY <1>0, HasLeast
  <2>2. Due = CHOOSE m \in todo : Least(m)
    BY <1>1 DEF Due
  <2> HIDE DEF Least
  <2>3. Due \in todo /\ Least(Due)
    BY <2>1, <2>2
  <2> USE DEF Least
  <2>4. todo = Registered[owner] \ Range(journal) /\ Gapless(journal, Registered[owner])
    BY <1>1 DEF PlanFits
  <2>5. Registered[owner] \subseteq Nat
    BY <1>0, <2>4
  <2>6. ASSUME NEW m \in Range(journal)
        PROVE  m \in Registered[owner] /\ m < Due
    <3>1. PICK i \in 1..Len(journal) : m = journal[i]
      BY <1>0
    <3>2. m \in Registered[owner]
          /\ { journal[j] : j \in 1..(i - 1) } = { n \in Registered[owner] : n < m }
      BY <2>4, <3>1 DEF Gapless
    <3>3. { journal[j] : j \in 1..(i - 1) } \subseteq Range(journal)
      BY <1>0, <3>1
    <3>4. ~(Due < m)
      BY <2>3, <2>4, <3>2, <3>3
    <3>5. Due # m /\ Due \in Nat /\ m \in Nat
      BY <1>0, <2>3, <2>4
    <3> QED
      BY <3>2, <3>4, <3>5
  <2>7. ASSUME NEW m \in Registered[owner], m < Due
        PROVE  m \in Range(journal)
    <3>1. ~(Due <= m)
      BY <1>0, <2>3, <2>5, <2>7
    <3> QED
      BY <2>3, <2>4, <3>1
  <2>8. Range(journal) = { m \in Registered[owner] : m < Due }
    BY <2>6, <2>7
  <2> QED
    BY <1>0, <1>1, <2>3, <2>8 DEF MigTypeOK
<1>2. CASE run = "down"
  <2> DEFINE last == journal[Len(journal)]
             Greatest(m) == \A n \in todo : n <= m
  <2>1. todo \subseteq Range(journal) /\ \A m \in todo, n \in Range(journal) \ todo : n < m
    BY <1>2 DEF PlanFits
  <2>2. PICK i \in 1..Len(journal) : journal[i] \in todo
    BY <1>0, <2>1
  <2>3. Len(journal) > 0 /\ Len(journal) \in 1..Len(journal)
    BY <1>0
  <2>4. \A j \in 1..Len(journal) : journal[j] <= last
    <3>1. ASSUME NEW j \in 1..Len(journal)
          PROVE  journal[j] <= journal[Len(journal)]
      <4>1. journal[j] \in Nat /\ journal[Len(journal)] \in Nat
        BY <1>0, <2>3
      <4>2. CASE j = Len(journal)
        BY <4>1, <4>2
      <4>3. CASE j # Len(journal)
        <5>1. j < Len(journal)
          BY <1>0, <4>3
        <5>2. journal[j] < journal[Len(journal)]
          BY <2>3, <5>1 DEF Increasing
        <5> QED
          BY <4>1, <5>2
      <4> QED
        BY <4>2, <4>3
    <3> QED
      BY <3>1
  <2>5. last \in todo
    <3>1. last \in Range(journal) /\ journal[i] <= last /\ journal[i] \in Nat /\ last \in Nat
      BY <1>0, <2>2, <2>3, <2>4
    <3> HIDE DEF last
    <3> QED
      BY <2>1, <2>2, <3>1
  <2>6. last \in todo /\ Greatest(last)
    BY <1>0, <2>1, <2>4, <2>5
  <2>7. Due = CHOOSE m \in todo : Greatest(m)
    BY <1>2 DEF Due
  <2> HIDE DEF Greatest
  <2>8. Due \in todo /\ Greatest(Due)
    BY <2>6, <2>7
  <2> HIDE DEF last
  <2>9. Due = last
    BY <1>0, <2>6, <2>8 DEF Greatest
  <2> QED
    BY <1>0, <1>2, <2>3, <2>8, <2>9 DEF MigTypeOK, last
<1> QED
  BY <1>1, <1>2 DEF MigTypeOK

\* A journal without its last entry.
LEMMA WithoutLast ==
  ASSUME NEW s \in Seq(Migrations), Increasing(s), Len(s) > 0
  PROVE  LET short == RemoveFirst(s, s[Len(s)])
         IN  /\ short \in Seq(Migrations) /\ Len(short) = Len(s) - 1
             /\ \A i \in 1..Len(short) : short[i] = s[i]
<1> DEFINE n == Len(s)
           I == { i \in 1..n : s[i] = s[n] }
           short == RemoveFirst(s, s[n])
<1>1. n \in Nat \ {0} /\ n \in 1..n /\ \A i \in 1..n : s[i] \in Migrations /\ s[i] \in Nat
  BY ShownBy
<1>2. I = {n}
  BY <1>1 DEF Increasing
<1>3. Min(I) = n
  BY <1>1, <1>2 DEF Min
<1>4. short = SubSeq(s, 1, n - 1) \o SubSeq(s, n + 1, n)
  <2>1. short = RemoveAt(s, SelectInSeq(s, LAMBDA v : v = s[n]))
    BY <1>1 DEF RemoveFirst
  <2>2. SelectInSeq(s, LAMBDA v : v = s[n]) = n
    BY <1>1, <1>2, <1>3 DEF SelectInSeq
  <2> QED
    BY <2>1, <2>2 DEF RemoveAt
<1> DEFINE front == SubSeq(s, 1, n - 1)
<1>5. front \in Seq(Migrations) /\ Len(front) = n - 1 /\ \A i \in 1..(n - 1) : front[i] = s[i]
  <2>1. n - 1 \in Int /\ 1 \in Int /\ \A i \in 1..(n - 1) : s[i] \in Migrations
    BY <1>1
  <2> HIDE DEF n
  <2>2. /\ SubSeq(s, 1, n - 1) \in Seq(Migrations)
        /\ Len(SubSeq(s, 1, n - 1)) = IF 1 <= n - 1 THEN (n - 1) - 1 + 1 ELSE 0
        /\ \A i \in 1..((n - 1) - 1 + 1) : SubSeq(s, 1, n - 1)[i] = s[1 + i - 1]
    BY <2>1, SubSeqProperties
  <2> QED
    BY <1>1, <2>2
<1>6. SubSeq(s, n + 1, n) = <<>>
  <2>1. n + 1 \in Int /\ n \in Int /\ n < n + 1
    BY <1>1
  <2> QED
    BY <2>1, SubSeqEmpty
<1>7. short = front
  <2> HIDE DEF front, short, n
  <2> QED
    BY <1>4, <1>5, <1>6, ConcatEmptySeq DEF front
<1>8. /\ short \in Seq(Migrations) /\ Len(short) = n - 1
      /\ \A i \in 1..Len(short) : short[i] = s[i]
  <2> HIDE DEF front, short
  <2> QED
    BY <1>5, <1>7
<1> QED
  BY <1>8

\* What a mark does to the journal: it keeps its order, and a run that goes on
\* reads it right.
LEMMA MarkedIsKept ==
  ASSUME MigInv, made # 0
  PROVE  /\ Marked \in Seq(Migrations) /\ Increasing(Marked)
         /\ Gapless(Marked, Registered[owner])
         /\ run = "up" => made \notin Range(journal) /\ Range(Marked) = Range(journal) \cup {made}
         /\ run = "down" => made \in Range(journal) /\ Range(Marked) = Range(journal) \ {made}
<1> DEFINE n == Len(journal)
           s == Marked
<1>1. /\ journal \in Seq(Migrations) /\ Increasing(journal) /\ PlanFits /\ made \in todo
      /\ run \in {"up", "down"} /\ made = Due /\ made \in Migrations /\ made \in Nat
      /\ Gapless(journal, Registered[owner]) /\ todo # {}
  BY NumberedFromOne DEF MigInv, MigTypeOK, PlanFits
<1>2. /\ n \in Nat /\ Range(journal) = { journal[i] : i \in 1..n }
      /\ \A i \in 1..n : journal[i] \in Migrations /\ journal[i] \in Nat /\ journal[i] \in Range(journal)
  BY <1>1, ShownBy
<1>3. /\ run = "up" => Range(journal) = { m \in Registered[owner] : m < made }
      /\ run = "down" => n > 0 /\ made = journal[n]
  BY <1>1, DueAtTheEnd DEF MigInv
<1>4. CASE run = "up"
  <2>1. /\ s \in Seq(Migrations) /\ Len(s) = n + 1
        /\ \A i \in 1..n : s[i] = journal[i] /\ s[n + 1] = made
    BY <1>1, <1>4, AppendProperties DEF Marked
  <2>2. \A i \in 1..(n + 1) : IF i = n + 1 THEN s[i] = made ELSE i \in 1..n /\ s[i] = journal[i]
    <3>1. s = Append(journal, made)
      BY <1>4 DEF Marked
    <3> HIDE DEF s
    <3> QED
      BY <1>1, <1>2, <3>1
  <2> HIDE DEF s
  <2>3. made \notin Range(journal) /\ made \in Registered[owner]
    BY <1>1, <1>4 DEF PlanFits
  <2>4. Range(s) = Range(journal) \cup {made}
    <3>1. Range(s) = { s[i] : i \in 1..(n + 1) }
      BY <2>1, ShownBy
    <3>2. \A i \in 1..(n + 1) : s[i] \in Range(journal) \cup {made}
      BY <1>2, <2>2
    <3>3. \A m \in Range(journal) : \E i \in 1..n : m = journal[i]
      BY <1>2
    <3>4. \A i \in 1..n : i \in 1..(n + 1) /\ s[i] = journal[i]
      BY <1>2, <2>2
    <3>5. s[n + 1] = made /\ n + 1 \in 1..(n + 1)
      BY <1>2, <2>2
    <3> QED
      BY <3>1, <3>2, <3>3, <3>4, <3>5
  <2>5. Increasing(s)
    <3>1. ASSUME NEW i \in 1..(n + 1), NEW j \in 1..(n + 1), i < j
          PROVE  s[i] < s[j]
      <4>1. i \in 1..n /\ s[i] = journal[i]
        BY <1>2, <2>2, <3>1
      <4>2. CASE j = n + 1
        BY <1>2, <1>3, <1>4, <2>2, <4>1, <4>2
      <4>3. CASE j # n + 1
        BY <1>1, <2>2, <3>1, <4>1, <4>3 DEF Increasing
      <4> QED
        BY <4>2, <4>3
    <3> QED
      BY <2>1, <3>1 DEF Increasing
  <2>6. Gapless(s, Registered[owner])
    <3>1. ASSUME NEW i \in 1..(n + 1)
          PROVE  /\ s[i] \in Registered[owner]
                 /\ { s[j] : j \in 1..(i - 1) } = { m \in Registered[owner] : m < s[i] }
      <4>1. { s[j] : j \in 1..(i - 1) } = { journal[j] : j \in 1..(i - 1) }
        <5>1. \A j \in 1..(i - 1) : s[j] = journal[j]
          BY <1>2, <2>2
        <5> QED
          BY <5>1
      <4>2. CASE i = n + 1
        <5>1. 1..(i - 1) = 1..n /\ s[i] = made
          BY <1>2, <2>2, <4>2
        <5> QED
          BY <1>2, <1>3, <1>4, <2>3, <4>1, <5>1
      <4>3. CASE i # n + 1
        <5>1. i \in 1..n /\ s[i] = journal[i]
          BY <2>2, <4>3
        <5> QED
          BY <1>1, <4>1, <5>1 DEF Gapless
      <4> QED
        BY <4>2, <4>3
    <3> QED
      BY <2>1, <3>1 DEF Gapless
  <2>7. s \in Seq(Migrations)
    BY <2>1
  <2> QED
    BY <1>4, <2>3, <2>4, <2>5, <2>6, <2>7 DEF s
<1>5. CASE run = "down"
  <2>1. s = RemoveFirst(journal, journal[n])
    BY <1>3, <1>5 DEF Marked
  <2>2. s \in Seq(Migrations) /\ Len(s) = n - 1 /\ \A i \in 1..Len(s) : s[i] = journal[i]
    <3> HIDE DEF s
    <3> QED
      BY <1>1, <1>3, <1>5, <2>1, WithoutLast
  <2> HIDE DEF s
  <2>3. \A i \in 1..(n - 1) : i \in 1..n /\ s[i] = journal[i]
    BY <1>2, <2>2
  <2>4. Range(s) = { s[i] : i \in 1..(n - 1) }
    BY <2>2, ShownBy
  <2>5. \A i \in 1..(n - 1) : s[i] \in Range(journal) /\ s[i] # made
    <3>1. ASSUME NEW i \in 1..(n - 1)
          PROVE  s[i] \in Range(journal) /\ s[i] # made
      <4>1. i \in 1..n /\ n \in 1..n /\ i < n /\ s[i] = journal[i]
        <5>1. i \in 1..n /\ s[i] = journal[i]
          BY <2>3
        <5>2. n \in Nat
          BY <1>2
        <5> HIDE DEF n
        <5> QED
          BY <5>1, <5>2
      <4>2. journal[i] < journal[n]
        BY <1>1, <4>1 DEF Increasing
      <4> QED
        BY <1>2, <1>3, <1>5, <4>1, <4>2
    <3> QED
      BY <3>1
  <2>6. ASSUME NEW m \in Range(journal), m # made
        PROVE  m \in Range(s)
    <3>1. PICK i \in 1..n : m = journal[i]
      BY <1>2
    <3>2. i \in 1..(n - 1)
      BY <1>2, <1>3, <1>5, <2>6, <3>1
    <3> QED
      BY <2>3, <2>4, <3>1, <3>2
  <2>7. Range(s) = Range(journal) \ {made}
    BY <2>4, <2>5, <2>6
  <2>8. Increasing(s)
    BY <1>1, <2>2, <2>3 DEF Increasing
  <2>9. Gapless(s, Registered[owner])
    <3>1. ASSUME NEW i \in 1..(n - 1)
          PROVE  /\ s[i] \in Registered[owner]
                 /\ { s[j] : j \in 1..(i - 1) } = { m \in Registered[owner] : m < s[i] }
      <4>1. \A j \in 1..(i - 1) : s[j] = journal[j]
        BY <1>2, <2>3
      <4>2. { s[j] : j \in 1..(i - 1) } = { journal[j] : j \in 1..(i - 1) }
        BY <4>1
      <4> QED
        BY <1>1, <2>3, <4>2 DEF Gapless
    <3> QED
      BY <2>2, <3>1 DEF Gapless
  <2>10. made \in Range(journal)
    BY <1>2, <1>3, <1>5
  <2>11. s \in Seq(Migrations)
    BY <2>2
  <2> QED
    BY <1>5, <2>7, <2>8, <2>9, <2>10, <2>11 DEF s
<1> QED
  BY <1>1, <1>4, <1>5

\* With its mark the journal tells of the change that was made.
LEMMA MarkTellsTruth ==
  ASSUME MigInv, made # 0, journal' = Marked, made' = 0, UNCHANGED changed,
         cut' = [d \in Directions |-> cut[d] \ {made}]
  PROVE  Truth' /\ cut' \in [Directions -> SUBSET Migrations]
<1>1. /\ run \in {"up", "down"}
      /\ made \in changed <=> run = "up"
      /\ cut \in [Directions -> SUBSET Migrations]
      /\ "up" \in Directions /\ "down" \in Directions
  BY DEF MigInv, MigTypeOK, PlanFits, Directions
<1>2. cut'["up"] = cut["up"] \ {made} /\ cut'["down"] = cut["down"] \ {made}
  BY <1>1
<1>3. /\ (changed \ Range(journal)) \ {made} \subseteq cut["up"]
      /\ (Range(journal) \ changed) \ {made} \subseteq cut["down"]
  BY DEF MigInv, Truth
<1>4. \/ Range(journal') = Range(journal) \cup {made} /\ made \in changed
      \/ Range(journal') = Range(journal) \ {made} /\ made \notin changed
  <2>1. /\ run = "up" => Range(Marked) = Range(journal) \cup {made}
        /\ run = "down" => Range(Marked) = Range(journal) \ {made}
    BY MarkedIsKept
  <2>2. Range(journal') = Range(Marked)
    OBVIOUS
  <2> QED
    BY <1>1, <2>1, <2>2
<1>5. /\ changed \ Range(journal') \subseteq cut'["up"]
      /\ Range(journal') \ changed \subseteq cut'["down"]
  BY <1>2, <1>3, <1>4
<1> QED
  BY <1>1, <1>5 DEF Truth

LEMMA MigStep ==
  ASSUME MigInv, [MigNext]_migVars
  PROVE  MigInv'
<1>0. /\ MigTypeOK /\ Increasing(journal) /\ PlanFits /\ Truth
      /\ 0 \notin Migrations /\ Migrations \subseteq Nat
      /\ Range(journal) \subseteq Migrations
  BY NumberedFromOne, ShownBy DEF MigInv, MigTypeOK
<1>1. ASSUME NEW r \in Runners, NEW direction \in {"up", "down"}, NEW plan,
             Begin(r, direction, plan), plan \subseteq Migrations,
             direction = "up" => plan = Registered[r] \ Range(journal),
             direction = "down" => /\ plan \subseteq Range(journal)
                                   /\ \A m \in plan, n \in Range(journal) \ plan : n < m
      PROVE  MigInv'
  <2>1. /\ ReadApplied(r) /\ owner = NoRunner
        /\ owner' = r /\ run' = direction /\ todo' = plan /\ made' = 0
        /\ UNCHANGED <<journal, changed, cut, faults>>
    BY <1>1 DEF Begin, Lock
  <2>2. Gapless(journal, Registered[r])
    BY <1>0, <2>1, ReadIsGapless DEF MigTypeOK
  <2>3. made = 0
    <3>1. NoRunner \notin Runners
      BY MigrationsAssumption DEF MigrationsAssumption
    <3> QED
      BY <1>0, <2>1, <3>1 DEF PlanFits
  <2>4. MigTypeOK'
    BY <1>0, <1>1, <2>1 DEF MigTypeOK
  <2>5. PlanFits'
    BY <1>1, <2>1, <2>2 DEF PlanFits
  <2>6. Truth'
    BY <1>0, <2>1, <2>3 DEF Truth
  <2> QED
    BY <1>0, <2>1, <2>4, <2>5, <2>6 DEF MigInv
<1>2. ASSUME NEW r \in Runners, BeginUp(r)
      PROVE  MigInv'
  <2>1. Registered[r] \ Range(journal) \subseteq Migrations
    BY MigrationsAssumption DEF MigrationsAssumption
  <2> QED
    BY <1>1, <1>2, <2>1 DEF BeginUp
<1>3. ASSUME NEW r \in Runners, NEW steps \in 1..Len(journal), BeginDown(r, steps)
      PROVE  MigInv'
  <2> DEFINE plan == Newest(steps)
             n == Len(journal)
  <2>1. /\ n \in Nat /\ Range(journal) = { journal[i] : i \in 1..n }
        /\ (n - steps) + 1 \in 1..n /\ n - steps + 1 = (n - steps) + 1
    BY <1>0, ShownBy DEF MigTypeOK
  <2>2. plan = { journal[i] : i \in ((n - steps) + 1)..n }
    BY <2>1 DEF Newest
  <2>3. \A i \in ((n - steps) + 1)..n : i \in 1..n
    BY <2>1
  <2>4. plan \subseteq Range(journal)
    BY <2>1, <2>2, <2>3
  <2>5. ASSUME NEW a \in plan, NEW b \in Range(journal) \ plan
        PROVE  b < a
    <3>1. PICK i \in ((n - steps) + 1)..n : a = journal[i]
      BY <2>2
    <3>2. PICK j \in 1..n : b = journal[j]
      BY <2>1
    <3>3. ~(j \in ((n - steps) + 1)..n)
      BY <2>2, <2>5, <3>2
    <3>4. j < i /\ i \in 1..n
      BY <2>1, <2>3, <3>3
    <3> QED
      BY <1>0, <3>1, <3>2, <3>4 DEF Increasing
  <2> HIDE DEF plan
  <2>6. Begin(r, "down", plan) /\ plan \subseteq Migrations
    BY <1>0, <1>3, <2>4 DEF BeginDown, plan
  <2> QED
    BY <1>1, <2>4, <2>5, <2>6
<1>4. ASSUME run # "none", todo # {}
      PROVE  /\ Due \in todo /\ Due \in Migrations /\ Due # 0
             /\ Applied(run, Due) \subseteq Migrations
             /\ Due \in Applied(run, Due) <=> run = "up"
             /\ run = "up" => Applied(run, Due) \ changed \subseteq {Due} /\ changed \subseteq Applied(run, Due)
             /\ run = "down" => changed \ Applied(run, Due) \subseteq {Due} /\ Applied(run, Due) \subseteq changed
             /\ run \in {"up", "down"}
  BY <1>0, <1>4, DueAtTheEnd DEF Applied, MigTypeOK
<1>5. CASE Change
  <2>1. /\ run # "none" /\ made = 0 /\ todo # {} /\ made' = Due /\ changed' = Applied(run, Due)
        /\ UNCHANGED <<journal, owner, run, todo, cut, faults>>
    BY <1>5 DEF Change
  <2>2. Due' = Due
    BY <2>1 DEF Due
  <2>3. MigTypeOK'
    BY <1>0, <1>4, <2>1 DEF MigTypeOK
  <2>4. PlanFits'
    BY <1>0, <1>4, <2>1, <2>2 DEF PlanFits
  <2>5. Truth'
    BY <1>0, <1>4, <2>1 DEF Truth
  <2> QED
    BY <1>0, <2>1, <2>3, <2>4, <2>5 DEF MigInv
<1>6. CASE Mark
  <2>1. /\ made # 0 /\ journal' = Marked /\ todo' = todo \ {made} /\ made' = 0
        /\ cut' = [d \in Directions |-> cut[d] \ {made}]
        /\ UNCHANGED <<changed, owner, run, faults>>
    BY <1>6 DEF Mark
  <2>2. Truth' /\ cut' \in [Directions -> SUBSET Migrations]
    BY <2>1, MarkTellsTruth
  <2>3. MigTypeOK' /\ Increasing(journal')
    BY <1>0, <2>1, <2>2, MarkedIsKept DEF MigTypeOK
  <2>4. PlanFits'
    <3>1. Gapless(journal', Registered[owner]) /\ run # "none" /\ owner \in Runners /\ made \in todo
      BY <1>0, <2>1, MarkedIsKept DEF PlanFits
    <3>2. run = "up" => todo' = Registered[owner] \ Range(journal')
      BY <1>0, <2>1, MarkedIsKept DEF PlanFits
    <3>3. run = "down" => /\ todo' \subseteq Range(journal')
                          /\ Range(journal') \ todo' = Range(journal) \ todo
      BY <1>0, <2>1, <3>1, MarkedIsKept DEF PlanFits
    <3> QED
      BY <1>0, <2>1, <3>1, <3>2, <3>3 DEF PlanFits
  <2> QED
    BY <2>2, <2>3, <2>4 DEF MigInv
<1>7. CASE Finish
  <2>1. /\ made = 0 /\ owner' = NoRunner /\ run' = "none" /\ todo' = {} /\ made' = 0
        /\ UNCHANGED <<journal, changed, cut, faults>>
    BY <1>7 DEF Finish, Unlock
  <2> QED
    BY <1>0, <2>1 DEF MigInv, MigTypeOK, PlanFits, Truth
<1>8. CASE Interrupted
  <2>1. /\ run # "none" /\ todo # {} /\ changed' \in {changed, Applied(run, Due)}
        /\ cut' = [cut EXCEPT ![run] = @ \cup {Due}]
        /\ owner' = NoRunner /\ run' = "none" /\ todo' = {} /\ made' = 0
        /\ UNCHANGED journal
    BY <1>8 DEF Interrupted, Unlock
  <2>2. cut \in [Directions -> SUBSET Migrations] /\ "up" \in Directions /\ "down" \in Directions
    BY <1>0 DEF MigTypeOK, Directions
  <2>3. /\ cut'["up"] = IF run = "up" THEN cut["up"] \cup {Due} ELSE cut["up"]
        /\ cut'["down"] = IF run = "down" THEN cut["down"] \cup {Due} ELSE cut["down"]
        /\ cut' \in [Directions -> SUBSET Migrations]
    BY <1>4, <2>1, <2>2
  <2>4. /\ made # 0 => made = Due
        /\ run = "up" => Due \notin Range(journal)
        /\ run = "down" => Due \in Range(journal)
    BY <1>0, <1>4, <2>1 DEF PlanFits
  <2>5. /\ changed \ Range(journal) \subseteq cut["up"] \cup {made}
        /\ Range(journal) \ changed \subseteq cut["down"] \cup {made}
        /\ 0 \notin changed /\ 0 \notin Range(journal)
    BY <1>0 DEF Truth, MigTypeOK
  <2>6. /\ changed' \ Range(journal) \subseteq cut'["up"]
        /\ Range(journal) \ changed' \subseteq cut'["down"]
    <3>1. CASE run = "up"
      BY <1>4, <2>1, <2>3, <2>4, <2>5, <3>1
    <3>2. CASE run = "down"
      BY <1>4, <2>1, <2>3, <2>4, <2>5, <3>2
    <3> QED
      BY <1>4, <2>1, <3>1, <3>2
  <2>7. MigTypeOK'
    BY <1>0, <1>4, <2>1, <2>3 DEF MigTypeOK
  <2>8. PlanFits'
    BY <2>1 DEF PlanFits
  <2>9. Truth'
    BY <2>1, <2>6 DEF Truth
  <2> QED
    BY <1>0, <2>1, <2>7, <2>8, <2>9 DEF MigInv
<1>9. CASE MarkUnconfirmed
  <2>1. /\ made # 0 /\ journal' = Marked
        /\ cut' = [d \in Directions |-> cut[d] \ {made}]
        /\ owner' = NoRunner /\ run' = "none" /\ todo' = {} /\ made' = 0
        /\ UNCHANGED changed
    BY <1>9 DEF MarkUnconfirmed, Unlock
  <2>2. Truth' /\ cut' \in [Directions -> SUBSET Migrations]
    BY <2>1, MarkTellsTruth
  <2>3. MigTypeOK' /\ Increasing(journal')
    BY <1>0, <2>1, <2>2, MarkedIsKept DEF MigTypeOK
  <2>4. PlanFits'
    BY <2>1 DEF PlanFits
  <2> QED
    BY <2>2, <2>3, <2>4 DEF MigInv
<1>10. CASE UNCHANGED migVars
  <2>1. UNCHANGED <<journal, changed, owner, run, todo, made, cut, faults>>
    BY <1>10 DEF migVars
  <2>2. Due' = Due
    BY <2>1 DEF Due
  <2> QED
    BY <1>0, <2>1, <2>2 DEF MigInv, MigTypeOK, PlanFits, Truth
<1> QED
  BY <1>2, <1>3, <1>5, <1>6, <1>7, <1>8, <1>9, <1>10 DEF MigNext

\* The journal and the database disagree only about changes that were cut off from
\* their mark, however runs of several releases follow each other and break off
\* (migrations.ts:62, 90).
THEOREM JournalTellsTruthAlways == MigSpec => []JournalTellsTruth
<1>1. MigInv => JournalTellsTruth
  <2> SUFFICES ASSUME MigInv, made = 0
               PROVE  /\ changed \ Range(journal) \subseteq cut["up"]
                      /\ Range(journal) \ changed \subseteq cut["down"]
    BY DEF JournalTellsTruth
  <2>1. 0 \notin changed /\ 0 \notin Range(journal)
    BY NumberedFromOne, ShownBy DEF MigInv, MigTypeOK
  <2> QED
    BY <2>1 DEF MigInv, Truth
<1> QED
  BY <1>1, MigStart, MigStep, PTL DEF MigSpec

\* A runner applies a migration when the journal shows exactly its earlier ones,
\* and reverts the newest (migrations.ts:98).
THEOREM ChangesAtTheEndAlways == MigSpec => ChangesAtTheEnd
<1> DEFINE AtTheEnd == made = 0 /\ made' # 0 =>
                         IF run = "up"
                         THEN Range(journal) = { m \in Registered[owner] : m < made' }
                         ELSE made' = Last(journal)
<1>1. ASSUME MigInv, [MigNext]_migVars, made = 0, made' # 0
      PROVE  AtTheEnd
  <2>1. Change
    BY <1>1 DEF MigNext, BeginUp, BeginDown, Begin, Mark, Finish, Interrupted, MarkUnconfirmed,
                Unlock, migVars
  <2>2. run # "none" /\ todo # {} /\ made' = Due
    BY <2>1 DEF Change
  <2>3. /\ run = "up" => Range(journal) = { m \in Registered[owner] : m < Due }
        /\ run = "down" => Due = journal[Len(journal)]
        /\ run \in {"up", "down"}
    BY <1>1, <2>2, DueAtTheEnd DEF MigInv, MigTypeOK
  <2> QED
    BY <2>2, <2>3 DEF Last
<1>2. MigInv /\ [MigNext]_migVars => [AtTheEnd]_migVars
  BY <1>1
<1> QED
  BY <1>2, MigStart, MigStep, PTL DEF MigSpec, ChangesAtTheEnd
===============================================================================
