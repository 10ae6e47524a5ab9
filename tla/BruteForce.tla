------------------------------ MODULE BruteForce ------------------------------
(***************************************************************************)
(* BruteForceGuard.run over MemoryBruteForceStore                          *)
(* (src/kernel/security/brute-force.ts): overlapping attempts look at the  *)
(* state of their key, authenticate, and record the outcome, while windows *)
(* and lockouts lapse.                                                     *)
(*                                                                         *)
(* Times are what is left of them, 0 once they are over; failures are      *)
(* counted up to MaxFailures, from where on the state is that of a lockout. *)
(***************************************************************************)
EXTENDS Integers, FiniteSets, FiniteSetsExt

CONSTANTS
  Names,        \* the keys that attempts are made under
  Attempts,     \* calls of run that may overlap
  NoName,
  MaxFailures, Window, Lockout,   \* BruteForceOptions, in ticks
  MaxNames      \* maxKeys of the store

ASSUME BruteForceAssumption ==
  /\ NoName \notin Names /\ IsFiniteSet(Names) /\ IsFiniteSet(Attempts)
  /\ MaxFailures \in Nat \ {0} /\ Window \in Nat \ {0} /\ Lockout \in Nat \ {0}
  /\ MaxNames \in Nat \ {0}

VARIABLES
  states,     \* the map states: failures, window and lock of a key
  saturated,  \* how long the store still fails closed for keys it has no room for
  call,    \* how far each call of run is
  name,       \* the key it was made with
  seen,       \* the state it has read
  strikes     \* history: failures under a key since the store last forgot it

guardVars == <<states, saturated, call, name, seen, strikes>>

Absent == [failures |-> 0, window |-> 0, lock |-> 0]

GuardInit ==
  /\ states = [k \in Names |-> Absent]
  /\ saturated = 0
  /\ call = [a \in Attempts |-> "idle"] /\ name = [a \in Attempts |-> NoName]
  /\ seen = [a \in Attempts |-> Absent]
  /\ strikes = [k \in Names |-> 0]

-----------------------------------------------------------------------------
\* purge, with which get and recordFailure begin; a saturation that is over is 0.
Purged(s) == IF s.window = 0 /\ s.lock = 0 THEN Absent ELSE s
Live == [k \in Names |-> Purged(states[k])]
Present == { k \in Names : Live[k] # Absent }

\* nextCapacityAt.
NextCapacity == Min({Lockout} \cup { Max({Live[k].window, Live[k].lock}) : k \in Present })

Closed == [failures |-> MaxFailures, window |-> saturated, lock |-> saturated]

\* What purge has dropped is forgotten, and what nobody counts or refuses.
Remembered(k) ==
  IF Live[k] = Absent /\ (states[k] # Absent \/ saturated = 0) THEN 0 ELSE strikes[k]

\* assertAllowed: activeState awaits the state of the key.
Look(a, k) ==
  /\ call[a] = "idle"
  /\ states' = Live
  /\ call' = [call EXCEPT ![a] = "looked"]
  /\ name' = [name EXCEPT ![a] = k]
  /\ seen' = [seen EXCEPT ![a] = IF Live[k] = Absent /\ saturated > 0 THEN Closed ELSE Live[k]]
  /\ strikes' = [j \in Names |-> Remembered(j)]
  /\ UNCHANGED saturated

\* The test of activeState.  Mutant: the window decides, also of a lockout.
WindowOver(s) == s.window = 0
Over(s) == IF s.failures = MaxFailures THEN s.lock = 0 ELSE s.window = 0

Forget(k) ==
  /\ states' = [states EXCEPT ![k] = Absent]
  /\ strikes' = [strikes EXCEPT ![k] = 0]

\* And goes on with what it has read: a state that is over is deleted, whatever
\* the store has by now.
Decide(a) ==
  LET s == seen[a]
  IN /\ call[a] = "looked"
     /\ IF s # Absent /\ Over(s) THEN Forget(name[a]) ELSE UNCHANGED <<states, strikes>>
     /\ call' = [call EXCEPT ![a] = IF s.lock > 0 /\ ~Over(s) THEN "idle" ELSE "authenticating"]
     /\ UNCHANGED <<saturated, name, seen>>

\* authenticate resolves: recordSuccess.
Succeed(a) ==
  /\ call[a] = "authenticating"
  /\ Forget(name[a])
  /\ call' = [call EXCEPT ![a] = "idle"]
  /\ UNCHANGED <<saturated, name, seen>>

\* The failures of a key after another one.  Mutant: the count is not carried on.
FirstOne(k) == 1
CountOneMore(k) == Min({Live[k].failures + 1, MaxFailures})

Struck(k) ==
  LET n == CountOneMore(k)
  IN [failures |-> n,
      window   |-> IF k \in Present THEN Live[k].window ELSE Window,
      lock     |-> IF n = MaxFailures THEN Lockout ELSE 0]

\* recordFailure of the store: a lockout stands as it is, a full store closes.
RecordFailure(k) ==
  IF Live[k].lock > 0 \/ (k \notin Present /\ saturated > 0)
  THEN states' = Live /\ UNCHANGED saturated
  ELSE IF k \notin Present /\ Cardinality(Present) >= MaxNames
  THEN states' = Live /\ saturated' = NextCapacity
  ELSE states' = [Live EXCEPT ![k] = Struck(k)] /\ UNCHANGED saturated

\* authenticate rejects.
Fail(a) ==
  /\ call[a] = "authenticating"
  /\ RecordFailure(name[a])
  /\ call' = [call EXCEPT ![a] = "idle"]
  /\ strikes' = [k \in Names |-> Remembered(k) + (IF k = name[a] THEN 1 ELSE 0)]
  /\ UNCHANGED <<name, seen>>

Less(n) == IF n > 0 THEN n - 1 ELSE 0
Aged(s) == [s EXCEPT !.window = Less(@), !.lock = Less(@)]

\* What has been read ages too.
GuardTick ==
  /\ saturated > 0 \/ Present # {}
  /\ states' = [k \in Names |-> Aged(states[k])] /\ saturated' = Less(saturated)
  /\ seen' = [a \in Attempts |-> Aged(seen[a])]
  /\ UNCHANGED <<call, name, strikes>>

GuardNext ==
  \/ \E a \in Attempts : Decide(a) \/ Succeed(a) \/ Fail(a) \/ \E k \in Names : Look(a, k)
  \/ GuardTick

GuardSpec == GuardInit /\ [][GuardNext]_guardVars

-----------------------------------------------------------------------------
\* A lockout ends before its time only by an attempt under the same key that had
\* read the state before it began (brute-force.ts:169, 157): no other key and no
\* full store evicts it, and no failure shortens it (README.md:1042).
LockoutStands ==
  [][\A k \in Names :
       states'[k].lock < states[k].lock - 1 =>
         \E a \in Attempts : name[a] = k /\ call[a] # "idle" /\ call'[a] # call[a]
                             /\ seen[a].lock = 0]_guardVars

\* The store is bounded, and until it forgets a key, no more authentications fail
\* under it than its budget and those that overlap with the last of it.
GuessesBounded ==
  /\ Cardinality({ k \in Names : states[k] # Absent }) <= MaxNames
  /\ \A k \in Names : strikes[k] <= MaxFailures - 1 + Cardinality(Attempts)
=============================================================================
