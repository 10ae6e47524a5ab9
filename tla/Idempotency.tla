----------------------------- MODULE Idempotency -----------------------------
(***************************************************************************)
(* MemoryIdempotencyStore (src/kernel/data/idempotency.ts): the duplicate- *)
(* delivery boundary of JobWorker and EventConsumer.  A call of runOnce    *)
(* either is answered from memory, joins the work in flight for its id, or *)
(* starts the work and owns it.  The work is called between the test of    *)
(* the capacity and the entry in the map pending; before its first await   *)
(* it may make calls of its own.                                           *)
(*                                                                         *)
(* Time is relative: left[id] is what is left of the TTL since the last    *)
(* success of id, 0 also when clear() has dropped it.  A call is taken from *)
(* the pool Calls again once it has been answered.                         *)
(***************************************************************************)
EXTENDS Integers, FiniteSets, Sequences

CONSTANTS
  Ids,          \* idempotency keys
  Calls,        \* calls of runOnce that may overlap
  NoCall,       \* an absent entry of the map pending
  MaxEntries,   \* MemoryIdempotencyOptions.maxEntries
  Ttl           \* MemoryIdempotencyOptions.ttlMs, in ticks

ASSUME IdempotencyAssumption ==
  /\ Ids # {}
  /\ NoCall \notin Calls
  /\ MaxEntries \in Nat \ {0}
  /\ Ttl \in Nat \ {0}

VARIABLES
  completed,  \* the keys of the map completed
  left,       \* what is left of the life of a completed id
  pending,    \* the map pending: id -> the call whose promise it holds
  state,      \* how far each call is
  calling,    \* the calls whose work has been called and has the thread, innermost
              \* first: they are not in pending yet
  request,    \* the id each call was made with
  joined,     \* the call whose promise a joined call returns
  nested,     \* history: the ids whose work another's has begun on the thread, until
              \* it settles
  wins,       \* history: successes of an id since it was last forgotten
  everWon,    \* history: ids whose work has succeeded
  newer       \* ids whose work has succeeded since that of an id: the order of the
              \* map completed, and history of what has left it

storeVars == <<completed, left, pending>>
callVars  == <<state, calling, request, joined, nested>>
history   == <<wins, everWon, newer>>
idemVars  == <<storeVars, callVars, history>>

\* "worked" and "broke" are the ticks between the end of the work and the
\* finally block of the call that owns it.
Underway == { "entering", "working" }
Flying == { "working", "worked", "broke" }
Busy == Flying \cup { "entering", "joined" }
Answers == { "ok", "failed", "refused" }

IdemInit ==
  /\ completed = {}
  /\ left = [i \in Ids |-> 0]
  /\ pending = [i \in Ids |-> NoCall]
  /\ state = [c \in Calls |-> "idle"] /\ calling = <<>> /\ nested = {}
  /\ request = [c \in Calls |-> CHOOSE i \in Ids : TRUE]
  /\ joined = [c \in Calls |-> NoCall]
  /\ wins = [i \in Ids |-> 0]
  /\ everWon = {}
  /\ newer = [i \in Ids |-> {}]

-----------------------------------------------------------------------------
\* purge: drop what has expired.
Purged == { i \in completed : left[i] > 0 }

\* The order of the map when id i is set as its newest.
AsNewest(i) == [k \in Ids |-> IF k = i THEN {} ELSE newer[k] \cup {i}]

\* trim: keep the newest.  Mutants: keep the oldest; keep one too many.
TrimLate(s, since) == { k \in s : Cardinality(s \cap since[k]) <= MaxEntries }
KeepOldest(s, since) == { k \in s : Cardinality(s \ since[k]) <= MaxEntries }
Trim(s, since) == { k \in s : Cardinality(s \cap since[k]) < MaxEntries }

\* An id that has left the map is forgotten: its next success is a first one.
Forgetting(s, w) == [i \in Ids |-> IF i \in s THEN w[i] ELSE 0]

InFlight == { i \in Ids : pending[i] # NoCall }

\* The test for completed work, after the purge.  Mutant: it is left out.
NeverKnown(i) == FALSE
Known(i) == i \in Purged

\* The test for work in flight.
Active(i) == pending[i] # NoCall

\* The test of the capacity.
HasRoom == Cardinality(InFlight) < MaxEntries

\* No work has the thread, so that timers fire and promises react.
Free == \A c \in Calls : state[c] # "entering"

\* What every call of runOnce does first.
Enter(c, i) ==
  /\ state[c] \notin Busy
  /\ completed' = Purged
  /\ wins' = Forgetting(Purged, wins)
  /\ request' = [request EXCEPT ![c] = i]
  /\ UNCHANGED <<left, everWon, newer>>

\* A completed id is answered at once.
Skip(c, i) ==
  /\ Enter(c, i)
  /\ Known(i)
  /\ state' = [state EXCEPT ![c] = "ok"]
  /\ UNCHANGED <<pending, calling, joined, nested>>

\* A duplicate returns the promise of the work in flight.
Join(c, i) ==
  /\ Enter(c, i)
  /\ ~Known(i) /\ Active(i)
  /\ state' = [state EXCEPT ![c] = "joined"]
  /\ joined' = [joined EXCEPT ![c] = pending[i]]
  /\ UNCHANGED <<pending, calling, nested>>

\* A full store fails closed.
Refuse(c, i) ==
  /\ Enter(c, i)
  /\ ~Known(i) /\ ~Active(i)
  /\ ~HasRoom
  /\ state' = [state EXCEPT ![c] = "refused"]
  /\ UNCHANGED <<pending, calling, joined, nested>>

\* The work is called.  On the thread of another's it is nested, and its id is not
\* one of those that are being entered.
Begin(c, i) ==
  /\ Enter(c, i)
  /\ ~Known(i) /\ ~Active(i)
  /\ HasRoom
  /\ \A d \in Calls : state[d] = "entering" => request[d] # i
  /\ state' = [state EXCEPT ![c] = "entering"]
  /\ calling' = <<c>> \o calling
  /\ nested' = IF Free THEN nested ELSE nested \cup {i}
  /\ UNCHANGED <<pending, joined>>

\* It has returned its promise, which goes into pending.
Register(c) ==
  /\ state[c] = "entering" /\ Head(calling) = c
  /\ calling' = Tail(calling)
  /\ pending' = [pending EXCEPT ![request[c]] = c]
  /\ state' = [state EXCEPT ![c] = "working"]
  /\ UNCHANGED <<completed, left, request, joined, nested, history>>

\* The work resolves: the id is remembered, as the newest.
WorkSucceeds(c) ==
  LET i == request[c]
      s == Trim(completed \cup {i}, AsNewest(i))
  IN /\ Free /\ state[c] = "working"
     /\ state' = [state EXCEPT ![c] = "worked"]
     /\ completed' = s
     /\ left' = [left EXCEPT ![i] = Ttl]
     /\ wins' = Forgetting(s, [wins EXCEPT ![i] = @ + 1])
     /\ everWon' = everWon \cup {i}
     /\ newer' = AsNewest(i)
     /\ UNCHANGED <<pending, calling, request, joined, nested>>

WorkFails(c) ==
  /\ Free /\ state[c] = "working"
  /\ state' = [state EXCEPT ![c] = "broke"]
  /\ UNCHANGED <<storeVars, calling, request, joined, nested, history>>

\* The outcome an owner and those who joined it see.  Mutant: whoever joined is
\* told that the work succeeded.
JoinersWin(c, d) == IF state[c] = "worked" \/ d # c THEN "ok" ELSE "failed"
Outcome(c, d) == IF state[c] = "worked" THEN "ok" ELSE "failed"

Waiting(c) == {c} \cup { d \in Calls : state[d] = "joined" /\ joined[d] = c }

\* The finally block of the owner, and the answers to those who joined it.
Settle(c) ==
  /\ Free /\ state[c] \in {"worked", "broke"}
  /\ pending' = [pending EXCEPT ![request[c]] = NoCall]
  /\ state' = [d \in Calls |-> IF d \in Waiting(c) THEN Outcome(c, d) ELSE state[d]]
  /\ nested' = nested \ {request[c]}
  /\ UNCHANGED <<completed, left, calling, request, joined, history>>

\* clear() forgets what is completed, not what is in flight.
Clear ==
  /\ completed # {}
  /\ completed' = {}
  /\ wins' = [i \in Ids |-> 0]
  /\ left' = [i \in Ids |-> 0]
  /\ UNCHANGED <<pending, callVars, everWon, newer>>

Tick ==
  /\ \E i \in Ids : left[i] > 0
  /\ left' = [i \in Ids |-> IF left[i] > 0 THEN left[i] - 1 ELSE 0]
  /\ UNCHANGED <<completed, pending, callVars, history>>

IdemNext ==
  \/ \E c \in Calls, i \in Ids : Skip(c, i) \/ Join(c, i) \/ Refuse(c, i) \/ Begin(c, i)
  \/ \E c \in Calls : Register(c) \/ WorkSucceeds(c) \/ WorkFails(c) \/ Settle(c)
  \/ Clear
  \/ Tick

IdemSpec == IdemInit /\ [][IdemNext]_idemVars

-----------------------------------------------------------------------------
\* The map of what is in flight (idempotency.ts:16) holds exactly the works
\* whose owner has not settled: an owner's finally block deletes its own work
\* and no other, and nobody joins a promise that is gone.
OneFlightPerId ==
  /\ \A i \in Ids, c \in Calls :
       pending[i] = c <=> state[c] \in Flying /\ request[c] = i
  /\ \A c \in Calls : state[c] = "joined" => pending[request[c]] = joined[c]

\* Between two moments at which the store forgets an id (expiry, eviction,
\* clear), its work succeeds at most once, however the calls overlap.
OncePerWindow == \A i \in Ids : wins[i] <= 1

\* The store remembers the successes, and nothing else: it keeps MaxEntries of
\* them, forgets one early only because so many others have succeeded since
\* (idempotency.ts:66), and tells no call that its work was done unless it was,
\* whether that call owned the work, joined it or found it completed: a broker may
\* acknowledge the delivery.
RemembersSuccesses ==
  /\ Cardinality(completed) <= MaxEntries
  /\ \A i \in Ids : left[i] > 0 /\ Cardinality(newer[i]) < MaxEntries => i \in completed
  /\ \A c \in Calls : state[c] = "ok" => request[c] \in everWon

\* The works in flight never exceed the capacity, but for those that another's
\* began before its first await: a burst of distinct ids fails closed instead of
\* growing the map (idempotency.ts:38).
FlightsBounded == Cardinality(InFlight \ nested) <= MaxEntries
=============================================================================
