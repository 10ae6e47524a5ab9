-------------------------- MODULE IdempotencyProofs --------------------------
(***************************************************************************)
(* Proofs about Idempotency, for every set of ids and of calls, every      *)
(* capacity and every TTL: first the works in flight, whatever purging and *)
(* trimming do, then what the map completed remembers.                     *)
(***************************************************************************)
EXTENDS Idempotency, TLAPS, FiniteSetTheorems, WellFoundedInduction

\* The types of what the flights depend on.
FlightTypeOK ==
  /\ pending \in [Ids -> Calls \cup {NoCall}]
  /\ state \in [Calls -> {"idle"} \cup Busy \cup Answers]
  /\ request \in [Calls -> Ids]
  /\ joined \in [Calls -> Calls \cup {NoCall}]
  /\ \A c \in Calls : state[c] = "joined" => joined[c] \in Calls
  /\ wins \in [Ids -> Nat]

\* A work that has the thread is alone with its id.
EnteredApart ==
  \A c \in Calls : state[c] = "entering" =>
    /\ pending[request[c]] = NoCall
    /\ \A d \in Calls : state[d] = "entering" /\ request[d] = request[c] => c = d

\* The id of a work in progress has not succeeded since it was last forgotten:
\* otherwise the work would not have begun.
WorkIsFirst == \A c \in Calls : state[c] \in Underway => wins[request[c]] = 0

FlightInv == FlightTypeOK /\ OneFlightPerId /\ EnteredApart /\ WorkIsFirst /\ OncePerWindow

LEMMA FlightInit == IdemInit => FlightInv
BY IdempotencyAssumption
   DEF IdemInit, FlightInv, FlightTypeOK, OneFlightPerId, EnteredApart, WorkIsFirst,
       OncePerWindow, Underway, Flying, Busy, Answers

\* Forgetting keeps counters of at most one success as they are or clears them.
LEMMA ForgettingBound ==
  ASSUME NEW s, NEW w \in [Ids -> Nat]
  PROVE  /\ Forgetting(s, w) \in [Ids -> Nat]
         /\ \A i \in Ids : Forgetting(s, w)[i] \in {0, w[i]}
         /\ \A i \in Ids : i \notin s => Forgetting(s, w)[i] = 0
BY DEF Forgetting

\* Every step of the store keeps one flight per id.
LEMMA FlightStep ==
  ASSUME FlightInv, [IdemNext]_idemVars
  PROVE  FlightInv'
<1> USE DEF FlightInv, FlightTypeOK, OneFlightPerId, EnteredApart, WorkIsFirst,
            OncePerWindow, Underway, Flying, Busy, Answers
<1>enter. ASSUME NEW c \in Calls, NEW i \in Ids, Enter(c, i)
          PROVE  /\ state[c] \notin Busy
                 /\ request' = [request EXCEPT ![c] = i]
                 /\ wins' \in [Ids -> Nat] /\ OncePerWindow'
                 /\ ~Known(i) => wins'[i] = 0
                 /\ \A d \in Calls : d # c /\ state[d] \in Underway => wins'[request'[d]] = 0
  <2>1. wins' \in [Ids -> Nat] /\ \A k \in Ids : wins'[k] \in {0, wins[k]}
    BY <1>enter, ForgettingBound DEF Enter
  <2>2. \A d \in Calls : d # c => request'[d] = request[d]
    BY <1>enter DEF Enter
  <2>3. OncePerWindow'
    BY <2>1
  <2>4. ~Known(i) => wins'[i] = 0
    BY <1>enter, ForgettingBound DEF Enter, Known
  <2> QED
    BY <1>enter, <2>1, <2>2, <2>3, <2>4 DEF Enter
<1>1. ASSUME NEW c \in Calls, NEW i \in Ids, Skip(c, i)
      PROVE  FlightInv'
  <2>1. Enter(c, i)
    BY <1>1 DEF Skip
  <2> HIDE DEF OncePerWindow
  <2>2. FlightTypeOK'
    BY <1>1, <2>1, <1>enter DEF Skip
  <2>3. OneFlightPerId'
    BY <1>1, <2>1, <1>enter, IdempotencyAssumption DEF Skip
  <2>4. WorkIsFirst'
    BY <1>1, <2>1, <1>enter DEF Skip
  <2>5. EnteredApart'
    BY <1>1, <2>1, <1>enter DEF Skip
  <2> QED
    BY <2>1, <2>2, <2>3, <2>4, <2>5, <1>enter
<1>2. ASSUME NEW c \in Calls, NEW i \in Ids, Join(c, i)
      PROVE  FlightInv'
  <2>1. Enter(c, i)
    BY <1>2 DEF Join
  <2> HIDE DEF OncePerWindow
  <2>2. FlightTypeOK'
    BY <1>2, <2>1, <1>enter DEF Join, Active
  <2>3. OneFlightPerId'
    BY <1>2, <2>1, <1>enter, IdempotencyAssumption DEF Join, Active
  <2>4. WorkIsFirst'
    BY <1>2, <2>1, <1>enter DEF Join, Active
  <2>5. EnteredApart'
    BY <1>2, <2>1, <1>enter DEF Join
  <2> QED
    BY <2>1, <2>2, <2>3, <2>4, <2>5, <1>enter
<1>3. ASSUME NEW c \in Calls, NEW i \in Ids, Refuse(c, i)
      PROVE  FlightInv'
  <2>1. Enter(c, i)
    BY <1>3 DEF Refuse
  <2> HIDE DEF OncePerWindow
  <2>2. FlightTypeOK'
    BY <1>3, <2>1, <1>enter DEF Refuse
  <2>3. OneFlightPerId'
    BY <1>3, <2>1, <1>enter, IdempotencyAssumption DEF Refuse
  <2>4. WorkIsFirst'
    BY <1>3, <2>1, <1>enter DEF Refuse
  <2>5. EnteredApart'
    BY <1>3, <2>1, <1>enter DEF Refuse
  <2> QED
    BY <2>1, <2>2, <2>3, <2>4, <2>5, <1>enter
<1>4. ASSUME NEW c \in Calls, NEW i \in Ids, Begin(c, i)
      PROVE  FlightInv'
  <2>1. Enter(c, i)
    BY <1>4 DEF Begin
  <2> HIDE DEF OncePerWindow
  <2>2. /\ wins' \in [Ids -> Nat] /\ wins'[i] = 0
        /\ \A d \in Calls : d # c /\ state[d] \in Underway => wins'[request'[d]] = 0
    BY <1>4, <2>1, <1>enter DEF Begin
  <2>3. /\ state[c] \notin Busy /\ request' = [request EXCEPT ![c] = i]
        /\ pending[i] = NoCall /\ pending' = pending
        /\ state' = [state EXCEPT ![c] = "entering"] /\ joined' = joined
        /\ \A d \in Calls : state[d] = "entering" => request[d] # i
    BY <1>4, <2>1, <1>enter DEF Begin, Active
  <2>4. OneFlightPerId'
    BY <2>3, IdempotencyAssumption
  <2>5. EnteredApart'
    BY <2>3
  <2>6. FlightTypeOK'
    BY <2>2, <2>3
  <2>7. WorkIsFirst'
    <3>1. ASSUME NEW d \in Calls, state'[d] \in Underway
          PROVE  wins'[request'[d]] = 0
      <4>1. CASE d = c
        BY <2>2, <2>3, <4>1
      <4>2. CASE d # c
        BY <2>2, <2>3, <3>1, <4>2
      <4> QED
        BY <4>1, <4>2
    <3> QED
      BY <3>1
  <2> QED
    BY <2>1, <2>4, <2>5, <2>6, <2>7, <1>enter
<1>5. ASSUME NEW c \in Calls, WorkSucceeds(c)
      PROVE  FlightInv'
  <2> DEFINE i == request[c]
             w == [wins EXCEPT ![i] = @ + 1]
  <2>1. PICK s : wins' = Forgetting(s, w)
    BY <1>5 DEF WorkSucceeds
  <2>2. /\ state[c] = "working" /\ state' = [state EXCEPT ![c] = "worked"]
        /\ \A d \in Calls : state[d] # "entering"
        /\ UNCHANGED <<pending, request, joined>>
    BY <1>5 DEF WorkSucceeds, Free
  <2>3. i \in Ids /\ wins[i] = 0
    BY <2>2
  <2>4. w \in [Ids -> Nat] /\ w[i] = 1 /\ \A k \in Ids \ {i} : w[k] = wins[k]
    BY <2>3
  <2>5. /\ wins' \in [Ids -> Nat]
        /\ \A k \in Ids : wins'[k] \in {0, w[k]}
    <3> HIDE DEF w
    <3> QED
      BY <2>1, <2>4, ForgettingBound
  <2>6. \A k \in Ids : wins'[k] <= 1 /\ (k # i => wins'[k] \in {0, wins[k]})
    <3> HIDE DEF w, i
    <3> QED
      BY <2>3, <2>4, <2>5
  <2>7. FlightTypeOK' /\ OneFlightPerId' /\ EnteredApart'
    BY <2>2, <2>5
  <2>8. WorkIsFirst'
    <3>1. ASSUME NEW d \in Calls, state'[d] \in Underway
          PROVE  wins'[request'[d]] = 0
      <4>1. d # c /\ state[d] = "working" /\ request'[d] = request[d]
        BY <2>2, <3>1
      <4>2. request[d] # i
        BY <2>2, <4>1
      <4>3. request[d] \in Ids /\ wins[request[d]] = 0
        BY <4>1
      <4> HIDE DEF i
      <4> QED
        BY <4>1, <4>2, <4>3, <2>6
    <3> QED
      BY <3>1
  <2> QED
    BY <2>6, <2>7, <2>8
<1>6. ASSUME NEW c \in Calls, WorkFails(c)
      PROVE  FlightInv'
  BY <1>6 DEF WorkFails, storeVars, history
<1>7. ASSUME NEW c \in Calls, Settle(c)
      PROVE  FlightInv'
  BY <1>7, IdempotencyAssumption DEF Settle, Waiting, Outcome, Free, history
<1>8. CASE Clear
  BY <1>8 DEF Clear, callVars
<1>9. CASE Tick
  BY <1>9 DEF Tick, callVars, history
<1>10. CASE UNCHANGED idemVars
  BY <1>10 DEF idemVars, storeVars, callVars, history
<1>11. ASSUME NEW c \in Calls, Register(c)
       PROVE  FlightInv'
  <2>1. /\ state[c] = "entering" /\ state' = [state EXCEPT ![c] = "working"]
        /\ pending' = [pending EXCEPT ![request[c]] = c]
        /\ UNCHANGED <<request, joined, wins>>
    BY <1>11 DEF Register, history
  <2>2. request[c] \in Ids /\ pending[request[c]] = NoCall
    BY <2>1
  <2>3. ASSUME NEW k \in Ids, NEW d \in Calls
        PROVE  pending'[k] = d <=> state'[d] \in Flying /\ request'[d] = k
    <3>1. CASE d = c
      BY <2>1, <2>2, <3>1
    <3>2. CASE d # c
      BY <2>1, <2>2, <3>2, IdempotencyAssumption
    <3> QED
      BY <3>1, <3>2
  <2>4. ASSUME NEW d \in Calls, state'[d] = "joined"
        PROVE  pending'[request'[d]] = joined'[d]
    <3>1. d # c /\ state[d] = "joined" /\ request[d] \in Ids
      BY <2>1, <2>4
    <3>2. pending[request[d]] = joined[d]
      BY <3>1
    <3>3. request[d] # request[c]
      BY <2>2, <3>1, <3>2, IdempotencyAssumption
    <3> QED
      BY <2>1, <2>2, <3>1, <3>2, <3>3
  <2>5. OneFlightPerId'
    BY <2>3, <2>4
  <2>6. EnteredApart'
    BY <2>1, <2>2
  <2>7. FlightTypeOK' /\ WorkIsFirst' /\ OncePerWindow'
    BY <2>1, <2>2
  <2> QED
    BY <2>5, <2>6, <2>7
<1> QED
  BY <1>1, <1>2, <1>3, <1>4, <1>5, <1>6, <1>7, <1>8, <1>9, <1>10, <1>11 DEF IdemNext

\* Two calls whose work is in progress are for different ids.
LEMMA OneUnderway ==
  ASSUME FlightInv, NEW c \in Calls, NEW d \in Calls, state[c] \in Underway,
         state[d] \in Underway, request[c] = request[d]
  PROVE  c = d
<1>1. request[c] \in Ids
  BY DEF FlightInv, FlightTypeOK
<1> QED
  BY <1>1, IdempotencyAssumption
     DEF FlightInv, OneFlightPerId, EnteredApart, Underway, Flying

\* The map pending (idempotency.ts:16) holds exactly the works whose owner has
\* not settled, one for each id.
THEOREM OneFlightAlways == IdemSpec => []OneFlightPerId
<1>1. FlightInv => OneFlightPerId
  BY DEF FlightInv
<1> QED
  BY <1>1, FlightInit, FlightStep, PTL DEF IdemSpec

\* Between two moments at which the store forgets an id its work succeeds at
\* most once, however the calls of runOnce overlap (idempotency.ts:32).
THEOREM OncePerWindowAlways == IdemSpec => []OncePerWindow
<1>1. FlightInv => OncePerWindow
  BY DEF FlightInv
<1> QED
  BY <1>1, FlightInit, FlightStep, PTL DEF IdemSpec

-----------------------------------------------------------------------------
\* The works that are in flight or have the thread.  They are finitely many, and those
\* that no other's began are within the capacity.
Entered == { i \in Ids : \E c \in Calls : state[c] = "entering" /\ request[c] = i }
Flights == InFlight \cup Entered

FewFlights == IsFiniteSet(Flights) /\ Cardinality(Flights \ nested) <= MaxEntries

\* Works that end or go from the thread into the map stay few.
LEMMA FewerFlights ==
  ASSUME FewFlights, Flights' \subseteq Flights, Flights' \ nested' \subseteq Flights \ nested
  PROVE  FewFlights'
<1> DEFINE own == Flights \ nested
           rest == Flights' \ nested'
<1>1. IsFiniteSet(own) /\ IsFiniteSet(Flights')
  BY FS_Subset DEF FewFlights
<1>2. IsFiniteSet(rest) /\ Cardinality(rest) <= Cardinality(own)
  <2> HIDE DEF own
  <2> QED
    BY <1>1, FS_Subset DEF own
<1>3. Cardinality(own) \in Nat /\ Cardinality(rest) \in Nat
  BY <1>1, <1>2, FS_CardinalityType
<1>4. Cardinality(own) <= MaxEntries
  BY DEF FewFlights
<1>5. Cardinality(rest) <= MaxEntries
  <2> HIDE DEF own, rest
  <2> QED
    BY <1>2, <1>3, <1>4, IdempotencyAssumption
<1> QED
  BY <1>1, <1>5 DEF FewFlights

\* A work begins where those in flight are fewer than the capacity and the thread is
\* free, or it is nested.
LEMMA MoreFlights ==
  ASSUME FewFlights, NEW i \in Ids, Flights' = Flights \cup {i}, i \notin Flights,
         Cardinality(InFlight) < MaxEntries,
         nested' = IF Free THEN nested ELSE nested \cup {i}
  PROVE  FewFlights'
<1>1. IsFiniteSet(Flights')
  BY FS_AddElement DEF FewFlights
<1>2. CASE ~Free
  <2>1. Flights' \ nested' = Flights \ nested
    BY <1>2
  <2> QED
    BY <1>1, <2>1 DEF FewFlights
<1>3. CASE Free
  <2>1. InFlight = Flights
    BY <1>3 DEF Flights, Entered, Free
  <2>2. IsFiniteSet(Flights) /\ Cardinality(Flights) \in Nat
    BY FS_CardinalityType DEF FewFlights
  <2>3. Cardinality(Flights') = Cardinality(Flights) + 1
    BY <2>2, FS_AddElement
  <2> DEFINE own == Flights' \ nested'
  <2>4. IsFiniteSet(own) /\ Cardinality(own) <= Cardinality(Flights')
    BY <1>1, FS_Subset
  <2>5. Cardinality(own) \in Nat
    BY <2>4, FS_CardinalityType
  <2>6. Cardinality(own) <= MaxEntries
    <3> HIDE DEF own
    <3> QED
      BY <2>1, <2>2, <2>3, <2>4, <2>5, IdempotencyAssumption
  <2> QED
    BY <1>1, <2>6 DEF FewFlights
<1> QED
  BY <1>2, <1>3

LEMMA FlightsStayFew ==
  ASSUME FlightInv, FewFlights, [IdemNext]_idemVars
  PROVE  FewFlights'
<1>1. ASSUME NEW c \in Calls, NEW i \in Ids, Begin(c, i)
      PROVE  FewFlights'
  <2>1. /\ state[c] \notin Busy /\ state' = [state EXCEPT ![c] = "entering"]
        /\ request' = [request EXCEPT ![c] = i] /\ pending' = pending
        /\ pending[i] = NoCall /\ \A d \in Calls : state[d] = "entering" => request[d] # i
        /\ nested' = IF Free THEN nested ELSE nested \cup {i}
        /\ Cardinality(InFlight) < MaxEntries
    BY <1>1 DEF Begin, Enter, Active, HasRoom
  <2>2. i \notin Flights
    BY <2>1 DEF Flights, Entered, InFlight
  <2>3. InFlight' = InFlight /\ Entered' = Entered \cup {i}
    BY <2>1 DEF Entered, InFlight, FlightInv, FlightTypeOK, Busy
  <2> QED
    BY <2>1, <2>2, <2>3, MoreFlights DEF Flights
<1>2. ASSUME NEW c \in Calls, Register(c)
      PROVE  FewFlights'
  <2>1. /\ state[c] = "entering" /\ state' = [state EXCEPT ![c] = "working"]
        /\ pending' = [pending EXCEPT ![request[c]] = c]
        /\ UNCHANGED <<request, nested>>
    BY <1>2 DEF Register
  <2>2. Entered' \subseteq Entered /\ InFlight' \subseteq InFlight \cup Entered
    BY <2>1 DEF Entered, InFlight, FlightInv, FlightTypeOK
  <2> QED
    BY <2>1, <2>2, FewerFlights DEF Flights
<1>3. ASSUME NEW c \in Calls, Settle(c)
      PROVE  FewFlights'
  <2>1. /\ request[c] \in Ids /\ pending' = [pending EXCEPT ![request[c]] = NoCall]
        /\ nested' = nested \ {request[c]} /\ request' = request
        /\ \A d \in Calls : state'[d] # "entering"
    BY <1>3 DEF Settle, Free, Outcome, FlightInv, FlightTypeOK
  <2>2. Entered' = {} /\ InFlight' \subseteq InFlight \ {request[c]}
    BY <2>1 DEF Entered, InFlight, FlightInv, FlightTypeOK
  <2> QED
    BY <2>1, <2>2, FewerFlights DEF Flights
<1>4. ASSUME UNCHANGED <<pending, nested>>,
             \A d \in Calls : state'[d] = "entering" => state[d] = "entering" /\ request'[d] = request[d]
      PROVE  FewFlights'
  <2>1. InFlight' = InFlight /\ Entered' \subseteq Entered
    BY <1>4 DEF Entered, InFlight
  <2> QED
    BY <1>4, <2>1, FewerFlights DEF Flights
<1>5. ASSUME NEW c \in Calls, NEW i \in Ids, Skip(c, i) \/ Join(c, i) \/ Refuse(c, i)
      PROVE  FewFlights'
  <2>1. /\ state[c] \notin Busy /\ request' = [request EXCEPT ![c] = i]
        /\ state'[c] # "entering" /\ \A d \in Calls : d # c => state'[d] = state[d]
        /\ UNCHANGED <<pending, nested>>
    BY <1>5 DEF Skip, Join, Refuse, Enter, FlightInv, FlightTypeOK
  <2> QED
    BY <1>4, <2>1 DEF FlightInv, FlightTypeOK
<1>6. ASSUME NEW c \in Calls, WorkSucceeds(c) \/ WorkFails(c)
      PROVE  FewFlights'
  <2>1. /\ UNCHANGED <<pending, nested, request>>
        /\ \A d \in Calls : state'[d] = "entering" => state[d] = "entering"
    BY <1>6 DEF WorkSucceeds, WorkFails, storeVars, FlightInv, FlightTypeOK
  <2> QED
    BY <1>4, <2>1
<1>7. CASE Clear \/ Tick \/ UNCHANGED idemVars
  BY <1>4, <1>7 DEF Clear, Tick, idemVars, storeVars, callVars
<1> QED
  BY <1>1, <1>2, <1>3, <1>5, <1>6, <1>7 DEF IdemNext

\* While the thread is free a work begins only when there is room (idempotency.ts:38);
\* on another's thread it does not count.  A work that goes from the thread into the
\* map has been counted already.
THEOREM FlightsBoundedAlways == IdemSpec => []FlightsBounded
<1>1. IdemInit => FewFlights
  <2> SUFFICES ASSUME IdemInit PROVE FewFlights
    OBVIOUS
  <2>1. Flights = {} /\ Flights \ nested = {}
    BY DEF IdemInit, InFlight, Entered, Flights
  <2> QED
    BY <2>1, FS_EmptySet, IdempotencyAssumption DEF FewFlights
<1>2. FewFlights => FlightsBounded
  <2> SUFFICES ASSUME FewFlights PROVE FlightsBounded
    OBVIOUS
  <2>1. PICK own : own = Flights \ nested
    OBVIOUS
  <2>2. PICK counted : counted = InFlight \ nested
    OBVIOUS
  <2>3. counted \subseteq own /\ IsFiniteSet(own) /\ Cardinality(own) <= MaxEntries
    BY <2>1, <2>2, FS_Subset DEF FewFlights, Flights
  <2>4. IsFiniteSet(counted) /\ Cardinality(counted) <= Cardinality(own)
    BY <2>3, FS_Subset
  <2>5. Cardinality(counted) \in Nat /\ Cardinality(own) \in Nat
    BY <2>3, <2>4, FS_CardinalityType
  <2> QED
    BY <2>2, <2>3, <2>4, <2>5, IdempotencyAssumption DEF FlightsBounded
<1> QED
  BY <1>1, <1>2, FlightsStayFew, FlightInit, FlightStep, PTL DEF IdemSpec

-----------------------------------------------------------------------------
\* A set of numbers has a least one.
LEMMA LeastNumber ==
  ASSUME NEW T \in SUBSET Nat, T # {}
  PROVE  \E x \in T : \A y \in T : x <= y
<1> DEFINE R == OpToRel(<, Nat)
<1>1. IsWellFoundedOn(R, Nat)
  BY NatLessThanWellFounded
<1>2. \A m, n \in Nat : <<m, n>> \in R <=> m < n
  BY DEF OpToRel
<1> HIDE DEF R
<1>3. PICK x \in T : \A y \in T : ~(<<y, x>> \in R)
  BY <1>1, WFMin
<1>4. ASSUME NEW y \in T
      PROVE  x <= y
  <2>1. ~(y < x)
    BY <1>2, <1>3
  <2> QED
    BY <2>1
<1> QED
  BY <1>4

\* A finite set in order of age has an oldest member, which all others come after.
LEMMA OldestExists ==
  ASSUME NEW D, IsFiniteSet(D), D # {}, NEW after,
         \A j, k \in D : j # k => j \in after[k] \/ k \in after[j],
         \A k \in D : k \notin after[k],
         \A i, j, k \in D : j \in after[i] /\ k \in after[j] => k \in after[i]
  PROVE  \E k \in D : D \ {k} \subseteq after[k]
<1> DEFINE Upto(k) == D \ after[k]
           Size(k) == Cardinality(Upto(k))
           T == { Size(k) : k \in D }
<1>1. \A k \in D : IsFiniteSet(Upto(k)) /\ Cardinality(Upto(k)) \in Nat
  BY FS_Difference, FS_CardinalityType
<1>2. T \in SUBSET Nat /\ T # {}
  <2>1. \A k \in D : Size(k) \in Nat
    BY <1>1
  <2> HIDE DEF Size
  <2> QED
    BY <2>1
<1>3. PICK n \in T : \A m \in T : n <= m
  <2> HIDE DEF T
  <2> QED
    BY <1>2, LeastNumber
<1>4. PICK k \in D : \A j \in D : Size(k) <= Size(j)
  <2> HIDE DEF Size
  <2> QED
    BY <1>3
<1>5. ASSUME NEW j \in D \ {k}, j \notin after[k]
      PROVE  FALSE
  <2>1. k \in after[j] /\ k \in Upto(k) /\ k \notin Upto(j)
    BY <1>5
  <2>2. Upto(j) \in SUBSET Upto(k)
    BY <2>1
  <2> HIDE DEF Upto
  <2>3. Upto(j) # Upto(k)
    BY <2>1
  <2>4. Cardinality(Upto(j)) <= Cardinality(Upto(k)) /\ Cardinality(Upto(k)) # Cardinality(Upto(j))
    BY <1>1, <2>2, <2>3, FS_Subset
  <2> QED
    BY <1>1, <1>4, <2>4
<1> QED
  BY <1>5

\* Those with fewer than n after them in such a set are at most n.
LEMMA NewestAreFew ==
  ASSUME NEW D, IsFiniteSet(D), NEW after, NEW n \in Nat,
         \A j, k \in D : j # k => j \in after[k] \/ k \in after[j],
         \A k \in D : k \notin after[k],
         \A i, j, k \in D : j \in after[i] /\ k \in after[j] => k \in after[i]
  PROVE  Cardinality({ k \in D : Cardinality(D \cap after[k]) < n }) <= n
<1> DEFINE T == { k \in D : Cardinality(D \cap after[k]) < n }
<1>1. IsFiniteSet(T) /\ Cardinality(T) \in Nat
  BY FS_Subset, FS_CardinalityType
<1>2. CASE T = {}
  <2>1. Cardinality(T) = 0
    BY <1>2, FS_EmptySet
  <2> HIDE DEF T
  <2>2. Cardinality(T) <= n
    BY <2>1
  <2> QED
    BY <2>2 DEF T
<1>3. CASE T # {}
  <2>1. T \subseteq D
    OBVIOUS
  <2>2. PICK k \in T : T \ {k} \subseteq after[k]
    <3> HIDE DEF T
    <3> QED
      BY <1>1, <1>3, <2>1, OldestExists
  <2>3. T \ {k} \in SUBSET (D \cap after[k]) /\ IsFiniteSet(D \cap after[k])
    BY <2>1, <2>2, FS_Intersection
  <2>4. Cardinality(T \ {k}) <= Cardinality(D \cap after[k]) /\ Cardinality(D \cap after[k]) < n
    BY <2>2, <2>3, FS_Subset
  <2>5. Cardinality(T \ {k}) = Cardinality(T) - 1
    <3> HIDE DEF T
    <3> QED
      BY <1>1, <2>2, FS_RemoveElement
  <2>6. Cardinality(D \cap after[k]) \in Nat
    BY <2>3, FS_CardinalityType
  <2>7. Cardinality(T) <= n
    <3> HIDE DEF T
    <3> QED
      BY <1>1, <2>4, <2>5, <2>6
  <2> QED
    BY <2>7
<1> QED
  BY <1>2, <1>3

\* The successes are in an order of age.
Recency ==
  /\ everWon \subseteq Ids /\ IsFiniteSet(everWon)
  /\ newer \in [Ids -> SUBSET everWon]
  /\ \A j, k \in everWon : j # k => j \in newer[k] \/ k \in newer[j]
  /\ \A k \in Ids : k \notin newer[k]
  /\ \A i, j, k \in Ids : j \in newer[i] /\ k \in newer[j] => k \in newer[i]

\* What is remembered has succeeded, and so has what a call was told about.
RememberInv ==
  /\ Recency
  /\ left \in [Ids -> Nat]
  /\ completed \subseteq everWon
  /\ \A c \in Calls : state[c] \in {"worked", "ok"} => request[c] \in everWon
  /\ RemembersSuccesses

LEMMA RememberStart == IdemInit => RememberInv
<1> SUFFICES ASSUME IdemInit PROVE RememberInv
  OBVIOUS
<1>1. IsFiniteSet({}) /\ Cardinality({}) = 0
  BY FS_EmptySet
<1> QED
  BY <1>1, IdempotencyAssumption DEF IdemInit, RememberInv, Recency, RemembersSuccesses

\* Dropping what has expired drops nothing the store may not forget.
LEMMA PurgeRemembers ==
  ASSUME RememberInv, completed' = Purged, UNCHANGED <<left, newer, everWon>>
  PROVE  /\ Recency' /\ left' \in [Ids -> Nat] /\ completed' \subseteq everWon'
         /\ Cardinality(completed') <= MaxEntries
         /\ \A i \in Ids : left'[i] > 0 /\ Cardinality(newer'[i]) < MaxEntries => i \in completed'
<1>1. Purged \in SUBSET completed /\ IsFiniteSet(completed)
  BY FS_Subset DEF Purged, RememberInv, Recency
<1>2. IsFiniteSet(Purged) /\ Cardinality(Purged) <= Cardinality(completed)
  BY <1>1, FS_Subset
<1>3. Cardinality(Purged) \in Nat /\ Cardinality(completed) \in Nat
  BY <1>1, <1>2, FS_CardinalityType
<1>4. Cardinality(Purged) <= MaxEntries
  BY <1>2, <1>3, IdempotencyAssumption DEF RememberInv, RemembersSuccesses
<1>5. \A i \in Ids : left[i] > 0 /\ Cardinality(newer[i]) < MaxEntries => i \in Purged
  BY DEF RememberInv, RemembersSuccesses, Purged
<1> QED
  BY <1>1, <1>4, <1>5 DEF RememberInv, Recency

\* A success becomes the newest, and pushes out the oldest if there are too many.
LEMMA SuccessRemembered ==
  ASSUME RememberInv, NEW i \in Ids,
         completed' = Trim(completed \cup {i}, AsNewest(i)),
         newer' = AsNewest(i), everWon' = everWon \cup {i}, left' = [left EXCEPT ![i] = Ttl]
  PROVE  /\ Recency' /\ left' \in [Ids -> Nat] /\ completed' \subseteq everWon'
         /\ Cardinality(completed') <= MaxEntries
         /\ \A k \in Ids : left'[k] > 0 /\ Cardinality(newer'[k]) < MaxEntries => k \in completed'
<1> DEFINE s == completed \cup {i}
<1>1. /\ newer'[i] = {} /\ \A k \in Ids \ {i} : newer'[k] = newer[k] \cup {i}
      /\ DOMAIN newer' = Ids
  BY DEF AsNewest
<1>2. everWon' \subseteq Ids /\ IsFiniteSet(everWon')
  BY FS_AddElement DEF RememberInv, Recency
<1>3. newer' \in [Ids -> SUBSET everWon']
  BY DEF AsNewest, RememberInv, Recency
<1>4. ASSUME NEW j \in everWon', NEW k \in everWon', j # k
      PROVE  j \in newer'[k] \/ k \in newer'[j]
  BY <1>1, <1>2, <1>4 DEF RememberInv, Recency
<1>5. \A k \in Ids : k \notin newer'[k]
  BY <1>1 DEF RememberInv, Recency
<1>6. ASSUME NEW a \in Ids, NEW j \in Ids, NEW k \in Ids, j \in newer'[a], k \in newer'[j]
      PROVE  k \in newer'[a]
  <2>1. a # i /\ j # i
    BY <1>1, <1>6
  <2>2. CASE k = i
    BY <1>1, <2>1, <2>2
  <2>3. CASE k # i
    BY <1>1, <1>6, <2>1, <2>3 DEF RememberInv, Recency
  <2> QED
    BY <2>2, <2>3
<1>7. Recency'
  BY <1>2, <1>3, <1>4, <1>5, <1>6 DEF Recency
<1>8. s \subseteq everWon' /\ IsFiniteSet(s)
  BY <1>2, FS_Subset DEF RememberInv
<1>9. completed' = { k \in s : Cardinality(s \cap newer'[k]) < MaxEntries }
  BY DEF Trim
<1>10. Cardinality(completed') <= MaxEntries
  <2>1. s \subseteq Ids
    BY <1>2, <1>8
  <2> HIDE DEF s
  <2>2. /\ \A j, k \in s : j # k => j \in newer'[k] \/ k \in newer'[j]
        /\ \A k \in s : k \notin newer'[k]
        /\ \A a, j, k \in s : j \in newer'[a] /\ k \in newer'[j] => k \in newer'[a]
    BY <1>4, <1>5, <1>6, <1>8, <2>1
  <2>3. MaxEntries \in Nat
    BY IdempotencyAssumption
  <2>4. Cardinality({ k \in s : Cardinality(s \cap newer'[k]) < MaxEntries }) <= MaxEntries
    BY <1>8, <2>2, <2>3, NewestAreFew
  <2> QED
    BY <1>9, <2>4
<1>11. ASSUME NEW k \in Ids, left'[k] > 0, Cardinality(newer'[k]) < MaxEntries
       PROVE  k \in completed'
  <2>1. IsFiniteSet(newer'[k]) /\ Cardinality(newer'[k]) \in Nat
    BY <1>2, <1>3, FS_Subset, FS_CardinalityType
  <2>2. IsFiniteSet(s \cap newer'[k]) /\ Cardinality(s \cap newer'[k]) <= Cardinality(newer'[k])
    BY <2>1, FS_Intersection
  <2>3. Cardinality(s \cap newer'[k]) \in Nat
    BY <2>2, FS_CardinalityType
  <2>4. Cardinality(s \cap newer'[k]) < MaxEntries
    BY <1>11, <2>1, <2>2, <2>3, IdempotencyAssumption
  <2>5. k \in s
    <3>1. CASE k # i
      <4>1. left[k] > 0 /\ newer[k] \in SUBSET newer'[k]
        BY <1>1, <1>11, <3>1 DEF RememberInv
      <4>2. IsFiniteSet(newer[k]) /\ Cardinality(newer[k]) <= Cardinality(newer'[k])
        BY <2>1, <4>1, FS_Subset
      <4>3. Cardinality(newer[k]) \in Nat
        BY <4>2, FS_CardinalityType
      <4>4. Cardinality(newer[k]) < MaxEntries
        BY <1>11, <2>1, <4>2, <4>3, IdempotencyAssumption
      <4> QED
        BY <4>1, <4>4 DEF RememberInv, RemembersSuccesses
    <3> QED
      BY <3>1
  <2> QED
    BY <1>9, <2>4, <2>5
<1>12. left' \in [Ids -> Nat]
  BY IdempotencyAssumption DEF RememberInv
<1> QED
  BY <1>7, <1>8, <1>9, <1>10, <1>11, <1>12

\* Every step of the store keeps what it should remember.
LEMMA RememberStep ==
  ASSUME FlightInv, RememberInv, [IdemNext]_idemVars
  PROVE  RememberInv'
<1> DEFINE Told == \A c \in Calls : state'[c] \in {"worked", "ok"} => request'[c] \in everWon'
<1>1. ASSUME NEW c \in Calls, NEW i \in Ids, Enter(c, i), NEW to,
             state' = [state EXCEPT ![c] = to], to \in {"worked", "ok"} => Known(i)
      PROVE  RememberInv'
  <2>1. completed' = Purged /\ UNCHANGED <<left, newer, everWon>>
    BY <1>1 DEF Enter
  <2>2. Known(i) => i \in everWon
    BY DEF Known, Purged, RememberInv
  <2>3. request' = [request EXCEPT ![c] = i]
    BY <1>1 DEF Enter
  <2>4. Told
    BY <1>1, <2>1, <2>2, <2>3 DEF RememberInv, FlightInv, FlightTypeOK
  <2> QED
    BY <2>1, <2>4, PurgeRemembers DEF RememberInv, RemembersSuccesses
<1>2. ASSUME NEW c \in Calls, WorkSucceeds(c)
      PROVE  RememberInv'
  <2> DEFINE i == request[c]
  <2>1. /\ i \in Ids /\ request' = request
        /\ completed' = Trim(completed \cup {i}, AsNewest(i)) /\ left' = [left EXCEPT ![i] = Ttl]
        /\ newer' = AsNewest(i) /\ everWon' = everWon \cup {i}
        /\ state' = [state EXCEPT ![c] = "worked"]
    BY <1>2 DEF WorkSucceeds, FlightInv, FlightTypeOK
  <2>2. Told
    BY <2>1 DEF RememberInv
  <2> HIDE DEF i
  <2> QED
    BY <2>1, <2>2, SuccessRemembered DEF RememberInv, RemembersSuccesses
<1>3. ASSUME UNCHANGED <<completed, left, newer, everWon>>, Told
      PROVE  RememberInv'
  BY <1>3 DEF RememberInv, Recency, RemembersSuccesses
<1>4. ASSUME NEW c \in Calls, Settle(c)
      PROVE  RememberInv'
  <2>1. UNCHANGED <<completed, left, newer, everWon, request>>
    BY <1>4 DEF Settle, history
  <2>2. ASSUME NEW d \in Calls, state'[d] \in {"worked", "ok"}
        PROVE  request[d] \in everWon
    <3>1. CASE d \in Waiting(c)
      <4>1. state[c] = "worked"
        BY <1>4, <2>2, <3>1 DEF Settle, Outcome
      <4>2. d = c \/ (state[d] = "joined" /\ joined[d] = c)
        BY <3>1 DEF Waiting
      <4>3. request[d] = request[c]
        BY <4>1, <4>2 DEF FlightInv, FlightTypeOK, OneFlightPerId
      <4> QED
        BY <4>1, <4>3 DEF RememberInv
    <3>2. CASE d \notin Waiting(c)
      BY <1>4, <2>2, <3>2 DEF Settle, RememberInv
    <3> QED
      BY <3>1, <3>2
  <2> QED
    BY <1>3, <2>1, <2>2
<1>5. ASSUME NEW c \in Calls, WorkFails(c)
      PROVE  RememberInv'
  BY <1>3, <1>5 DEF WorkFails, storeVars, history, RememberInv
<1>6. CASE Clear
  <2>1. completed' = {} /\ \A i \in Ids : left'[i] = 0 /\ left' = [k \in Ids |-> 0]
    BY <1>6 DEF Clear
  <2>2. UNCHANGED <<newer, everWon, state, request>>
    BY <1>6 DEF Clear, callVars
  <2>3. Cardinality(completed') <= MaxEntries
    BY <2>1, FS_EmptySet, IdempotencyAssumption
  <2> QED
    BY <2>1, <2>2, <2>3, IdempotencyAssumption DEF RememberInv, Recency, RemembersSuccesses
<1>7. CASE Tick
  <2>1. /\ left' \in [Ids -> Nat] /\ \A i \in Ids : left'[i] > 0 => left[i] > 0
        /\ UNCHANGED <<completed, newer, everWon, state, request>>
    BY <1>7 DEF Tick, callVars, history, RememberInv
  <2> QED
    BY <2>1 DEF RememberInv, Recency, RemembersSuccesses
<1>8. CASE UNCHANGED idemVars
  BY <1>3, <1>8 DEF idemVars, storeVars, callVars, history, RememberInv
<1>9. ASSUME NEW c \in Calls, NEW i \in Ids, Skip(c, i) \/ Join(c, i) \/ Refuse(c, i) \/ Begin(c, i)
      PROVE  RememberInv'
  BY <1>1, <1>9 DEF Skip, Join, Refuse, Begin
<1>10. ASSUME NEW c \in Calls, Register(c)
       PROVE  RememberInv'
  BY <1>3, <1>10 DEF Register, history, RememberInv
<1> QED
  BY <1>2, <1>4, <1>5, <1>6, <1>7, <1>8, <1>9, <1>10 DEF IdemNext

\* The store keeps at most MaxEntries successes, forgets one early only because so
\* many have come after it, and tells no call that its work was done unless it was
\* (idempotency.ts:66).
THEOREM RemembersSuccessesAlways == IdemSpec => []RemembersSuccesses
<1>1. RememberInv => RemembersSuccesses
  BY DEF RememberInv
<1> QED
  BY <1>1, FlightInit, FlightStep, RememberStart, RememberStep, PTL DEF IdemSpec
=============================================================================
