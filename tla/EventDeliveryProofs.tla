-------------------------- MODULE EventDeliveryProofs --------------------------
(***************************************************************************)
(* Proofs about EventDelivery, for every set of events, workers, calls and *)
(* visiting handlers, every sequence of resident ones, every capacity and  *)
(* TTL of the store, and any number of failures and crashes.               *)
(***************************************************************************)
EXTENDS EventDelivery, IdempotencyProofs, SequenceTheorems

USE DEF Underway

Handlers == Range(Resident) \cup Visitors

Handled(e) == Range(Resident) \subseteq ran[e]

\* The broker has it, or there is no need to.
Delivered(e) == copies[e] > 0 \/ Handled(e)

EventTypeOK ==
  /\ record \in [Ids -> {"none", "rolled back", "open", "pending", "claimed", "published"}]
  /\ IsFiniteSet(Claimable)
  /\ batch \in [Workers -> Seq(Ids)]
  /\ step \in [Workers -> {"idle", "publishing", "marking", "failing"}]
  /\ copies \in [Ids -> Nat]
  /\ held \in [Calls -> BOOLEAN] /\ failing \in [Calls -> BOOLEAN]
  /\ bus \in Seq(Handlers) /\ todo \in [Calls -> Seq(Handlers)]
  /\ ran \in [Ids -> SUBSET Handlers] /\ tries \in [Ids -> {0, 1}]

\* The outbox marks as published only what the broker has been given.
OutboxInv ==
  /\ \A w \in Workers : step[w] # "idle" => batch[w] # <<>>
  /\ \A w \in Workers : step[w] = "marking" => Delivered(Head(batch[w]))
  /\ \A e \in Ids : record[e] = "published" => Delivered(e)

\* The broker keeps a copy for each call it waits for.
BrokerInv ==
  \A e \in Ids : IsFiniteSet(Handling(e)) /\ Cardinality(Handling(e)) <= copies[e]

\* A delivery without a failure has run, or still has to run, every resident
\* handler; and the deliveries that are counted have succeeded or go on.
ConsumerInv ==
  /\ Range(Resident) \subseteq Range(bus)
  /\ \A c \in Calls : state[c] \in Underway /\ ~failing[c] =>
       Range(Resident) \subseteq ran[request[c]] \cup Range(todo[c])
  /\ \A e \in everWon : Handled(e)
  /\ \A e \in Ids : tries[e] = 1 =>
       e \in everWon \/ \E c \in Calls : state[c] \in Underway /\ request[c] = e

EventInv == EventTypeOK /\ OutboxInv /\ BrokerInv /\ ConsumerInv

StoreInv == FlightInv /\ RememberInv

-----------------------------------------------------------------------------
LEMMA ResidentIsSeq == Resident \in Seq(Handlers)
<1>1. Resident \in Seq(Range(Resident)) /\ Range(Resident) \subseteq Handlers
  BY EventDeliveryAssumption DEF EventDeliveryAssumption, Handlers
<1>2. \A i \in 1..Len(Resident) : Resident[i] \in Handlers
  BY <1>1
<1> QED
  BY <1>1, <1>2

LEMMA EventStart == Init => EventInv /\ StoreInv
<1> SUFFICES ASSUME Init PROVE EventInv /\ StoreInv
  OBVIOUS
<1>1. StoreInv
  BY FlightInit, RememberStart DEF Init, StoreInv
<1>2. IsFiniteSet({}) /\ Cardinality({}) = 0
  BY FS_EmptySet
<1>3. Claimable = {} /\ \A e \in Ids : Handling(e) = {}
  BY DEF Init, Claimable, Handling
<1>4. EventTypeOK
  <2>1. IsFiniteSet(Claimable)
    BY <1>2, <1>3
  <2>2. bus \in Seq(Handlers) /\ todo \in [Calls -> Seq(Handlers)] /\ batch \in [Workers -> Seq(Ids)]
    <3>1. \A S : <<>> \in Seq(S)
      OBVIOUS
    <3>2. <<>> \in Seq(Handlers) /\ <<>> \in Seq(Ids)
      BY <3>1
    <3>3. bus = Resident /\ todo = [c \in Calls |-> <<>>] /\ batch = [w \in Workers |-> <<>>]
      BY DEF Init
    <3>4. todo \in [Calls -> Seq(Handlers)] /\ batch \in [Workers -> Seq(Ids)]
      BY <3>2, <3>3, Zenon
    <3> QED
      BY <3>3, <3>4, ResidentIsSeq
  <2>3. /\ record \in [Ids -> {"none", "rolled back", "open", "pending", "claimed", "published"}]
        /\ step \in [Workers -> {"idle", "publishing", "marking", "failing"}]
        /\ copies \in [Ids -> Nat]
        /\ held \in [Calls -> BOOLEAN] /\ failing \in [Calls -> BOOLEAN]
        /\ ran \in [Ids -> SUBSET Handlers] /\ tries \in [Ids -> {0, 1}]
    BY DEF Init
  <2> QED
    BY <2>1, <2>2, <2>3 DEF EventTypeOK
<1>5. BrokerInv
  <2>1. ASSUME NEW e \in Ids
        PROVE  IsFiniteSet(Handling(e)) /\ Cardinality(Handling(e)) <= copies[e]
    <3>1. Handling(e) = {} /\ copies[e] = 0
      BY <1>3 DEF Init
    <3> QED
      BY <1>2, <3>1
  <2> QED
    BY <2>1 DEF BrokerInv
<1>6. OutboxInv
  <2>1. /\ \A w \in Workers : step[w] = "idle"
        /\ \A e \in Ids : record[e] # "published"
    BY DEF Init
  <2> QED
    BY <2>1 DEF OutboxInv
<1>7. ConsumerInv
  <2>1. /\ bus = Resident /\ everWon = {} /\ \A c \in Calls : state[c] = "idle"
        /\ \A e \in Ids : tries[e] = 0
    BY DEF Init, IdemInit
  <2> QED
    BY <2>1 DEF ConsumerInv
<1> QED
  BY <1>1, <1>4, <1>5, <1>6, <1>7 DEF EventInv

\* All that happens to the store but a crash is a step of Idempotency.
LEMMA EventStepsTheStore ==
  ASSUME StoreInv, [Next]_vars
  PROVE  StoreInv'
<1>1. CASE CrashConsumer
  <2>1. /\ completed' = {} /\ left' = [e \in Ids |-> 0] /\ wins' = [e \in Ids |-> 0]
        /\ pending' = [e \in Ids |-> NoCall] /\ state' = [c \in Calls |-> "idle"]
        /\ UNCHANGED <<request, joined, everWon, newer>>
    BY <1>1 DEF CrashConsumer
  <2>2. FlightInv'
    BY <2>1, IdempotencyAssumption
       DEF StoreInv, FlightInv, FlightTypeOK, OneFlightPerId, EnteredApart, WorkIsFirst, OncePerWindow,
           Flying, Busy, Answers
  <2>3. Cardinality(completed') <= MaxEntries
    BY <2>1, FS_EmptySet, IdempotencyAssumption
  <2>4. RememberInv'
    BY <2>1, <2>3 DEF StoreInv, RememberInv, Recency, RemembersSuccesses
  <2> QED
    BY <2>2, <2>4 DEF StoreInv
<1>2. CASE ~CrashConsumer
  <2>1. [IdemNext]_idemVars
    BY <1>2 DEF Next, vars, Enqueue, EndTransaction, RecoverLease, LeaseExpires, BrokerStep,
                Answered, Deliver, PublisherStep, Claim, Publish, Mark, AbandonBatch, ConsumerStep,
                DeliveryReturns, RunHandler, EndEmit, SettleDelivery, Acknowledge, Subscribe, Unsubscribe, Elapse,
                IdemNext
  <2> QED
    BY <2>1, FlightStep, RememberStep DEF StoreInv
<1> QED
  BY <1>1, <1>2

\* A record that becomes another.
LEMMA OneRecord ==
  ASSUME EventTypeOK, NEW e \in Ids,
         NEW to \in {"none", "rolled back", "open", "pending", "claimed", "published"},
         record' = [record EXCEPT ![e] = to]
  PROVE  /\ record' \in [Ids -> {"none", "rolled back", "open", "pending", "claimed", "published"}]
         /\ IsFiniteSet(Claimable')
         /\ record'[e] = to /\ \A d \in Ids \ {e} : record'[d] = record[d]
<1>1. Claimable' \in SUBSET (Claimable \cup {e})
  BY DEF Claimable, EventTypeOK
<1>2. IsFiniteSet(Claimable \cup {e})
  BY FS_AddElement DEF EventTypeOK
<1> QED
  BY <1>1, <1>2, FS_Subset DEF EventTypeOK

\* What the outbox does leaves the consumer alone, and the broker's calls.
LEMMA OutboxStep ==
  ASSUME EventInv, EventTypeOK', OutboxInv',
         UNCHANGED <<idemVars, held, bus, deliveryVars>>,
         \A e \in Ids : copies'[e] >= copies[e]
  PROVE  EventInv'
<1>1. UNCHANGED <<state, request, everWon, todo, failing, ran, tries, bus, held>>
  BY DEF idemVars, callVars, history, deliveryVars
<1>2. ConsumerInv'
  BY <1>1 DEF EventInv, ConsumerInv, Handled
<1>3. \A e \in Ids : Handling(e)' = Handling(e)
  BY <1>1 DEF Handling
<1>4. ASSUME NEW e \in Ids
      PROVE  IsFiniteSet(Handling(e)') /\ Cardinality(Handling(e)') <= copies'[e]
  <2>1. IsFiniteSet(Handling(e)) /\ Cardinality(Handling(e)) <= copies[e]
    BY DEF EventInv, BrokerInv
  <2>2. Cardinality(Handling(e)) \in Nat /\ copies[e] \in Nat /\ copies'[e] \in Nat
    BY <2>1, FS_CardinalityType DEF EventInv, EventTypeOK
  <2> QED
    BY <1>3, <2>1, <2>2
<1> QED
  BY <1>2, <1>4 DEF EventInv, BrokerInv

\* More copies or more handlers run do not undo a delivery.
LEMMA StaysDelivered ==
  ASSUME EventTypeOK, EventTypeOK', NEW e \in Ids, Delivered(e),
         copies'[e] >= copies[e] \/ Handled(e), ran[e] \subseteq ran'[e]
  PROVE  Delivered(e)'
<1>1. copies[e] \in Nat /\ copies'[e] \in Nat
  BY DEF EventTypeOK
<1>2. CASE Handled(e)
  BY <1>2 DEF Delivered, Handled
<1>3. CASE ~Handled(e)
  <2>1. copies'[e] > 0
    BY <1>1, <1>3 DEF Delivered
  <2> QED
    BY <2>1 DEF Delivered
<1> QED
  BY <1>2, <1>3

\* A sequence that has been shortened at its head, or extended.
LEMMA HeadAndTail ==
  ASSUME NEW S, NEW s \in Seq(S), s # <<>>
  PROVE  /\ Head(s) \in S /\ Tail(s) \in Seq(S) /\ Range(s) = {Head(s)} \cup Range(Tail(s))
         /\ Len(s) \in Nat \ {0} /\ Len(s) # 1 => Tail(s) # <<>>
<1> DEFINE t == Tail(s)
           n == Len(s)
<1>1. /\ n \in Nat \ {0} /\ t \in Seq(S) /\ Len(t) = n - 1 /\ Head(s) = s[1] /\ s[1] \in S
      /\ \A i \in 1..(n - 1) : t[i] = s[i + 1]
  OBVIOUS
<1>2. Range(s) = { s[i] : i \in 1..n } /\ Range(t) = { t[i] : i \in 1..(n - 1) }
  <2>1. Range(s) = { s[i] : i \in 1..Len(s) } /\ Range(t) = { t[i] : i \in 1..Len(t) }
    BY <1>1, RangeEquality
  <2> QED
    BY <1>1, <2>1
<1> HIDE DEF t, n
<1>3. ASSUME NEW i \in 1..n
      PROVE  s[i] = Head(s) \/ s[i] \in Range(t)
  <2>1. CASE i = 1
    BY <1>1, <2>1
  <2>2. CASE i # 1
    <3>1. i - 1 \in 1..(n - 1) /\ (i - 1) + 1 = i
      BY <1>1, <2>2
    <3>2. t[i - 1] = s[i]
      BY <1>1, <3>1
    <3> QED
      BY <1>2, <3>1, <3>2
  <2> QED
    BY <2>1, <2>2
<1>4. ASSUME NEW i \in 1..(n - 1)
      PROVE  t[i] \in Range(s)
  <2>1. i + 1 \in 1..n /\ t[i] = s[i + 1]
    BY <1>1
  <2> QED
    BY <1>2, <2>1
<1>5. 1 \in 1..n
  BY <1>1
<1>6. Range(s) = {Head(s)} \cup Range(t)
  BY <1>1, <1>2, <1>3, <1>4, <1>5
<1>7. n # 1 => t # <<>>
  BY <1>1
<1> QED
  BY <1>1, <1>6, <1>7 DEF t, n

-----------------------------------------------------------------------------
\* The outbox of an event: its transaction, and the recovery of its lease.
LEMMA RecordStep ==
  ASSUME EventInv, NEW e \in Ids,
         Enqueue(e) \/ EndTransaction(e) \/ RecoverLease(e) \/ LeaseExpires(e)
  PROVE  EventInv'
<1>1. UNCHANGED <<idemVars, batch, step, copies, held, bus, deliveryVars>>
  BY DEF Enqueue, EndTransaction, RecoverLease, LeaseExpires
<1>2. copies' = copies /\ copies \in [Ids -> Nat]
  BY <1>1 DEF EventInv, EventTypeOK
<1>3. \A d \in Ids : copies'[d] >= copies[d]
  BY <1>2
<1>4. PICK to \in {"open", "pending", "rolled back"} : record' = [record EXCEPT ![e] = to]
  BY DEF Enqueue, EndTransaction, RecoverLease, LeaseExpires
<1>5. EventTypeOK /\ OutboxInv
  BY DEF EventInv
<1>6. UNCHANGED <<batch, step, copies, held, bus, todo, failing, ran, tries>>
  BY <1>1 DEF deliveryVars
<1>7. /\ record' \in [Ids -> {"none", "rolled back", "open", "pending", "claimed", "published"}]
      /\ IsFiniteSet(Claimable')
      /\ record'[e] = to /\ \A d \in Ids \ {e} : record'[d] = record[d]
  BY <1>4, <1>5, OneRecord
<1>8. EventTypeOK'
  BY <1>5, <1>6, <1>7 DEF EventTypeOK
<1>9. OutboxInv'
  <2>1. \A d \in Ids : record'[d] = "published" => record[d] = "published"
    BY <1>4, <1>7
  <2> QED
    BY <1>5, <1>6, <2>1 DEF OutboxInv, Delivered, Handled
<1> QED
  BY <1>1, <1>8, <1>9, <1>3, OutboxStep

LEMMA ClaimStep ==
  ASSUME EventInv, NEW w \in Workers, Claim(w)
  PROVE  EventInv'
<1>1. /\ UNCHANGED <<idemVars, copies, held, bus, deliveryVars>>
      /\ UNCHANGED <<copies, held, bus, todo, failing, ran, tries>>
      /\ step' = [step EXCEPT ![w] = "publishing"]
  BY DEF Claim, deliveryVars
<1>2. EventTypeOK /\ OutboxInv
  BY DEF EventInv
<1>30. PICK n \in 1..Cardinality(Claimable) : \E claimed \in [1..n -> Claimable] :
         /\ record' = [e \in Ids |-> IF e \in Range(claimed) THEN "claimed" ELSE record[e]]
         /\ batch' = [batch EXCEPT ![w] = claimed]
  BY DEF Claim
<1>3. PICK claimed \in [1..n -> Claimable] :
        /\ record' = [e \in Ids |-> IF e \in Range(claimed) THEN "claimed" ELSE record[e]]
        /\ batch' = [batch EXCEPT ![w] = claimed]
  BY <1>30
<1>4. n \in Nat \ {0}
  <2>1. Cardinality(Claimable) \in Nat
    BY <1>2, FS_CardinalityType DEF EventTypeOK
  <2> QED
    BY <2>1
<1>5. claimed \in Seq(Ids) /\ claimed # <<>>
  <2>1. claimed \in [1..n -> Ids]
    BY DEF Claimable
  <2>2. claimed \in Seq(Ids)
    BY <1>4, <2>1
  <2>3. 1 \in DOMAIN claimed
    BY <1>4
  <2>4. DOMAIN <<>> = {}
    OBVIOUS
  <2> QED
    BY <2>2, <2>3, <2>4
<1>6. EventTypeOK'
  <2>1. record' \in [Ids -> {"none", "rolled back", "open", "pending", "claimed", "published"}]
    BY <1>2, <1>3 DEF EventTypeOK
  <2>2. Claimable' \subseteq Claimable
    BY <1>3 DEF Claimable
  <2>3. IsFiniteSet(Claimable')
    BY <1>2, <2>2, FS_Subset DEF EventTypeOK
  <2>4. batch' \in [Workers -> Seq(Ids)]
    BY <1>2, <1>3, <1>5 DEF EventTypeOK
  <2>5. step' \in [Workers -> {"idle", "publishing", "marking", "failing"}]
    BY <1>1, <1>2 DEF EventTypeOK
  <2> QED
    BY <1>1, <1>2, <2>1, <2>3, <2>4, <2>5 DEF EventTypeOK
<1>7. OutboxInv'
  <2>1. \A d \in Ids : record'[d] = "published" => record[d] = "published"
    BY <1>3
  <2>2. \A d \in Ids : Delivered(d)' <=> Delivered(d)
    BY <1>1 DEF Delivered, Handled
  <2>3. /\ step \in [Workers -> {"idle", "publishing", "marking", "failing"}]
        /\ batch \in [Workers -> Seq(Ids)]
    BY <1>2 DEF EventTypeOK
  <2>4. \A v \in Workers \ {w} : step'[v] = step[v] /\ batch'[v] = batch[v]
    BY <1>1, <1>3, <2>3
  <2>5. step'[w] = "publishing" /\ batch'[w] = claimed
    BY <1>1, <1>3, <2>3
  <2>6. \A v \in Workers : step'[v] # "idle" => batch'[v] # <<>>
    BY <1>2, <1>5, <2>4, <2>5 DEF OutboxInv
  <2>7. \A v \in Workers : step'[v] = "marking" => Delivered(Head(batch[v])) /\ batch'[v] = batch[v]
    BY <1>2, <2>4, <2>5 DEF OutboxInv
  <2>8. ASSUME NEW v \in Workers, step'[v] = "marking"
        PROVE  Delivered(Head(batch[v]))'
    <3>1. batch[v] \in Seq(Ids) /\ batch[v] # <<>> /\ Delivered(Head(batch[v])) /\ batch'[v] = batch[v]
      BY <1>2, <2>3, <2>4, <2>5, <2>8 DEF OutboxInv
    <3>2. Head(batch[v]) \in Ids
      BY <3>1
    <3>3. Head(batch'[v]) = Head(batch[v])
      BY <3>1
    <3> QED
      BY <1>1, <3>1, <3>3 DEF Delivered, Handled
  <2>9. \A d \in Ids : record'[d] = "published" => Delivered(d)'
    BY <1>2, <2>1, <2>2 DEF OutboxInv
  <2> QED
    BY <2>6, <2>8, <2>9 DEF OutboxInv
<1>8. \A d \in Ids : copies'[d] >= copies[d]
  <2>1. copies \in [Ids -> Nat]
    BY <1>2 DEF EventTypeOK
  <2> QED
    BY <1>1, <2>1
<1> QED
  BY <1>1, <1>6, <1>7, <1>8, OutboxStep

LEMMA PublishStep ==
  ASSUME EventInv, NEW w \in Workers, Publish(w)
  PROVE  EventInv'
<1> DEFINE h == Head(batch[w])
<1>1. /\ UNCHANGED <<idemVars, held, bus, deliveryVars>>
      /\ UNCHANGED <<record, batch, held, bus, todo, failing, ran, tries>>
      /\ step[w] = "publishing"
  BY DEF Publish, deliveryVars
<1>2. EventTypeOK /\ OutboxInv
  BY DEF EventInv
<1>3. batch[w] \in Seq(Ids) /\ batch[w] # <<>> /\ h \in Ids
  <2>1. batch[w] \in Seq(Ids) /\ batch[w] # <<>>
    BY <1>1, <1>2 DEF EventTypeOK, OutboxInv
  <2> QED
    BY <2>1
<1>4. PICK next \in {"marking", "failing"} :
        /\ step' = [step EXCEPT ![w] = next]
        /\ copies' = [copies EXCEPT ![h] = @ + 1] \/ (next = "failing" /\ copies' = copies)
  BY DEF Publish, AfterPublish, Sent
<1> HIDE DEF h
<1>5. copies' \in [Ids -> Nat] /\ (\A d \in Ids : copies'[d] >= copies[d])
      /\ (next = "marking" => copies'[h] > 0)
  <2>1. copies \in [Ids -> Nat]
    BY <1>2 DEF EventTypeOK
  <2> QED
    BY <1>3, <1>4, <2>1
<1>6. step' \in [Workers -> {"idle", "publishing", "marking", "failing"}]
      /\ step'[w] = next /\ \A v \in Workers \ {w} : step'[v] = step[v]
  BY <1>2, <1>4 DEF EventTypeOK
<1>7. EventTypeOK'
  <2>1. IsFiniteSet(Claimable')
    BY <1>1, <1>2 DEF EventTypeOK, Claimable
  <2> QED
    BY <1>1, <1>2, <1>5, <1>6, <2>1 DEF EventTypeOK
<1>8. \A d \in Ids : Delivered(d) => Delivered(d)'
  <2>1. ASSUME NEW d \in Ids, Delivered(d)
        PROVE  Delivered(d)'
    <3>1. copies'[d] >= copies[d] /\ ran[d] \subseteq ran'[d]
      BY <1>1, <1>5
    <3> QED
      BY <1>2, <1>7, <2>1, <3>1, StaysDelivered
  <2> QED
    BY <2>1
<1>9. OutboxInv'
  <2>1. \A v \in Workers : step'[v] # "idle" => batch'[v] # <<>>
    BY <1>1, <1>2, <1>3, <1>6 DEF OutboxInv
  <2>2. ASSUME NEW v \in Workers, step'[v] = "marking"
        PROVE  Delivered(Head(batch[v]))'
    <3>1. CASE v = w
      <4>1. copies'[h] > 0 /\ Head(batch'[v]) = h
        BY <1>1, <1>5, <1>6, <2>2, <3>1 DEF h
      <4> QED
        BY <4>1 DEF Delivered
    <3>2. CASE v # w
      <4>1. step[v] = "marking"
        BY <1>6, <2>2, <3>2
      <4>2. batch[v] \in Seq(Ids) /\ batch[v] # <<>> /\ Delivered(Head(batch[v]))
        BY <1>2, <4>1 DEF EventTypeOK, OutboxInv
      <4>3. Head(batch[v]) \in Ids
        BY <4>2
      <4>4. Head(batch'[v]) = Head(batch[v])
        BY <1>1
      <4>5. Handled(Head(batch[v])) \/ copies[Head(batch[v])] > 0
        BY <4>2 DEF Delivered
      <4>6. copies[Head(batch[v])] > 0 => copies'[Head(batch[v])] > 0
        <5>1. copies \in [Ids -> Nat]
          BY <1>2 DEF EventTypeOK
        <5> QED
          BY <1>5, <4>3, <5>1
      <4> QED
        BY <1>1, <4>4, <4>5, <4>6 DEF Delivered, Handled
    <3> QED
      BY <3>1, <3>2
  <2>3. \A d \in Ids : record'[d] = "published" => Delivered(d)'
    BY <1>1, <1>2, <1>8 DEF OutboxInv
  <2> QED
    BY <2>1, <2>2, <2>3 DEF OutboxInv
<1> QED
  BY <1>1, <1>5, <1>7, <1>9, OutboxStep

\* A worker writes its verdict, and goes on with the rest of its batch or not.
LEMMA VerdictStep ==
  ASSUME EventInv, NEW w \in Workers, Mark(w) \/ AbandonBatch(w)
  PROVE  EventInv'
<1> DEFINE h == Head(batch[w])
<1>1. /\ UNCHANGED <<idemVars, copies, held, bus, deliveryVars>>
      /\ UNCHANGED <<copies, held, bus, todo, failing, ran, tries>>
      /\ step[w] # "idle"
  BY DEF Mark, AbandonBatch, deliveryVars
<1>2. EventTypeOK /\ OutboxInv
  BY DEF EventInv
<1>3. /\ batch[w] \in Seq(Ids) /\ batch[w] # <<>> /\ h \in Ids
      /\ Tail(batch[w]) \in Seq(Ids)
      /\ Len(batch[w]) # 1 => Tail(batch[w]) # <<>>
  <2>1. batch[w] \in Seq(Ids) /\ batch[w] # <<>>
    BY <1>1, <1>2 DEF EventTypeOK, OutboxInv
  <2> QED
    BY <2>1, HeadAndTail
<1>4. PICK rest \in {Tail(batch[w]), <<>>}, next \in {"idle", "publishing"} :
        /\ step' = [step EXCEPT ![w] = next] /\ batch' = [batch EXCEPT ![w] = rest]
        /\ next = "publishing" => rest # <<>>
  <2>1. CASE Mark(w)
    BY <1>3, <2>1 DEF Mark
  <2>2. CASE AbandonBatch(w)
    BY <2>2 DEF AbandonBatch
  <2> QED
    BY <2>1, <2>2
<1>5. \/ record' = record
      \/ record' = [record EXCEPT ![h] = Verdict(w)] /\ step[w] \in {"marking", "failing"}
  <2>1. step[w] \in {"idle", "publishing", "marking", "failing"}
    BY <1>2 DEF EventTypeOK
  <2> QED
    BY <2>1 DEF Mark, AbandonBatch
<1>6. PICK to \in {"pending", "published"} :
        /\ to = "published" => step[w] = "marking"
        /\ record' = record \/ record' = [record EXCEPT ![h] = to]
  BY <1>5 DEF Verdict
<1>7. to = "published" => Delivered(h)
  BY <1>2, <1>6 DEF OutboxInv, h
<1> HIDE DEF h
<1>8. /\ record' \in [Ids -> {"none", "rolled back", "open", "pending", "claimed", "published"}]
      /\ IsFiniteSet(Claimable')
      /\ \A d \in Ids : record'[d] = "published" =>
           record[d] = "published" \/ (d = h /\ to = "published")
  <2>1. CASE record' = record
    BY <1>2, <2>1 DEF EventTypeOK, Claimable
  <2>2. CASE record' = [record EXCEPT ![h] = to]
    <3>1. /\ record' \in [Ids -> {"none", "rolled back", "open", "pending", "claimed", "published"}]
          /\ IsFiniteSet(Claimable')
          /\ record'[h] = to /\ \A d \in Ids \ {h} : record'[d] = record[d]
      BY <1>2, <1>3, <2>2, OneRecord
    <3> QED
      BY <3>1
  <2> QED
    BY <1>6, <2>1, <2>2
<1>9. /\ step' \in [Workers -> {"idle", "publishing", "marking", "failing"}]
      /\ batch' \in [Workers -> Seq(Ids)]
      /\ step'[w] = next /\ batch'[w] = rest
      /\ \A v \in Workers \ {w} : step'[v] = step[v] /\ batch'[v] = batch[v]
  <2>1. /\ step \in [Workers -> {"idle", "publishing", "marking", "failing"}]
        /\ batch \in [Workers -> Seq(Ids)]
    BY <1>2 DEF EventTypeOK
  <2>2. rest \in Seq(Ids)
    <3>1. \A S : <<>> \in Seq(S)
      OBVIOUS
    <3> QED
      BY <1>3, <3>1
  <2> QED
    BY <1>4, <2>1, <2>2
<1>10. EventTypeOK'
  BY <1>1, <1>2, <1>8, <1>9 DEF EventTypeOK
<1>11. \A d \in Ids : Delivered(d)' <=> Delivered(d)
  BY <1>1 DEF Delivered, Handled
<1>12. OutboxInv'
  <2>1. \A v \in Workers : step'[v] # "idle" => batch'[v] # <<>>
    BY <1>2, <1>4, <1>9 DEF OutboxInv
  <2>2. ASSUME NEW v \in Workers, step'[v] = "marking"
        PROVE  Delivered(Head(batch[v]))'
    <3>1. step[v] = "marking" /\ batch'[v] = batch[v]
      BY <1>9, <2>2
    <3>2. Delivered(Head(batch[v]))
      BY <1>2, <3>1 DEF OutboxInv
    <3> QED
      BY <1>1, <3>1, <3>2 DEF Delivered, Handled
  <2>3. \A d \in Ids : record'[d] = "published" => Delivered(d)'
    BY <1>2, <1>7, <1>8, <1>11 DEF OutboxInv
  <2> QED
    BY <2>1, <2>2, <2>3 DEF OutboxInv
<1>13. \A d \in Ids : copies'[d] >= copies[d]
  <2>1. copies \in [Ids -> Nat]
    BY <1>2 DEF EventTypeOK
  <2> QED
    BY <1>1, <2>1
<1> QED
  BY <1>1, <1>10, <1>12, <1>13, OutboxStep

-----------------------------------------------------------------------------
\* What the broker and the consumer do leaves the outbox alone.
LEMMA OutboxIsLeft ==
  ASSUME EventTypeOK, OutboxInv, UNCHANGED outboxVars,
         \A d \in Ids : Delivered(d) => Delivered(d)'
  PROVE  OutboxInv' /\ Claimable' = Claimable
<1>1. record' = record /\ batch' = batch /\ step' = step
  BY DEF outboxVars
<1>2. \A v \in Workers : step'[v] # "idle" => batch'[v] # <<>>
  BY <1>1 DEF OutboxInv
<1>3. ASSUME NEW v \in Workers, step'[v] = "marking"
      PROVE  Delivered(Head(batch[v]))'
  <2>1. step[v] = "marking" /\ batch[v] \in Seq(Ids) /\ batch[v] # <<>>
    BY <1>1, <1>3 DEF OutboxInv, EventTypeOK
  <2>2. Head(batch[v]) \in Ids
    BY <2>1
  <2> DEFINE h == Head(batch[v])
  <2>3. h \in Ids /\ Delivered(h)
    BY <2>1, <2>2 DEF OutboxInv
  <2>4. Head(batch'[v]) = h
    BY <1>1
  <2> HIDE DEF h
  <2>5. copies'[h] > 0 \/ Range(Resident) \subseteq ran'[h]
    BY <2>3 DEF Delivered, Handled
  <2> QED
    BY <2>4, <2>5 DEF Delivered, Handled
<1>4. \A d \in Ids : record'[d] = "published" => Delivered(d)'
  BY <1>1 DEF OutboxInv
<1>5. Claimable' = Claimable
  BY <1>1 DEF Claimable
<1> QED
  BY <1>2, <1>3, <1>4, <1>5 DEF OutboxInv

\* The broker waits for no more calls than it did.
LEMMA NoMoreCalls ==
  ASSUME EventTypeOK, BrokerInv, NEW e \in Ids,
         Handling(e)' \subseteq Handling(e), copies'[e] = copies[e]
  PROVE  IsFiniteSet(Handling(e)') /\ Cardinality(Handling(e)') <= copies'[e]
<1>1. IsFiniteSet(Handling(e)) /\ Cardinality(Handling(e)) <= copies[e]
  BY DEF BrokerInv
<1>2. IsFiniteSet(Handling(e)') /\ Cardinality(Handling(e)') <= Cardinality(Handling(e))
  BY <1>1, FS_Subset
<1>3. Cardinality(Handling(e)) \in Nat /\ Cardinality(Handling(e)') \in Nat
  BY <1>1, <1>2, FS_CardinalityType
<1>4. copies \in [Ids -> Nat]
  BY DEF EventTypeOK
<1> QED
  BY <1>1, <1>2, <1>3, <1>4

\* It hands a copy to a call only when it has one to hand out.
LEMMA HandOut ==
  ASSUME EventTypeOK, BrokerInv, request \in [Calls -> Ids],
         NEW c \in Calls, NEW e \in Ids, ~held[c], copies[e] > Cardinality(Handling(e)),
         request' = [request EXCEPT ![c] = e], held' = [held EXCEPT ![c] = TRUE],
         copies' = copies
  PROVE  BrokerInv'
<1>1. held \in [Calls -> BOOLEAN] /\ copies \in [Ids -> Nat]
  BY DEF EventTypeOK
<1>2. \A d \in Ids \ {e} : Handling(d)' = Handling(d)
  BY <1>1 DEF Handling
<1>3. Handling(e)' = Handling(e) \cup {c} /\ c \notin Handling(e)
  BY <1>1 DEF Handling
<1>4. IsFiniteSet(Handling(e)') /\ Cardinality(Handling(e)') <= copies'[e]
  <2>1. IsFiniteSet(Handling(e)) /\ Cardinality(Handling(e)) \in Nat
    BY FS_CardinalityType DEF BrokerInv
  <2>2. /\ IsFiniteSet(Handling(e) \cup {c})
        /\ Cardinality(Handling(e) \cup {c}) = Cardinality(Handling(e)) + 1
    BY <1>3, <2>1, FS_AddElement
  <2> QED
    BY <1>1, <1>3, <2>1, <2>2
<1>5. ASSUME NEW d \in Ids \ {e}
      PROVE  IsFiniteSet(Handling(d)') /\ Cardinality(Handling(d)') <= copies'[d]
  <2>1. Handling(d)' \subseteq Handling(d) /\ copies'[d] = copies[d]
    BY <1>2
  <2> QED
    BY <2>1, NoMoreCalls
<1> QED
  BY <1>4, <1>5 DEF BrokerInv

LEMMA AnsweredStep ==
  ASSUME EventInv, StoreInv, NEW c \in Calls, NEW e \in Ids, Answered(c, e)
  PROVE  EventInv'
<1>1. /\ ~held[c] /\ copies[e] > Cardinality(Handling(e))
      /\ UNCHANGED <<outboxVars, copies, bus, deliveryVars>>
      /\ UNCHANGED <<copies, bus, todo, failing, ran, tries, everWon>>
      /\ request' = [request EXCEPT ![c] = e] /\ held' = [held EXCEPT ![c] = TRUE]
      /\ state[c] \notin Underway
  BY DEF Answered, Skip, Join, Refuse, Enter, Hold, deliveryVars, Flying, Busy, Answers
<1>2. PICK to \in {"ok", "joined", "refused"} : state' = [state EXCEPT ![c] = to]
  BY DEF Answered, Skip, Join, Refuse
<1>3. EventTypeOK /\ OutboxInv /\ BrokerInv /\ ConsumerInv
      /\ request \in [Calls -> Ids] /\ state \in [Calls -> {"idle"} \cup Busy \cup Answers]
  BY DEF EventInv, StoreInv, FlightInv, FlightTypeOK
<1>4. BrokerInv'
  BY <1>1, <1>3, HandOut
<1>5. OutboxInv' /\ Claimable' = Claimable
  BY <1>1, <1>3, OutboxIsLeft DEF Delivered, Handled
<1>6. EventTypeOK'
  <2>1. held' \in [Calls -> BOOLEAN]
    BY <1>1, <1>3 DEF EventTypeOK
  <2>2. record' = record /\ batch' = batch /\ step' = step
    BY <1>1 DEF outboxVars
  <2> QED
    BY <1>1, <1>3, <1>5, <2>1, <2>2 DEF EventTypeOK
<1>7. ConsumerInv'
  <2>1. /\ state'[c] \notin Underway
        /\ \A d \in Calls \ {c} : state'[d] = state[d] /\ request'[d] = request[d]
    BY <1>1, <1>2, <1>3
  <2>2. /\ Range(Resident) \subseteq Range(bus')
        /\ \A k \in everWon' : Handled(k)'
    BY <1>1, <1>3 DEF ConsumerInv, Handled
  <2>3. \A d \in Calls : state'[d] \in Underway /\ ~failing'[d] =>
          Range(Resident) \subseteq ran'[request'[d]] \cup Range(todo'[d])
    BY <1>1, <1>3, <2>1 DEF ConsumerInv
  <2>4. \A k \in Ids : tries'[k] = 1 =>
          k \in everWon' \/ \E d \in Calls : state'[d] \in Underway /\ request'[d] = k
    BY <1>1, <1>3, <2>1 DEF ConsumerInv
  <2> QED
    BY <2>2, <2>3, <2>4 DEF ConsumerInv
<1> QED
  BY <1>4, <1>5, <1>6, <1>7 DEF EventInv

LEMMA DeliverStep ==
  ASSUME EventInv, StoreInv, NEW c \in Calls, NEW e \in Ids, Deliver(c, e)
  PROVE  EventInv'
<1>1. /\ ~held[c] /\ copies[e] > Cardinality(Handling(e))
      /\ UNCHANGED <<outboxVars, copies, bus, ran, everWon>>
      /\ request' = [request EXCEPT ![c] = e] /\ held' = [held EXCEPT ![c] = TRUE]
      /\ state[c] \notin Underway /\ state' = [state EXCEPT ![c] = "entering"]
      /\ todo' = [todo EXCEPT ![c] = bus] /\ failing' = [failing EXCEPT ![c] = FALSE]
      /\ tries' = [tries EXCEPT ![e] = 1 + IF e \in everWon /\ e \notin completed' THEN 0 ELSE @]
      /\ e \notin completed' /\ pending[e] = NoCall
      /\ \A d \in Calls : state[d] = "entering" => request[d] # e
  BY DEF Deliver, Begin, Enter, Known, Active, Hold, Flying, Busy, Answers
<1>2. EventTypeOK /\ OutboxInv /\ BrokerInv /\ ConsumerInv
      /\ request \in [Calls -> Ids] /\ state \in [Calls -> {"idle"} \cup Busy \cup Answers]
  BY DEF EventInv, StoreInv, FlightInv, FlightTypeOK
<1>3. BrokerInv'
  BY <1>1, <1>2, HandOut
<1>4. OutboxInv' /\ Claimable' = Claimable
  BY <1>1, <1>2, OutboxIsLeft DEF Delivered, Handled
<1>5. \A d \in Calls : ~(state[d] \in Underway /\ request[d] = e)
  <2>1. ASSUME NEW d \in Calls, state[d] \in Underway, request[d] = e
        PROVE  FALSE
    <3>1. state[d] = "working"
      BY <1>1, <2>1
    <3>2. pending[e] = d
      BY <2>1, <3>1 DEF StoreInv, FlightInv, OneFlightPerId, Flying
    <3> QED
      BY <1>1, <3>2, IdempotencyAssumption
  <2> QED
    BY <2>1
<1>6. tries' = [tries EXCEPT ![e] = 1]
  <2>1. CASE e \in everWon
    BY <1>1, <2>1
  <2>2. CASE e \notin everWon
    <3>1. tries[e] = 0
      BY <1>2, <1>5, <2>2 DEF EventTypeOK, ConsumerInv
    <3> QED
      BY <1>1, <2>2, <3>1
  <2> QED
    BY <2>1, <2>2
<1>7. EventTypeOK'
  <2>1. held' \in [Calls -> BOOLEAN] /\ failing' \in [Calls -> BOOLEAN]
    BY <1>1, <1>2 DEF EventTypeOK
  <2>2. todo' \in [Calls -> Seq(Handlers)]
    BY <1>1, <1>2 DEF EventTypeOK
  <2>3. tries' \in [Ids -> {0, 1}]
    BY <1>2, <1>6 DEF EventTypeOK
  <2>4. record' = record /\ batch' = batch /\ step' = step
    BY <1>1 DEF outboxVars
  <2> QED
    BY <1>1, <1>2, <1>4, <2>1, <2>2, <2>3, <2>4 DEF EventTypeOK
<1>8. ConsumerInv'
  <2>1. \A d \in Calls \ {c} : /\ state'[d] = state[d] /\ request'[d] = request[d]
                               /\ todo'[d] = todo[d] /\ failing'[d] = failing[d]
    BY <1>1, <1>2 DEF EventTypeOK
  <2>2. state'[c] \in Underway /\ request'[c] = e /\ todo'[c] = bus
    BY <1>1, <1>2 DEF EventTypeOK
  <2>3. /\ Range(Resident) \subseteq Range(bus')
        /\ \A k \in everWon' : Handled(k)'
    BY <1>1, <1>2 DEF ConsumerInv, Handled
  <2>4. ASSUME NEW d \in Calls, state'[d] \in Underway, ~failing'[d]
        PROVE  Range(Resident) \subseteq ran'[request'[d]] \cup Range(todo'[d])
    <3>1. CASE d = c
      BY <1>2, <2>2, <3>1 DEF ConsumerInv
    <3>2. CASE d # c
      BY <1>1, <1>2, <2>1, <2>4, <3>2 DEF ConsumerInv
    <3> QED
      BY <3>1, <3>2
  <2>5. ASSUME NEW k \in Ids, tries'[k] = 1, k \notin everWon'
        PROVE  \E d \in Calls : state'[d] \in Underway /\ request'[d] = k
    <3>1. CASE k = e
      BY <2>2, <3>1
    <3>2. CASE k # e
      <4>1. tries[k] = 1 /\ k \notin everWon
        BY <1>1, <1>2, <1>6, <2>5, <3>2 DEF EventTypeOK
      <4>2. PICK d \in Calls : state[d] \in Underway /\ request[d] = k
        BY <1>2, <4>1 DEF ConsumerInv
      <4> QED
        BY <1>1, <2>1, <4>2
    <3> QED
      BY <3>1, <3>2
  <2> QED
    BY <2>3, <2>4, <2>5 DEF ConsumerInv
<1> QED
  BY <1>3, <1>4, <1>7, <1>8 DEF EventInv

\* What a step of a delivery keeps, if it leaves the broker alone.
LEMMA BrokerIsLeft ==
  ASSUME EventTypeOK, BrokerInv, UNCHANGED <<held, request, copies>>
  PROVE  BrokerInv'
<1>1. ASSUME NEW e \in Ids
      PROVE  IsFiniteSet(Handling(e)') /\ Cardinality(Handling(e)') <= copies'[e]
  <2>1. Handling(e)' \subseteq Handling(e) /\ copies'[e] = copies[e]
    BY DEF Handling
  <2> QED
    BY <2>1, NoMoreCalls
<1> QED
  BY <1>1 DEF BrokerInv

LEMMA RunHandlerStep ==
  ASSUME EventInv, StoreInv, NEW c \in Calls, RunHandler(c)
  PROVE  EventInv'
<1> DEFINE e == request[c]
           h == Head(todo[c])
<1>1. /\ UNCHANGED <<outboxVars, copies, held, bus, tries, request, state, everWon>>
      /\ state[c] \in Underway /\ todo[c] # <<>>
  BY DEF RunHandler, idemVars, callVars, history
<1>2. EventTypeOK /\ OutboxInv /\ BrokerInv /\ ConsumerInv /\ e \in Ids
  BY DEF EventInv, StoreInv, FlightInv, FlightTypeOK
<1>3. /\ todo[c] \in Seq(Handlers) /\ h \in Handlers /\ Tail(todo[c]) \in Seq(Handlers)
      /\ Range(todo[c]) = {h} \cup Range(Tail(todo[c]))
  <2>1. todo[c] \in Seq(Handlers)
    BY <1>2 DEF EventTypeOK
  <2> QED
    BY <1>1, <2>1, HeadAndTail
<1>4. \/ /\ ran' = [ran EXCEPT ![e] = @ \cup {h}]
         /\ todo' = [todo EXCEPT ![c] = Tail(todo[c])]
         /\ failing' = failing
      \/ /\ failing' = [failing EXCEPT ![c] = TRUE]
         /\ \E rest \in {Tail(todo[c]), <<>>} : todo' = [todo EXCEPT ![c] = rest]
         /\ ran' = ran
  BY DEF RunHandler
<1> HIDE DEF e, h
<1>5. /\ failing' \in [Calls -> BOOLEAN] /\ todo' \in [Calls -> Seq(Handlers)]
      /\ ran' \in [Ids -> SUBSET Handlers]
  <2>1. /\ failing \in [Calls -> BOOLEAN] /\ todo \in [Calls -> Seq(Handlers)]
        /\ ran \in [Ids -> SUBSET Handlers]
    BY <1>2 DEF EventTypeOK
  <2>2. \A S : <<>> \in Seq(S)
    OBVIOUS
  <2>3. <<>> \in Seq(Handlers)
    BY <2>2
  <2> QED
    BY <1>2, <1>3, <1>4, <2>1, <2>3
<1>6. /\ \A k \in Ids : ran[k] \subseteq ran'[k]
      /\ \A d \in Calls \ {c} : todo'[d] = todo[d] /\ failing'[d] = failing[d]
      /\ ~failing'[c] => ~failing[c] /\ Range(todo[c]) \subseteq ran'[e] \cup Range(todo'[c])
  <2>1. /\ failing \in [Calls -> BOOLEAN] /\ todo \in [Calls -> Seq(Handlers)]
        /\ ran \in [Ids -> SUBSET Handlers]
    BY <1>2 DEF EventTypeOK
  <2> QED
    BY <1>2, <1>3, <1>4, <2>1
<1>7. \A k \in Ids : Handled(k) => Handled(k)'
  BY <1>6 DEF Handled
<1>8. OutboxInv' /\ Claimable' = Claimable
  BY <1>1, <1>2, <1>7, OutboxIsLeft DEF Delivered
<1>9. BrokerInv'
  BY <1>1, <1>2, BrokerIsLeft
<1>10. EventTypeOK'
  <2>1. record' = record /\ batch' = batch /\ step' = step
    BY <1>1 DEF outboxVars
  <2> QED
    BY <1>1, <1>2, <1>5, <1>8, <2>1 DEF EventTypeOK
<1>11. ConsumerInv'
  <2>1. ASSUME NEW d \in Calls, state'[d] \in Underway, ~failing'[d]
        PROVE  Range(Resident) \subseteq ran'[request'[d]] \cup Range(todo'[d])
    <3>1. request[d] \in Ids
      BY DEF StoreInv, FlightInv, FlightTypeOK
    <3>2. ~failing[d] /\ ran[request[d]] \subseteq ran'[request[d]]
          /\ Range(todo[d]) \subseteq ran'[request[d]] \cup Range(todo'[d])
      BY <1>6, <2>1, <3>1 DEF e
    <3>3. Range(Resident) \subseteq ran[request[d]] \cup Range(todo[d])
      BY <1>1, <1>2, <2>1, <3>2 DEF ConsumerInv
    <3> QED
      BY <1>1, <3>2, <3>3
  <2>2. \A k \in everWon' : Handled(k)'
    BY <1>1, <1>2, <1>7 DEF ConsumerInv, StoreInv, RememberInv, Recency
  <2>3. \A k \in Ids : tries'[k] = 1 =>
          k \in everWon' \/ \E d \in Calls : state'[d] \in Underway /\ request'[d] = k
    BY <1>1, <1>2 DEF ConsumerInv
  <2> QED
    BY <1>1, <1>2, <2>1, <2>2, <2>3 DEF ConsumerInv
<1> QED
  BY <1>8, <1>9, <1>10, <1>11 DEF EventInv

\* When the last handler has run, and none has failed, all have succeeded.
LEMMA EndEmitStep ==
  ASSUME EventInv, StoreInv, NEW c \in Calls, EndEmit(c)
  PROVE  EventInv'
<1> DEFINE e == request[c]
<1>1. /\ UNCHANGED <<outboxVars, copies, held, bus, todo, failing, ran, request>>
      /\ state[c] \in Underway /\ todo[c] = <<>>
  BY DEF EndEmit, WorkSucceeds, WorkFails
<1>2. /\ EventTypeOK /\ OutboxInv /\ BrokerInv /\ ConsumerInv /\ e \in Ids
      /\ state \in [Calls -> {"idle"} \cup Busy \cup Answers]
  BY DEF EventInv, StoreInv, FlightInv, FlightTypeOK
<1>3. \/ /\ ~failing[c] /\ everWon' = everWon \cup {e} /\ tries' = tries
      \/ /\ everWon' = everWon /\ tries' = [tries EXCEPT ![e] = 0]
  BY DEF EndEmit, Failures, WorkSucceeds, WorkFails, history
<1>4. PICK to \in {"worked", "broke"} : state' = [state EXCEPT ![c] = to]
  BY DEF EndEmit, WorkSucceeds, WorkFails
<1>5. ~failing[c] => Handled(e)
  <2>1. Range(todo[c]) = {}
    BY <1>1 DEF Range
  <2> QED
    BY <1>1, <1>2, <2>1 DEF ConsumerInv, Handled
<1> HIDE DEF e
<1>6. OutboxInv' /\ Claimable' = Claimable
  BY <1>1, <1>2, OutboxIsLeft DEF Delivered, Handled
<1>7. BrokerInv'
  BY <1>1, <1>2, BrokerIsLeft
<1>8. EventTypeOK'
  <2>1. tries' \in [Ids -> {0, 1}]
    BY <1>2, <1>3 DEF EventTypeOK
  <2>2. record' = record /\ batch' = batch /\ step' = step
    BY <1>1 DEF outboxVars
  <2> QED
    BY <1>1, <1>2, <1>6, <2>1, <2>2 DEF EventTypeOK
<1>9. ConsumerInv'
  <2>1. state'[c] \notin Underway /\ \A d \in Calls \ {c} : state'[d] = state[d]
    BY <1>2, <1>4
  <2>2. \A d \in Calls : state'[d] \in Underway /\ ~failing'[d] =>
          Range(Resident) \subseteq ran'[request'[d]] \cup Range(todo'[d])
    BY <1>1, <1>2, <2>1 DEF ConsumerInv
  <2>3. \A k \in everWon' : Handled(k)'
    BY <1>1, <1>2, <1>3, <1>5 DEF ConsumerInv, Handled
  <2>4. ASSUME NEW k \in Ids, tries'[k] = 1, k \notin everWon'
        PROVE  \E d \in Calls : state'[d] \in Underway /\ request'[d] = k
    <3>1. k # e /\ tries[k] = 1 /\ k \notin everWon
      <4>1. tries \in [Ids -> {0, 1}]
        BY <1>2 DEF EventTypeOK
      <4>2. CASE tries' = tries /\ everWon' = everWon \cup {e}
        BY <2>4, <4>2
      <4>3. CASE everWon' = everWon /\ tries' = [tries EXCEPT ![e] = 0]
        BY <1>2, <2>4, <4>1, <4>3
      <4> QED
        BY <1>3, <4>2, <4>3
    <3>2. PICK d \in Calls : state[d] \in Underway /\ request[d] = k
      BY <1>2, <3>1 DEF ConsumerInv
    <3>3. d # c
      BY <3>1, <3>2 DEF e
    <3> QED
      BY <1>1, <2>1, <3>2, <3>3
  <2>5. Range(Resident) \subseteq Range(bus')
    BY <1>1, <1>2 DEF ConsumerInv
  <2> QED
    BY <2>2, <2>3, <2>4, <2>5 DEF ConsumerInv
<1> QED
  BY <1>6, <1>7, <1>8, <1>9 DEF EventInv

\* Steps that leave the deliveries alone, if calls that work go on.
LEMMA DeliveriesAreLeft ==
  ASSUME ConsumerInv, UNCHANGED <<request, everWon, deliveryVars>>,
         Range(Resident) \subseteq Range(bus'),
         \A d \in Calls : state'[d] \in Underway <=> state[d] \in Underway
  PROVE  ConsumerInv'
BY DEF ConsumerInv, Handled, deliveryVars

LEMMA SettleStep ==
  ASSUME EventInv, StoreInv, NEW c \in Calls, SettleDelivery(c) \/ DeliveryReturns(c)
  PROVE  EventInv'
<1>1. UNCHANGED <<outboxVars, copies, held, bus, deliveryVars, request, everWon>>
  BY DEF SettleDelivery, Settle, DeliveryReturns, Register, eventVars, history
<1>2. EventTypeOK /\ OutboxInv /\ BrokerInv /\ ConsumerInv
  BY DEF EventInv
<1>3. \A d \in Calls : state'[d] \in Underway <=> state[d] \in Underway
  <2>1. state \in [Calls -> {"idle"} \cup Busy \cup Answers]
    BY DEF StoreInv, FlightInv, FlightTypeOK
  <2>2. CASE SettleDelivery(c)
    BY <2>2 DEF SettleDelivery, Settle, Waiting, Outcome
  <2>3. CASE DeliveryReturns(c)
    BY <2>1, <2>3 DEF DeliveryReturns, Register
  <2> QED
    BY <2>2, <2>3
<1>4. OutboxInv' /\ Claimable' = Claimable
  BY <1>1, <1>2, OutboxIsLeft DEF Delivered, Handled, deliveryVars
<1>5. BrokerInv'
  BY <1>1, <1>2, BrokerIsLeft
<1>6. ConsumerInv'
  BY <1>1, <1>2, <1>3, DeliveriesAreLeft DEF ConsumerInv
<1>7. EventTypeOK'
  <2>1. UNCHANGED <<record, batch, step, copies, held, bus, todo, failing, ran, tries>>
    BY <1>1 DEF outboxVars, deliveryVars
  <2> QED
    BY <1>2, <1>4, <2>1 DEF EventTypeOK
<1> QED
  BY <1>4, <1>5, <1>6, <1>7 DEF EventInv

\* A delivery is acknowledged when all handlers have run for its event.
LEMMA AcknowledgeStep ==
  ASSUME EventInv, StoreInv, NEW c \in Calls, Acknowledge(c)
  PROVE  EventInv'
<1>0. PICK e \in Ids : e = request[c]
  BY DEF StoreInv, FlightInv, FlightTypeOK
<1>1. /\ UNCHANGED <<outboxVars, bus, deliveryVars, request, everWon, state>>
      /\ held[c] /\ held' = [held EXCEPT ![c] = FALSE]
      /\ copies' = IF state[c] = "ok" THEN [copies EXCEPT ![e] = @ - 1] ELSE copies
  BY <1>0 DEF Acknowledge, idemVars, callVars, history
<1>2. EventTypeOK /\ OutboxInv /\ BrokerInv /\ ConsumerInv
  BY DEF EventInv
<1>3. held \in [Calls -> BOOLEAN] /\ copies \in [Ids -> Nat]
  BY <1>2 DEF EventTypeOK
<1>4. state[c] = "ok" => Handled(e)
  BY <1>0, <1>2 DEF StoreInv, RememberInv, ConsumerInv
<1>5. c \in Handling(e) /\ Handling(e)' = Handling(e) \ {c}
  BY <1>0, <1>1, <1>3 DEF Handling
<1>6. \A d \in Ids : Handling(d)' \subseteq Handling(d)
  BY <1>1, <1>3 DEF Handling
<1>7. /\ copies[e] > 0
      /\ IsFiniteSet(Handling(e)') /\ Cardinality(Handling(e)') <= copies[e] - 1
  <2>1. /\ IsFiniteSet(Handling(e)) /\ Cardinality(Handling(e)) \in Nat
        /\ Cardinality(Handling(e)) <= copies[e]
    BY <1>2, FS_CardinalityType DEF BrokerInv
  <2>2. IsFiniteSet(Handling(e) \ {c}) /\ Cardinality(Handling(e) \ {c}) = Cardinality(Handling(e)) - 1
    BY <1>5, <2>1, FS_RemoveElement
  <2>3. Cardinality(Handling(e) \ {c}) \in Nat
    BY <2>2, FS_CardinalityType
  <2> QED
    BY <1>2, <1>3, <1>5, <2>1, <2>2, <2>3
<1>8. /\ copies' \in [Ids -> Nat]
      /\ \A d \in Ids \ {e} : copies'[d] = copies[d]
      /\ copies'[e] = copies[e] \/ (copies'[e] = copies[e] - 1 /\ state[c] = "ok")
  BY <1>1, <1>2, <1>3, <1>7
<1>9. BrokerInv'
  <2>1. ASSUME NEW d \in Ids, copies'[d] = copies[d]
        PROVE  IsFiniteSet(Handling(d)') /\ Cardinality(Handling(d)') <= copies'[d]
    BY <1>2, <1>6, <2>1, NoMoreCalls
  <2>2. IsFiniteSet(Handling(e)') /\ Cardinality(Handling(e)') <= copies'[e]
    BY <1>2, <1>7, <1>8, <2>1
  <2> QED
    BY <1>8, <2>1, <2>2 DEF BrokerInv
<1>10. \A d \in Ids : Delivered(d) => Delivered(d)'
  <2>1. ASSUME NEW d \in Ids, Delivered(d)
        PROVE  Delivered(d)'
    <3>1. Handled(d) => Handled(d)'
      BY <1>1 DEF Handled, deliveryVars
    <3>2. CASE copies'[d] = copies[d]
      BY <2>1, <3>1, <3>2 DEF Delivered
    <3>3. CASE copies'[d] # copies[d]
      BY <1>4, <1>8, <3>1, <3>3 DEF Delivered
    <3> QED
      BY <3>2, <3>3
  <2> QED
    BY <2>1
<1>11. OutboxInv' /\ Claimable' = Claimable
  BY <1>1, <1>2, <1>10, OutboxIsLeft
<1>12. ConsumerInv'
  BY <1>1, <1>2, DeliveriesAreLeft DEF ConsumerInv
<1>13. EventTypeOK'
  <2>1. UNCHANGED <<record, batch, step, bus, todo, failing, ran, tries>>
    BY <1>1 DEF outboxVars, deliveryVars
  <2>2. held' \in [Calls -> BOOLEAN]
    BY <1>1, <1>3
  <2> QED
    BY <1>2, <1>8, <1>11, <2>1, <2>2 DEF EventTypeOK
<1> QED
  BY <1>9, <1>11, <1>12, <1>13 DEF EventInv

\* The consumer forgets its deliveries, and the broker keeps every copy.
LEMMA CrashStep ==
  ASSUME EventInv, CrashConsumer
  PROVE  EventInv'
<1>1. /\ UNCHANGED <<outboxVars, copies, ran, request, everWon>>
      /\ held' = [c \in Calls |-> FALSE] /\ state' = [c \in Calls |-> "idle"]
      /\ todo' = [c \in Calls |-> <<>>] /\ failing' = [c \in Calls |-> FALSE]
      /\ tries' = [e \in Ids |-> 0] /\ bus' = Resident
  BY DEF CrashConsumer
<1>2. EventTypeOK /\ OutboxInv /\ BrokerInv /\ ConsumerInv
  BY DEF EventInv
<1>3. OutboxInv' /\ Claimable' = Claimable
  BY <1>1, <1>2, OutboxIsLeft DEF Delivered, Handled
<1>4. BrokerInv'
  <2>1. ASSUME NEW e \in Ids
        PROVE  IsFiniteSet(Handling(e)') /\ Cardinality(Handling(e)') <= copies'[e]
    <3>1. Handling(e)' \subseteq Handling(e) /\ copies'[e] = copies[e]
      BY <1>1 DEF Handling
    <3> QED
      BY <1>2, <3>1, NoMoreCalls
  <2> QED
    BY <2>1 DEF BrokerInv
<1>5. ConsumerInv'
  BY <1>1, <1>2 DEF ConsumerInv, Handled
<1>6. EventTypeOK'
  <2>1. todo' \in [Calls -> Seq(Handlers)]
    <3>1. \A S : <<>> \in Seq(S)
      OBVIOUS
    <3>2. <<>> \in Seq(Handlers)
      BY <3>1
    <3> QED
      BY <1>1, <3>2, Zenon
  <2>2. bus' \in Seq(Handlers)
    BY <1>1, ResidentIsSeq
  <2>3. /\ held' \in [Calls -> BOOLEAN] /\ failing' \in [Calls -> BOOLEAN]
        /\ tries' \in [Ids -> {0, 1}]
    BY <1>1
  <2>4. UNCHANGED <<record, batch, step, copies, ran>>
    BY <1>1 DEF outboxVars
  <2> QED
    BY <1>2, <1>3, <2>1, <2>2, <2>3, <2>4 DEF EventTypeOK
<1> QED
  BY <1>3, <1>4, <1>5, <1>6 DEF EventInv

\* Removing an element of a sequence keeps the others.
LEMMA OthersStay ==
  ASSUME NEW S, NEW s \in Seq(S), NEW h \in Range(s)
  PROVE  /\ RemoveFirst(s, h) \in Seq(S)
         /\ Range(s) \ {h} \subseteq Range(RemoveFirst(s, h))
<1> DEFINE n == Len(s)
           I == { i \in 1..n : s[i] = h }
           k == Min(I)
           front == SubSeq(s, 1, k - 1)
           back == SubSeq(s, k + 1, n)
<1>1. n \in Nat /\ \A i \in 1..n : s[i] \in S
  OBVIOUS
<1>2. Range(s) = { s[i] : i \in 1..n }
  BY RangeEquality
<1> HIDE DEF n
<1>3. I \in SUBSET Nat /\ I # {}
  BY <1>1, <1>2
<1>4. k \in I
  <2> DEFINE Least(x) == \A y \in I : x <= y
  <2>1. \E x \in I : Least(x)
    BY <1>3, LeastNumber
  <2>2. k = CHOOSE x \in I : Least(x)
    BY DEF Min
  <2> HIDE DEF Least, k, I
  <2> QED
    BY <2>1, <2>2
<1>5. RemoveFirst(s, h) = front \o back
  <2>1. \E i \in 1..Len(s) : s[i] = h
    BY <1>4 DEF n
  <2>2. RemoveFirst(s, h) = RemoveAt(s, SelectInSeq(s, LAMBDA v : v = h))
    BY <2>1 DEF RemoveFirst
  <2>3. SelectInSeq(s, LAMBDA v : v = h) = k
    BY <1>3 DEF SelectInSeq, n
  <2> QED
    BY <2>2, <2>3 DEF RemoveAt, n
<1>6. k \in 1..n /\ s[k] = h
  BY <1>4
<1> HIDE DEF k, I
<1>7. /\ front \in Seq(S) /\ Len(front) = k - 1
      /\ \A i \in 1..(k - 1) : front[i] = s[i]
  <2>1. k - 1 \in Int /\ 1 \in Int /\ \A i \in 1..(k - 1) : s[i] \in S
    BY <1>1, <1>6
  <2>2. /\ SubSeq(s, 1, k - 1) \in Seq(S)
        /\ Len(SubSeq(s, 1, k - 1)) = IF 1 <= k - 1 THEN (k - 1) - 1 + 1 ELSE 0
        /\ \A i \in 1..((k - 1) - 1 + 1) : SubSeq(s, 1, k - 1)[i] = s[1 + i - 1]
    BY <2>1, SubSeqProperties
  <2> QED
    BY <1>6, <2>2
<1>8. /\ back \in Seq(S) /\ Len(back) = n - k
      /\ \A i \in 1..(n - k) : back[i] = s[k + i]
  <2>1. k + 1 \in Int /\ n \in Int /\ \A i \in (k + 1)..n : s[i] \in S
    BY <1>1, <1>6
  <2>2. /\ SubSeq(s, k + 1, n) \in Seq(S)
        /\ Len(SubSeq(s, k + 1, n)) = IF k + 1 <= n THEN n - (k + 1) + 1 ELSE 0
        /\ \A i \in 1..(n - (k + 1) + 1) : SubSeq(s, k + 1, n)[i] = s[(k + 1) + i - 1]
    BY <2>1, SubSeqProperties
  <2> QED
    BY <1>1, <1>6, <2>2
<1> HIDE DEF front, back
<1>9. front \o back \in Seq(S) /\ Range(front \o back) = Range(front) \cup Range(back)
  <2>1. front \o back \in Seq(S)
    BY <1>7, <1>8, ConcatProperties
  <2> QED
    BY <1>7, <1>8, <2>1, RangeConcatenation
<1>10. /\ Range(front) = { front[i] : i \in 1..(k - 1) }
       /\ Range(back) = { back[i] : i \in 1..(n - k) }
  <2>1. Range(front) = { front[i] : i \in 1..Len(front) }
    BY <1>7, RangeEquality
  <2>2. Range(back) = { back[i] : i \in 1..Len(back) }
    BY <1>8, RangeEquality
  <2> QED
    BY <1>7, <1>8, <2>1, <2>2
<1>11. ASSUME NEW g \in Range(s), g # h
       PROVE  g \in Range(front) \cup Range(back)
  <2>1. PICK i \in 1..n : s[i] = g
    BY <1>2
  <2>2. CASE i < k
    <3>1. i \in 1..(k - 1)
      BY <1>6, <2>2
    <3> QED
      BY <1>7, <1>10, <2>1, <3>1
  <2>3. CASE i > k
    <3>1. i - k \in 1..(n - k) /\ k + (i - k) = i
      BY <1>1, <1>6, <2>3
    <3>2. back[i - k] = g
      BY <1>8, <2>1, <3>1
    <3> QED
      BY <1>10, <3>1, <3>2
  <2> QED
    BY <1>6, <1>11, <2>1, <2>2, <2>3
<1> QED
  BY <1>5, <1>9, <1>11

LEMMA AppendKeeps ==
  ASSUME NEW S, NEW s \in Seq(S), NEW x \in S
  PROVE  Range(s) \subseteq Range(Append(s, x))
<1>1. /\ Len(s) \in Nat /\ Append(s, x) \in Seq(S) /\ Len(Append(s, x)) = Len(s) + 1
      /\ \A i \in 1..Len(s) : Append(s, x)[i] = s[i]
  BY AppendProperties
<1>2. /\ Range(s) = { s[i] : i \in 1..Len(s) }
      /\ Range(Append(s, x)) = { Append(s, x)[i] : i \in 1..Len(Append(s, x)) }
  BY <1>1, RangeEquality
<1>3. \A i \in 1..Len(s) : i \in 1..Len(Append(s, x))
  BY <1>1
<1> QED
  BY <1>1, <1>2, <1>3

\* Only visitors come and go.
LEMMA BusStep ==
  ASSUME EventInv, NEW h \in Visitors, Subscribe(h) \/ Unsubscribe(h)
  PROVE  EventInv'
<1>1. UNCHANGED <<idemVars, outboxVars, copies, held, deliveryVars, state, request, everWon>>
  BY DEF Subscribe, Unsubscribe, idemVars, callVars, history
<1>2. EventTypeOK /\ OutboxInv /\ BrokerInv /\ ConsumerInv
  BY DEF EventInv
<1>3. /\ bus \in Seq(Handlers) /\ Range(Resident) \subseteq Range(bus)
      /\ h \in Handlers /\ h \notin Range(Resident)
  BY <1>2, EventDeliveryAssumption DEF EventTypeOK, ConsumerInv, Handlers
<1>4. bus' \in Seq(Handlers) /\ Range(Resident) \subseteq Range(bus')
  <2>1. CASE Subscribe(h)
    <3>1. bus' = Append(bus, h)
      BY <2>1 DEF Subscribe
    <3>2. bus' \in Seq(Handlers)
      BY <1>3, <3>1, AppendProperties
    <3>3. Range(bus) \subseteq Range(Append(bus, h))
      BY <1>3, AppendKeeps
    <3> QED
      BY <1>3, <3>1, <3>2, <3>3
  <2>2. CASE Unsubscribe(h)
    <3>1. h \in Range(bus) /\ bus' = RemoveFirst(bus, h)
      BY <2>2 DEF Unsubscribe
    <3>2. bus' \in Seq(Handlers) /\ Range(bus) \ {h} \subseteq Range(bus')
      BY <1>3, <3>1, OthersStay
    <3> QED
      BY <1>3, <3>2
  <2> QED
    BY <2>1, <2>2
<1>5. OutboxInv' /\ Claimable' = Claimable
  BY <1>1, <1>2, OutboxIsLeft DEF Delivered, Handled, deliveryVars
<1>6. BrokerInv'
  BY <1>1, <1>2, BrokerIsLeft
<1>7. ConsumerInv'
  BY <1>1, <1>2, <1>4, DeliveriesAreLeft
<1>8. EventTypeOK'
  <2>1. UNCHANGED <<record, batch, step, copies, held, todo, failing, ran, tries>>
    BY <1>1 DEF outboxVars, deliveryVars
  <2> QED
    BY <1>2, <1>4, <1>5, <2>1 DEF EventTypeOK
<1> QED
  BY <1>5, <1>6, <1>7, <1>8 DEF EventInv

\* Time passes, or nothing happens.
LEMMA NothingHappens ==
  ASSUME EventInv, UNCHANGED <<outboxVars, copies, held, bus, deliveryVars, callVars, everWon>>
  PROVE  EventInv'
<1>1. UNCHANGED <<record, batch, step, copies, held, bus, todo, failing, ran, tries,
                  state, request, everWon>>
  BY DEF outboxVars, deliveryVars, callVars
<1>2. EventTypeOK /\ OutboxInv /\ BrokerInv /\ ConsumerInv
  BY DEF EventInv
<1>3. OutboxInv' /\ Claimable' = Claimable
  BY <1>1, <1>2, OutboxIsLeft DEF Delivered, Handled
<1>4. BrokerInv'
  BY <1>1, <1>2, BrokerIsLeft
<1>5. ConsumerInv'
  BY <1>1, <1>2 DEF ConsumerInv, Handled
<1>6. EventTypeOK'
  BY <1>1, <1>2, <1>3 DEF EventTypeOK
<1> QED
  BY <1>3, <1>4, <1>5, <1>6 DEF EventInv

LEMMA EventStep ==
  ASSUME EventInv, StoreInv, [Next]_vars
  PROVE  EventInv'
<1>1. CASE \E e \in Ids : Enqueue(e) \/ EndTransaction(e) \/ RecoverLease(e) \/ LeaseExpires(e)
  BY <1>1, RecordStep
<1>2. CASE \E w \in Workers : PublisherStep(w) \/ AbandonBatch(w)
  <2>1. PICK w \in Workers : Claim(w) \/ Publish(w) \/ Mark(w) \/ AbandonBatch(w)
    BY <1>2 DEF PublisherStep
  <2> QED
    BY <2>1, ClaimStep, PublishStep, VerdictStep
<1>3. CASE \E e \in Ids : BrokerStep(e)
  <2>1. PICK e \in Ids, c \in Calls : Answered(c, e) \/ Deliver(c, e)
    BY <1>3 DEF BrokerStep
  <2> QED
    BY <2>1, AnsweredStep, DeliverStep
<1>4. CASE \E c \in Calls : ConsumerStep(c)
  <2>1. PICK c \in Calls : \/ DeliveryReturns(c) \/ RunHandler(c) \/ EndEmit(c)
                           \/ SettleDelivery(c) \/ Acknowledge(c)
    BY <1>4 DEF ConsumerStep
  <2> QED
    BY <2>1, RunHandlerStep, EndEmitStep, SettleStep, AcknowledgeStep
<1>5. CASE \E h \in Visitors : Subscribe(h) \/ Unsubscribe(h)
  BY <1>5, BusStep
<1>6. CASE CrashConsumer
  BY <1>6, CrashStep
<1>7. CASE Elapse
  <2>1. UNCHANGED <<outboxVars, copies, held, bus, deliveryVars, callVars, everWon>>
    BY <1>7 DEF Elapse, Tick, eventVars, history
  <2> QED
    BY <2>1, NothingHappens
<1>8. CASE UNCHANGED vars
  <2>1. UNCHANGED <<outboxVars, copies, held, bus, deliveryVars, callVars, everWon>>
    BY <1>8 DEF vars, eventVars, idemVars, history
  <2> QED
    BY <2>1, NothingHappens
<1> QED
  BY <1>1, <1>2, <1>3, <1>4, <1>5, <1>6, <1>7, <1>8 DEF Next

\* An event whose transaction has committed is still owed by the outbox or the
\* broker, or every resident handler has run for it; and however many copies the
\* broker holds, the handlers run again for an event only after a delivery of it
\* has failed, or the consumer has crashed or forgotten it (outbox.ts:99,
\* bus.ts:55): for any number of events, workers, calls, handlers, failures and
\* crashes.
THEOREM NeitherLostNorRepeatedAlways == Spec => []NeitherLostNorRepeated
<1>1. Init => EventInv /\ StoreInv
  BY EventStart
<1>2. EventInv /\ StoreInv /\ [Next]_vars => EventInv' /\ StoreInv'
  BY EventStep, EventStepsTheStore
<1>3. EventInv => NeitherLostNorRepeated
  <2> SUFFICES ASSUME EventInv PROVE NeitherLostNorRepeated
    OBVIOUS
  <2>1. EventTypeOK /\ OutboxInv
    BY DEF EventInv
  <2>2. ASSUME NEW e \in Ids, record[e] = "published", copies[e] = 0
        PROVE  Range(Resident) \subseteq ran[e]
    <3>1. Delivered(e)
      BY <2>1, <2>2 DEF OutboxInv
    <3> QED
      BY <2>2, <3>1 DEF Delivered, Handled
  <2>3. \A e \in Ids : tries[e] <= 1
    <3>1. tries \in [Ids -> {0, 1}]
      BY <2>1 DEF EventTypeOK
    <3> QED
      BY <3>1
  <2> QED
    BY <2>2, <2>3 DEF NeitherLostNorRepeated
<1> QED
  BY <1>1, <1>2, <1>3, PTL DEF Spec

\* With its deliveries the consumer's store keeps what it promises (idempotency.ts),
\* its restarts included.
THEOREM ConsumerRemembers == Spec => [](OneFlightPerId /\ OncePerWindow /\ RemembersSuccesses)
<1>1. Init => StoreInv
  BY EventStart
<1>2. StoreInv /\ [Next]_vars => StoreInv'
  BY EventStepsTheStore
<1>3. StoreInv => OneFlightPerId /\ OncePerWindow /\ RemembersSuccesses
  BY DEF StoreInv, FlightInv, RememberInv
<1> QED
  BY <1>1, <1>2, <1>3, PTL DEF Spec

-----------------------------------------------------------------------------
(* The channel that it implements.                                         *)

Committed == { e \in Ids : record[e] \in {"pending", "claimed", "published"} }

\* Nothing that was rolled back leaves the outbox, and a delivery goes on only while
\* the broker waits for it.
CommittedInv ==
  /\ batch \in [Workers -> Seq(Committed)]
  /\ \A e \in Ids : copies[e] > 0 => e \in Committed
  /\ \A c \in Calls : state[c] \in Underway => held[c]

LEMMA SeqGrows ==
  ASSUME NEW S, NEW T, S \subseteq T, NEW s \in Seq(S)
  PROVE  s \in Seq(T)
OBVIOUS

\* What has been committed stays so, unless the outbox writes something else.
LEMMA RecordsStayCommitted ==
  ASSUME EventTypeOK,
         \A e \in Ids : \/ record'[e] = record[e]
                        \/ record'[e] \in {"pending", "claimed", "published"}
  PROVE  Committed \subseteq Committed'
BY DEF Committed

\* Batches that are left alone or cut short, and copies of what they hold.
LEMMA CommittedStays ==
  ASSUME EventTypeOK, CommittedInv, Committed \subseteq Committed',
         \A w \in Workers : batch'[w] = batch[w] \/ batch'[w] = <<>> \/
                            (batch[w] # <<>> /\ batch'[w] = Tail(batch[w])),
         batch' \in [Workers -> Seq(Ids)],
         \A e \in Ids : copies'[e] > 0 => copies[e] > 0 \/ e \in Committed,
         \A c \in Calls : state'[c] \in Underway => held'[c]
  PROVE  CommittedInv'
<1>1. ASSUME NEW w \in Workers
      PROVE  batch'[w] \in Seq(Committed')
  <2>1. batch[w] \in Seq(Committed')
    BY SeqGrows DEF CommittedInv
  <2>2. \A S : <<>> \in Seq(S)
    OBVIOUS
  <2>3. CASE batch[w] # <<>> /\ batch'[w] = Tail(batch[w])
    BY <2>1, <2>3
  <2> QED
    BY <2>1, <2>2, <2>3
<1>2. batch' \in [Workers -> Seq(Committed')]
  BY <1>1
<1> QED
  BY <1>2 DEF CommittedInv

LEMMA CommittedStart == Init => CommittedInv
<1> SUFFICES ASSUME Init PROVE CommittedInv
  OBVIOUS
<1>1. \A S : <<>> \in Seq(S)
  OBVIOUS
<1>2. <<>> \in Seq(Committed) /\ batch = [w \in Workers |-> <<>>]
  BY <1>1 DEF Init
<1>3. batch \in [Workers -> Seq(Committed)]
  BY <1>2, Zenon
<1>4. /\ \A e \in Ids : copies[e] = 0
      /\ \A c \in Calls : state[c] = "idle"
  BY DEF Init, IdemInit
<1>5. \A e \in Ids : ~(copies[e] > 0)
  BY <1>4
<1> QED
  BY <1>3, <1>4, <1>5 DEF CommittedInv

\* The batches and the records, as the outbox goes on.
LEMMA OutboxCommitted ==
  ASSUME EventInv, EventInv', StoreInv, CommittedInv, NEW w \in Workers,
         Claim(w) \/ Publish(w) \/ Mark(w) \/ AbandonBatch(w)
  PROVE  CommittedInv'
<1>1. EventTypeOK /\ EventTypeOK' /\ OutboxInv /\ UNCHANGED <<state, held>>
  BY DEF EventInv, Claim, Publish, Mark, AbandonBatch, idemVars, callVars
<1>2. batch[w] \in Seq(Committed) /\ (step[w] # "idle" => batch[w] # <<>>)
  BY <1>1 DEF CommittedInv, OutboxInv
<1>3. step[w] # "idle" => Head(batch[w]) \in Committed
  BY <1>2
<1>4. CASE Claim(w)
  <2>1. PICK n \in 1..Cardinality(Claimable) :
          \E claimed \in [1..n -> Claimable] :
            /\ record' = [e \in Ids |-> IF e \in Range(claimed) THEN "claimed" ELSE record[e]]
            /\ batch' = [batch EXCEPT ![w] = claimed]
    BY <1>4 DEF Claim
  <2>2. PICK claimed \in [1..n -> Claimable] :
          /\ record' = [e \in Ids |-> IF e \in Range(claimed) THEN "claimed" ELSE record[e]]
          /\ batch' = [batch EXCEPT ![w] = claimed]
    BY <2>1
  <2>3. Committed \subseteq Committed'
    BY <2>2 DEF Committed
  <2>4. claimed \in Seq(Committed')
    <3>1. Claimable \subseteq Committed'
      BY <2>3 DEF Claimable, Committed
    <3>2. Cardinality(Claimable) \in Nat
      BY <1>1, FS_CardinalityType DEF EventTypeOK
    <3>3. n \in Nat
      BY <3>2
    <3> QED
      BY <3>1, <3>3
  <2>5. ASSUME NEW v \in Workers
        PROVE  batch'[v] \in Seq(Committed')
    <3>1. batch[v] \in Seq(Committed')
      BY <2>3, SeqGrows DEF CommittedInv
    <3> QED
      BY <1>1, <2>2, <2>4, <3>1 DEF EventTypeOK
  <2>6. batch' \in [Workers -> Seq(Committed')]
    BY <1>1, <2>5 DEF EventTypeOK
  <2> QED
    BY <1>1, <1>4, <2>3, <2>6 DEF CommittedInv, Claim
<1>5. CASE Publish(w)
  <2>1. UNCHANGED <<record, batch>> /\ step[w] = "publishing"
    BY <1>5 DEF Publish
  <2>2. copies' = copies \/ copies' = [copies EXCEPT ![Head(batch[w])] = @ + 1]
    BY <1>5 DEF Publish, Sent
  <2>3. \A e \in Ids : copies'[e] > 0 => copies[e] > 0 \/ e \in Committed
    BY <1>1, <1>3, <2>1, <2>2 DEF EventTypeOK
  <2> QED
    BY <1>1, <2>1, <2>3, CommittedStays DEF CommittedInv, Committed, EventTypeOK
<1>6. CASE Mark(w) \/ AbandonBatch(w)
  <2>1. /\ step[w] # "idle" /\ copies' = copies
        /\ record' = record \/ record' = [record EXCEPT ![Head(batch[w])] = Verdict(w)]
        /\ batch' = [batch EXCEPT ![w] = Tail(batch[w])] \/ batch' = [batch EXCEPT ![w] = <<>>]
    BY <1>6 DEF Mark, AbandonBatch
  <2>2. Verdict(w) \in {"pending", "published"}
    BY DEF Verdict
  <2>3. Committed \subseteq Committed'
    BY <1>1, <2>1, <2>2, RecordsStayCommitted DEF EventTypeOK
  <2>4. \A v \in Workers : batch'[v] = batch[v] \/ batch'[v] = <<>> \/
                           (batch[v] # <<>> /\ batch'[v] = Tail(batch[v]))
    <3>1. batch \in [Workers -> Seq(Ids)] /\ batch[w] # <<>>
      BY <1>1, <1>2, <2>1 DEF EventTypeOK
    <3> DEFINE t == Tail(batch[w])
    <3>2. PICK to \in {t, <<>>} : batch' = [batch EXCEPT ![w] = to]
      BY <2>1
    <3>3. batch'[w] = to /\ \A v \in Workers \ {w} : batch'[v] = batch[v]
      BY <3>1, <3>2
    <3> QED
      BY <3>1, <3>3
  <2> QED
    BY <1>1, <2>1, <2>3, <2>4, CommittedStays DEF CommittedInv, EventTypeOK
<1> QED
  BY <1>4, <1>5, <1>6

LEMMA CommittedStep ==
  ASSUME EventInv, EventInv', StoreInv, CommittedInv, [Next]_vars
  PROVE  CommittedInv'
<1>1. EventTypeOK /\ EventTypeOK' /\ request \in [Calls -> Ids]
      /\ state \in [Calls -> {"idle"} \cup Busy \cup Answers]
  BY DEF EventInv, StoreInv, FlightInv, FlightTypeOK
<1>2. CASE \E w \in Workers : PublisherStep(w) \/ AbandonBatch(w)
  BY <1>2, OutboxCommitted DEF PublisherStep
<1>3. CASE \E e \in Ids : Enqueue(e) \/ EndTransaction(e) \/ RecoverLease(e) \/ LeaseExpires(e)
  <2>1. PICK e \in Ids : Enqueue(e) \/ EndTransaction(e) \/ RecoverLease(e) \/ LeaseExpires(e)
    BY <1>3
  <2>2. /\ UNCHANGED <<batch, copies, held, state>>
        /\ \/ e \notin Committed
           \/ record' = [record EXCEPT ![e] = "pending"]
        /\ \E to \in {"open", "pending", "rolled back"} : record' = [record EXCEPT ![e] = to]
    BY <2>1 DEF Enqueue, EndTransaction, RecoverLease, LeaseExpires, idemVars, callVars, Committed
  <2>3. Committed \subseteq Committed'
    BY <1>1, <2>2 DEF Committed, EventTypeOK
  <2> QED
    BY <1>1, <2>2, <2>3, CommittedStays DEF CommittedInv, EventTypeOK
<1>4. CASE \/ \E e \in Ids, c \in Calls : Answered(c, e)
           \/ \E c \in Calls : EndEmit(c) \/ SettleDelivery(c) \/ DeliveryReturns(c)
           \/ CrashConsumer
  <2>1. UNCHANGED <<record, batch, copies>>
    BY <1>4 DEF Answered, EndEmit, SettleDelivery, DeliveryReturns, CrashConsumer, outboxVars,
                eventVars
  <2>2. ASSUME NEW c \in Calls, state'[c] \in Underway
        PROVE  held'[c]
    <3>1. state[c] \in Underway /\ (held' = held \/ \E d \in Calls : held' = [held EXCEPT ![d] = TRUE])
      BY <1>1, <1>4, <2>2 DEF Answered, Skip, Join, Refuse, Hold, EndEmit, WorkSucceeds, WorkFails,
         SettleDelivery, Settle, Outcome, DeliveryReturns, Register, eventVars, CrashConsumer,
         StoreInv, FlightInv, FlightTypeOK
    <3> QED
      BY <1>1, <3>1 DEF CommittedInv, EventTypeOK
  <2> QED
    BY <1>1, <2>1, <2>2, CommittedStays DEF Committed, EventTypeOK
<1>5. CASE \E e \in Ids, c \in Calls : Deliver(c, e)
  <2>1. PICK c \in Calls : /\ held' = [held EXCEPT ![c] = TRUE]
                           /\ state' = [state EXCEPT ![c] = "entering"]
                           /\ UNCHANGED <<record, batch, copies>>
    BY <1>5 DEF Deliver, Begin, Hold, outboxVars
  <2>2. \A d \in Calls : state'[d] \in Underway => held'[d]
    BY <1>1, <2>1 DEF CommittedInv, EventTypeOK
  <2> QED
    BY <1>1, <2>1, <2>2, CommittedStays DEF Committed, EventTypeOK
<1>6. CASE \E c \in Calls : Acknowledge(c)
  <2>1. PICK c \in Calls : Acknowledge(c)
    BY <1>6
  <2>2. /\ held' = [held EXCEPT ![c] = FALSE] /\ state' = state /\ state[c] \notin Underway
        /\ UNCHANGED <<record, batch>>
        /\ copies' = copies \/ copies' = [copies EXCEPT ![request[c]] = @ - 1]
    BY <2>1 DEF Acknowledge, idemVars, callVars, outboxVars, Answers
  <2>3. ASSUME NEW e \in Ids, copies'[e] > 0
        PROVE  copies[e] > 0
    <3>1. copies'[e] = copies[e] \/ copies'[e] = copies[e] - 1
      BY <1>1, <2>2 DEF EventTypeOK
    <3>2. copies[e] \in Nat
      BY <1>1 DEF EventTypeOK
    <3> QED
      BY <2>3, <3>1, <3>2
  <2>4. \A d \in Calls : state'[d] \in Underway => held'[d]
    BY <1>1, <2>2 DEF CommittedInv, EventTypeOK
  <2> QED
    BY <1>1, <2>2, <2>3, <2>4, CommittedStays DEF Committed, EventTypeOK
<1>7. CASE \/ \E c \in Calls : RunHandler(c)
           \/ \E h \in Visitors : Subscribe(h) \/ Unsubscribe(h)
           \/ Elapse \/ UNCHANGED vars
  <2>1. UNCHANGED <<record, batch, copies, held, state>>
    BY <1>7 DEF RunHandler, Subscribe, Unsubscribe, Elapse, Tick, vars, eventVars, outboxVars,
                idemVars, callVars
  <2> QED
    BY <1>1, <2>1, CommittedStays DEF CommittedInv, Committed, EventTypeOK
<1> QED
  BY <1>2, <1>3, <1>4, <1>5, <1>6, <1>7 DEF Next, BrokerStep, ConsumerStep

-----------------------------------------------------------------------------
\* A set of at most no elements.
LEMMA NothingIn ==
  ASSUME NEW H, IsFiniteSet(H), NEW n \in Nat, Cardinality(H) <= n, n = 0
  PROVE  H = {}
<1>1. Cardinality(H) \in Nat
  BY FS_CardinalityType
<1>2. Cardinality(H) = 0
  BY <1>1
<1> QED
  BY <1>2, FS_EmptySet

\* Deliveries are of events that the channel owes.
LEMMA HandledIsOwed ==
  ASSUME EventInv, CommittedInv, NEW c \in Calls, NEW e \in Ids, held[c], request[c] = e
  PROVE  copies[e] > 0 /\ e \in Committed /\ Fact(e) = "owed"
<1>1. /\ copies \in [Ids -> Nat] /\ c \in Handling(e)
      /\ IsFiniteSet(Handling(e)) /\ Cardinality(Handling(e)) <= copies[e]
  BY DEF EventInv, EventTypeOK, BrokerInv, Handling
<1>2. copies[e] # 0
  BY <1>1, NothingIn
<1>3. copies[e] > 0 /\ e \in Committed
  BY <1>1, <1>2 DEF CommittedInv
<1>4. record[e] \in {"pending", "claimed", "published"}
  BY <1>3 DEF Committed
<1>5. Fact(e) = "owed"
  BY <1>2, <1>4 DEF Fact
<1> QED
  BY <1>3, <1>5

LEMMA NobodyDelivers ==
  ASSUME EventInv, CommittedInv, NEW e \in Ids, copies[e] = 0
  PROVE  Delivering(e) = {}
BY HandledIsOwed DEF Delivering, CommittedInv

\* The call that works for an event is the only one.
LEMMA OneDelivery ==
  ASSUME StoreInv, NEW c \in Calls, state[c] \in Underway
  PROVE  request[c] \in Ids /\ Delivering(request[c]) = {c}
<1>1. request[c] \in Ids /\ OneFlightPerId
  BY DEF StoreInv, FlightInv, FlightTypeOK
<1>2. \A d \in Calls : state[d] \in Underway /\ request[d] = request[c] => d = c
  BY OneUnderway DEF StoreInv
<1> QED
  BY <1>1, <1>2 DEF Delivering

\* What the channel is shown when rows, copies or calls do not change.
LEMMA SameFacts ==
  ASSUME NEW e \in Ids, record'[e] = record[e], copies'[e] = copies[e]
  PROVE  Fact(e)' = Fact(e)
BY DEF Fact

LEMMA SameDeliveries ==
  ASSUME \A c \in Calls :
           /\ state'[c] \in Underway <=> state[c] \in Underway
           /\ state[c] \in Underway => request'[c] = request[c]
  PROVE  \A e \in Ids : Delivering(e)' = Delivering(e)
BY DEF Delivering

LEMMA SameKnown ==
  ASSUME left' = left, completed' = completed \/ completed' = Purged
  PROVE  Purged' = Purged
BY DEF Purged

LEMMA ChannelStutters ==
  ASSUME \A e \in Ids : Fact(e)' = Fact(e) /\ Delivering(e)' = Delivering(e),
         Purged' = Purged, ran' = ran
  PROVE  UNCHANGED Channel!channelVars
BY DEF Channel!channelVars

\* One fact that changes.
LEMMA OneFact ==
  ASSUME NEW e \in Ids,
         \A d \in Ids \ {e} : Fact(d)' = Fact(d),
         \A d \in Ids : Delivering(d)' = Delivering(d),
         Purged' = Purged, ran' = ran,
         \/ Fact(e)' = Fact(e)
         \/ Fact(e) = "none" /\ Fact(e)' = "open"
         \/ Fact(e) = "open" /\ Fact(e)' \in {"owed", "rolled back"}
         \/ Fact(e) = "delivered" /\ Fact(e)' = "owed"
         \/ /\ Fact(e) = "owed" /\ Fact(e)' = "delivered"
            /\ Delivering(e) = {} /\ Handled(e)
  PROVE  [Channel!ChannelNext]_(Channel!channelVars)
<1>1. CASE Fact(e)' = Fact(e)
  BY <1>1, ChannelStutters
<1>2. ASSUME NEW to, Fact(e)' = to
      PROVE  /\ [d \in Ids |-> Fact(d)]' = [[d \in Ids |-> Fact(d)] EXCEPT ![e] = to]
             /\ [d \in Ids |-> Delivering(d)]' = [d \in Ids |-> Delivering(d)]
  BY <1>2
<1>3. CASE Fact(e) = "none" /\ Fact(e)' = "open"
  <2>1. Channel!Record(e)
    BY <1>2, <1>3 DEF Channel!Record, Channel!Becomes
  <2> QED
    BY <2>1 DEF Channel!ChannelNext
<1>4. CASE Fact(e) = "open" /\ Fact(e)' \in {"owed", "rolled back"}
  <2>1. Channel!Decide(e)
    BY <1>2, <1>4 DEF Channel!Decide, Channel!Becomes
  <2> QED
    BY <2>1 DEF Channel!ChannelNext
<1>5. CASE Fact(e) = "delivered" /\ Fact(e)' = "owed"
  <2>1. Channel!Resend(e)
    BY <1>2, <1>5 DEF Channel!Resend, Channel!Becomes
  <2> QED
    BY <2>1 DEF Channel!ChannelNext
<1>6. CASE Fact(e) = "owed" /\ Fact(e)' = "delivered" /\ Delivering(e) = {} /\ Handled(e)
  <2>1. Channel!LetGo(e)
    BY <1>2, <1>6 DEF Channel!LetGo, Channel!Becomes, Handled
  <2> QED
    BY <2>1 DEF Channel!ChannelNext
<1> QED
  BY <1>1, <1>3, <1>4, <1>5, <1>6

\* The fact of an event whose transaction has committed.
LEMMA FactIs ==
  ASSUME NEW r \in {"pending", "claimed", "published"}, NEW e \in Ids, record[e] = r
  PROVE  Fact(e) = IF r = "published" /\ copies[e] = 0 THEN "delivered" ELSE "owed"
BY DEF Fact

LEMMA FactIsNext ==
  ASSUME NEW r \in {"pending", "claimed", "published"}, NEW e \in Ids, record'[e] = r
  PROVE  Fact(e)' = IF r = "published" /\ copies'[e] = 0 THEN "delivered" ELSE "owed"
BY DEF Fact

LEMMA TransactionRefines ==
  ASSUME EventInv, NEW e \in Ids,
         Enqueue(e) \/ EndTransaction(e) \/ RecoverLease(e) \/ LeaseExpires(e)
  PROVE  [Channel!ChannelNext]_(Channel!channelVars)
<1>1. /\ UNCHANGED <<state, request, completed, left, copies, ran>>
      /\ record \in [Ids -> {"none", "rolled back", "open", "pending", "claimed", "published"}]
  BY DEF Enqueue, EndTransaction, RecoverLease, LeaseExpires, idemVars, storeVars, callVars,
         deliveryVars, EventInv, EventTypeOK
<1>2. PICK to \in {"open", "pending", "rolled back"} : record' = [record EXCEPT ![e] = to]
  BY DEF Enqueue, EndTransaction, RecoverLease, LeaseExpires
<1>3. \/ record[e] = "none" /\ record'[e] = "open"
      \/ record[e] = "open" /\ record'[e] \in {"pending", "rolled back"}
      \/ record[e] = "claimed" /\ record'[e] = "pending"
  BY <1>1 DEF Enqueue, EndTransaction, RecoverLease, LeaseExpires
<1>4. \A d \in Ids \ {e} : Fact(d)' = Fact(d)
  BY <1>1, <1>2, SameFacts
<1>5. (\A d \in Ids : Delivering(d)' = Delivering(d)) /\ Purged' = Purged
  BY <1>1, SameDeliveries, SameKnown
<1>6. \/ Fact(e)' = Fact(e)
      \/ Fact(e) = "none" /\ Fact(e)' = "open"
      \/ Fact(e) = "open" /\ Fact(e)' \in {"owed", "rolled back"}
  BY <1>3 DEF Fact
<1> QED
  BY <1>1, <1>4, <1>5, <1>6, OneFact

LEMMA ClaimRefines ==
  ASSUME EventInv, NEW w \in Workers, Claim(w)
  PROVE  UNCHANGED Channel!channelVars
<1>1. UNCHANGED <<state, request, completed, left, copies, ran>>
  BY DEF Claim, idemVars, storeVars, callVars, deliveryVars
<1>2. PICK n \in 1..Cardinality(Claimable) :
        \E claimed \in [1..n -> Claimable] :
          record' = [e \in Ids |-> IF e \in Range(claimed) THEN "claimed" ELSE record[e]]
  BY DEF Claim
<1>3. PICK claimed \in [1..n -> Claimable] :
        record' = [e \in Ids |-> IF e \in Range(claimed) THEN "claimed" ELSE record[e]]
  BY <1>2
<1>4. Range(claimed) \subseteq Claimable
  BY DEF Range
<1>5. ASSUME NEW e \in Ids
      PROVE  Fact(e)' = Fact(e)
  <2>1. CASE record'[e] = record[e]
    BY <1>1, <2>1, SameFacts
  <2>2. CASE record[e] = "pending" /\ record'[e] = "claimed"
    BY <2>2, FactIs, FactIsNext
  <2> QED
    BY <1>3, <1>4, <2>1, <2>2 DEF Claimable
<1>6. (\A e \in Ids : Delivering(e)' = Delivering(e)) /\ Purged' = Purged
  BY <1>1, SameDeliveries, SameKnown
<1> QED
  BY <1>1, <1>5, <1>6, ChannelStutters

\* The outbox sends what the channel owes, or owes again.
LEMMA PublishRefines ==
  ASSUME EventInv, CommittedInv, NEW w \in Workers, Publish(w)
  PROVE  [Channel!ChannelNext]_(Channel!channelVars)
<1>1. /\ UNCHANGED <<state, request, completed, left, record, ran>>
      /\ step[w] = "publishing"
      /\ copies' = copies \/ copies' = [copies EXCEPT ![Head(batch[w])] = @ + 1]
  BY DEF Publish, Sent, idemVars, storeVars, callVars, deliveryVars
<1>2. batch[w] \in Seq(Committed) /\ batch[w] # <<>> /\ copies \in [Ids -> Nat]
  BY <1>1 DEF EventInv, EventTypeOK, OutboxInv, CommittedInv
<1>3. PICK e \in Ids : e = Head(batch[w]) /\ e \in Committed
  <2>1. batch[w] \in Seq(Committed) /\ batch[w] # <<>>
    BY <1>2
  <2>2. Head(batch[w]) \in Committed
    BY <2>1
  <2> QED
    BY <2>2 DEF Committed
<1>4. \A d \in Ids \ {e} : Fact(d)' = Fact(d)
  BY <1>1, <1>2, <1>3, SameFacts
<1>5. (\A d \in Ids : Delivering(d)' = Delivering(d)) /\ Purged' = Purged
  BY <1>1, SameDeliveries, SameKnown
<1>6. Fact(e)' = Fact(e) \/ (Fact(e) = "delivered" /\ Fact(e)' = "owed")
  <2>1. CASE copies'[e] = copies[e]
    BY <1>1, <2>1, SameFacts
  <2>2. CASE copies'[e] = copies[e] + 1
    <3>1. copies'[e] # 0 /\ record[e] \in {"pending", "claimed", "published"}
      BY <1>2, <1>3, <2>2 DEF Committed
    <3>2. Fact(e)' = "owed" /\ Fact(e) \in {"owed", "delivered"}
      BY <1>1, <3>1, FactIs, FactIsNext
    <3> QED
      BY <3>2
  <2> QED
    BY <1>1, <1>2, <1>3, <2>1, <2>2
<1> QED
  BY <1>1, <1>4, <1>5, <1>6, OneFact

\* It marks as published what the broker has, or what has been delivered.
LEMMA VerdictRefines ==
  ASSUME EventInv, CommittedInv, NEW w \in Workers, Mark(w) \/ AbandonBatch(w)
  PROVE  [Channel!ChannelNext]_(Channel!channelVars)
<1>1. /\ UNCHANGED <<state, request, completed, left, copies, ran>>
      /\ step[w] # "idle"
      /\ \/ record' = record
         \/ /\ step[w] \in {"marking", "failing"}
            /\ record' = [record EXCEPT ![Head(batch[w])] = Verdict(w)]
  BY DEF Mark, AbandonBatch, idemVars, storeVars, callVars, deliveryVars, EventInv, EventTypeOK
<1>2. /\ batch[w] \in Seq(Committed) /\ batch[w] # <<>> /\ copies \in [Ids -> Nat]
      /\ record \in [Ids -> {"none", "rolled back", "open", "pending", "claimed", "published"}]
  BY <1>1 DEF EventInv, EventTypeOK, OutboxInv, CommittedInv
<1>3. PICK e \in Ids : e = Head(batch[w]) /\ e \in Committed
  <2>1. batch[w] \in Seq(Committed) /\ batch[w] # <<>>
    BY <1>2
  <2>2. Head(batch[w]) \in Committed
    BY <2>1
  <2> QED
    BY <2>2 DEF Committed
<1>4. \A d \in Ids \ {e} : Fact(d)' = Fact(d)
  BY <1>1, <1>2, <1>3, SameFacts
<1>5. (\A d \in Ids : Delivering(d)' = Delivering(d)) /\ Purged' = Purged
  BY <1>1, SameDeliveries, SameKnown
<1>6. \/ Fact(e)' = Fact(e)
      \/ Fact(e) = "delivered" /\ Fact(e)' = "owed"
      \/ Fact(e) = "owed" /\ Fact(e)' = "delivered" /\ Delivering(e) = {} /\ Handled(e)
  <2>1. Fact(e) \in {"owed", "delivered"}
    BY <1>3, FactIs DEF Committed
  <2>2. CASE record' = record
    BY <1>1, <2>2, SameFacts
  <2>3. CASE record'[e] = "pending"
    <3>1. Fact(e)' = "owed"
      BY <2>3, FactIsNext
    <3> QED
      BY <2>1, <3>1
  <2>4. CASE record'[e] = "published" /\ step[w] = "marking"
    <3>1. Delivered(e)
      BY <1>3, <2>4 DEF EventInv, OutboxInv
    <3>2. CASE copies[e] # 0
      BY <1>1, <2>1, <2>4, <3>2, FactIs, FactIsNext
    <3>3. CASE copies[e] = 0
      <4>1. Handled(e) /\ Delivering(e) = {}
        BY <3>1, <3>3, NobodyDelivers DEF Delivered
      <4>2. Fact(e)' = "delivered"
        BY <1>1, <2>4, <3>3, FactIsNext
      <4> QED
        BY <2>1, <4>1, <4>2
    <3> QED
      BY <3>2, <3>3
  <2>5. record' = record \/ record'[e] = "pending"
        \/ (record'[e] = "published" /\ step[w] = "marking")
    BY <1>1, <1>2, <1>3 DEF Verdict
  <2> QED
    BY <2>2, <2>3, <2>4, <2>5
<1> QED
  BY <1>1, <1>4, <1>5, <1>6, OneFact

LEMMA AnsweredRefines ==
  ASSUME EventInv, StoreInv, NEW c \in Calls, NEW e \in Ids, Answered(c, e)
  PROVE  UNCHANGED Channel!channelVars
<1>1. /\ UNCHANGED <<record, copies, ran, left>> /\ completed' = Purged
      /\ state[c] \notin Underway /\ request' = [request EXCEPT ![c] = e]
  BY DEF Answered, Skip, Join, Refuse, Enter, Flying, Busy, Answers, outboxVars, deliveryVars
<1>2. PICK to \in {"ok", "joined", "refused"} : state' = [state EXCEPT ![c] = to]
  BY DEF Answered, Skip, Join, Refuse
<1>3. request \in [Calls -> Ids] /\ state \in [Calls -> {"idle"} \cup Busy \cup Answers]
  BY DEF StoreInv, FlightInv, FlightTypeOK
<1>4. state'[c] \notin Underway /\ \A d \in Calls \ {c} : state'[d] = state[d] /\ request'[d] = request[d]
  BY <1>1, <1>2, <1>3
<1>5. \A d \in Ids : Delivering(d)' = Delivering(d)
  BY <1>1, <1>4, SameDeliveries
<1> QED
  BY <1>1, <1>5, SameFacts, SameKnown, ChannelStutters

\* A delivery begins only when none goes on, and the success of none is known.
LEMMA DeliverRefines ==
  ASSUME EventInv, StoreInv, CommittedInv, NEW c \in Calls, NEW e \in Ids, Deliver(c, e)
  PROVE  Channel!Try(e, c)
<1>1. /\ UNCHANGED <<record, copies, ran, left>> /\ completed' = Purged
      /\ state[c] \notin Underway /\ request' = [request EXCEPT ![c] = e]
      /\ state' = [state EXCEPT ![c] = "entering"]
      /\ e \notin Purged /\ pending[e] = NoCall
      /\ \A d \in Calls : state[d] = "entering" => request[d] # e
      /\ copies[e] > Cardinality(Handling(e))
  BY DEF Deliver, Begin, Enter, Known, Active, Flying, Busy, Answers, outboxVars, deliveryVars
<1>2. request \in [Calls -> Ids] /\ state \in [Calls -> {"idle"} \cup Busy \cup Answers]
  BY DEF StoreInv, FlightInv, FlightTypeOK
<1>3. Delivering(e) = {}
  <2>1. ASSUME NEW d \in Calls, state[d] \in Underway, request[d] = e
        PROVE  FALSE
    <3>1. state[d] = "working"
      BY <1>1, <2>1
    <3>2. pending[e] = d
      BY <2>1, <3>1 DEF StoreInv, FlightInv, OneFlightPerId, Flying
    <3> QED
      BY <1>1, <3>2, IdempotencyAssumption
  <2> QED
    BY <2>1 DEF Delivering
<1>4. Fact(e) = "owed"
  <2>1. copies \in [Ids -> Nat] /\ IsFiniteSet(Handling(e))
    BY DEF EventInv, EventTypeOK, BrokerInv
  <2>2. Cardinality(Handling(e)) \in Nat
    BY <2>1, FS_CardinalityType
  <2>3. copies[e] > 0 /\ copies[e] # 0
    BY <1>1, <2>1, <2>2
  <2>4. record[e] \in {"pending", "claimed", "published"}
    BY <2>3 DEF CommittedInv, Committed
  <2> QED
    BY <2>3, <2>4, FactIs
<1>5. state'[c] \in Underway /\ request'[c] = e
      /\ \A d \in Calls \ {c} : state'[d] = state[d] /\ request'[d] = request[d]
  BY <1>1, <1>2
<1>6. Delivering(e)' = {c} /\ \A d \in Ids \ {e} : Delivering(d)' = Delivering(d)
  BY <1>1, <1>3, <1>5 DEF Delivering
<1>7. \A d \in Ids : Fact(d)' = Fact(d)
  BY <1>1, SameFacts
<1>8. Purged' = Purged
  BY <1>1, SameKnown
<1> QED
  BY <1>1, <1>3, <1>4, <1>6, <1>7, <1>8 DEF Channel!Try

LEMMA RunHandlerRefines ==
  ASSUME EventInv, StoreInv, CommittedInv, NEW c \in Calls, RunHandler(c)
  PROVE  [Channel!ChannelNext]_(Channel!channelVars)
<1> DEFINE e == request[c]
           h == Head(todo[c])
<1>1. /\ UNCHANGED <<record, copies, state, request, completed, left>>
      /\ state[c] \in Underway /\ todo[c] # <<>>
      /\ ran' = ran \/ ran' = [ran EXCEPT ![e] = @ \cup {h}]
  BY DEF RunHandler, idemVars, storeVars, callVars, outboxVars
<1>2. e \in Ids /\ Delivering(e) = {c}
  BY <1>1, OneDelivery
<1>3. h \in Handlers
  <2>1. todo[c] \in Seq(Handlers)
    BY DEF EventInv, EventTypeOK
  <2> QED
    BY <1>1, <2>1
<1>4. Fact(e) = "owed"
  <2>1. held[c]
    BY <1>1 DEF CommittedInv
  <2> QED
    BY <1>2, <2>1, HandledIsOwed
<1> HIDE DEF e, h
<1>5. \A d \in Ids : Fact(d)' = Fact(d) /\ Delivering(d)' = Delivering(d)
  BY <1>1, SameFacts, SameDeliveries
<1>6. Purged' = Purged
  BY <1>1, SameKnown
<1>7. CASE ran' = ran
  BY <1>5, <1>6, <1>7, ChannelStutters
<1>8. CASE ran' = [ran EXCEPT ![e] = @ \cup {h}]
  <2>1. Channel!Hear(e, h)
    BY <1>2, <1>4, <1>5, <1>6, <1>8 DEF Channel!Hear
  <2> QED
    BY <1>2, <1>3, <2>1 DEF Channel!ChannelNext, Handlers
<1> QED
  BY <1>1, <1>7, <1>8

\* A success is remembered as the newest, and forgets others at most.
LEMMA SuccessIsKnown ==
  ASSUME NEW i \in Ids, left \in [Ids -> Nat], completed \subseteq Ids,
         completed' = Trim(completed \cup {i}, AsNewest(i)), left' = [left EXCEPT ![i] = Ttl]
  PROVE  \E kept \in SUBSET Purged : Purged' = kept \cup {i}
<1>1. AsNewest(i)[i] = {}
  BY DEF AsNewest
<1>2. Cardinality((completed \cup {i}) \cap AsNewest(i)[i]) = 0
  BY <1>1, FS_EmptySet
<1>3. i \in completed'
  BY <1>2, IdempotencyAssumption DEF Trim
<1>4. completed' \subseteq completed \cup {i}
  BY DEF Trim
<1>5. left'[i] > 0 /\ \A k \in Ids \ {i} : left'[k] = left[k]
  BY IdempotencyAssumption
<1>6. i \in Purged' /\ Purged' \ {i} \subseteq Purged
  BY <1>3, <1>4, <1>5 DEF Purged
<1>7. Purged' = (Purged' \ {i}) \cup {i} /\ Purged' \ {i} \in SUBSET Purged
  BY <1>6
<1> QED
  BY <1>7, Zenon

LEMMA EndEmitRefines ==
  ASSUME EventInv, StoreInv, CommittedInv, NEW c \in Calls, EndEmit(c)
  PROVE  Channel!ChannelNext
<1>1. /\ UNCHANGED <<record, copies, request, ran>>
      /\ state[c] \in Underway /\ todo[c] = <<>>
  BY DEF EndEmit, WorkSucceeds, WorkFails, outboxVars
<1>2. PICK e \in Ids : e = request[c] /\ Delivering(e) = {c}
  BY <1>1, OneDelivery
<1>3. state \in [Calls -> {"idle"} \cup Busy \cup Answers]
  BY DEF StoreInv, FlightInv, FlightTypeOK
<1>4. PICK to \in {"worked", "broke"} : state' = [state EXCEPT ![c] = to]
  BY DEF EndEmit, WorkSucceeds, WorkFails
<1>5. state'[c] \notin Underway /\ \A d \in Calls \ {c} : state'[d] = state[d]
  BY <1>3, <1>4
<1>6. Delivering(e)' = {} /\ \A d \in Ids \ {e} : Delivering(d)' = Delivering(d)
  <2>1. \A d \in Calls : ~(state'[d] \in Underway /\ request'[d] = e)
    BY <1>1, <1>2, <1>5 DEF Delivering
  <2>2. ASSUME NEW d \in Ids \ {e}
        PROVE  Delivering(d)' = Delivering(d)
    <3>1. \A k \in Calls : state'[k] \in Underway /\ request'[k] = d
                            <=> state[k] \in Underway /\ request[k] = d
      BY <1>1, <1>2, <1>5
    <3> QED
      BY <3>1 DEF Delivering
  <2> QED
    BY <2>1, <2>2 DEF Delivering
<1>7. \A d \in Ids : Fact(d)' = Fact(d)
  BY <1>1, SameFacts
<1>8. CASE ~failing[c] /\ WorkSucceeds(c)
  <2>1. Handled(e)
    <3>1. Range(todo[c]) = {}
      BY <1>1 DEF Range
    <3> QED
      BY <1>1, <1>2, <1>8, <3>1 DEF EventInv, ConsumerInv, Handled
  <2>2. left \in [Ids -> Nat] /\ completed \subseteq Ids
    BY DEF StoreInv, RememberInv, Recency
  <2>3. /\ completed' = Trim(completed \cup {e}, AsNewest(e))
        /\ left' = [left EXCEPT ![e] = Ttl]
    BY <1>2, <1>8 DEF WorkSucceeds
  <2>4. \E kept \in SUBSET Purged : Purged' = kept \cup {e}
    BY <1>2, <2>2, <2>3, SuccessIsKnown
  <2>5. /\ [d \in Ids |-> Delivering(d)]' = [[d \in Ids |-> Delivering(d)] EXCEPT ![e] = {}]
        /\ [d \in Ids |-> Delivering(d)][e] # {}
        /\ [d \in Ids |-> Fact(d)]' = [d \in Ids |-> Fact(d)]
    BY <1>2, <1>6, <1>7
  <2>6. Channel!Succeed(e)
    BY <1>1, <2>1, <2>4, <2>5 DEF Channel!Succeed, Handled
  <2> QED
    BY <2>6 DEF Channel!ChannelNext
<1>9. CASE WorkFails(c)
  <2>1. Purged' = Purged
    BY <1>9, SameKnown DEF WorkFails, storeVars
  <2>2. [d \in Ids |-> Delivering(d)]' =
          [d \in Ids |-> IF d \in {e} THEN {} ELSE [k \in Ids |-> Delivering(k)][d]]
    BY <1>6
  <2>3. \E lost \in SUBSET Ids :
          [d \in Ids |-> Delivering(d)]' =
            [d \in Ids |-> IF d \in lost THEN {} ELSE [k \in Ids |-> Delivering(k)][d]]
    <3>1. {e} \in SUBSET Ids
      OBVIOUS
    <3> QED
      BY <2>2, <3>1
  <2>4. [d \in Ids |-> Fact(d)]' = [d \in Ids |-> Fact(d)] /\ ran' = ran
    BY <1>1, <1>2, <1>7
  <2>5. Channel!GiveUp
    BY <2>1, <2>3, <2>4 DEF Channel!GiveUp
  <2> QED
    BY <2>5 DEF Channel!ChannelNext
<1> QED
  BY <1>8, <1>9 DEF EndEmit, Failures

\* What it acknowledges last, all handlers have heard.
LEMMA AcknowledgeRefines ==
  ASSUME EventInv, EventInv', StoreInv, CommittedInv, NEW c \in Calls, Acknowledge(c)
  PROVE  [Channel!ChannelNext]_(Channel!channelVars)
<1>1. PICK e \in Ids : e = request[c]
  BY DEF StoreInv, FlightInv, FlightTypeOK
<1>2. /\ UNCHANGED <<record, state, request, completed, left, ran>> /\ held[c]
      /\ copies' = IF state[c] = "ok" THEN [copies EXCEPT ![e] = @ - 1] ELSE copies
      /\ held' = [held EXCEPT ![c] = FALSE]
  BY <1>1 DEF Acknowledge, idemVars, storeVars, callVars, outboxVars, deliveryVars
<1>3. /\ copies \in [Ids -> Nat] /\ copies[e] > 0 /\ e \in Committed /\ Fact(e) = "owed"
      /\ held \in [Calls -> BOOLEAN]
  BY <1>1, <1>2, HandledIsOwed DEF EventInv, EventTypeOK
<1>4. (\A d \in Ids : Delivering(d)' = Delivering(d)) /\ Purged' = Purged
  BY <1>2, SameDeliveries, SameKnown
<1>5. \A d \in Ids \ {e} : Fact(d)' = Fact(d)
  BY <1>2, <1>3, SameFacts
<1>6. \/ Fact(e)' = Fact(e)
      \/ Fact(e)' = "delivered" /\ Delivering(e) = {} /\ Handled(e)
  <2>1. CASE copies'[e] = copies[e]
    BY <1>2, <2>1, SameFacts
  <2>2. CASE copies'[e] # copies[e]
    <3>1. state[c] = "ok"
      BY <1>2, <2>2
    <3>2. Handled(e)
      BY <1>1, <3>1 DEF StoreInv, RememberInv, EventInv, ConsumerInv
    <3>3. Fact(e)' = IF record[e] = "published" /\ copies'[e] = 0 THEN "delivered" ELSE "owed"
      BY <1>2, <1>3, FactIsNext DEF Committed
    <3>4. CASE copies'[e] # 0
      BY <1>3, <3>3, <3>4
    <3>5. CASE copies'[e] = 0
      <4>1. /\ IsFiniteSet(Handling(e)') /\ Cardinality(Handling(e)') <= copies'[e]
            /\ copies'[e] \in Nat
        BY DEF EventInv, BrokerInv, EventTypeOK
      <4>2. Handling(e)' = {}
        BY <3>5, <4>1, NothingIn
      <4>3. ASSUME NEW d \in Calls, state[d] \in Underway, request[d] = e
            PROVE  FALSE
        <5>1. d # c /\ held[d]
          BY <3>1, <4>3 DEF CommittedInv
        <5>2. held'[d] /\ request'[d] = e
          BY <1>2, <1>3, <4>3, <5>1
        <5> QED
          BY <4>2, <5>2 DEF Handling
      <4>4. Delivering(e) = {}
        BY <4>3 DEF Delivering
      <4> QED
        BY <1>3, <3>2, <3>3, <4>4
    <3> QED
      BY <3>4, <3>5
  <2> QED
    BY <2>1, <2>2
<1> QED
  BY <1>2, <1>3, <1>4, <1>5, <1>6, OneFact

\* A crash gives up what goes on, and time makes the store forget.
LEMMA ForgetRefines ==
  ASSUME StoreInv, CrashConsumer \/ Elapse
  PROVE  Channel!ChannelNext
<1>1. UNCHANGED <<record, copies, ran>>
  BY DEF CrashConsumer, Elapse, eventVars, outboxVars, deliveryVars
<1>2. [d \in Ids |-> Fact(d)]' = [d \in Ids |-> Fact(d)]
  BY <1>1, SameFacts
<1>3. CASE CrashConsumer
  <2>1. state' = [c \in Calls |-> "idle"] /\ completed' = {}
    BY <1>3 DEF CrashConsumer
  <2>2. (\A d \in Ids : Delivering(d)' = {}) /\ Purged' \in SUBSET Purged
    BY <2>1 DEF Delivering, Purged
  <2>3. [d \in Ids |-> Delivering(d)]' =
          [d \in Ids |-> IF d \in Ids THEN {} ELSE [k \in Ids |-> Delivering(k)][d]]
    BY <2>2
  <2>4. Channel!GiveUp
    BY <1>1, <1>2, <2>2, <2>3 DEF Channel!GiveUp
  <2> QED
    BY <2>4 DEF Channel!ChannelNext
<1>4. CASE Elapse
  <2>1. /\ UNCHANGED <<state, request, completed>>
        /\ left' = [i \in Ids |-> IF left[i] > 0 THEN left[i] - 1 ELSE 0]
    BY <1>4 DEF Elapse, Tick, callVars
  <2>2. Purged' \in SUBSET Purged
    <3>1. completed \subseteq Ids
      BY DEF StoreInv, RememberInv, Recency
    <3> QED
      BY <2>1, <3>1 DEF Purged
  <2>3. [d \in Ids |-> Delivering(d)]' =
          [d \in Ids |-> IF d \in {} THEN {} ELSE [k \in Ids |-> Delivering(k)][d]]
    BY <2>1, SameDeliveries
  <2>4. Channel!GiveUp
    BY <1>1, <1>2, <2>2, <2>3 DEF Channel!GiveUp
  <2> QED
    BY <2>4 DEF Channel!ChannelNext
<1> QED
  BY <1>3, <1>4

LEMMA NothingRefines ==
  ASSUME UNCHANGED <<record, copies, state, request, completed, left, ran>>
  PROVE  UNCHANGED Channel!channelVars
BY SameFacts, SameDeliveries, SameKnown, ChannelStutters

LEMMA ChannelStart == Init => Channel!ChannelInit
<1> SUFFICES ASSUME Init PROVE Channel!ChannelInit
  OBVIOUS
<1>1. /\ record \in [Ids -> {"none", "rolled back"}] /\ completed = {}
      /\ state = [c \in Calls |-> "idle"] /\ ran = [e \in Ids |-> {}]
  BY DEF Init, IdemInit
<1>2. \A e \in Ids : Fact(e) \in {"none", "rolled back"} /\ Delivering(e) = {}
  BY <1>1 DEF Fact, Delivering
<1>3. Purged = {}
  BY <1>1 DEF Purged
<1> QED
  BY <1>1, <1>2, <1>3 DEF Channel!ChannelInit

LEMMA ChannelStep ==
  ASSUME EventInv, EventInv', StoreInv, CommittedInv, [Next]_vars
  PROVE  [Channel!ChannelNext]_(Channel!channelVars)
<1>1. CASE \E e \in Ids : Enqueue(e) \/ EndTransaction(e) \/ RecoverLease(e) \/ LeaseExpires(e)
  BY <1>1, TransactionRefines
<1>2. CASE \E w \in Workers : PublisherStep(w) \/ AbandonBatch(w)
  <2>1. PICK w \in Workers : Claim(w) \/ Publish(w) \/ Mark(w) \/ AbandonBatch(w)
    BY <1>2 DEF PublisherStep
  <2> QED
    BY <2>1, ClaimRefines, PublishRefines, VerdictRefines
<1>3. CASE \E e \in Ids : BrokerStep(e)
  <2>1. PICK e \in Ids, c \in Calls : Answered(c, e) \/ Deliver(c, e)
    BY <1>3 DEF BrokerStep
  <2>2. CASE Answered(c, e)
    BY <2>2, AnsweredRefines
  <2>3. CASE Deliver(c, e)
    <3>1. Channel!Try(e, c)
      BY <2>3, DeliverRefines
    <3> QED
      BY <3>1 DEF Channel!ChannelNext
  <2> QED
    BY <2>1, <2>2, <2>3
<1>4. CASE \E c \in Calls : ConsumerStep(c)
  <2>1. PICK c \in Calls : \/ DeliveryReturns(c) \/ RunHandler(c) \/ EndEmit(c)
                           \/ SettleDelivery(c) \/ Acknowledge(c)
    BY <1>4 DEF ConsumerStep
  <2>3. CASE DeliveryReturns(c)
    <3>1. /\ UNCHANGED <<record, copies, request, completed, left, ran>>
          /\ state[c] = "entering" /\ state' = [state EXCEPT ![c] = "working"]
          /\ state \in [Calls -> {"idle"} \cup Busy \cup Answers]
      BY <2>3 DEF DeliveryReturns, Register, eventVars, outboxVars, deliveryVars, StoreInv,
                  FlightInv, FlightTypeOK
    <3>2. \A d \in Calls : state'[d] \in Underway <=> state[d] \in Underway
      BY <3>1
    <3> QED
      BY <3>1, <3>2, SameFacts, SameDeliveries, SameKnown, ChannelStutters
  <2>2. CASE SettleDelivery(c)
    <3>1. /\ UNCHANGED <<record, copies, request, completed, left, ran>>
          /\ state' = [d \in Calls |-> IF d \in Waiting(c) THEN Outcome(c, d) ELSE state[d]]
          /\ state[c] \in {"worked", "broke"}
      BY <2>2 DEF SettleDelivery, Settle, eventVars, outboxVars, deliveryVars
    <3>2. \A d \in Calls : state'[d] \in Underway <=> state[d] \in Underway
      BY <3>1 DEF Waiting, Outcome
    <3> QED
      BY <3>1, <3>2, SameFacts, SameDeliveries, SameKnown, ChannelStutters
  <2> QED
    BY <2>1, <2>2, <2>3, RunHandlerRefines, EndEmitRefines, AcknowledgeRefines
<1>5. CASE CrashConsumer \/ Elapse
  BY <1>5, ForgetRefines
<1>6. CASE (\E h \in Visitors : Subscribe(h) \/ Unsubscribe(h)) \/ UNCHANGED vars
  <2>1. UNCHANGED <<record, copies, state, request, completed, left, ran>>
    BY <1>6 DEF Subscribe, Unsubscribe, vars, eventVars, idemVars, storeVars, callVars, outboxVars,
                deliveryVars
  <2> QED
    BY <2>1, NothingRefines
<1> QED
  BY <1>1, <1>2, <1>3, <1>4, <1>5, <1>6 DEF Next

\* Rows, claims, copies, calls, faults and restarts are an at-least-once channel: what was
\* rolled back reaches no handler, deliveries of an event do not overlap, and none is let
\* go before every resident handler has run (src/README.md:713, 715; outbox.ts:74, 99;
\* idempotency.ts:42), for any number of events, workers, calls, handlers and faults.
THEOREM DeliveryImplementsChannel == Spec => ImplementsChannel
<1>1. Init => EventInv /\ StoreInv /\ CommittedInv /\ Channel!ChannelInit
  BY EventStart, CommittedStart, ChannelStart
<1>2. EventInv /\ StoreInv /\ CommittedInv /\ [Next]_vars
        => EventInv' /\ StoreInv' /\ CommittedInv' /\ [Channel!ChannelNext]_(Channel!channelVars)
  BY EventStep, EventStepsTheStore, CommittedStep, ChannelStep
<1> QED
  BY <1>1, <1>2, PTL DEF Spec, ImplementsChannel, Channel!ChannelSpec
================================================================================
