---------------------------- MODULE EventDelivery ----------------------------
(***************************************************************************)
(* EventOutbox, EventConsumer and EventBus (src/kernel/events): an event   *)
(* is recorded in the transaction of its fact, published by workers, kept  *)
(* by the broker until it is acknowledged, and delivered to the handlers   *)
(* once per idempotency key.                                               *)
(*                                                                         *)
(* A delivery is a call of runOnce (module Idempotency) and Ids are the    *)
(* events, each under a key of its own.  The store behind the outbox and   *)
(* the broker are external.                                                *)
(***************************************************************************)
EXTENDS Idempotency, SequencesExt

CONSTANTS
  Workers,    \* callers of publishPending
  Resident,   \* the handlers that are subscribed from the start, in order
  Visitors,   \* handlers that come and go
  MaxFaults   \* bound on failures and crashes

ASSUME EventDeliveryAssumption ==
  /\ Resident \in Seq(Range(Resident)) /\ IsInjective(Resident)
  /\ Visitors \cap Range(Resident) = {}
  /\ MaxFaults \in Nat

VARIABLES
  record,  \* the record of an event in the outbox store
  batch,   \* the records a worker has claimed and not come to the end of
  step,    \* what the worker does with the first of them
  copies,  \* how often the broker has an event
  held,    \* whether a call has not told the broker its outcome yet
  bus,     \* the handlers of the event name, in the order of subscription
  todo,    \* the handlers a delivery has still to run, of those it found
  failing, \* whether a handler of that delivery has failed
  ran,     \* history: the handlers that have succeeded for an event
  tries,   \* history: deliveries of an event since one failed, or since the
           \* consumer crashed or forgot the event
  faults   \* failures and crashes so far

outboxVars == <<record, batch, step>>
deliveryVars == <<todo, failing, ran, tries>>
eventVars == <<outboxVars, copies, held, bus, deliveryVars, faults>>
vars == <<idemVars, eventVars>>

\* Some of the events may never happen, and some of the faults.
Init ==
  /\ IdemInit
  /\ record \in [Ids -> {"none", "rolled back"}]
  /\ batch = [w \in Workers |-> <<>>] /\ step = [w \in Workers |-> "idle"]
  /\ copies = [e \in Ids |-> 0]
  /\ held = [c \in Calls |-> FALSE]
  /\ bus = Resident
  /\ todo = [c \in Calls |-> <<>>] /\ failing = [c \in Calls |-> FALSE]
  /\ ran = [e \in Ids |-> {}] /\ tries = [e \in Ids |-> 0]
  /\ faults \in 0..MaxFaults

Fault == faults < MaxFaults /\ faults' = faults + 1

-----------------------------------------------------------------------------
\* enqueue appends the record in the caller's transaction, which commits or not.
Enqueue(e) ==
  /\ record[e] = "none"
  /\ record' = [record EXCEPT ![e] = "open"]
  /\ UNCHANGED <<idemVars, batch, step, copies, held, bus, deliveryVars, faults>>

EndTransaction(e) ==
  /\ record[e] = "open"
  /\ \E outcome \in {"pending", "rolled back"} : record' = [record EXCEPT ![e] = outcome]
  /\ UNCHANGED <<idemVars, batch, step, copies, held, bus, deliveryVars, faults>>

Claimable == { e \in Ids : record[e] = "pending" }

\* The store claims some of the pending records, in some order, for one worker.
Claim(w) ==
  /\ step[w] = "idle"
  /\ \E n \in 1..Cardinality(Claimable) : \E claimed \in [1..n -> Claimable] :
       /\ IsInjective(claimed)
       /\ record' = [e \in Ids |-> IF e \in Range(claimed) THEN "claimed" ELSE record[e]]
       /\ batch' = [batch EXCEPT ![w] = claimed]
  /\ step' = [step EXCEPT ![w] = "publishing"]
  /\ UNCHANGED <<idemVars, copies, held, bus, deliveryVars, faults>>

Sent(e) == copies' = [copies EXCEPT ![e] = @ + 1]

\* What a worker writes, and when the record goes out.  Mutant: it is marked as
\* published although publish rejected.
AlwaysPublished(outcome) == "marking"
AfterPublish(outcome) == IF outcome = "ok" THEN "marking" ELSE "failing"

\* publish resolves, or rejects, whether or not the broker has the event.
Publish(w) ==
  /\ step[w] = "publishing"
  /\ \/ /\ Sent(Head(batch[w])) /\ UNCHANGED faults
        /\ step' = [step EXCEPT ![w] = AfterPublish("ok")]
     \/ /\ Fault
        /\ Sent(Head(batch[w])) \/ UNCHANGED copies
        /\ step' = [step EXCEPT ![w] = AfterPublish("error")]
  /\ UNCHANGED <<idemVars, record, batch, held, bus, deliveryVars>>

Verdict(w) == IF step[w] = "marking" THEN "published" ELSE "pending"

\* markPublished or markFailed resolves, and the loop goes on.
Mark(w) ==
  /\ step[w] \in {"marking", "failing"}
  /\ record' = [record EXCEPT ![Head(batch[w])] = Verdict(w)]
  /\ batch' = [batch EXCEPT ![w] = Tail(@)]
  /\ step' = [step EXCEPT ![w] = IF Len(batch[w]) = 1 THEN "idle" ELSE "publishing"]
  /\ UNCHANGED <<idemVars, copies, held, bus, deliveryVars, faults>>

\* The mark or the delay function throws, or the worker crashes, whether or not
\* the store has written the mark: what is left of the batch stays claimed.
AbandonBatch(w) ==
  /\ step[w] # "idle" /\ Fault
  /\ \/ UNCHANGED record
     \/ /\ step[w] # "publishing"
        /\ record' = [record EXCEPT ![Head(batch[w])] = Verdict(w)]
  /\ batch' = [batch EXCEPT ![w] = <<>>]
  /\ step' = [step EXCEPT ![w] = "idle"]
  /\ UNCHANGED <<idemVars, copies, held, bus, deliveryVars>>

\* The store's lease recovery, of a record no worker has in its batch; when a
\* worker is slow, it comes too early.
RecoverLease(e) ==
  /\ record[e] = "claimed"
  /\ \A w \in Workers : e \notin Range(batch[w])
  /\ record' = [record EXCEPT ![e] = "pending"]
  /\ UNCHANGED <<idemVars, batch, step, copies, held, bus, deliveryVars, faults>>

LeaseExpires(e) ==
  /\ record[e] = "claimed" /\ Fault
  /\ \E w \in Workers : e \in Range(batch[w])
  /\ record' = [record EXCEPT ![e] = "pending"]
  /\ UNCHANGED <<idemVars, batch, step, copies, held, bus, deliveryVars>>

-----------------------------------------------------------------------------
Handling(e) == { c \in Calls : held[c] /\ request[c] = e }

Hold(c) == held' = [held EXCEPT ![c] = TRUE]

\* The broker hands a copy to a consumer, whose runOnce answers it from memory,
\* has it wait for the delivery in progress, or refuses it.
Answered(c, e) ==
  /\ ~held[c] /\ copies[e] > Cardinality(Handling(e))
  /\ Skip(c, e) \/ Join(c, e) \/ Refuse(c, e)
  /\ Hold(c)
  /\ UNCHANGED <<outboxVars, copies, bus, deliveryVars, faults>>

\* emit delivers to those it finds subscribed.
Deliver(c, e) ==
  /\ ~held[c] /\ copies[e] > Cardinality(Handling(e))
  /\ Begin(c, e)
  /\ Hold(c)
  /\ todo' = [todo EXCEPT ![c] = bus] /\ failing' = [failing EXCEPT ![c] = FALSE]
  /\ tries' = [tries EXCEPT ![e] = 1 + IF e \in everWon /\ e \notin completed' THEN 0 ELSE @]
  /\ UNCHANGED <<outboxVars, copies, bus, ran, faults>>

\* The first handler has been called, and consume returns a promise.
DeliveryReturns(c) == Register(c) /\ UNCHANGED eventVars

\* The next handler resolves or rejects; the payload may also fail to decode,
\* before the first of them.
RunHandler(c) ==
  /\ Free /\ state[c] = "working" /\ todo[c] # <<>>
  /\ \/ /\ ran' = [ran EXCEPT ![request[c]] = @ \cup {Head(todo[c])}]
        /\ todo' = [todo EXCEPT ![c] = Tail(@)]
        /\ UNCHANGED <<failing, faults>>
     \/ /\ Fault
        /\ failing' = [failing EXCEPT ![c] = TRUE]
        /\ \E rest \in {Tail(todo[c]), <<>>} : todo' = [todo EXCEPT ![c] = rest]
        /\ UNCHANGED ran
  /\ UNCHANGED <<idemVars, outboxVars, copies, held, bus, tries>>

\* The failures that emit has collected.  Mutant: it swallows them.
Swallowed(c) == FALSE
Failures(c) == failing[c]

EndEmit(c) ==
  /\ todo[c] = <<>>
  /\ \/ ~Failures(c) /\ WorkSucceeds(c) /\ UNCHANGED tries
     \/ /\ Failures(c) /\ WorkFails(c)
        /\ tries' = [tries EXCEPT ![request[c]] = 0]
  /\ UNCHANGED <<outboxVars, copies, held, bus, todo, failing, ran, faults>>

SettleDelivery(c) == Settle(c) /\ UNCHANGED eventVars

\* consume has resolved: the delivery is acknowledged.  It has rejected: the
\* broker keeps its copy.
Acknowledge(c) ==
  /\ Free /\ held[c] /\ state[c] \in Answers
  /\ held' = [held EXCEPT ![c] = FALSE]
  /\ copies' = IF state[c] = "ok" THEN [copies EXCEPT ![request[c]] = @ - 1] ELSE copies
  /\ UNCHANGED <<idemVars, outboxVars, bus, deliveryVars, faults>>

\* The consumer's process restarts: nothing of it survives, and the broker has
\* every copy it was not told of.
CrashConsumer ==
  /\ Fault
  /\ completed' = {} /\ left' = [e \in Ids |-> 0] /\ wins' = [e \in Ids |-> 0]
  /\ pending' = [e \in Ids |-> NoCall] /\ calling' = <<>> /\ nested' = {}
  /\ state' = [c \in Calls |-> "idle"] /\ held' = [c \in Calls |-> FALSE]
  /\ todo' = [c \in Calls |-> <<>>] /\ failing' = [c \in Calls |-> FALSE]
  /\ tries' = [e \in Ids |-> 0]
  /\ bus' = Resident
  /\ UNCHANGED <<request, joined, everWon, newer, outboxVars, copies, ran>>

\* on and unsubscribe.
Subscribe(h) ==
  /\ h \notin Range(bus)
  /\ bus' = Append(bus, h)
  /\ UNCHANGED <<idemVars, outboxVars, copies, held, deliveryVars, faults>>

Unsubscribe(h) ==
  /\ h \in Range(bus)
  /\ bus' = RemoveFirst(bus, h)
  /\ UNCHANGED <<idemVars, outboxVars, copies, held, deliveryVars, faults>>

Elapse == Tick /\ UNCHANGED eventVars

-----------------------------------------------------------------------------
PublisherStep(w) == Claim(w) \/ Publish(w) \/ Mark(w)
ConsumerStep(c) ==
  \/ DeliveryReturns(c) \/ RunHandler(c) \/ EndEmit(c) \/ SettleDelivery(c) \/ Acknowledge(c)
BrokerStep(e) == \E c \in Calls : Answered(c, e) \/ Deliver(c, e)

Next ==
  \/ \E e \in Ids : Enqueue(e) \/ EndTransaction(e) \/ RecoverLease(e)
                    \/ LeaseExpires(e) \/ BrokerStep(e)
  \/ \E w \in Workers : PublisherStep(w) \/ AbandonBatch(w)
  \/ \E c \in Calls : ConsumerStep(c)
  \/ \E h \in Visitors : Subscribe(h) \/ Unsubscribe(h)
  \/ CrashConsumer \/ Elapse

Spec == Init /\ [][Next]_vars

\* Workers poll, handlers settle, and the broker and the store's lease recovery
\* do their part.
Fairness ==
  /\ \A w \in Workers : WF_vars(PublisherStep(w))
  /\ \A c \in Calls : WF_vars(ConsumerStep(c))
  /\ \A e \in Ids : WF_vars(BrokerStep(e)) /\ WF_vars(RecoverLease(e))

FairSpec == Spec /\ Fairness

-----------------------------------------------------------------------------
\* An event whose transaction has committed is still owed by the outbox or by the
\* broker, or every resident handler has run for it: a failure or a crash between
\* publish and markPublished (outbox.ts:99), of a handler (bus.ts:55) or of the
\* consumer loses none.  And however many copies the broker holds, the handlers run
\* again for an event only after a delivery of it has failed, or the consumer has
\* crashed or forgotten it.
NeitherLostNorRepeated ==
  /\ \A e \in Ids :
       record[e] = "published" /\ copies[e] = 0 => Range(Resident) \subseteq ran[e]
  /\ \A e \in Ids : tries[e] <= 1

\* A committed event reaches every resident handler once faults have ended.
CommittedIsHandled ==
  \A e \in Ids : record[e] = "pending" ~> Range(Resident) \subseteq ran[e]

-----------------------------------------------------------------------------
(* The channel that all of this is for.                                    *)

Fact(e) ==
  IF record[e] \in {"none", "open", "rolled back"} THEN record[e]
  ELSE IF record[e] = "published" /\ copies[e] = 0 THEN "delivered" ELSE "owed"

Delivering(e) == { c \in Calls : state[c] \in Underway /\ request[c] = e }

Channel == INSTANCE EventChannel WITH
  Events <- Ids, Attempts <- Calls,
  Handlers <- Range(Resident) \cup Visitors, Resident <- Range(Resident),
  fact <- [e \in Ids |-> Fact(e)], trying <- [e \in Ids |-> Delivering(e)],
  known <- Purged, heard <- ran

\* Rows, claims, copies, calls, faults and restarts are an at-least-once channel: what
\* was rolled back reaches no handler (outbox.ts:74, src/README.md:715), deliveries of
\* an event do not overlap however many copies there are (src/README.md:713), and none
\* is let go before all its handlers have run.
ImplementsChannel == Channel!ChannelSpec
=============================================================================
