----------------------------- MODULE EventChannel -----------------------------
(***************************************************************************)
(* What the outbox, a broker and a consumer promise together               *)
(* (src/README.md:713, 715): an event that is recorded with a fact is      *)
(* heard by every resident handler at least once, and by none if the fact  *)
(* was rolled back.  Nothing is said of rows, claims, copies or faults.    *)
(***************************************************************************)
CONSTANTS
  Events,
  Attempts,  \* names of the attempts to deliver an event
  Handlers,
  Resident   \* the handlers that are always subscribed

VARIABLES
  fact,    \* "none", "open", "rolled back", "owed" or "delivered"
  trying,  \* the attempts in progress to deliver an event
  known,   \* the events that are known to have been delivered
  heard    \* the handlers that an event has reached

channelVars == <<fact, trying, known, heard>>

ChannelInit ==
  /\ fact \in [Events -> {"none", "rolled back"}]
  /\ trying = [e \in Events |-> {}] /\ known = {}
  /\ heard = [e \in Events |-> {}]

Becomes(e, from, to) == fact[e] = from /\ fact' = [fact EXCEPT ![e] = to]

Record(e) == Becomes(e, "none", "open") /\ UNCHANGED <<trying, known, heard>>

Decide(e) ==
  /\ \E outcome \in {"owed", "rolled back"} : Becomes(e, "open", outcome)
  /\ UNCHANGED <<trying, known, heard>>

\* One attempt at a time, and none for what is known to have succeeded.
Try(e, a) ==
  /\ fact[e] = "owed" /\ trying[e] = {} /\ e \notin known
  /\ trying' = [trying EXCEPT ![e] = {a}]
  /\ UNCHANGED <<fact, known, heard>>

Hear(e, h) ==
  /\ fact[e] = "owed" /\ trying[e] # {}
  /\ heard' = [heard EXCEPT ![e] = @ \cup {h}]
  /\ UNCHANGED <<fact, trying, known>>

\* The success is known for a while; some others may be forgotten for it.
Succeed(e) ==
  /\ trying[e] # {} /\ Resident \subseteq heard[e]
  /\ trying' = [trying EXCEPT ![e] = {}]
  /\ \E kept \in SUBSET known : known' = kept \cup {e}
  /\ UNCHANGED <<fact, heard>>

\* Attempts fail, or are cut off; successes are forgotten.
GiveUp ==
  /\ \E lost \in SUBSET Events :
       trying' = [e \in Events |-> IF e \in lost THEN {} ELSE trying[e]]
  /\ known' \in SUBSET known
  /\ UNCHANGED <<fact, heard>>

\* Nobody is left who would deliver it: the broker drops its last copy, or the outbox
\* marks the record of what the broker no longer has.
LetGo(e) ==
  /\ trying[e] = {} /\ Resident \subseteq heard[e]
  /\ Becomes(e, "owed", "delivered")
  /\ UNCHANGED <<trying, known, heard>>

\* At least once: it may be sent again all the same.
Resend(e) == Becomes(e, "delivered", "owed") /\ UNCHANGED <<trying, known, heard>>

ChannelNext ==
  \/ \E e \in Events : Record(e) \/ Decide(e) \/ Succeed(e) \/ LetGo(e) \/ Resend(e)
  \/ \E e \in Events, a \in Attempts : Try(e, a)
  \/ \E e \in Events, h \in Handlers : Hear(e, h)
  \/ GiveUp

ChannelSpec == ChannelInit /\ [][ChannelNext]_channelVars
=============================================================================
