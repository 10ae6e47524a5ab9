------------------------------- MODULE Database -------------------------------
(***************************************************************************)
(* DatabaseConnection (src/kernel/data/database.ts): operations that begin *)
(* with a shared initialize(), and a dispose() that may come at any point  *)
(* of them.  connect, close and the work of an operation are the driver's. *)
(*                                                                         *)
(* A connection connects successfully at most once, so there is one client. *)
(***************************************************************************)
EXTENDS Integers, FiniteSets

CONSTANTS
  Ops,   \* calls of use, transaction, ping and initialize
  NoOp

ASSUME DatabaseAssumption == NoOp \notin Ops /\ IsFiniteSet(Ops)

VARIABLES
  state,      \* this.state
  hasClient,  \* whether this.client is set
  conn,       \* the driver's client: "none", "open", "closing" or "closed"
  round,      \* the promise initializing, "none" when it is not set
  starter,    \* the call whose finally block will clear it
  op,         \* how far each call is
  active,     \* activeOperations
  disposal    \* how far dispose() is; "waiting" in idleWaiters

dbVars == <<state, hasClient, conn, round, starter, op, active, disposal>>

Connecting == { "connecting", "late" }

DbInit ==
  /\ state = "disconnected" /\ hasClient = FALSE /\ conn = "none"
  /\ round = "none" /\ starter = NoOp
  /\ op = [o \in Ops |-> "new"]
  /\ active = 0
  /\ disposal = "no"

-----------------------------------------------------------------------------
\* initialize(), which every call awaits first.
Call(o) ==
  /\ op[o] = "new"
  /\ \/ /\ state = "connected"
        /\ op' = [op EXCEPT ![o] = "ready"]
        /\ UNCHANGED <<state, round, starter>>
     \/ /\ state = "closed"
        /\ op' = [op EXCEPT ![o] = "failed"]
        /\ UNCHANGED <<state, round, starter>>
     \/ /\ state \in {"disconnected", "connecting"} /\ round # "none"
        /\ op' = [op EXCEPT ![o] = IF round = "failed" THEN "failed" ELSE "joined"]
        /\ UNCHANGED <<state, round, starter>>
     \/ /\ state = "disconnected" /\ round = "none"
        /\ state' = "connecting" /\ round' = "connecting" /\ starter' = o
        /\ op' = [op EXCEPT ![o] = "starting"]
  /\ UNCHANGED <<hasClient, conn, active, disposal>>

\* The round settles: those who joined it go on, its starter after its finally.
Joined(outcome) == [o \in Ops |-> IF op[o] = "joined" THEN outcome ELSE op[o]]

\* The test of the state when connect has resolved.  Mutant: it is left out.
NeverTooLate == FALSE
TooLate == state = "closed"

ConnectSucceeds ==
  /\ round = "connecting" /\ ~TooLate
  /\ conn' = "open" /\ hasClient' = TRUE /\ state' = "connected"
  /\ round' = "ok"
  /\ op' = Joined("ready")
  /\ UNCHANGED <<starter, active, disposal>>

\* dispose() came first: the new client is closed at once.
ConnectsTooLate ==
  /\ round = "connecting" /\ TooLate
  /\ conn' = "closing" /\ round' = "late"
  /\ UNCHANGED <<state, hasClient, starter, op, active, disposal>>

ConnectFails ==
  /\ \/ round = "connecting" /\ UNCHANGED conn
     \/ round = "late" /\ conn' = "closed"
  /\ state' = IF state = "closed" THEN state ELSE "disconnected"
  /\ round' = "failed"
  /\ op' = Joined("failed")
  /\ UNCHANGED <<hasClient, starter, active, disposal>>

ClearRound ==
  /\ round \in {"ok", "failed"}
  /\ op' = [op EXCEPT ![starter] = IF round = "ok" THEN "ready" ELSE "failed"]
  /\ round' = "none" /\ starter' = NoOp
  /\ UNCHANGED <<state, hasClient, conn, active, disposal>>

-----------------------------------------------------------------------------
\* requireClient.  Mutant: only the client is looked at, not the state.
AnyClient == hasClient
ClientReady == state = "connected" /\ hasClient

\* beginOperation; initialize() itself, and a ping without the adapter's, end
\* where they would begin.
Start(o) ==
  /\ op[o] = "ready"
  /\ \/ /\ ClientReady
        /\ op' = [op EXCEPT ![o] = "working"]
        /\ active' = active + 1
     \/ /\ ~ClientReady
        /\ op' = [op EXCEPT ![o] = "failed"]
        /\ UNCHANGED active
     \/ op' = [op EXCEPT ![o] = "done"] /\ UNCHANGED active
  /\ UNCHANGED <<state, hasClient, conn, round, starter, disposal>>

\* The work settles, either way; the last release wakes the idle waiters.
\* Mutant: it wakes nobody.
NobodyWakes == disposal
Woken == IF active = 1 /\ disposal = "waiting" THEN "quiet" ELSE disposal

Release(o) ==
  /\ op[o] = "working"
  /\ op' = [op EXCEPT ![o] = "done"]
  /\ active' = active - 1
  /\ disposal' = Woken
  /\ UNCHANGED <<state, hasClient, conn, round, starter>>

-----------------------------------------------------------------------------
Dispose ==
  /\ disposal = "no"
  /\ state' = "closed" /\ disposal' = "round"
  /\ UNCHANGED <<hasClient, conn, round, starter, op, active>>

\* finishDispose awaits the round in progress, then the operations.
\* Mutant: it does not await the operations.
NeverWaits == "quiet"
WaitForIdle == IF active = 0 THEN "quiet" ELSE "waiting"

AfterRound ==
  /\ disposal = "round" /\ round \notin Connecting
  /\ disposal' = WaitForIdle
  /\ UNCHANGED <<state, hasClient, conn, round, starter, op, active>>

CloseClient ==
  /\ disposal = "quiet"
  /\ \/ ~hasClient /\ disposal' = "done" /\ UNCHANGED <<hasClient, conn>>
     \/ hasClient /\ hasClient' = FALSE /\ conn' = "closing" /\ disposal' = "closing"
  /\ UNCHANGED <<state, round, starter, op, active>>

CloseSettles ==
  /\ disposal = "closing"
  /\ conn' = "closed" /\ disposal' \in {"done", "failed"}
  /\ UNCHANGED <<state, hasClient, round, starter, op, active>>

\* Everything the driver and the event loop owe.
DbProgress ==
  \/ ConnectSucceeds \/ ConnectsTooLate \/ ConnectFails \/ ClearRound
  \/ \E o \in Ops : Start(o) \/ Release(o)
  \/ AfterRound \/ CloseClient \/ CloseSettles

DbNext == DbProgress \/ Dispose \/ \E o \in Ops : Call(o)

DbSpec == DbInit /\ [][DbNext]_dbVars

-----------------------------------------------------------------------------
\* Types, and what the flags say of each other.
DbTypeOK ==
  /\ state \in {"disconnected", "connecting", "connected", "closed"}
  /\ hasClient \in BOOLEAN
  /\ conn \in {"none", "open", "closing", "closed"}
  /\ round \in {"none", "connecting", "late", "ok", "failed"}
  /\ starter \in Ops \cup {NoOp} /\ (starter = NoOp <=> round = "none")
  /\ op \in [Ops -> {"new", "joined", "starting", "ready", "working", "done", "failed"}]
  /\ active \in Nat
  /\ disposal \in {"no", "round", "waiting", "quiet", "closing", "done", "failed"}

\* Whenever dispose() comes, no operation works on a client that is being closed
\* or has been (database.ts:137).  A client that connects is either held or closed,
\* also when dispose() came while it connected (database.ts:66), and a dispose()
\* that has settled leaves no client, no connection in progress and no work behind.
ClientIsOwned ==
  /\ \A o \in Ops : op[o] = "working" => conn = "open"
  /\ conn = "open" <=> hasClient
  /\ disposal \in {"done", "failed"} =>
       conn \in {"none", "closed"} /\ round \notin Connecting /\ active = 0

\* dispose() settles once the work in progress has: the last operation to end finds
\* it among the idle waiters (database.ts:173).
DisposeReturns == disposal # "no" ~> disposal \in {"done", "failed"}
=============================================================================
