------------------------------ MODULE Migrations ------------------------------
(***************************************************************************)
(* MigrationRunner (src/kernel/data/migrations.ts): up() and down() under  *)
(* the lock of the store, with failures and crashes between any two steps. *)
(*                                                                         *)
(* External: the journal keeps what was marked in order, the lock excludes  *)
(* other runs and is freed by a crash of its owner, and a change that is   *)
(* cut short may or may not have been made.                                *)
(***************************************************************************)
EXTENDS Integers, Sequences, SequencesExt

CONSTANTS
  Migrations,   \* migration ids, as numbers in the order of the ids
  Runners,
  Registered,   \* the migrations each runner was constructed with
  Irreversible, \* those without down()
  NoRunner,
  MaxFaults     \* bound on failures and crashes

ASSUME MigrationsAssumption ==
  /\ Migrations \subseteq Nat \ {0}
  /\ Registered \in [Runners -> SUBSET Migrations]
  /\ NoRunner \notin Runners /\ MaxFaults \in Nat

VARIABLES
  journal,  \* what the store shows as applied
  changed,  \* the migrations whose change is in the database
  owner,    \* the runner that has the lock
  run,      \* what that run is: "up", "down" or "none"
  todo,     \* the migrations it has not marked yet
  made,     \* the one whose change it has made and not yet marked, or 0
  cut,      \* history: per direction, the changes cut short before their mark
  faults    \* failures and crashes so far

migVars == <<journal, changed, owner, run, todo, made, cut, faults>>

Directions == { "up", "down" }

MigInit ==
  /\ journal = <<>> /\ changed = {}
  /\ owner = NoRunner /\ run = "none" /\ todo = {} /\ made = 0
  /\ cut = [d \in Directions |-> {}]
  /\ faults = 0

-----------------------------------------------------------------------------
\* readApplied: everything registered, in order, without a gap.  Mutant: the
\* test for a gap is left out.
Before(i) == { journal[j] : j \in 1..(i - 1) }
InOrder(r) ==
  \A i \in DOMAIN journal : journal[i] \in Registered[r] /\ \A m \in Before(i) : m < journal[i]
ReadApplied(r) ==
  \A i \in DOMAIN journal :
    journal[i] \in Registered[r] /\ Before(i) = { m \in Registered[r] : m < journal[i] }

\* withLock.  Mutant: it does not exclude.
NoLock == TRUE
Lock == owner = NoRunner

Begin(r, direction, plan) ==
  /\ Lock
  /\ ReadApplied(r)
  /\ owner' = r /\ run' = direction /\ todo' = plan /\ made' = 0
  /\ UNCHANGED <<journal, changed, cut, faults>>

BeginUp(r) == Begin(r, "up", Registered[r] \ Range(journal))

\* applied.slice(-steps).
Newest(steps) == { journal[i] : i \in (Len(journal) - steps + 1)..Len(journal) }

BeginDown(r, steps) ==
  /\ Newest(steps) \cap Irreversible = {}
  /\ Begin(r, "down", Newest(steps))

\* up() goes through the ids in order, down() through the journal from its end.
\* Mutant: down() forgets reverse().
Due == CHOOSE m \in todo : \A n \in todo : IF run = "up" THEN m <= n ELSE n <= m

Applied(direction, m) == IF direction = "up" THEN changed \cup {m} ELSE changed \ {m}

\* up() or down() of the next migration resolves.
Change ==
  /\ run # "none" /\ made = 0 /\ todo # {}
  /\ made' = Due
  /\ changed' = Applied(run, Due)
  /\ UNCHANGED <<journal, owner, run, todo, cut, faults>>

Marked == IF run = "up" THEN Append(journal, made) ELSE RemoveFirst(journal, made)

Mark ==
  /\ made # 0
  /\ journal' = Marked
  /\ todo' = todo \ {made} /\ made' = 0
  /\ cut' = [d \in Directions |-> cut[d] \ {made}]
  /\ UNCHANGED <<changed, owner, run, faults>>

Unlock == owner' = NoRunner /\ run' = "none" /\ todo' = {} /\ made' = 0

\* The lock is kept until the run settles.
Finish ==
  /\ run # "none" /\ made = 0 /\ todo = {}
  /\ Unlock
  /\ UNCHANGED <<journal, changed, cut, faults>>

\* A change is cut short or its mark is not written, by a failure or a crash.
Interrupted ==
  /\ run # "none" /\ todo # {}
  /\ faults < MaxFaults /\ faults' = faults + 1
  /\ changed' \in {changed, Applied(run, Due)}
  /\ cut' = [cut EXCEPT ![run] = @ \cup {Due}]
  /\ Unlock
  /\ UNCHANGED journal

\* markApplied or markReverted rejects although the journal has been written.
MarkUnconfirmed ==
  /\ made # 0
  /\ faults < MaxFaults /\ faults' = faults + 1
  /\ journal' = Marked
  /\ cut' = [d \in Directions |-> cut[d] \ {made}]
  /\ Unlock
  /\ UNCHANGED changed

MigNext ==
  \/ \E r \in Runners : BeginUp(r)
  \/ \E r \in Runners : \E steps \in 1..Len(journal) : BeginDown(r, steps)
  \/ Change \/ Mark \/ Finish \/ Interrupted \/ MarkUnconfirmed

MigSpec == MigInit /\ [][MigNext]_migVars

-----------------------------------------------------------------------------
\* The journal and the database disagree only about changes that a failure or a
\* crash cut off from their mark (migrations.ts:62, 90): such a change may be
\* made again, any other is made exactly once.
JournalTellsTruth ==
  made = 0 => /\ changed \ Range(journal) \subseteq cut["up"]
              /\ Range(journal) \ changed \subseteq cut["down"]

\* A runner changes the database only at the end of the journal: it applies a
\* migration when the journal shows exactly its earlier ones, and reverts the
\* newest, whatever other releases have run before (migrations.ts:98).
ChangesAtTheEnd ==
  [][made = 0 /\ made' # 0 =>
       IF run = "up"
       THEN Range(journal) = { m \in Registered[owner] : m < made' }
       ELSE made' = Last(journal)]_migVars
=============================================================================
