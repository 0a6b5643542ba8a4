----------------------------- MODULE OutboxRelay -----------------------------
(***************************************************************************)
(* The transactional outbox of the subscription and tracking services      *)
(* (their relays are the same code): business transactions insert rows,    *)
(* and one relay per instance publishes them from inside a transaction of  *)
(* its own.  Publishing cannot be rolled back, the deletes and attempt     *)
(* counts of the batch can: once PostgreSQL has ended the transaction, the *)
(* relay goes on publishing rows it no longer holds locks on.  Messages    *)
(* are numbered by outbox_messages.id.                                     *)
(***************************************************************************)
EXTENDS Naturals, FiniteSets

CONSTANTS
  MaxId,        \* bound: rows ever inserted
  Relays,       \* Relay.Run goroutines, one per service instance
  BatchSize,    \* defaultBatchSize
  MaxAttempts,  \* defaultMaxAttempts
  MaxRollbacks, \* bound: batches whose transaction is rolled back
  Faults        \* subset of {"nack", "lostconfirm", "rollback"}

ASSUME BoundsAssumption ==
  /\ MaxId \in Nat /\ BatchSize \in Nat \ {0}
  /\ MaxAttempts \in Nat \ {0} /\ MaxRollbacks \in Nat
  /\ IsFiniteSet(Relays)

Messages == 1..MaxId

VARIABLES
  change,     \* the business transaction that inserted the message
  status,     \* status of its row in outbox_messages
  attempts,   \* attempts column of its row
  inBatch,    \* inBatch[r]: r is in WithinTransaction
  todo,       \* todo[r]: fetched rows of r's batch, not yet processed
  sent,       \* sent[r]: rows of the batch it has deleted, uncommitted
  unsent,     \* unsent[r]: rows of the batch it has called Fail for, uncommitted
  aborted,    \* aborted[r]: PostgreSQL has ended r's transaction, r goes on
  rollbacks,  \* transactions of batches rolled back so far
  accepted    \* accepted[m]: how often the broker confirmed m

rowVars   == <<change, status, attempts>>
batchVars == <<inBatch, todo, sent, unsent, aborted, rollbacks>>
vars == <<change, status, attempts, inBatch, todo, sent, unsent, aborted,
          rollbacks, accepted>>

Init ==
  /\ change = [m \in Messages |-> "none"]
  /\ status = [m \in Messages |-> "NONE"]
  /\ attempts = [m \in Messages |-> 0]
  /\ inBatch = [r \in Relays |-> FALSE]
  /\ todo = [r \in Relays |-> {}]
  /\ sent = [r \in Relays |-> {}] /\ unsent = [r \in Relays |-> {}]
  /\ aborted = [r \in Relays |-> FALSE]
  /\ rollbacks = 0
  /\ accepted = [m \in Messages |-> 0]

-----------------------------------------------------------------------------
(* Business transactions *)

\* Mutant of Insert: the row is not inserted in the caller's transaction.
InsertOutsideTransaction(m) ==
  /\ change[m] = "none" /\ \A n \in 1..(m - 1) : change[n] # "none"
  /\ change' = [change EXCEPT ![m] = "open"]
  /\ status' = [status EXCEPT ![m] = "PENDING"]
  /\ UNCHANGED <<attempts, batchVars, accepted>>

\* OutboxRepository.Insert inside the caller's transaction: the id is drawn, the
\* row is not visible yet.
Insert(m) ==
  /\ change[m] = "none" /\ \A n \in 1..(m - 1) : change[n] # "none"
  /\ change' = [change EXCEPT ![m] = "open"]
  /\ status' = [status EXCEPT ![m] = "INSERTED"]
  /\ UNCHANGED <<attempts, batchVars, accepted>>

Commit(m) ==
  /\ change[m] = "open"
  /\ change' = [change EXCEPT ![m] = "committed"]
  /\ status' = [status EXCEPT ![m] = "PENDING"]
  /\ UNCHANGED <<attempts, batchVars, accepted>>

\* Mutant of Abandon: the row outlives its business transaction.
AbandonKeepsRow(m) ==
  /\ change[m] = "open"
  /\ change' = [change EXCEPT ![m] = "aborted"]
  /\ status' = [status EXCEPT ![m] = "PENDING"]
  /\ UNCHANGED <<attempts, batchVars, accepted>>

Abandon(m) ==
  /\ change[m] = "open"
  /\ change' = [change EXCEPT ![m] = "aborted"]
  /\ status' = [status EXCEPT ![m] = "NONE"]
  /\ UNCHANGED <<attempts, batchVars, accepted>>

-----------------------------------------------------------------------------
(* Relay.process *)

\* Rows FetchPending selected FOR UPDATE: locked as long as the transaction lives.
Held(r) == IF aborted[r] THEN {} ELSE todo[r] \cup sent[r] \cup unsent[r]

\* Mutant of Free: no row locks.
FreeUnlocked == {m \in Messages : status[m] = "PENDING"}

\* Mutant of Free: rows that failed once are not fetched again.
FreeUntried == {m \in Messages : status[m] = "PENDING" /\ attempts[m] = 0
                                   /\ \A r \in Relays : m \notin Held(r)}

\* FOR UPDATE SKIP LOCKED: pending rows no live transaction holds.
Free == {m \in Messages : status[m] = "PENDING" /\ \A r \in Relays : m \notin Held(r)}

\* FetchPending: the first BatchSize of them by id.
Fetch(r) ==
  /\ ~inBatch[r] /\ Free # {}
  /\ inBatch' = [inBatch EXCEPT ![r] = TRUE]
  /\ todo' = [todo EXCEPT ![r] =
       {m \in Free : Cardinality({n \in Free : n < m}) < BatchSize}]
  /\ UNCHANGED <<rowVars, sent, unsent, aborted, rollbacks, accepted>>

\* The batch is processed by ascending id.
NextOf(r, m) == m \in todo[r] /\ \A n \in todo[r] : m <= n

\* The broker confirms m.  (mandatory is false: it does so too when no consumer
\* has declared the queue yet, see Route in SubscriptionSaga.)
Accept(m) == accepted' = [accepted EXCEPT ![m] = @ + 1]

\* Delete and Fail take effect in a live transaction; in one that PostgreSQL has
\* ended they fail, which is only logged.
Recorded(r, m) == IF aborted[r] THEN {} ELSE {m}

\* Publish returns nil, then Delete.
Publish(r, m) ==
  /\ NextOf(r, m)
  /\ Accept(m)
  /\ todo' = [todo EXCEPT ![r] = @ \ {m}]
  /\ sent' = [sent EXCEPT ![r] = @ \cup Recorded(r, m)]
  /\ UNCHANGED <<rowVars, inBatch, unsent, aborted, rollbacks>>

\* Mutant of PublishError: no return after Fail, so Delete follows.
PublishErrorDeletes(r, m, taken) ==
  /\ (IF taken THEN "lostconfirm" ELSE "nack") \in Faults
  /\ NextOf(r, m)
  /\ IF taken THEN Accept(m) ELSE UNCHANGED accepted
  /\ todo' = [todo EXCEPT ![r] = @ \ {m}]
  /\ sent' = [sent EXCEPT ![r] = @ \cup Recorded(r, m)]
  /\ UNCHANGED <<rowVars, inBatch, unsent, aborted, rollbacks>>

\* Publish returns an error, then Fail.  taken: the broker took the message but
\* the connection broke first, so the closed confirm channel reads as a nack.
PublishError(r, m, taken) ==
  /\ (IF taken THEN "lostconfirm" ELSE "nack") \in Faults
  /\ NextOf(r, m)
  /\ IF taken THEN Accept(m) ELSE UNCHANGED accepted
  /\ todo' = [todo EXCEPT ![r] = @ \ {m}]
  /\ unsent' = [unsent EXCEPT ![r] = @ \cup Recorded(r, m)]
  /\ UNCHANGED <<rowVars, inBatch, sent, aborted, rollbacks>>

MayRollBack == "rollback" \in Faults /\ rollbacks < MaxRollbacks

\* Delete or Fail fails, or the session is lost: PostgreSQL rolls back and frees
\* the rows at once; processMessage logs it and goes on with the next message.
StatementFails(r) ==
  /\ inBatch[r] /\ ~aborted[r] /\ MayRollBack
  /\ aborted' = [aborted EXCEPT ![r] = TRUE]
  /\ rollbacks' = rollbacks + 1
  /\ sent' = [sent EXCEPT ![r] = {}]
  /\ unsent' = [unsent EXCEPT ![r] = {}]
  /\ UNCHANGED <<rowVars, inBatch, todo, accepted>>

EndBatch(r) ==
  /\ inBatch' = [inBatch EXCEPT ![r] = FALSE]
  /\ todo' = [todo EXCEPT ![r] = {}]
  /\ sent' = [sent EXCEPT ![r] = {}]
  /\ unsent' = [unsent EXCEPT ![r] = {}]
  /\ aborted' = [aborted EXCEPT ![r] = FALSE]

\* Mutant of GivenUp: compares the attempts before this one.
GivenUpLate(r) == {m \in unsent[r] : attempts[m] >= MaxAttempts}

\* Rows whose attempts + 1 reaches maxAttempts become FAILED.
GivenUp(r) == {m \in unsent[r] : attempts[m] + 1 >= MaxAttempts}

\* The transaction commits: deletes and attempt counts take effect.
CommitBatch(r) ==
  /\ inBatch[r] /\ todo[r] = {} /\ ~aborted[r]
  /\ attempts' = [m \in Messages |->
       IF m \in unsent[r] THEN attempts[m] + 1 ELSE attempts[m]]
  /\ status' = [m \in Messages |->
       IF m \in sent[r] THEN "DELETED"
       ELSE IF m \in GivenUp(r) THEN "FAILED"
       ELSE status[m]]
  /\ EndBatch(r)
  /\ UNCHANGED <<change, rollbacks, accepted>>

\* tx.Commit of a transaction that PostgreSQL has ended returns an error.
CommitFails(r) ==
  /\ todo[r] = {} /\ aborted[r]
  /\ EndBatch(r)
  /\ UNCHANGED <<rowVars, rollbacks, accepted>>

\* The service stops or crashes anywhere in a batch.
Rollback(r) ==
  /\ inBatch[r]
  /\ \/ aborted[r] /\ "rollback" \in Faults /\ UNCHANGED rollbacks
     \/ ~aborted[r] /\ MayRollBack /\ rollbacks' = rollbacks + 1
  /\ EndBatch(r)
  /\ UNCHANGED <<rowVars, accepted>>

-----------------------------------------------------------------------------
Process(r) ==
  \/ Fetch(r)
  \/ \E m \in Messages : Publish(r, m) \/ \E taken \in BOOLEAN : PublishError(r, m, taken)
  \/ CommitBatch(r) \/ CommitFails(r)

Next ==
  \/ \E m \in Messages : Insert(m) \/ Commit(m) \/ Abandon(m)
  \/ \E r \in Relays : Process(r) \/ StatementFails(r) \/ Rollback(r)

Spec == Init /\ [][Next]_vars

(***************************************************************************)
(* Fairness.  Relay.Run processes a batch at every tick and each step of a *)
(* batch returns.  Faults are not fair, and rollbacks are bounded: the     *)
(* database recovers eventually.                                           *)
(***************************************************************************)
FairSpec == Spec /\ \A r \in Relays : WF_<<inBatch[r], todo[r]>>(Process(r))

-----------------------------------------------------------------------------
(* Properties *)

\* Every variable stays in range; the attempts column never passes the limit.
TypeOK ==
  /\ change \in [Messages -> {"none", "open", "committed", "aborted"}]
  /\ status \in [Messages -> {"NONE", "INSERTED", "PENDING", "FAILED", "DELETED"}]
  /\ attempts \in [Messages -> 0..MaxAttempts]
  /\ inBatch \in [Relays -> BOOLEAN]
  /\ todo \in [Relays -> SUBSET Messages]
  /\ sent \in [Relays -> SUBSET Messages]
  /\ unsent \in [Relays -> SUBSET Messages]
  /\ aborted \in [Relays -> BOOLEAN]
  /\ rollbacks \in Nat
  /\ accepted \in [Messages -> Nat]

\* ARCHITECTURE.md, the "only if" half: nothing is published for a business
\* change that is still open or was rolled back.
PublishedIsCommitted ==
  \A m \in Messages : accepted[m] > 0 => change[m] = "committed"

\* Duplicates are accounted for: with any number of relays, every copy beyond the
\* first has a recorded attempt or a rolled back transaction to show for it, even
\* those a relay publishes after it lost its locks, when the row may be settled.
DuplicatesAreAccounted ==
  \A m \in Messages : accepted[m] <= attempts[m] + rollbacks + 1

\* The outbox keeps the promise of AtLeastOnce.
Promise == INSTANCE AtLeastOnce WITH
  owed    <- {m \in Messages : status[m] = "PENDING"},
  handed  <- accepted,
  settled <- {m \in Messages : status[m] = "DELETED"},
  aside   <- {m \in Messages : status[m] = "FAILED"}

\* Committing a batch, rolling it back, losing its locks, or sharing the table
\* with other relays never crosses off a message the broker did not take, never
\* brings one back that was dealt with, and publishes none that was never owed.
KeepsPromise == Promise!Spec

\* A committed message does not stay pending: it is published or marked FAILED
\* (the only ways out, by KeepsPromise).
PendingIsProcessed ==
  \A m \in Messages : []<>(status[m] # "PENDING")

-----------------------------------------------------------------------------
(* The inductive invariant *)

\* Row locks: one live transaction per row, only pending rows, and only in a batch.
LocksExclusive ==
  /\ \A r \in Relays :
       ~inBatch[r] => ~aborted[r] /\ todo[r] = {} /\ sent[r] = {} /\ unsent[r] = {}
  /\ \A r \in Relays : aborted[r] => sent[r] = {} /\ unsent[r] = {}
  /\ \A r \in Relays : \A m \in Held(r) : status[m] = "PENDING"
  /\ \A r, q \in Relays : r # q => Held(r) \cap Held(q) = {}
  /\ \A r \in Relays : /\ todo[r] \cap (sent[r] \cup unsent[r]) = {}
                       /\ sent[r] \cap unsent[r] = {}

\* Whoever else may deal with it meanwhile, a row on a relay's list was committed.
ListedAreCommitted ==
  \A r \in Relays : \A m \in todo[r] : change[m] = "committed"

\* A row is what its business transaction and its attempts made it.
RowsFollowChanges ==
  \A m \in Messages :
    /\ status[m] = "INSERTED" <=> change[m] = "open"
    /\ status[m] \in {"PENDING", "FAILED", "DELETED"} <=> change[m] = "committed"
    /\ status[m] = "PENDING" => attempts[m] < MaxAttempts
    /\ change[m] \in {"none", "open"} => attempts[m] = 0

\* Every acceptance is charged to an attempt, a rollback, the row's deletion, or
\* the live transaction that is working on the row.  A rollback pays for one copy
\* of m; while the batch still lists m without a lock that copy is to come.
Processed(m) == \E r \in Relays : m \in sent[r] \cup unsent[r]
Late(m) == {r \in Relays : aborted[r] /\ m \in todo[r]}
AcceptancesCharged ==
  \A m \in Messages :
    /\ accepted[m] + Cardinality(Late(m))
         <= attempts[m] + rollbacks
            + (IF status[m] = "DELETED" \/ Processed(m) THEN 1 ELSE 0)
    /\ \A r \in Relays : m \in sent[r] => accepted[m] > 0

IInv ==
  /\ TypeOK /\ LocksExclusive /\ ListedAreCommitted /\ RowsFollowChanges
  /\ AcceptancesCharged /\ PublishedIsCommitted /\ DuplicatesAreAccounted
=============================================================================
