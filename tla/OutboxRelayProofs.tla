-------------------------- MODULE OutboxRelayProofs --------------------------
(***************************************************************************)
(* For any number of relays, rows, attempts and rollbacks, the outbox      *)
(* publishes only committed changes, accounts for every duplicate, and     *)
(* implements AtLeastOnce.  IInv is inductive: row locks keep the live     *)
(* transactions apart, and a batch that lost its locks is bounded by what  *)
(* it still lists.                                                         *)
(***************************************************************************)
EXTENDS OutboxRelay, FiniteSetTheorems, TLAPS

USE BoundsAssumption

LEMMA InitTypes == Init => TypeOK
  BY DEF Init, TypeOK, Messages

LEMMA NextTypes ==
  ASSUME TypeOK, LocksExclusive, RowsFollowChanges, [Next]_vars
  PROVE  TypeOK'
<1> USE DEF TypeOK, rowVars, batchVars
<1>1. ASSUME NEW m \in Messages, Insert(m) \/ Commit(m) \/ Abandon(m) PROVE TypeOK'
  BY <1>1 DEF Insert, Commit, Abandon
<1>2. ASSUME NEW r \in Relays, Fetch(r) PROVE TypeOK'
  <2>1. todo' \in [Relays -> SUBSET Messages]
    BY <1>2 DEF Fetch, Free
  <2>2. QED
    BY <1>2, <2>1 DEF Fetch
<1>3. ASSUME NEW r \in Relays, NEW m \in Messages, Publish(r, m) PROVE TypeOK'
  BY <1>3 DEF Publish, Accept, Recorded
<1>4. ASSUME NEW r \in Relays, NEW m \in Messages, NEW taken \in BOOLEAN,
             PublishError(r, m, taken) PROVE TypeOK'
  BY <1>4 DEF PublishError, Accept, Recorded
<1>5. ASSUME NEW r \in Relays, StatementFails(r) PROVE TypeOK'
  BY <1>5 DEF StatementFails, MayRollBack
<1>6. ASSUME NEW r \in Relays, CommitBatch(r) PROVE TypeOK'
  <2>1. \A m \in unsent[r] : attempts[m] < MaxAttempts
    BY <1>6 DEF CommitBatch, LocksExclusive, Held, RowsFollowChanges
  <2>2. attempts' \in [Messages -> 0..MaxAttempts]
    BY <1>6, <2>1 DEF CommitBatch
  <2>3. status' \in [Messages -> {"NONE", "INSERTED", "PENDING", "FAILED", "DELETED"}]
    BY <1>6 DEF CommitBatch
  <2>4. QED
    BY <1>6, <2>2, <2>3 DEF CommitBatch, EndBatch
<1>7. ASSUME NEW r \in Relays, Rollback(r) \/ CommitFails(r) PROVE TypeOK'
  <2>1. rollbacks' \in Nat
    BY <1>7 DEF Rollback, CommitFails
  <2>2. QED
    BY <1>7, <2>1 DEF Rollback, CommitFails, EndBatch
<1>8. CASE UNCHANGED vars
  BY <1>8 DEF vars
<1>9. QED
  BY <1>1, <1>2, <1>3, <1>4, <1>5, <1>6, <1>7, <1>8 DEF Next, Process

-----------------------------------------------------------------------------
\* A row enters a batch only if no live transaction holds it, moves within the
\* batch, and is let go with all the others.
LEMMA LocksStep ==
  ASSUME TypeOK, LocksExclusive, RowsFollowChanges, [Next]_vars
  PROVE  LocksExclusive'
<1> USE DEF LocksExclusive, Held
<1>1. ASSUME UNCHANGED <<inBatch, todo, sent, unsent, aborted>>,
             \A m \in Messages : status[m] = "PENDING" => status'[m] = "PENDING"
      PROVE  LocksExclusive'
  BY <1>1 DEF TypeOK
<1>2. ASSUME NEW m \in Messages, Insert(m) \/ Commit(m) \/ Abandon(m)
      PROVE  LocksExclusive'
  <2>1. status[m] # "PENDING"
    BY <1>2 DEF Insert, Commit, Abandon, RowsFollowChanges
  <2>2. \A n \in Messages : n # m => status'[n] = status[n]
    BY <1>2 DEF Insert, Commit, Abandon, TypeOK
  <2>3. QED
    BY <1>1, <1>2, <2>1, <2>2 DEF Insert, Commit, Abandon, batchVars
<1>3. ASSUME NEW r \in Relays, Fetch(r) PROVE LocksExclusive'
  <2>1. todo[r] = {} /\ sent[r] = {} /\ unsent[r] = {} /\ ~aborted[r]
    BY <1>3 DEF Fetch
  <2>2. UNCHANGED <<status, sent, unsent, aborted>>
    BY <1>3 DEF Fetch, rowVars
  <2>3. todo'[r] \subseteq Free /\ \A q \in Relays : q # r => todo'[q] = todo[q]
    BY <1>3 DEF Fetch, TypeOK
  <2>4. inBatch'[r] = TRUE /\ \A q \in Relays : q # r => inBatch'[q] = inBatch[q]
    BY <1>3 DEF Fetch, TypeOK
  <2>5. \A m \in Free : status[m] = "PENDING" /\ \A q \in Relays : m \notin Held(q)
    BY DEF Free
  <2>6. QED
    BY <2>1, <2>2, <2>3, <2>4, <2>5 DEF TypeOK
<1>4. ASSUME NEW r \in Relays, NEW m \in Messages,
             Publish(r, m) \/ \E taken \in BOOLEAN : PublishError(r, m, taken)
      PROVE  LocksExclusive'
  <2>1. m \in todo[r] /\ UNCHANGED <<status, inBatch, aborted>>
    BY <1>4 DEF Publish, PublishError, NextOf, rowVars
  <2>2. todo' = [todo EXCEPT ![r] = @ \ {m}]
    BY <1>4 DEF Publish, PublishError
  <2>3. \/ sent' = [sent EXCEPT ![r] = @ \cup Recorded(r, m)] /\ unsent' = unsent
        \/ unsent' = [unsent EXCEPT ![r] = @ \cup Recorded(r, m)] /\ sent' = sent
    BY <1>4 DEF Publish, PublishError
  <2>4. inBatch[r] /\ \A q \in Relays : q # r => /\ todo'[q] = todo[q]
                                                 /\ sent'[q] = sent[q] /\ unsent'[q] = unsent[q]
    BY <2>1, <2>2, <2>3 DEF TypeOK
  <2>5. \A q \in Relays : Held(q)' = Held(q)
    <3>1. ASSUME NEW q \in Relays, q # r PROVE Held(q)' = Held(q)
      <4>1. /\ aborted'[q] = aborted[q] /\ todo'[q] = todo[q]
            /\ sent'[q] = sent[q] /\ unsent'[q] = unsent[q]
        BY <2>1, <2>4, <3>1
      <4>2. QED
        BY <4>1
    <3>2. CASE aborted[r]
      BY <2>1, <3>1, <3>2
    <3>3. CASE ~aborted[r]
      <4>1. /\ todo'[r] = todo[r] \ {m}
            /\ \/ sent'[r] = sent[r] \cup {m} /\ unsent'[r] = unsent[r]
               \/ unsent'[r] = unsent[r] \cup {m} /\ sent'[r] = sent[r]
        BY <2>2, <2>3, <3>3 DEF TypeOK, Recorded
      <4>2. aborted'[r] = aborted[r] /\ m \in todo[r]
        BY <2>1
      <4>3. todo'[r] \cup sent'[r] \cup unsent'[r] = todo[r] \cup sent[r] \cup unsent[r]
        BY <4>1, <4>2
      <4>4. Held(r)' = Held(r)
        BY <4>2, <4>3
      <4> HIDE DEF Held
      <4>5. QED
        BY <3>1, <4>4
    <3>4. QED
      BY <3>2, <3>3
  <2>6. \A q \in Relays : /\ todo'[q] \cap (sent'[q] \cup unsent'[q]) = {}
                          /\ sent'[q] \cap unsent'[q] = {}
    BY <2>1, <2>2, <2>3 DEF TypeOK, Recorded
  <2>7. \A q \in Relays : aborted[q] => sent'[q] = {} /\ unsent'[q] = {}
    BY <2>3 DEF TypeOK, Recorded
  <2>8. \A q \in Relays : ~inBatch'[q] => /\ ~aborted'[q] /\ todo'[q] = {}
                                         /\ sent'[q] = {} /\ unsent'[q] = {}
    BY <2>1, <2>4
  <2>9. /\ \A q \in Relays : \A n \in Held(q)' : status'[n] = "PENDING"
        /\ \A q, p \in Relays : q # p => Held(q)' \cap Held(p)' = {}
    <3> HIDE DEF Held
    <3>1. QED
      BY <2>1, <2>5
  <2>10. QED
    BY <2>1, <2>6, <2>7, <2>8, <2>9
<1>5. ASSUME NEW r \in Relays,
             \/ /\ aborted' = [aborted EXCEPT ![r] = TRUE] /\ inBatch[r]
                /\ UNCHANGED <<inBatch, todo>>
                /\ sent' = [sent EXCEPT ![r] = {}] /\ unsent' = [unsent EXCEPT ![r] = {}]
             \/ EndBatch(r),
             \A m \in Messages : m \notin Held(r) => status'[m] = status[m]
      PROVE  LocksExclusive'
  <2>1. \A q \in Relays : q # r => /\ todo'[q] = todo[q] /\ sent'[q] = sent[q]
                                   /\ unsent'[q] = unsent[q]
                                   /\ inBatch'[q] = inBatch[q] /\ aborted'[q] = aborted[q]
    BY <1>5 DEF EndBatch, TypeOK
  <2>2. /\ aborted'[r] \/ todo'[r] = {}
        /\ sent'[r] = {} /\ unsent'[r] = {}
        /\ ~inBatch'[r] => ~aborted'[r] /\ todo'[r] = {}
    BY <1>5 DEF EndBatch, TypeOK
  <2>3. \A q \in Relays : Held(q)' = IF q = r THEN {} ELSE Held(q)
    BY <2>1, <2>2
  <2>4. \A q \in Relays : q # r => \A m \in Held(q) : m \in Messages /\ m \notin Held(r)
    BY DEF TypeOK
  <2>5. QED
    BY <1>5, <2>1, <2>2, <2>3, <2>4
<1>6. ASSUME NEW r \in Relays, StatementFails(r) PROVE LocksExclusive'
  BY <1>5, <1>6 DEF StatementFails, rowVars
<1>7. ASSUME NEW r \in Relays, CommitBatch(r) PROVE LocksExclusive'
  <2>1. \A m \in Messages : m \notin Held(r) => status'[m] = status[m]
    BY <1>7 DEF CommitBatch, GivenUp
  <2>2. QED
    BY <1>5, <1>7, <2>1 DEF CommitBatch
<1>8. ASSUME NEW r \in Relays, Rollback(r) \/ CommitFails(r) PROVE LocksExclusive'
  BY <1>5, <1>8 DEF Rollback, CommitFails, rowVars
<1>9. CASE UNCHANGED vars
  BY <1>1, <1>9 DEF vars
<1>10. QED
  BY <1>2, <1>3, <1>4, <1>6, <1>7, <1>8, <1>9 DEF Next, Process

\* A committed change stays committed, and only pending rows get on a list.
LEMMA ListedStep ==
  ASSUME TypeOK, LocksExclusive, RowsFollowChanges, ListedAreCommitted, [Next]_vars
  PROVE  ListedAreCommitted'
<1> USE DEF ListedAreCommitted
<1>1. ASSUME \A q \in Relays : todo'[q] \subseteq todo[q], change' = change
      PROVE  ListedAreCommitted'
  BY <1>1
<1>2. ASSUME NEW m \in Messages, Insert(m) \/ Commit(m) \/ Abandon(m)
      PROVE  ListedAreCommitted'
  <2>1. todo' = todo /\ \A n \in Messages : change[n] = "committed"
                                              => change'[n] = "committed"
    BY <1>2 DEF Insert, Commit, Abandon, TypeOK, batchVars
  <2>2. QED
    BY <2>1 DEF TypeOK
<1>3. ASSUME NEW r \in Relays, Fetch(r) PROVE ListedAreCommitted'
  <2>1. todo'[r] \subseteq Free /\ change' = change
        /\ \A q \in Relays : q # r => todo'[q] = todo[q]
    BY <1>3 DEF Fetch, TypeOK, rowVars
  <2>2. \A m \in Free : change[m] = "committed"
    BY DEF Free, RowsFollowChanges
  <2>3. QED
    BY <2>1, <2>2
<1>4. ASSUME NEW r \in Relays, NEW m \in Messages,
             Publish(r, m) \/ \E taken \in BOOLEAN : PublishError(r, m, taken)
      PROVE  ListedAreCommitted'
  BY <1>1, <1>4 DEF Publish, PublishError, TypeOK, rowVars
<1>5. ASSUME NEW r \in Relays, StatementFails(r) PROVE ListedAreCommitted'
  BY <1>1, <1>5 DEF StatementFails, rowVars
<1>6. ASSUME NEW r \in Relays, CommitBatch(r) \/ CommitFails(r) \/ Rollback(r)
      PROVE  ListedAreCommitted'
  BY <1>1, <1>6 DEF CommitBatch, CommitFails, Rollback, EndBatch, TypeOK, rowVars
<1>7. CASE UNCHANGED vars
  BY <1>1, <1>7 DEF vars
<1>8. QED
  BY <1>2, <1>3, <1>4, <1>5, <1>6, <1>7 DEF Next, Process

LEMMA RowsStep ==
  ASSUME TypeOK, LocksExclusive, RowsFollowChanges, [Next]_vars
  PROVE  RowsFollowChanges'
<1> USE DEF RowsFollowChanges
<1>1. ASSUME NEW m \in Messages, Insert(m) \/ Commit(m) \/ Abandon(m)
      PROVE  RowsFollowChanges'
  <2>1. attempts' = attempts /\ \A n \in Messages \ {m} :
                                  change'[n] = change[n] /\ status'[n] = status[n]
    BY <1>1 DEF Insert, Commit, Abandon, TypeOK
  <2>2. \/ change[m] = "none" /\ change'[m] = "open" /\ status'[m] = "INSERTED"
        \/ change[m] = "open" /\ change'[m] = "committed" /\ status'[m] = "PENDING"
        \/ change[m] = "open" /\ change'[m] = "aborted" /\ status'[m] = "NONE"
    BY <1>1 DEF Insert, Commit, Abandon, TypeOK
  <2>3. attempts[m] = 0
    BY <2>2
  <2>4. QED
    BY <2>1, <2>2, <2>3
<1>2. ASSUME NEW r \in Relays, CommitBatch(r) PROVE RowsFollowChanges'
  BY <1>2 DEF CommitBatch, GivenUp, LocksExclusive, Held, TypeOK
<1>3. CASE UNCHANGED <<change, status, attempts>>
  BY <1>3
<1>4. QED
  BY <1>1, <1>2, <1>3 DEF Next, Process, Fetch, Publish, PublishError, StatementFails,
     CommitFails, Rollback, vars, rowVars

-----------------------------------------------------------------------------
\* Sets of relays can be counted.
LEMMA RelaysCount ==
  ASSUME NEW S \in SUBSET Relays
  PROVE  IsFiniteSet(S) /\ Cardinality(S) \in Nat
  BY FS_Subset, FS_CardinalityType

Charge(m) == IF status[m] = "DELETED" \/ Processed(m) THEN 1 ELSE 0

\* A live transaction publishes m: the charge of the batch pays for the copy.
LEMMA ChargedByLive ==
  ASSUME TypeOK, LocksExclusive, AcceptancesCharged,
         NEW r \in Relays, NEW m \in Messages, ~aborted[r],
         Publish(r, m) \/ \E taken \in BOOLEAN : PublishError(r, m, taken)
  PROVE  AcceptancesCharged'
<1>1. UNCHANGED <<status, attempts, rollbacks, aborted>> /\ m \in todo[r]
  BY DEF Publish, PublishError, NextOf, rowVars
<1>2. \/ sent' = [sent EXCEPT ![r] = @ \cup {m}] /\ unsent' = unsent
         /\ accepted' = [accepted EXCEPT ![m] = @ + 1]
      \/ unsent' = [unsent EXCEPT ![r] = @ \cup {m}] /\ sent' = sent
         /\ accepted' \in {accepted, [accepted EXCEPT ![m] = @ + 1]}
  BY DEF Publish, PublishError, Accept, Recorded
<1>3. \A n \in Messages : Late(n)' = Late(n)
  <2>1. \A q \in Relays : aborted[q] => todo'[q] = todo[q]
    BY DEF Publish, PublishError, TypeOK
  <2>2. QED
    BY <1>1, <2>1 DEF Late
<1>4. Charge(m) = 0
  <2>1. m \in Held(r)
    BY <1>1 DEF Held
  <2>2. status[m] = "PENDING"
    BY <2>1 DEF LocksExclusive
  <2>3. ASSUME NEW q \in Relays PROVE m \notin sent[q] \cup unsent[q]
    <3>1. CASE q = r
      BY <1>1, <3>1 DEF LocksExclusive
    <3>2. CASE q # r
      BY <2>1, <3>2 DEF LocksExclusive, Held
    <3>3. QED
      BY <3>1, <3>2
  <2>4. QED
    BY <2>2, <2>3 DEF Charge, Processed
<1>5. Charge(m)' = 1 /\ accepted'[m] \in {accepted[m], accepted[m] + 1}
  <2>1. m \in sent'[r] \cup unsent'[r]
    BY <1>2 DEF TypeOK
  <2>2. QED
    BY <1>2, <2>1 DEF Charge, Processed, TypeOK
<1>6. \A n \in Messages \ {m} : accepted'[n] = accepted[n] /\ Charge(n) <= Charge(n)'
  <2>1. \A q \in Relays : sent[q] \subseteq sent'[q] /\ unsent[q] \subseteq unsent'[q]
    BY <1>2 DEF TypeOK
  <2>2. QED
    BY <1>1, <1>2, <2>1 DEF Charge, Processed, TypeOK
<1>7. ASSUME NEW n \in Messages
      PROVE  accepted'[n] + Cardinality(Late(n)') <= attempts'[n] + rollbacks' + Charge(n)'
  <2>1. Cardinality(Late(n)) \in Nat
    BY RelaysCount DEF Late
  <2>2. accepted[n] + Cardinality(Late(n)) <= attempts[n] + rollbacks + Charge(n)
    BY DEF AcceptancesCharged, Charge
  <2>3. Charge(n) \in Nat /\ Charge(n)' \in Nat
    BY DEF Charge
  <2>4. QED
    BY <1>1, <1>3, <1>4, <1>5, <1>6, <2>1, <2>2, <2>3 DEF TypeOK
<1>8. \A n \in Messages, q \in Relays : n \in sent'[q] => accepted'[n] > 0
  BY <1>2 DEF AcceptancesCharged, TypeOK
<1>9. QED
  BY <1>7, <1>8 DEF AcceptancesCharged, Charge

\* A batch that lost its locks publishes m: its rollback was charged for the copy.
LEMMA ChargedByLate ==
  ASSUME TypeOK, LocksExclusive, AcceptancesCharged,
         NEW r \in Relays, NEW m \in Messages, aborted[r],
         Publish(r, m) \/ \E taken \in BOOLEAN : PublishError(r, m, taken)
  PROVE  AcceptancesCharged'
<1>1. UNCHANGED <<status, attempts, rollbacks, aborted>> /\ m \in todo[r]
  BY DEF Publish, PublishError, NextOf, rowVars
<1>2. sent' = sent /\ unsent' = unsent
  BY DEF Publish, PublishError, Recorded, TypeOK
<1>3. accepted' \in {accepted, [accepted EXCEPT ![m] = @ + 1]}
  BY DEF Publish, PublishError, Accept
<1>4. todo' = [todo EXCEPT ![r] = @ \ {m}]
  BY DEF Publish, PublishError
<1>5. Late(m)' = Late(m) \ {r} /\ r \in Late(m)
  BY <1>1, <1>4 DEF Late, TypeOK
<1>6. \A n \in Messages \ {m} : Late(n)' = Late(n)
  BY <1>1, <1>4 DEF Late, TypeOK
<1>7. ASSUME NEW n \in Messages
      PROVE  accepted'[n] + Cardinality(Late(n)') <= attempts'[n] + rollbacks' + Charge(n)'
  <2>1. Cardinality(Late(n)) \in Nat /\ IsFiniteSet(Late(n))
    BY RelaysCount DEF Late
  <2>2. accepted[n] + Cardinality(Late(n)) <= attempts[n] + rollbacks + Charge(n)
    BY DEF AcceptancesCharged, Charge
  <2>3. Charge(n)' = Charge(n) /\ Charge(n) \in Nat
    BY <1>1, <1>2 DEF Charge, Processed
  <2>4. CASE n = m
    <3>1. Cardinality(Late(n)') = Cardinality(Late(n)) - 1
      BY <1>5, <2>1, <2>4, FS_RemoveElement
    <3>2. QED
      BY <1>1, <1>3, <2>1, <2>2, <2>3, <3>1 DEF TypeOK
  <2>5. CASE n # m
    BY <1>1, <1>3, <1>6, <2>1, <2>2, <2>3, <2>5 DEF TypeOK
  <2>6. QED
    BY <2>4, <2>5
<1>8. \A n \in Messages, q \in Relays : n \in sent'[q] => accepted'[n] > 0
  BY <1>2, <1>3 DEF AcceptancesCharged, TypeOK
<1>9. QED
  BY <1>7, <1>8 DEF AcceptancesCharged, Charge

\* PostgreSQL ends r's transaction: the rollback is charged once for every message,
\* be it processed or still to come.
LEMMA ChargedByRollback ==
  ASSUME TypeOK, LocksExclusive, AcceptancesCharged, NEW r \in Relays, ~aborted[r],
         UNCHANGED <<accepted, attempts, status>>, rollbacks' = rollbacks + 1,
         sent' = [sent EXCEPT ![r] = {}], unsent' = [unsent EXCEPT ![r] = {}],
         \/ aborted' = [aborted EXCEPT ![r] = TRUE] /\ todo' = todo
         \/ aborted' = [aborted EXCEPT ![r] = FALSE] /\ todo' = [todo EXCEPT ![r] = {}]
  PROVE  AcceptancesCharged'
<1>1. ASSUME NEW n \in Messages
      PROVE  accepted'[n] + Cardinality(Late(n)') <= attempts'[n] + rollbacks' + Charge(n)'
  <2>1. Cardinality(Late(n)) \in Nat /\ IsFiniteSet(Late(n)) /\ r \notin Late(n)
    BY RelaysCount DEF Late
  <2>2. accepted[n] + Cardinality(Late(n)) <= attempts[n] + rollbacks + Charge(n)
    BY DEF AcceptancesCharged, Charge
  <2>3. Charge(n) \in 0..1 /\ Charge(n)' \in 0..1
    BY DEF Charge
  <2>4. CASE Late(n)' = Late(n)
    BY <2>1, <2>2, <2>3, <2>4 DEF TypeOK
  <2>5. CASE Late(n)' # Late(n)
    <3>1. n \in todo[r] /\ Late(n)' = Late(n) \cup {r}
      BY <2>5 DEF Late, TypeOK
    <3>2. n \notin sent[r] \cup unsent[r]
      BY <3>1 DEF LocksExclusive
    <3>3. Charge(n)' = Charge(n)
      BY <3>2 DEF Charge, Processed, TypeOK
    <3>4. Cardinality(Late(n)') = Cardinality(Late(n)) + 1
      BY <2>1, <3>1, FS_AddElement
    <3>5. QED
      BY <2>1, <2>2, <2>3, <3>3, <3>4 DEF TypeOK
  <2>6. QED
    BY <2>4, <2>5
<1>2. \A n \in Messages, q \in Relays : n \in sent'[q] => accepted'[n] > 0
  BY DEF AcceptancesCharged, TypeOK
<1>3. QED
  BY <1>1, <1>2 DEF AcceptancesCharged, Charge

LEMMA ChargedStep ==
  ASSUME TypeOK, LocksExclusive, RowsFollowChanges, AcceptancesCharged, [Next]_vars
  PROVE  AcceptancesCharged'
<1>1. ASSUME NEW r \in Relays, NEW m \in Messages,
             Publish(r, m) \/ \E taken \in BOOLEAN : PublishError(r, m, taken)
      PROVE  AcceptancesCharged'
  BY <1>1, ChargedByLive, ChargedByLate
<1>2. ASSUME NEW r \in Relays, CommitBatch(r) PROVE AcceptancesCharged'
  <2>1. UNCHANGED <<accepted, rollbacks>> /\ \A n \in Messages : Late(n)' = Late(n)
    BY <1>2 DEF CommitBatch, EndBatch, Late, TypeOK
  <2>2. \A q \in Relays : /\ sent'[q] = IF q = r THEN {} ELSE sent[q]
                          /\ unsent'[q] = IF q = r THEN {} ELSE unsent[q]
    BY <1>2 DEF CommitBatch, EndBatch, TypeOK
  <2>3. ASSUME NEW n \in Messages
        PROVE  accepted'[n] + Cardinality(Late(n)') <= attempts'[n] + rollbacks' + Charge(n)'
    <3>1. accepted[n] + Cardinality(Late(n)) <= attempts[n] + rollbacks + Charge(n)
      BY DEF AcceptancesCharged, Charge
    <3>2. Cardinality(Late(n)) \in Nat /\ Charge(n) \in 0..1 /\ Charge(n)' \in 0..1
      BY RelaysCount DEF Late, Charge
    <3>3. CASE n \in sent[r]
      <4>1. status'[n] = "DELETED" /\ attempts'[n] = attempts[n]
        BY <1>2, <3>3 DEF CommitBatch, LocksExclusive
      <4>2. QED
        BY <2>1, <3>1, <3>2, <4>1 DEF TypeOK, Charge
    <3>4. CASE n \in unsent[r]
      <4>1. attempts'[n] = attempts[n] + 1
        BY <1>2, <3>4 DEF CommitBatch
      <4>2. QED
        BY <2>1, <3>1, <3>2, <4>1 DEF TypeOK
    <3>5. CASE n \notin sent[r] \cup unsent[r]
      <4>1. attempts'[n] = attempts[n] /\ status'[n] = status[n]
        BY <1>2, <3>5 DEF CommitBatch, GivenUp
      <4>2. Processed(n) => Processed(n)'
        BY <2>2, <3>5 DEF Processed
      <4>3. QED
        BY <2>1, <3>1, <3>2, <4>1, <4>2 DEF TypeOK, Charge
    <3>6. QED
      BY <3>3, <3>4, <3>5
  <2>4. QED
    BY <2>1, <2>2, <2>3 DEF AcceptancesCharged, Charge
<1>3. ASSUME NEW r \in Relays, StatementFails(r) \/ (Rollback(r) /\ ~aborted[r])
      PROVE  AcceptancesCharged'
  BY <1>3, ChargedByRollback DEF StatementFails, Rollback, EndBatch, rowVars
<1>4. ASSUME NEW r \in Relays, CommitFails(r) \/ (Rollback(r) /\ aborted[r])
      PROVE  AcceptancesCharged'
  <2>1. UNCHANGED <<accepted, attempts, status, rollbacks>>
    BY <1>4 DEF CommitFails, Rollback, rowVars
  <2>2. sent[r] = {} /\ unsent[r] = {}
    BY <1>4 DEF CommitFails, LocksExclusive
  <2>3. sent' = sent /\ unsent' = unsent
    <3>1. sent' = [sent EXCEPT ![r] = {}] /\ unsent' = [unsent EXCEPT ![r] = {}]
      BY <1>4 DEF CommitFails, Rollback, EndBatch
    <3>2. QED
      BY <2>2, <3>1 DEF TypeOK
  <2>4. ASSUME NEW n \in Messages PROVE Cardinality(Late(n)') <= Cardinality(Late(n))
    <3>1. Late(n)' \subseteq Late(n)
      BY <1>4 DEF CommitFails, Rollback, EndBatch, Late, TypeOK
    <3>2. IsFiniteSet(Late(n))
      BY RelaysCount DEF Late
    <3>3. QED
      BY <3>1, <3>2, FS_Subset
  <2>5. ASSUME NEW n \in Messages
        PROVE  Cardinality(Late(n)) \in Nat /\ Cardinality(Late(n)') \in Nat
    <3>1. Late(n) \in SUBSET Relays /\ Late(n)' \in SUBSET Relays
      BY DEF Late
    <3>2. QED
      BY <3>1, RelaysCount
  <2>6. ASSUME NEW n \in Messages PROVE Charge(n)' = Charge(n) /\ Charge(n) \in Nat
    BY <2>1, <2>3 DEF Charge, Processed
  <2>7. ASSUME NEW n \in Messages
        PROVE  accepted'[n] + Cardinality(Late(n)') <= attempts'[n] + rollbacks' + Charge(n)'
    <3>1. accepted[n] + Cardinality(Late(n)) <= attempts[n] + rollbacks + Charge(n)
      BY DEF AcceptancesCharged, Charge
    <3>2. QED
      BY <2>1, <2>4, <2>5, <2>6, <3>1 DEF TypeOK
  <2>8. QED
    BY <2>1, <2>3, <2>7 DEF AcceptancesCharged, Charge
<1>5. ASSUME UNCHANGED <<accepted, attempts, rollbacks, sent, unsent>>,
             \A n \in Messages : status[n] = "DELETED" => status'[n] = "DELETED",
             \A n \in Messages : Late(n)' = Late(n)
      PROVE  AcceptancesCharged'
  <2>1. ASSUME NEW n \in Messages
        PROVE  accepted'[n] + Cardinality(Late(n)') <= attempts'[n] + rollbacks' + Charge(n)'
    <3>1. accepted[n] + Cardinality(Late(n)) <= attempts[n] + rollbacks + Charge(n)
      BY DEF AcceptancesCharged, Charge
    <3>2. Cardinality(Late(n)) \in Nat
      BY RelaysCount DEF Late
    <3>3. Charge(n) <= Charge(n)' /\ Charge(n) \in Nat /\ Charge(n)' \in Nat
      BY <1>5 DEF Charge, Processed
    <3>4. QED
      BY <1>5, <3>1, <3>2, <3>3 DEF TypeOK
  <2>2. QED
    BY <1>5, <2>1 DEF AcceptancesCharged, Charge
<1>6. ASSUME NEW m \in Messages, Insert(m) \/ Commit(m) \/ Abandon(m)
      PROVE  AcceptancesCharged'
  <2>1. UNCHANGED <<accepted, attempts, rollbacks, sent, unsent, todo, aborted>>
    BY <1>6 DEF Insert, Commit, Abandon, batchVars
  <2>2. \A n \in Messages : status[n] = "DELETED" => status'[n] = "DELETED"
    BY <1>6 DEF Insert, Commit, Abandon, RowsFollowChanges, TypeOK
  <2>3. QED
    BY <1>5, <2>1, <2>2 DEF Late
<1>7. ASSUME NEW r \in Relays, Fetch(r) PROVE AcceptancesCharged'
  <2>1. UNCHANGED <<accepted, attempts, rollbacks, sent, unsent, status>>
    BY <1>7 DEF Fetch, rowVars
  <2>2. \A n \in Messages : Late(n)' = Late(n)
    BY <1>7 DEF Fetch, LocksExclusive, Late, TypeOK
  <2>3. QED
    BY <1>5, <2>1, <2>2
<1>8. CASE UNCHANGED vars
  BY <1>5, <1>8 DEF vars, Late
<1>9. QED
  BY <1>1, <1>2, <1>3, <1>4, <1>6, <1>7, <1>8 DEF Next, Process

LEMMA PublishedStep ==
  ASSUME TypeOK, ListedAreCommitted, PublishedIsCommitted, [Next]_vars
  PROVE  PublishedIsCommitted'
<1> USE DEF PublishedIsCommitted
<1>1. ASSUME NEW r \in Relays, NEW m \in Messages,
             Publish(r, m) \/ \E taken \in BOOLEAN : PublishError(r, m, taken)
      PROVE  PublishedIsCommitted'
  <2>1. change' = change /\ change[m] = "committed"
    BY <1>1 DEF Publish, PublishError, NextOf, rowVars, ListedAreCommitted
  <2>2. \A n \in Messages : n # m => accepted'[n] = accepted[n]
    BY <1>1 DEF Publish, PublishError, Accept, TypeOK
  <2>3. QED
    BY <2>1, <2>2
<1>2. ASSUME NEW m \in Messages, Insert(m) \/ Commit(m) \/ Abandon(m)
      PROVE  PublishedIsCommitted'
  <2>1. accepted' = accepted /\ \A n \in Messages : change[n] = "committed"
                                                      => change'[n] = "committed"
    BY <1>2 DEF Insert, Commit, Abandon, TypeOK
  <2>2. QED
    BY <2>1
<1>3. CASE UNCHANGED <<accepted, change>>
  BY <1>3
<1>4. QED
  BY <1>1, <1>2, <1>3 DEF Next, Process, Fetch, CommitBatch, CommitFails, StatementFails,
     Rollback, vars, rowVars

LEMMA ChargedImpliesAccounted ==
  ASSUME TypeOK, AcceptancesCharged
  PROVE  DuplicatesAreAccounted
<1> SUFFICES ASSUME NEW m \in Messages
             PROVE  accepted[m] <= attempts[m] + rollbacks + 1
  BY DEF DuplicatesAreAccounted
<1>1. Cardinality(Late(m)) \in Nat
  BY RelaysCount DEF Late
<1>2. accepted[m] + Cardinality(Late(m)) <= attempts[m] + rollbacks + 1
  BY <1>1 DEF AcceptancesCharged, TypeOK
<1>3. QED
  BY <1>1, <1>2 DEF TypeOK

LEMMA NextAccounted ==
  ASSUME TypeOK', AcceptancesCharged'
  PROVE  DuplicatesAreAccounted'
<1> SUFFICES ASSUME NEW m \in Messages
             PROVE  accepted'[m] <= attempts'[m] + rollbacks' + 1
  BY DEF DuplicatesAreAccounted
<1>1. Late(m)' \in SUBSET Relays
  BY DEF Late
<1>2. Cardinality(Late(m)') \in Nat
  BY <1>1, RelaysCount
<1>3. accepted'[m] + Cardinality(Late(m)') <= attempts'[m] + rollbacks' + 1
  BY <1>2 DEF AcceptancesCharged, TypeOK
<1>4. QED
  BY <1>2, <1>3 DEF TypeOK

\* Locks, rows and charges together are inductive, for any number of relays.
THEOREM Inductive == Spec => []IInv
<1>1. Init => IInv
  <2> SUFFICES ASSUME Init PROVE IInv
    OBVIOUS
  <2>1. TypeOK
    BY InitTypes
  <2>2. LocksExclusive /\ ListedAreCommitted
    BY DEF Init, LocksExclusive, Held, ListedAreCommitted
  <2>3. RowsFollowChanges
    BY DEF Init, RowsFollowChanges
  <2>4. AcceptancesCharged /\ PublishedIsCommitted
    <3>1. \A m \in Messages : Late(m) = {}
      BY DEF Init, Late
    <3>2. Cardinality({}) = 0
      BY FS_EmptySet
    <3>3. ASSUME NEW m \in Messages
          PROVE  /\ accepted[m] = 0 /\ attempts[m] = 0 /\ rollbacks = 0
                 /\ status[m] = "NONE" /\ ~Processed(m)
      BY DEF Init, Processed
    <3>4. \A m \in Messages, r \in Relays : m \notin sent[r]
      BY DEF Init
    <3>5. AcceptancesCharged
      <4>1. SUFFICES ASSUME NEW m \in Messages
                     PROVE  accepted[m] + Cardinality(Late(m))
                              <= attempts[m] + rollbacks
                                 + (IF status[m] = "DELETED" \/ Processed(m) THEN 1 ELSE 0)
        BY <3>4 DEF AcceptancesCharged
      <4>2. Cardinality(Late(m)) = 0
        BY <3>1, <3>2
      <4>3. QED
        BY <3>3, <4>2
    <3>6. PublishedIsCommitted
      BY <3>3 DEF PublishedIsCommitted
    <3>7. QED
      BY <3>5, <3>6
  <2>5. QED
    BY <2>1, <2>2, <2>3, <2>4, ChargedImpliesAccounted DEF IInv
<1>2. IInv /\ [Next]_vars => IInv'
  <2> SUFFICES ASSUME IInv, [Next]_vars PROVE IInv'
    OBVIOUS
  <2>1. TypeOK' /\ LocksExclusive' /\ ListedAreCommitted' /\ RowsFollowChanges'
    BY NextTypes, LocksStep, ListedStep, RowsStep DEF IInv
  <2>2. AcceptancesCharged' /\ PublishedIsCommitted'
    BY ChargedStep, PublishedStep DEF IInv
  <2>3. DuplicatesAreAccounted'
    BY <2>1, <2>2, NextAccounted
  <2>4. QED
    BY <2>1, <2>2, <2>3 DEF IInv
<1>3. QED
  BY <1>1, <1>2, PTL DEF Spec

\* The outbox rows, batches and counters keep their types; no attempts column
\* passes defaultMaxAttempts.
THEOREM TypeCorrect == Spec => []TypeOK
  BY Inductive, PTL DEF IInv

\* No relay ever publishes a message whose business transaction is still open or
\* was rolled back.
THEOREM CommittedOnly == Spec => []PublishedIsCommitted
  BY Inductive, PTL DEF IInv

\* However many relays share the table, duplicates are bounded by the recorded
\* attempts and the rolled back transactions, those of relays that published on
\* after they had lost their locks included.
THEOREM DuplicatesBounded == Spec => []DuplicatesAreAccounted
  BY Inductive, PTL DEF IInv

-----------------------------------------------------------------------------
\* Every step of the relays and of the business transactions is a step of
\* AtLeastOnce or changes nothing it can see.
THEOREM Implements == Spec => KeepsPromise
<1> DEFINE owed    == {m \in Messages : status[m] = "PENDING"}
           settled == {m \in Messages : status[m] = "DELETED"}
           aside   == {m \in Messages : status[m] = "FAILED"}
<1>1. Init => Promise!Init
  BY DEF Init, Promise!Init
<1>2. IInv /\ [Next]_vars => [Promise!Next]_(Promise!vars)
  <2> SUFFICES ASSUME IInv, [Next]_vars
               PROVE  Promise!Next \/ UNCHANGED Promise!vars
    OBVIOUS
  <2> USE DEF IInv, TypeOK
  <2>1. ASSUME NEW m \in Messages, Insert(m) \/ Abandon(m) PROVE UNCHANGED Promise!vars
    <3>1. accepted' = accepted /\ \A n \in Messages \ {m} : status'[n] = status[n]
      BY <2>1 DEF Insert, Abandon
    <3>2. status[m] \in {"NONE", "INSERTED"} /\ status'[m] \in {"NONE", "INSERTED"}
      BY <2>1 DEF Insert, Abandon, RowsFollowChanges
    <3>3. owed' = owed /\ settled' = settled /\ aside' = aside
      BY <3>1, <3>2
    <3>4. QED
      BY <3>1, <3>3 DEF Promise!vars
  <2>2. ASSUME NEW m \in Messages, Commit(m) PROVE Promise!Next
    <3>1. /\ status[m] = "INSERTED" /\ status'[m] = "PENDING" /\ accepted' = accepted
          /\ \A n \in Messages \ {m} : status'[n] = status[n]
      BY <2>2 DEF Commit, RowsFollowChanges
    <3>2. m \notin owed \cup settled \cup aside /\ owed' = owed \cup {m}
          /\ settled' = settled /\ aside' = aside
      BY <3>1
    <3>3. Promise!Commit(m)
      BY <3>1, <3>2 DEF Promise!Commit
    <3>4. QED
      BY <3>3 DEF Promise!Next
  <2>3. ASSUME NEW r \in Relays, NEW m \in Messages,
               Publish(r, m) \/ \E taken \in BOOLEAN : PublishError(r, m, taken)
        PROVE  Promise!Next \/ UNCHANGED Promise!vars
    <3>1. status' = status /\ change[m] = "committed"
      BY <2>3 DEF Publish, PublishError, NextOf, rowVars, ListedAreCommitted
    <3>2. accepted' \in {accepted, [accepted EXCEPT ![m] = @ + 1]}
      BY <2>3 DEF Publish, PublishError, Accept
    <3>3. CASE accepted' = accepted
      BY <3>1, <3>3 DEF Promise!vars
    <3>4. CASE accepted' = [accepted EXCEPT ![m] = @ + 1]
      <4>1. m \in owed \cup settled \cup aside
        BY <3>1 DEF RowsFollowChanges
      <4>2. Promise!HandOver(m)
        BY <3>1, <3>4, <4>1 DEF Promise!HandOver
      <4>3. QED
        BY <4>2 DEF Promise!Next
    <3>5. QED
      BY <3>2, <3>3, <3>4
  <2>4. ASSUME NEW r \in Relays, CommitBatch(r) PROVE Promise!Next
    <3>0. PICK done \in SUBSET Messages, given \in SUBSET Messages :
            done = sent[r] /\ given = GivenUp(r)
      BY DEF GivenUp
    <3>1. done \cup given \subseteq owed /\ done \cap given = {}
      BY <2>4, <3>0 DEF CommitBatch, LocksExclusive, Held, GivenUp
    <3>2. \A m \in done : accepted[m] > 0
      BY <3>0 DEF AcceptancesCharged
    <3>3. accepted' = accepted
      BY <2>4 DEF CommitBatch
    <3>4. \A m \in Messages : status'[m] = IF m \in done THEN "DELETED"
                                          ELSE IF m \in given THEN "FAILED"
                                          ELSE status[m]
      BY <2>4, <3>0 DEF CommitBatch
    <3>5. /\ owed' = owed \ (done \cup given)
          /\ settled' = settled \cup done /\ aside' = aside \cup given
      BY <3>1, <3>4
    <3>6. Promise!CrossOff(done, given)
      BY <3>1, <3>2, <3>3, <3>5 DEF Promise!CrossOff
    <3>7. QED
      BY <3>6 DEF Promise!Next
  <2>5. CASE UNCHANGED <<status, accepted>>
    BY <2>5 DEF Promise!vars
  <2>6. QED
    BY <2>1, <2>2, <2>3, <2>4, <2>5 DEF Next, Process, Fetch, StatementFails, CommitFails,
       Rollback, vars, rowVars
<1>3. QED
  BY <1>1, <1>2, Inductive, PTL DEF Spec, KeepsPromise, Promise!Spec
=============================================================================
