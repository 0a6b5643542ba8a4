----------------------- MODULE SubscriptionSagaProofs -----------------------
(***************************************************************************)
(* The safety properties of SubscriptionSaga hold for any number of        *)
(* requests, users, repositories, handlers and service instances, whatever *)
(* faults occur.  The proof follows IInv: TypeOK is inductive by itself,   *)
(* and each other conjunct is preserved with the help of few of the rest.  *)
(***************************************************************************)
EXTENDS SubscriptionSaga, TLAPS

USE PairOfAssumption, AttemptsAssumption

\* The row that Save writes.
Saved(t, confirmed, id) ==
  [id |-> id, pair |-> PairOf[t], token |-> t, confirmed |-> confirmed]

\* What Save does to the table and to the id sequence: the pair's row is
\* replaced by one with the same id, or a row with a fresh id is added.
LEMMA SaveEffect ==
  ASSUME NEW t, NEW confirmed, NEW id, Save(t, confirmed, id)
  PROVE  /\ subs' = {r \in subs : r.pair # PairOf[t]} \cup {Saved(t, confirmed, id)}
         /\ \/ /\ \A r \in subs : r.pair # PairOf[t]
               /\ id = nextId /\ nextId' = nextId + 1
            \/ /\ \E r \in subs : r.pair = PairOf[t] /\ r.id = id
               /\ nextId' = nextId
<1> DEFINE old == {r \in subs : r.pair = PairOf[t]}
<1>1. subs \ old = {r \in subs : r.pair # PairOf[t]}
  OBVIOUS
<1>2. subs' = (subs \ old) \cup {Saved(t, confirmed, id)}
  BY DEF Save, Saved
<1>3. \/ old = {} /\ id = nextId /\ nextId' = nextId + 1
      \/ (\E r \in old : id = r.id) /\ nextId' = nextId
  BY DEF Save
<1>4. QED
  BY <1>1, <1>2, <1>3

LEMMA InitTypes == Init => TypeOK
<1> SUFFICES ASSUME Init PROVE TypeOK
  OBVIOUS
<1>1. sagas \in [Sagas -> SagaRow]
  BY DEF Init, SagaRow, Status
<1>2. outbox \in [Sagas -> OutboxRow]
  BY DEF Init, OutboxRow
<1>3. announced \in [Pairs -> SUBSET Sagas] /\ declared \in BOOLEAN
  BY DEF Init
<1>4. users \subseteq {p[1] : p \in Pairs}
  BY DEF Init
<1>5. /\ confirmations \in [Sagas -> Nat] /\ successes \in [Sagas -> Nat]
      /\ failures \in [Sagas -> Nat]
  BY DEF Init
<1>6. QED
  BY <1>1, <1>2, <1>3, <1>4, <1>5 DEF Init, TypeOK

LEMMA NextTypes == TypeOK /\ [Next]_vars => TypeOK'
<1> SUFFICES ASSUME TypeOK, [Next]_vars PROVE TypeOK'
  OBVIOUS
<1> USE DEF TypeOK, apiVars, rowVars, mailVars, results
<1>1. ASSUME NEW h \in Handlers, NEW s \in Sagas, SubscribeLookup(h, s) PROVE TypeOK'
  BY <1>1 DEF SubscribeLookup, Request
<1>2. ASSUME NEW h \in Handlers, NEW t \in Sagas, NEW op \in {"confirm", "unsubscribe"},
             TokenLookup(h, t, op) PROVE TypeOK'
  BY <1>2 DEF TokenLookup, Request
<1>3. ASSUME NEW req \in requests, SubscribeCreateUser(req) PROVE TypeOK'
  BY <1>3 DEF SubscribeCreateUser, Request, Replace
<1>4. ASSUME NEW req \in requests, SubscribeCommit(req) PROVE TypeOK'
  <2>1. req.token \in Sagas /\ PairOf[req.token] \in Pairs
    BY DEF Request
  <2>2. PICK id \in 1..nextId : Save(req.token, FALSE, id) /\ Start(req.token, id)
    BY <1>4 DEF SubscribeCommit
  <2>3. id \in Nat
    OBVIOUS
  <2>8. Saved(req.token, FALSE, id) \in Subscription
    BY <2>1, <2>3 DEF Subscription, Saved
  <2>9. /\ subs' = {r \in subs : r.pair # PairOf[req.token]}
                   \cup {Saved(req.token, FALSE, id)}
        /\ nextId' \in {nextId, nextId + 1}
    BY <2>2, SaveEffect, Zenon
  <2>10. subs' \subseteq Subscription
    BY <2>8, <2>9, Zenon
  <2>4. nextId' \in Nat \ {0}
    BY <2>9
  <2>5. sagas' \in [Sagas -> SagaRow]
    BY <2>1, <2>2, <2>3 DEF Start, SagaRow, Status
  <2>6. outbox' \in [Sagas -> OutboxRow]
    BY <2>1, <2>2 DEF Start, OutboxRow
  <2>7. QED
    BY <1>4, <2>4, <2>10, <2>5, <2>6 DEF SubscribeCommit
<1>5. ASSUME NEW req \in requests, ConfirmCommit(req) PROVE TypeOK'
  <2>1. req.token \in Sagas /\ PairOf[req.token] \in Pairs
    BY DEF Request
  <2>2. PICK id \in 1..nextId : Save(req.token, TRUE, id)
    BY <1>5 DEF ConfirmCommit
  <2>8. Saved(req.token, TRUE, id) \in Subscription
    BY <2>1 DEF Subscription, Saved
  <2>9. /\ subs' = {r \in subs : r.pair # PairOf[req.token]}
                   \cup {Saved(req.token, TRUE, id)}
        /\ nextId' \in {nextId, nextId + 1}
    BY <2>2, SaveEffect, Zenon
  <2>10. subs' \subseteq Subscription
    BY <2>8, <2>9, Zenon
  <2>3. nextId' \in Nat \ {0}
    BY <2>9
  <2>4. announced' \in [Pairs -> SUBSET Sagas]
    BY <1>5, <2>1 DEF ConfirmCommit
  <2>5. QED
    BY <1>5, <2>3, <2>10, <2>4 DEF ConfirmCommit
<1>6. ASSUME NEW req \in requests, UnsubscribeCommit(req) PROVE TypeOK'
  BY <1>6 DEF UnsubscribeCommit, Delete, Request
<1>7. ASSUME NEW req \in requests, RequestAborts(req) PROVE TypeOK'
  BY <1>7 DEF RequestAborts
<1>8. ASSUME NEW s \in Sagas, RelayPublish(s) PROVE TypeOK'
  <2>1. outbox' \in [Sagas -> OutboxRow]
    BY <1>8 DEF RelayPublish, OutboxRow
  <2>2. confirmations' \in [Sagas -> Nat] /\ lost' \subseteq Sagas
    BY <1>8 DEF RelayPublish, Route
  <2>3. QED
    BY <1>8, <2>1, <2>2 DEF RelayPublish
<1>9. ASSUME NEW s \in Sagas, RelayRollback(s) PROVE TypeOK'
  BY <1>9 DEF RelayRollback, Route
<1>10. ASSUME NEW s \in Sagas, NEW delivered \in BOOLEAN, RelayFail(s, delivered) PROVE TypeOK'
  BY <1>10 DEF RelayFail, Route, OutboxRow
<1>11. ASSUME DeclareConfirmations PROVE TypeOK'
  BY <1>11 DEF DeclareConfirmations
<1>12. ASSUME NEW m \in Mailers, NEW s \in Sagas, SmtpAccepts(m, s) PROVE TypeOK'
  <2>0. [by |-> m, saga |-> s, ok |-> TRUE] \in Mailing
    BY DEF Mailing
  <2>1. mailing' \subseteq Mailing
    BY <1>12, <2>0 DEF SmtpAccepts, Take
  <2>2. confirmations' \in [Sagas -> Nat]
    BY <1>12 DEF SmtpAccepts, Take
  <2>3. QED
    BY <1>12, <2>1, <2>2 DEF SmtpAccepts
<1>13. ASSUME NEW m \in Mailers, NEW s \in Sagas, SmtpRefuses(m, s) PROVE TypeOK'
  <2>0. [by |-> m, saga |-> s, ok |-> FALSE] \in Mailing
    BY DEF Mailing
  <2>1. mailing' \subseteq Mailing
    BY <1>13, <2>0 DEF SmtpRefuses, Take
  <2>2. confirmations' \in [Sagas -> Nat]
    BY <1>13 DEF SmtpRefuses, Take
  <2>3. QED
    BY <1>13, <2>1, <2>2 DEF SmtpRefuses
<1>14. ASSUME NEW m \in Mailers, NEW s \in Sagas, SmtpBreaksAfterAccept(m, s) PROVE TypeOK'
  BY <1>14 DEF SmtpBreaksAfterAccept
<1>15. ASSUME NEW x \in mailing, ReplyDelivered(x) PROVE TypeOK'
  BY <1>15 DEF ReplyDelivered, PutResult, PutSuccess, PutFailure, Mailing
<1>16. ASSUME NEW x \in mailing, ReplyDropped(x) PROVE TypeOK'
  BY <1>16 DEF ReplyDropped, Mailing
<1>17. ASSUME NEW x \in mailing, ReplyFails(x) PROVE TypeOK'
  BY <1>17 DEF ReplyFails, Requeue, Mailing
<1>18. ASSUME NEW x \in mailing, ReplyUnsettled(x) PROVE TypeOK'
  BY <1>18 DEF ReplyUnsettled, PutResult, PutSuccess, PutFailure, Requeue, Mailing
<1>19. ASSUME NEW w \in Workers, NEW s \in Sagas, SkipCompleted(w, s) PROVE TypeOK'
  BY <1>19 DEF SkipCompleted, SettleSuccess, SettleFailure
<1>20. ASSUME NEW w \in Workers, NEW s \in Sagas, StepActivateRead(w, s) PROVE TypeOK'
  BY <1>20 DEF StepActivateRead, SettleSuccess, SettleFailure, Working
<1>21. ASSUME NEW w \in Workers, NEW s \in Sagas, NEW settled \in BOOLEAN,
              Compensate(w, s, settled) PROVE TypeOK'
  BY <1>21 DEF Compensate, SettleSuccess, SettleFailure, DeleteByID, SagaRow, Status
<1>22. ASSUME NEW x \in working, NEW settled \in BOOLEAN, StepActivateUpdate(x, settled)
       PROVE TypeOK'
  <2>1. x.saga \in Sagas
    BY DEF Working
  <2>2. sagas' \in [Sagas -> SagaRow]
    BY <1>22, <2>1 DEF StepActivateUpdate, SagaRow, Status
  <2>3. successes' \in [Sagas -> Nat] /\ failures' \in [Sagas -> Nat]
    BY <1>22, <2>1 DEF StepActivateUpdate, PutSuccess
  <2>4. QED
    BY <1>22, <2>2, <2>3 DEF StepActivateUpdate
<1>23. ASSUME NEW x \in working, StepActivateAborts(x) PROVE TypeOK'
  BY <1>23 DEF StepActivateAborts, PutResult, PutSuccess, PutFailure, Working
<1>24. CASE UNCHANGED vars
  BY <1>24 DEF vars
<1>25. QED
  BY <1>1, <1>2, <1>3, <1>4, <1>5, <1>6, <1>7, <1>8, <1>9, <1>10, <1>11, <1>12, <1>13,
     <1>14, <1>15, <1>16, <1>17, <1>18, <1>19, <1>20, <1>21, <1>22, <1>23, <1>24
     DEF Next, ApiNext, RelayNext, NotificationNext, OrchestratorNext

\* The state types hold in every reachable state.
THEOREM TypeCorrect == Spec => []TypeOK
  BY InitTypes, NextTypes, PTL DEF Spec

-----------------------------------------------------------------------------
\* Only five actions touch the rows, the announcements or the sagas.
LEMMA RowStep ==
  ASSUME [Next]_vars
  PROVE  \/ \E req \in requests : SubscribeCommit(req)
         \/ \E req \in requests : ConfirmCommit(req)
         \/ \E req \in requests : UnsubscribeCommit(req)
         \/ \E w \in Workers, s \in Sagas, settled \in BOOLEAN : Compensate(w, s, settled)
         \/ \E x \in working, settled \in BOOLEAN : StepActivateUpdate(x, settled)
         \/ UNCHANGED <<subs, nextId, announced, sagas>>
<1>1. CASE ApiNext
  BY <1>1 DEF ApiNext, SubscribeLookup, TokenLookup, SubscribeCreateUser, RequestAborts, rowVars
<1>2. CASE RelayNext
  BY <1>2 DEF RelayNext, RelayPublish, RelayRollback, RelayFail, rowVars
<1>3. CASE NotificationNext
  BY <1>3 DEF NotificationNext, DeclareConfirmations, SmtpAccepts, SmtpRefuses,
     SmtpBreaksAfterAccept, ReplyDelivered, ReplyDropped, ReplyFails, ReplyUnsettled, rowVars
<1>4. CASE OrchestratorNext
  BY <1>4 DEF OrchestratorNext, SkipCompleted, StepActivateRead, StepActivateAborts, rowVars
<1>5. CASE UNCHANGED vars
  BY <1>5 DEF vars
<1>6. QED
  BY <1>1, <1>2, <1>3, <1>4, <1>5 DEF Next

\* Mails cannot be unsent, and refusals are remembered.
LEMMA HistoryGrows ==
  ASSUME [Next]_vars
  PROVE  mailed \subseteq mailed' /\ refused \subseteq refused'
<1>1. CASE ApiNext
  BY <1>1 DEF ApiNext, SubscribeLookup, TokenLookup, SubscribeCreateUser, RequestAborts,
     SubscribeCommit, ConfirmCommit, UnsubscribeCommit, mailVars
<1>2. CASE RelayNext
  BY <1>2 DEF RelayNext, RelayPublish, RelayRollback, RelayFail, mailVars
<1>3. CASE NotificationNext
  BY <1>3 DEF NotificationNext, DeclareConfirmations, SmtpAccepts, SmtpRefuses,
     SmtpBreaksAfterAccept, ReplyDelivered, ReplyDropped, ReplyFails, ReplyUnsettled
<1>4. CASE OrchestratorNext
  BY <1>4 DEF OrchestratorNext, SkipCompleted, StepActivateRead, StepActivateAborts,
     StepActivateUpdate, Compensate, mailVars
<1>5. CASE UNCHANGED vars
  BY <1>5 DEF vars
<1>6. QED
  BY <1>1, <1>2, <1>3, <1>4, <1>5 DEF Next

\* Compensating or completing a saga leaves the subscription id it was started for.
LEMMA SagaKeepsSub ==
  ASSUME TypeOK,
         \/ \E w \in Workers, s \in Sagas, settled \in BOOLEAN : Compensate(w, s, settled)
         \/ \E x \in working, settled \in BOOLEAN : StepActivateUpdate(x, settled)
  PROVE  \A s \in Sagas : sagas'[s].sub = sagas[s].sub
<1>1. \A s \in Sagas : sagas[s] \in [status : Status, sub : Nat]
  BY DEF TypeOK, SagaRow
<1>2. PICK u, status : sagas' = [sagas EXCEPT ![u].status = status]
  BY DEF Compensate, StepActivateUpdate
<1>3. QED
  BY <1>1, <1>2 DEF TypeOK

-----------------------------------------------------------------------------
LEMMA KeysStep ==
  ASSUME TypeOK, RowsWellKeyed, [Next]_vars
  PROVE  RowsWellKeyed'
<1> USE DEF RowsWellKeyed
<1>1. ASSUME NEW t \in Sagas, NEW confirmed \in BOOLEAN, NEW id \in 1..nextId,
             Save(t, confirmed, id)
      PROVE  /\ id < nextId' /\ nextId <= nextId'
             /\ \A r \in subs' : r.id \in 1..(nextId' - 1) /\ r.pair = PairOf[r.token]
             /\ \A r, q \in subs' : r.id = q.id \/ r.pair = q.pair => r = q
  <2>1. /\ subs' = {r \in subs : r.pair # PairOf[t]} \cup {Saved(t, confirmed, id)}
        /\ \/ /\ \A r \in subs : r.pair # PairOf[t]
              /\ id = nextId /\ nextId' = nextId + 1
           \/ /\ \E r \in subs : r.pair = PairOf[t] /\ r.id = id
              /\ nextId' = nextId
    BY <1>1, SaveEffect, Zenon
  <2>2. id < nextId' /\ nextId <= nextId'
    BY <2>1 DEF TypeOK
  <2>3. \A r \in subs : r.pair # PairOf[t] => r.id # id
    BY <2>1 DEF TypeOK
  <2>4. Saved(t, confirmed, id).id = id /\ Saved(t, confirmed, id).pair = PairOf[t]
        /\ Saved(t, confirmed, id).token = t
    BY DEF Saved
  <2>5. \A r \in subs' : r.id \in 1..(nextId' - 1) /\ r.pair = PairOf[r.token]
    BY <2>1, <2>2, <2>4 DEF TypeOK
  <2>6. \A r, q \in subs' : r.id = q.id \/ r.pair = q.pair => r = q
    BY <2>1, <2>3, <2>4
  <2>7. QED
    BY <2>2, <2>5, <2>6
<1>2. ASSUME NEW req \in requests, SubscribeCommit(req) PROVE RowsWellKeyed'
  <2>1. req.token \in Sagas
    BY DEF TypeOK, Request
  <2>2. PICK id \in 1..nextId : Save(req.token, FALSE, id) /\ Start(req.token, id)
    BY <1>2 DEF SubscribeCommit
  <2>3. \A s \in Sagas : sagas'[s].sub = IF s = req.token THEN id ELSE sagas[s].sub
    BY <2>1, <2>2 DEF Start, TypeOK, SagaRow
  <2>4. /\ id < nextId' /\ nextId <= nextId'
        /\ \A r \in subs' : r.id \in 1..(nextId' - 1) /\ r.pair = PairOf[r.token]
        /\ \A r, q \in subs' : r.id = q.id \/ r.pair = q.pair => r = q
    BY <1>1, <2>1, <2>2
  <2>5. \A s \in Sagas : sagas'[s].sub < nextId'
    <3>1. nextId' \in Nat
      BY <2>2 DEF Save, TypeOK
    <3>2. QED
      BY <2>3, <2>4, <3>1 DEF TypeOK, SagaRow
  <2>6. QED
    BY <2>4, <2>5
<1>3. ASSUME NEW req \in requests, ConfirmCommit(req) PROVE RowsWellKeyed'
  <2>1. req.token \in Sagas
    BY DEF TypeOK, Request
  <2>2. PICK id \in 1..nextId : Save(req.token, TRUE, id)
    BY <1>3 DEF ConfirmCommit
  <2>3. /\ nextId <= nextId' /\ nextId' \in Nat
        /\ \A r \in subs' : r.id \in 1..(nextId' - 1) /\ r.pair = PairOf[r.token]
        /\ \A r, q \in subs' : r.id = q.id \/ r.pair = q.pair => r = q
    <3>1. nextId' \in Nat
      BY <2>2 DEF Save, TypeOK
    <3>2. QED
      BY <1>1, <2>1, <2>2, <3>1
  <2>4. sagas' = sagas
    BY <1>3 DEF ConfirmCommit
  <2>5. \A s \in Sagas : sagas'[s].sub < nextId'
    BY <2>3, <2>4 DEF TypeOK, SagaRow
  <2>6. QED
    BY <2>3, <2>5
<1>4. ASSUME NEW req \in requests, UnsubscribeCommit(req) PROVE RowsWellKeyed'
  BY <1>4 DEF UnsubscribeCommit, Delete
<1>5. ASSUME NEW w \in Workers, NEW s \in Sagas, NEW settled \in BOOLEAN,
             Compensate(w, s, settled) PROVE RowsWellKeyed'
  <2>1. subs' \subseteq subs /\ nextId' = nextId
    BY <1>5 DEF Compensate, DeleteByID
  <2>2. \A u \in Sagas : sagas'[u].sub = sagas[u].sub
    BY <1>5, SagaKeepsSub
  <2>3. QED
    BY <2>1, <2>2
<1>6. ASSUME NEW x \in working, NEW settled \in BOOLEAN, StepActivateUpdate(x, settled)
      PROVE RowsWellKeyed'
  <2>1. subs' = subs /\ nextId' = nextId
    BY <1>6 DEF StepActivateUpdate, rowVars
  <2>2. \A u \in Sagas : sagas'[u].sub = sagas[u].sub
    BY <1>6, SagaKeepsSub
  <2>3. QED
    BY <2>1, <2>2
<1>7. CASE UNCHANGED <<subs, nextId, announced, sagas>>
  BY <1>7
<1>8. QED
  BY <1>2, <1>3, <1>4, <1>5, <1>6, <1>7, RowStep

\* What a commit of Subscribe or Confirm leaves in the tables.
LEMMA SavedRows ==
  ASSUME TypeOK, RowsWellKeyed, NEW t \in Sagas, NEW confirmed \in BOOLEAN,
         NEW id \in 1..nextId, Save(t, confirmed, id)
  PROVE  \A r \in subs' :
           \/ /\ r.id = id /\ r.pair = PairOf[t] /\ r.token = t /\ r.confirmed = confirmed
           \/ r \in subs /\ r.pair # PairOf[t] /\ r.token # t
<1>1. subs' = {r \in subs : r.pair # PairOf[t]} \cup {Saved(t, confirmed, id)}
  BY SaveEffect, Zenon
<1>2. \A r \in subs : r.pair = PairOf[r.token]
  BY DEF RowsWellKeyed
<1>3. QED
  BY <1>1, <1>2 DEF Saved

LEMMA DoubleOptInStep ==
  ASSUME TypeOK, RowsWellKeyed, EvidenceIsSound, DoubleOptIn, [Next]_vars
  PROVE  DoubleOptIn'
<1>0. mailed \subseteq mailed'
  BY HistoryGrows
<1>1. ASSUME NEW req \in requests, SubscribeCommit(req) PROVE DoubleOptIn'
  <2>1. req.token \in Sagas
    BY DEF TypeOK, Request
  <2>2. PICK id \in 1..nextId : Save(req.token, FALSE, id)
    BY <1>1 DEF SubscribeCommit
  <2>3. QED
    BY <1>0, <2>1, <2>2, SavedRows DEF DoubleOptIn
<1>2. ASSUME NEW req \in requests, ConfirmCommit(req) PROVE DoubleOptIn'
  <2>1. req.token \in Sagas /\ req.token \in mailed
    BY <1>2 DEF TypeOK, Request, EvidenceIsSound, ConfirmCommit
  <2>2. PICK id \in 1..nextId : Save(req.token, TRUE, id)
    BY <1>2 DEF ConfirmCommit
  <2>3. QED
    BY <1>0, <2>1, <2>2, SavedRows DEF DoubleOptIn
<1>3. ASSUME subs' \subseteq subs PROVE DoubleOptIn'
  BY <1>0, <1>3 DEF DoubleOptIn
<1>4. QED
  BY <1>1, <1>2, <1>3, RowStep
     DEF UnsubscribeCommit, Delete, Compensate, DeleteByID, StepActivateUpdate, rowVars

LEMMA PendingRowsStep ==
  ASSUME TypeOK, RowsWellKeyed, PendingRowsKeepTheirSaga, [Next]_vars
  PROVE  PendingRowsKeepTheirSaga'
<1> USE DEF PendingRowsKeepTheirSaga
<1>1. ASSUME NEW req \in requests, SubscribeCommit(req) PROVE PendingRowsKeepTheirSaga'
  <2>1. req.token \in Sagas
    BY DEF TypeOK, Request
  <2>2. PICK id \in 1..nextId : Save(req.token, FALSE, id) /\ Start(req.token, id)
    BY <1>1 DEF SubscribeCommit
  <2>3. \A s \in Sagas : sagas'[s].sub = IF s = req.token THEN id ELSE sagas[s].sub
    BY <2>1, <2>2 DEF Start, TypeOK, SagaRow
  <2>4. \A r \in subs : r.token \in Sagas
    BY DEF TypeOK, Subscription
  <2>5. QED
    BY <2>1, <2>2, <2>3, <2>4, SavedRows
<1>2. ASSUME NEW req \in requests, ConfirmCommit(req) PROVE PendingRowsKeepTheirSaga'
  <2>1. req.token \in Sagas /\ sagas' = sagas
    BY <1>2 DEF TypeOK, Request, ConfirmCommit
  <2>2. PICK id \in 1..nextId : Save(req.token, TRUE, id)
    BY <1>2 DEF ConfirmCommit
  <2>3. QED
    BY <2>1, <2>2, SavedRows
<1>3. ASSUME subs' \subseteq subs, \A s \in Sagas : sagas'[s].sub = sagas[s].sub
      PROVE  PendingRowsKeepTheirSaga'
  BY <1>3 DEF TypeOK, Subscription
<1>4. ASSUME NEW req \in requests, UnsubscribeCommit(req) PROVE PendingRowsKeepTheirSaga'
  BY <1>3, <1>4 DEF UnsubscribeCommit, Delete
<1>5. ASSUME NEW w \in Workers, NEW s \in Sagas, NEW settled \in BOOLEAN,
             Compensate(w, s, settled) PROVE PendingRowsKeepTheirSaga'
  BY <1>3, <1>5, SagaKeepsSub DEF Compensate, DeleteByID
<1>6. ASSUME NEW x \in working, NEW settled \in BOOLEAN, StepActivateUpdate(x, settled)
      PROVE PendingRowsKeepTheirSaga'
  BY <1>3, <1>6, SagaKeepsSub DEF StepActivateUpdate, rowVars
<1>7. QED
  BY <1>1, <1>2, <1>3, <1>4, <1>5, <1>6, RowStep

LEMMA RollsBackStep ==
  ASSUME TypeOK, RowsWellKeyed, PendingRowsKeepTheirSaga, CompensationRollsBack, [Next]_vars
  PROVE  CompensationRollsBack'
<1> USE DEF CompensationRollsBack
<1>0. \A r \in subs : r.token \in Sagas
  BY DEF TypeOK, Subscription
<1>1. ASSUME NEW req \in requests, SubscribeCommit(req) PROVE CompensationRollsBack'
  <2>1. req.token \in Sagas
    BY DEF TypeOK, Request
  <2>2. PICK id \in 1..nextId : Save(req.token, FALSE, id) /\ Start(req.token, id)
    BY <1>1 DEF SubscribeCommit
  <2>3. \A s \in Sagas :
          sagas'[s].status = IF s = req.token THEN "STARTED" ELSE sagas[s].status
    BY <2>1, <2>2 DEF Start, TypeOK, SagaRow
  <2>4. QED
    BY <1>0, <2>1, <2>2, <2>3, SavedRows
<1>2. ASSUME NEW req \in requests, ConfirmCommit(req) PROVE CompensationRollsBack'
  <2>1. req.token \in Sagas /\ sagas' = sagas
    BY <1>2 DEF TypeOK, Request, ConfirmCommit
  <2>2. PICK id \in 1..nextId : Save(req.token, TRUE, id)
    BY <1>2 DEF ConfirmCommit
  <2>3. QED
    BY <2>1, <2>2, SavedRows
<1>3. ASSUME NEW req \in requests, UnsubscribeCommit(req) PROVE CompensationRollsBack'
  BY <1>3 DEF UnsubscribeCommit, Delete
<1>4. ASSUME NEW w \in Workers, NEW s \in Sagas, NEW settled \in BOOLEAN,
             Compensate(w, s, settled) PROVE CompensationRollsBack'
  <2>1. \A r \in subs' : r \in subs /\ r.id # sagas[s].sub
    BY <1>4 DEF Compensate, DeleteByID
  <2>2. \A r \in subs' : ~r.confirmed => r.token # s
    BY <2>1 DEF PendingRowsKeepTheirSaga
  <2>3. \A u \in Sagas : u # s => sagas'[u] = sagas[u]
    BY <1>4 DEF Compensate, TypeOK
  <2>4. QED
    BY <1>0, <2>1, <2>2, <2>3
<1>5. ASSUME NEW x \in working, NEW settled \in BOOLEAN, StepActivateUpdate(x, settled)
      PROVE CompensationRollsBack'
  <2>1. subs' = subs
    BY <1>5 DEF StepActivateUpdate, rowVars
  <2>2. \A u \in Sagas : sagas'[u].status = "COMPLETED" \/ sagas'[u] = sagas[u]
    BY <1>5 DEF StepActivateUpdate, TypeOK, SagaRow
  <2>3. QED
    BY <1>0, <2>1, <2>2
<1>6. CASE UNCHANGED <<subs, nextId, announced, sagas>>
  BY <1>6
<1>7. QED
  BY <1>1, <1>2, <1>3, <1>4, <1>5, <1>6, RowStep

\* Save gives its row the id of the pair's old row, or one no saga has yet.
LEMMA StaysInPairStep ==
  ASSUME TypeOK, RowsWellKeyed, CompensationStaysInPair, [Next]_vars
  PROVE  CompensationStaysInPair'
<1> USE DEF CompensationStaysInPair
<1>1. ASSUME NEW t \in Sagas, NEW confirmed \in BOOLEAN, NEW id \in 1..nextId,
             Save(t, confirmed, id)
      PROVE  /\ \A r \in subs' : IF r.id = id THEN r.pair = PairOf[t] ELSE r \in subs
             /\ \A s \in Sagas : sagas[s].sub = id => PairOf[s] = PairOf[t]
  <2>1. \/ /\ \A r \in subs : r.pair # PairOf[t]
           /\ id = nextId /\ nextId' = nextId + 1
        \/ /\ \E r \in subs : r.pair = PairOf[t] /\ r.id = id
           /\ nextId' = nextId
    BY <1>1, SaveEffect, Zenon
  <2>2. \A r \in subs : r.pair # PairOf[t] => r.id # id
    BY <2>1 DEF TypeOK, RowsWellKeyed
  <2>3. \A r \in subs' :
           \/ r.id = id /\ r.pair = PairOf[t]
           \/ r \in subs /\ r.pair # PairOf[t]
    BY <1>1, SavedRows
  <2>4. \A s \in Sagas : sagas[s].sub = id => PairOf[s] = PairOf[t]
    BY <2>1 DEF TypeOK, RowsWellKeyed, SagaRow
  <2>5. QED
    BY <2>2, <2>3, <2>4
<1>2. ASSUME NEW req \in requests, SubscribeCommit(req) PROVE CompensationStaysInPair'
  <2>1. req.token \in Sagas
    BY DEF TypeOK, Request
  <2>2. PICK id \in 1..nextId : Save(req.token, FALSE, id) /\ Start(req.token, id)
    BY <1>2 DEF SubscribeCommit
  <2>3. \A s \in Sagas : sagas'[s].sub = IF s = req.token THEN id ELSE sagas[s].sub
    BY <2>1, <2>2 DEF Start, TypeOK, SagaRow
  <2>4. /\ \A r \in subs' : IF r.id = id THEN r.pair = PairOf[req.token] ELSE r \in subs
        /\ \A s \in Sagas : sagas[s].sub = id => PairOf[s] = PairOf[req.token]
    BY <1>1, <2>1, <2>2
  <2>5. QED
    BY <2>3, <2>4
<1>3. ASSUME NEW req \in requests, ConfirmCommit(req) PROVE CompensationStaysInPair'
  <2>1. req.token \in Sagas /\ sagas' = sagas
    BY <1>3 DEF TypeOK, Request, ConfirmCommit
  <2>2. PICK id \in 1..nextId : Save(req.token, TRUE, id)
    BY <1>3 DEF ConfirmCommit
  <2>3. /\ \A r \in subs' : IF r.id = id THEN r.pair = PairOf[req.token] ELSE r \in subs
        /\ \A s \in Sagas : sagas[s].sub = id => PairOf[s] = PairOf[req.token]
    BY <1>1, <2>1, <2>2
  <2>4. QED
    BY <2>1, <2>3
<1>4. ASSUME NEW req \in requests, UnsubscribeCommit(req) PROVE CompensationStaysInPair'
  BY <1>4 DEF UnsubscribeCommit, Delete
<1>5. ASSUME subs' \subseteq subs, \A s \in Sagas : sagas'[s].sub = sagas[s].sub
      PROVE  CompensationStaysInPair'
  BY <1>5
<1>6. ASSUME NEW w \in Workers, NEW s \in Sagas, NEW settled \in BOOLEAN,
             Compensate(w, s, settled) PROVE CompensationStaysInPair'
  BY <1>5, <1>6, SagaKeepsSub DEF Compensate, DeleteByID
<1>7. ASSUME NEW x \in working, NEW settled \in BOOLEAN, StepActivateUpdate(x, settled)
      PROVE CompensationStaysInPair'
  BY <1>5, <1>7, SagaKeepsSub DEF StepActivateUpdate, rowVars
<1>8. QED
  BY <1>2, <1>3, <1>4, <1>5, <1>6, <1>7, RowStep

LEMMA AnnouncedStep ==
  ASSUME TypeOK, RowsWellKeyed, ConfirmedIsAnnounced, [Next]_vars
  PROVE  ConfirmedIsAnnounced'
<1> USE DEF ConfirmedIsAnnounced
<1>0. \A t \in Sagas : PairOf[t] \in Pairs
  OBVIOUS
<1>1. ASSUME NEW req \in requests, SubscribeCommit(req) PROVE ConfirmedIsAnnounced'
  <2>1. req.token \in Sagas /\ announced' = announced
    BY <1>1 DEF TypeOK, Request, SubscribeCommit
  <2>2. PICK id \in 1..nextId : Save(req.token, FALSE, id)
    BY <1>1 DEF SubscribeCommit
  <2>3. QED
    BY <2>1, <2>2, SavedRows
<1>2. ASSUME NEW req \in requests, ConfirmCommit(req) PROVE ConfirmedIsAnnounced'
  <2>1. req.token \in Sagas
    BY DEF TypeOK, Request
  <2>2. PICK id \in 1..nextId : Save(req.token, TRUE, id)
    BY <1>2 DEF ConfirmCommit
  <2>3. \A p \in Pairs :
          announced'[p] = IF p = PairOf[req.token] THEN {req.token} ELSE announced[p]
    BY <1>2 DEF ConfirmCommit, TypeOK
  <2>4. \A r \in subs : r.pair \in Pairs
    BY DEF TypeOK, Subscription
  <2>5. ASSUME NEW r \in subs', r.confirmed PROVE announced'[r.pair] = {r.token}
    <3>1. \/ r.pair = PairOf[req.token] /\ r.token = req.token
          \/ r \in subs /\ r.pair # PairOf[req.token]
      BY <2>1, <2>2, SavedRows
    <3>2. QED
      BY <1>0, <2>1, <2>3, <2>4, <2>5, <3>1
  <2>6. QED
    BY <2>5
<1>3. ASSUME NEW req \in requests, UnsubscribeCommit(req) PROVE ConfirmedIsAnnounced'
  <2>1. \A r \in subs' : r \in subs /\ r.pair # PairOf[req.token] /\ r.pair \in Pairs
    BY <1>3 DEF UnsubscribeCommit, Delete, TypeOK, Subscription
  <2>2. \A p \in Pairs : p # PairOf[req.token] => announced'[p] = announced[p]
    BY <1>3 DEF UnsubscribeCommit, TypeOK
  <2>3. QED
    BY <2>1, <2>2
<1>4. ASSUME subs' \subseteq subs, announced' = announced PROVE ConfirmedIsAnnounced'
  BY <1>4
<1>5. QED
  BY <1>1, <1>2, <1>3, <1>4, RowStep DEF Compensate, DeleteByID, StepActivateUpdate, rowVars

LEMMA GhostsStep ==
  ASSUME TypeOK, RowsWellKeyed, EvidenceIsSound, CompensationStaysInPair,
         GhostsComeFromCompensation, [Next]_vars
  PROVE  GhostsComeFromCompensation'
<1> USE DEF GhostsComeFromCompensation
<1>0. refused \subseteq refused' /\ \A t \in Sagas : PairOf[t] \in Pairs
  BY HistoryGrows
<1>1. ASSUME NEW t \in Sagas, NEW confirmed \in BOOLEAN, NEW id \in 1..nextId,
             Save(t, confirmed, id)
      PROVE  \A p \in Pairs : p = PairOf[t] \/ (\E r \in subs : r.pair = p)
                                => \E r \in subs' : r.pair = p
  <2>1. subs' = {r \in subs : r.pair # PairOf[t]} \cup {Saved(t, confirmed, id)}
    BY <1>1, SaveEffect, Zenon
  <2>2. Saved(t, confirmed, id) \in subs' /\ Saved(t, confirmed, id).pair = PairOf[t]
    BY <2>1 DEF Saved
  <2>3. \A r \in subs : r.pair # PairOf[t] => r \in subs'
    BY <2>1
  <2>4. QED
    BY <2>2, <2>3
<1>2. ASSUME NEW req \in requests, SubscribeCommit(req) PROVE GhostsComeFromCompensation'
  <2>1. req.token \in Sagas /\ announced' = announced
    BY <1>2 DEF TypeOK, Request, SubscribeCommit
  <2>2. PICK id \in 1..nextId : Save(req.token, FALSE, id)
    BY <1>2 DEF SubscribeCommit
  <2>3. \A p \in Pairs : (\E r \in subs : r.pair = p) => \E r \in subs' : r.pair = p
    BY <1>1, <2>1, <2>2
  <2>4. QED
    BY <1>0, <2>1, <2>3
<1>3. ASSUME NEW req \in requests, ConfirmCommit(req) PROVE GhostsComeFromCompensation'
  <2>1. req.token \in Sagas
    BY DEF TypeOK, Request
  <2>2. PICK id \in 1..nextId : Save(req.token, TRUE, id)
    BY <1>3 DEF ConfirmCommit
  <2>3. \A p \in Pairs : p # PairOf[req.token] => announced'[p] = announced[p]
    BY <1>3 DEF ConfirmCommit, TypeOK
  <2>4. \A p \in Pairs : p = PairOf[req.token] \/ (\E r \in subs : r.pair = p)
                           => \E r \in subs' : r.pair = p
    BY <1>1, <2>1, <2>2
  <2>5. QED
    BY <1>0, <2>3, <2>4
<1>4. ASSUME NEW req \in requests, UnsubscribeCommit(req) PROVE GhostsComeFromCompensation'
  <2>1. subs' = {r \in subs : r.pair # PairOf[req.token]}
    BY <1>4 DEF UnsubscribeCommit, Delete
  <2>2. \A p \in Pairs :
          announced'[p] = IF p = PairOf[req.token] THEN {} ELSE announced[p]
    BY <1>4 DEF UnsubscribeCommit, TypeOK
  <2>3. QED
    BY <1>0, <2>1, <2>2
<1>5. ASSUME NEW w \in Workers, NEW s \in Sagas, NEW settled \in BOOLEAN,
             Compensate(w, s, settled) PROVE GhostsComeFromCompensation'
  <2>1. s \in refused /\ announced' = announced
    BY <1>5 DEF Compensate, EvidenceIsSound
  <2>2. \A r \in subs \ subs' : r.pair = PairOf[s]
    BY <1>5 DEF Compensate, DeleteByID, CompensationStaysInPair
  <2>3. QED
    BY <1>0, <2>1, <2>2
<1>6. ASSUME subs' = subs, announced' = announced PROVE GhostsComeFromCompensation'
  BY <1>0, <1>6
<1>7. QED
  BY <1>2, <1>3, <1>4, <1>5, <1>6, RowStep DEF StepActivateUpdate, rowVars

-----------------------------------------------------------------------------
LEMMA EvidenceStep ==
  ASSUME TypeOK, EvidenceIsSound, [Next]_vars
  PROVE  EvidenceIsSound'
<1> USE DEF EvidenceIsSound
<1>1. CASE ApiNext
  <2>1. \A req \in requests' :
          \/ req \in requests
          \/ req.op \in {"create", "subscribe"}
          \/ req.token \in mailed
    <3>1. ASSUME NEW h \in Handlers, NEW s \in Sagas, SubscribeLookup(h, s),
                 NEW req \in requests' \ requests
          PROVE  req.op \in {"create", "subscribe"}
      BY <3>1 DEF SubscribeLookup
    <3>2. ASSUME NEW h \in Handlers, NEW s \in Sagas, NEW op \in {"confirm", "unsubscribe"},
                 TokenLookup(h, s, op), NEW req \in requests' \ requests
          PROVE  req.token \in mailed
      BY <3>2 DEF TokenLookup
    <3>3. ASSUME NEW old \in requests, SubscribeCreateUser(old),
                 NEW req \in requests' \ requests
          PROVE  req.op \in {"create", "subscribe"}
      <4>1. req = [old EXCEPT !.op = "subscribe"]
        BY <3>3 DEF SubscribeCreateUser, Replace
      <4>2. QED
        BY <4>1 DEF TypeOK, Request
    <3>4. ASSUME NEW old \in requests,
                 \/ SubscribeCommit(old) \/ ConfirmCommit(old)
                 \/ UnsubscribeCommit(old) \/ RequestAborts(old)
          PROVE  requests' \subseteq requests
      BY <3>4 DEF SubscribeCommit, ConfirmCommit, UnsubscribeCommit, RequestAborts
    <3>5. QED
      BY <1>1, <3>1, <3>2, <3>3, <3>4 DEF ApiNext
  <2>2. UNCHANGED <<mailing, mailed, refused, working, successes, failures>>
    BY <1>1 DEF ApiNext, SubscribeLookup, TokenLookup, SubscribeCreateUser, RequestAborts,
       SubscribeCommit, ConfirmCommit, UnsubscribeCommit, mailVars, results
  <2>3. QED
    BY <2>1, <2>2
<1>2. CASE RelayNext
  BY <1>2 DEF RelayNext, RelayPublish, RelayRollback, RelayFail, mailVars, results, apiVars
<1>3. CASE NotificationNext
  <2>1. mailed \subseteq mailed' /\ refused \subseteq refused'
    BY HistoryGrows
  <2>2. UNCHANGED <<requests, working>>
    BY <1>3 DEF NotificationNext, DeclareConfirmations, SmtpAccepts, SmtpRefuses,
       SmtpBreaksAfterAccept, ReplyDelivered, ReplyDropped, ReplyFails, ReplyUnsettled, apiVars
  <2>3. \A x \in mailing' :
          x \in mailing \/ (IF x.ok THEN x.saga \in mailed' ELSE x.saga \in refused')
    BY <1>3 DEF NotificationNext, DeclareConfirmations, SmtpAccepts, SmtpRefuses, Take,
       SmtpBreaksAfterAccept, ReplyDelivered, ReplyDropped, ReplyFails, ReplyUnsettled
  <2>4. ASSUME NEW x \in mailing, PutResult(x)
        PROVE  /\ \A s \in Sagas : successes'[s] > 0 => s \in mailed
               /\ \A s \in Sagas : failures'[s] > 0 => s \in refused
    <3>1. CASE x.ok
      <4>1. x.saga \in mailed /\ failures' = failures
        BY <2>4, <3>1 DEF PutResult, PutSuccess
      <4>2. \A s \in Sagas : s # x.saga => successes'[s] = successes[s]
        BY <2>4, <3>1 DEF PutResult, PutSuccess, TypeOK
      <4>3. QED
        BY <4>1, <4>2
    <3>2. CASE ~x.ok
      <4>1. x.saga \in refused /\ successes' = successes
        BY <2>4, <3>2 DEF PutResult, PutFailure
      <4>2. \A s \in Sagas : s # x.saga => failures'[s] = failures[s]
        BY <2>4, <3>2 DEF PutResult, PutFailure, TypeOK
      <4>3. QED
        BY <4>1, <4>2
    <3>3. QED
      BY <3>1, <3>2
  <2>5. \/ \E x \in mailing : PutResult(x)
        \/ UNCHANGED <<successes, failures>>
    BY <1>3 DEF NotificationNext, DeclareConfirmations, SmtpAccepts, SmtpRefuses,
       SmtpBreaksAfterAccept, ReplyDelivered, ReplyDropped, ReplyFails, ReplyUnsettled, results
  <2>6. /\ \A s \in Sagas : successes'[s] > 0 => s \in mailed
        /\ \A s \in Sagas : failures'[s] > 0 => s \in refused
    BY <2>4, <2>5
  <2>7. QED
    BY <2>1, <2>2, <2>3, <2>6
<1>4. CASE OrchestratorNext
  <2>1. UNCHANGED <<requests, mailing, mailed, refused>>
    BY <1>4 DEF OrchestratorNext, SkipCompleted, StepActivateRead, StepActivateAborts,
       StepActivateUpdate, Compensate, mailVars, apiVars
  <2>2. \A x \in working' : x.saga \in mailed
    <3>1. ASSUME NEW w \in Workers, NEW s \in Sagas, StepActivateRead(w, s)
          PROVE  \A x \in working' : x.saga \in mailed
      BY <3>1 DEF StepActivateRead
    <3>2. ASSUME working' \subseteq working
          PROVE  \A x \in working' : x.saga \in mailed
      BY <3>2
    <3>3. QED
      BY <1>4, <3>1, <3>2 DEF OrchestratorNext, SkipCompleted, StepActivateAborts,
         StepActivateUpdate, Compensate
  <2>3. ASSUME NEW t \in mailed, PutSuccess(t)
        PROVE  /\ \A s \in Sagas : successes'[s] > 0 => s \in mailed
               /\ \A s \in Sagas : failures'[s] > 0 => s \in refused
    <3>1. \A s \in Sagas : s # t => successes'[s] = successes[s]
      BY <2>3 DEF PutSuccess, TypeOK
    <3>2. failures' = failures
      BY <2>3 DEF PutSuccess
    <3>3. QED
      BY <3>1, <3>2
  <2>4. ASSUME NEW t \in Sagas, SettleSuccess(t) \/ SettleFailure(t),
               successes[t] > 0 \/ failures[t] > 0
        PROVE  \A s \in Sagas : /\ successes'[s] > 0 => successes[s] > 0
                                /\ failures'[s] > 0 => failures[s] > 0
    <3>1. CASE SettleSuccess(t)
      BY <3>1 DEF SettleSuccess, TypeOK
    <3>2. CASE SettleFailure(t)
      BY <3>2 DEF SettleFailure, TypeOK
    <3>3. QED
      BY <2>4, <3>1, <3>2
  <2>5. \/ \E t \in mailed : PutSuccess(t)
        \/ \E t \in Sagas : (SettleSuccess(t) \/ SettleFailure(t))
                              /\ (successes[t] > 0 \/ failures[t] > 0)
        \/ UNCHANGED <<successes, failures>>
    BY <1>4 DEF OrchestratorNext, SkipCompleted, StepActivateRead, StepActivateAborts,
       StepActivateUpdate, Compensate, results
  <2>6. /\ \A s \in Sagas : successes'[s] > 0 => s \in mailed
        /\ \A s \in Sagas : failures'[s] > 0 => s \in refused
    BY <2>3, <2>4, <2>5
  <2>7. QED
    BY <2>1, <2>2, <2>6
<1>5. CASE UNCHANGED vars
  BY <1>5 DEF vars
<1>6. QED
  BY <1>1, <1>2, <1>3, <1>4, <1>5 DEF Next

LEMMA OutcomeStep ==
  ASSUME TypeOK, EvidenceIsSound, OutcomeIsEarned, [Next]_vars
  PROVE  OutcomeIsEarned'
<1> USE DEF OutcomeIsEarned
<1>0. mailed \subseteq mailed' /\ refused \subseteq refused'
  BY HistoryGrows
<1>1. ASSUME NEW req \in requests, SubscribeCommit(req) PROVE OutcomeIsEarned'
  <2>1. req.token \in Sagas
    BY DEF TypeOK, Request
  <2>2. PICK id : Start(req.token, id)
    BY <1>1 DEF SubscribeCommit
  <2>3. \A s \in Sagas :
          sagas'[s].status = IF s = req.token THEN "STARTED" ELSE sagas[s].status
    BY <2>1, <2>2 DEF Start, TypeOK, SagaRow
  <2>4. QED
    BY <1>0, <2>3
<1>2. ASSUME NEW w \in Workers, NEW s \in Sagas, NEW settled \in BOOLEAN,
             Compensate(w, s, settled) PROVE OutcomeIsEarned'
  <2>1. s \in refused
    BY <1>2 DEF Compensate, EvidenceIsSound
  <2>2. \A u \in Sagas :
          sagas'[u].status = IF u = s THEN "COMPENSATED" ELSE sagas[u].status
    BY <1>2 DEF Compensate, TypeOK, SagaRow
  <2>3. QED
    BY <1>0, <2>1, <2>2
<1>3. ASSUME NEW x \in working, NEW settled \in BOOLEAN, StepActivateUpdate(x, settled)
      PROVE OutcomeIsEarned'
  <2>1. x.saga \in mailed
    BY DEF EvidenceIsSound
  <2>2. \A u \in Sagas :
          sagas'[u].status = IF u = x.saga THEN "COMPLETED" ELSE sagas[u].status
    BY <1>3 DEF StepActivateUpdate, TypeOK, SagaRow
  <2>3. QED
    BY <1>0, <2>1, <2>2
<1>4. ASSUME sagas' = sagas PROVE OutcomeIsEarned'
  BY <1>0, <1>4
<1>5. QED
  BY <1>1, <1>2, <1>3, <1>4, RowStep DEF ConfirmCommit, UnsubscribeCommit

\* A saga that is still STARTED after the step was so before, or has just been
\* queued; its message moves on, and is dropped only if lost remembers it.
LEMMA PendingStep ==
  ASSUME TypeOK, NoSagaForgotten, [Next]_vars
  PROVE  NoSagaForgotten'
<1> USE DEF NoSagaForgotten, Pending
<1>1. ASSUME NEW req \in requests, SubscribeCommit(req) PROVE NoSagaForgotten'
  <2>1. req.token \in Sagas
    BY DEF TypeOK, Request
  <2>2. PICK id : Start(req.token, id)
    BY <1>1 DEF SubscribeCommit
  <2>3. \A s \in Sagas : s # req.token => sagas'[s] = sagas[s] /\ outbox'[s] = outbox[s]
    BY <2>2 DEF Start, TypeOK
  <2>4. outbox'[req.token].status = "PENDING"
    BY <2>1, <2>2 DEF Start, TypeOK
  <2>5. UNCHANGED <<confirmations, mailing, successes, failures, working, lost>>
    BY <1>1 DEF SubscribeCommit, mailVars, results
  <2>6. QED
    BY <2>3, <2>4, <2>5
<1>2. ASSUME UNCHANGED <<sagas, outbox, confirmations, mailing, successes, failures,
                         working, lost>>
      PROVE  NoSagaForgotten'
  BY <1>2
<1>3. CASE ApiNext
  BY <1>1, <1>2, <1>3 DEF ApiNext, SubscribeLookup, TokenLookup, SubscribeCreateUser,
     ConfirmCommit, UnsubscribeCommit, RequestAborts, mailVars, results
<1>4. ASSUME NEW s \in Sagas,
             RelayPublish(s) \/ RelayRollback(s) \/ \E b \in BOOLEAN : RelayFail(s, b)
      PROVE  NoSagaForgotten'
  <2>1. UNCHANGED <<sagas, mailing, successes, failures, working>>
    BY <1>4 DEF RelayPublish, RelayRollback, RelayFail, mailVars, results
  <2>2. \A u \in Sagas : u # s => outbox'[u] = outbox[u]
    BY <1>4 DEF RelayPublish, RelayRollback, RelayFail, TypeOK
  <2>3. /\ lost \subseteq lost'
        /\ \A u \in Sagas : confirmations[u] > 0 => confirmations'[u] > 0
    BY <1>4 DEF RelayPublish, RelayRollback, RelayFail, Route, TypeOK
  <2>4. outbox'[s].status # "ABSENT" \/ confirmations'[s] > 0 \/ s \in lost'
    <3>1. CASE RelayPublish(s)
      BY <3>1 DEF RelayPublish, Route, TypeOK
    <3>2. CASE RelayRollback(s)
      BY <3>2 DEF RelayRollback
    <3>3. ASSUME NEW b \in BOOLEAN, RelayFail(s, b) PROVE outbox'[s].status # "ABSENT"
      BY <3>3 DEF RelayFail, TypeOK
    <3>4. QED
      BY <1>4, <3>1, <3>2, <3>3
  <2>5. QED
    BY <2>1, <2>2, <2>3, <2>4
<1>5. ASSUME NEW m \in Mailers, NEW s \in Sagas, SmtpAccepts(m, s) \/ SmtpRefuses(m, s)
      PROVE  NoSagaForgotten'
  <2>1. UNCHANGED <<sagas, outbox, successes, failures, working, lost>>
    BY <1>5 DEF SmtpAccepts, SmtpRefuses, results
  <2>2. \A u \in Sagas : u # s => confirmations'[u] = confirmations[u]
    BY <1>5 DEF SmtpAccepts, SmtpRefuses, Take, TypeOK
  <2>3. mailing \subseteq mailing' /\ \E x \in mailing' : x.saga = s
    <3>1. PICK ok \in BOOLEAN : mailing' = mailing \cup {[by |-> m, saga |-> s, ok |-> ok]}
      BY <1>5 DEF SmtpAccepts, SmtpRefuses, Take
    <3>2. [by |-> m, saga |-> s, ok |-> ok].saga = s
      OBVIOUS
    <3>3. QED
      BY <3>1, <3>2, Zenon
  <2>4. QED
    BY <2>1, <2>2, <2>3
<1>6. ASSUME NEW x \in mailing, ReplyDelivered(x) \/ ReplyDropped(x) \/ ReplyFails(x)
                                  \/ ReplyUnsettled(x)
      PROVE  NoSagaForgotten'
  <2>1. UNCHANGED <<sagas, outbox, working>> /\ lost \subseteq lost'
    BY <1>6 DEF ReplyDelivered, ReplyDropped, ReplyFails, ReplyUnsettled
  <2>2. x.saga \in Sagas /\ \A y \in mailing : y \in mailing' \/ y.saga = x.saga
    BY <1>6 DEF ReplyDelivered, ReplyDropped, ReplyFails, ReplyUnsettled, TypeOK, Mailing
  <2>3. ASSUME Requeue(x.saga)
        PROVE  /\ confirmations'[x.saga] > 0
               /\ \A u \in Sagas : confirmations[u] > 0 => confirmations'[u] > 0
    BY <2>2, <2>3 DEF Requeue, TypeOK
  <2>4. ASSUME PutResult(x)
        PROVE  /\ successes'[x.saga] > 0 \/ failures'[x.saga] > 0
               /\ \A u \in Sagas : successes[u] > 0 => successes'[u] > 0
               /\ \A u \in Sagas : failures[u] > 0 => failures'[u] > 0
    <3>1. CASE x.ok
      BY <2>2, <2>4, <3>1 DEF PutResult, PutSuccess, TypeOK
    <3>2. CASE ~x.ok
      BY <2>2, <2>4, <3>2 DEF PutResult, PutFailure, TypeOK
    <3>3. QED
      BY <3>1, <3>2
  <2>5. /\ \A u \in Sagas : confirmations[u] > 0 => confirmations'[u] > 0
        /\ \A u \in Sagas : successes[u] > 0 => successes'[u] > 0
        /\ \A u \in Sagas : failures[u] > 0 => failures'[u] > 0
        /\ \/ x.saga \in lost' \/ confirmations'[x.saga] > 0
           \/ successes'[x.saga] > 0 \/ failures'[x.saga] > 0
    BY <1>6, <2>3, <2>4 DEF ReplyDelivered, ReplyDropped, ReplyFails, ReplyUnsettled, results
  <2>6. QED
    BY <2>1, <2>2, <2>5
<1>7. CASE NotificationNext
  BY <1>2, <1>5, <1>6, <1>7
     DEF NotificationNext, DeclareConfirmations, SmtpBreaksAfterAccept, results
<1>8. ASSUME NEW w \in Workers, NEW s \in Sagas, SkipCompleted(w, s) PROVE NoSagaForgotten'
  <2>1. UNCHANGED <<sagas, outbox, confirmations, mailing, failures, working, lost>>
    BY <1>8 DEF SkipCompleted, SettleSuccess, mailVars
  <2>2. \A u \in Sagas : u # s => successes'[u] = successes[u]
    BY <1>8 DEF SkipCompleted, SettleSuccess, TypeOK
  <2>3. sagas[s].status = "COMPLETED"
    BY <1>8 DEF SkipCompleted
  <2>4. QED
    BY <2>1, <2>2, <2>3
<1>9. ASSUME NEW w \in Workers, NEW s \in Sagas, StepActivateRead(w, s)
      PROVE  NoSagaForgotten'
  <2>1. UNCHANGED <<sagas, outbox, confirmations, mailing, failures, lost>>
    BY <1>9 DEF StepActivateRead, SettleSuccess, mailVars
  <2>2. \A u \in Sagas : u # s => successes'[u] = successes[u]
    BY <1>9 DEF StepActivateRead, SettleSuccess, TypeOK
  <2>3. working \subseteq working' /\ \E x \in working' : x.saga = s
    <3>1. working' = working \cup {[by |-> w, saga |-> s]}
      BY <1>9 DEF StepActivateRead
    <3>2. [by |-> w, saga |-> s].saga = s
      OBVIOUS
    <3>3. QED
      BY <3>1, <3>2, Zenon
  <2>4. QED
    BY <2>1, <2>2, <2>3
<1>10. ASSUME NEW x \in working, NEW settled \in BOOLEAN,
              StepActivateUpdate(x, settled) \/ StepActivateAborts(x)
       PROVE  NoSagaForgotten'
  <2>1. UNCHANGED <<outbox, confirmations, mailing, failures, lost>>
    BY <1>10 DEF StepActivateUpdate, StepActivateAborts, PutSuccess, results, mailVars
  <2>2. x.saga \in Sagas /\ \A y \in working : y \in working' \/ y.saga = x.saga
    BY <1>10 DEF StepActivateUpdate, StepActivateAborts, TypeOK, Working
  <2>3. ASSUME PutSuccess(x.saga)
        PROVE  successes'[x.saga] > 0 /\ \A u \in Sagas : successes[u] > 0 => successes'[u] > 0
    BY <2>2, <2>3 DEF PutSuccess, TypeOK
  <2>4. \A u \in Sagas : successes[u] > 0 => successes'[u] > 0
    BY <1>10, <2>3 DEF StepActivateUpdate, StepActivateAborts, results
  <2>5. \A u \in Sagas : u # x.saga => sagas'[u] = sagas[u]
    BY <1>10 DEF StepActivateUpdate, StepActivateAborts, TypeOK
  <2>6. sagas'[x.saga].status = "COMPLETED" \/ (successes'[x.saga] > 0 /\ sagas' = sagas)
    BY <1>10, <2>2, <2>3 DEF StepActivateUpdate, StepActivateAborts, TypeOK, SagaRow
  <2>7. QED
    BY <2>1, <2>2, <2>4, <2>5, <2>6
<1>11. ASSUME NEW w \in Workers, NEW s \in Sagas, NEW settled \in BOOLEAN,
              Compensate(w, s, settled)
       PROVE  NoSagaForgotten'
  <2>1. UNCHANGED <<outbox, confirmations, mailing, successes, working, lost>>
    BY <1>11 DEF Compensate, SettleFailure, results, mailVars
  <2>2. \A u \in Sagas : u # s => failures'[u] = failures[u] /\ sagas'[u] = sagas[u]
    BY <1>11 DEF Compensate, SettleFailure, results, TypeOK
  <2>3. sagas'[s].status = "COMPENSATED"
    BY <1>11 DEF Compensate, TypeOK, SagaRow
  <2>4. QED
    BY <2>1, <2>2, <2>3
<1>12. CASE OrchestratorNext
  BY <1>8, <1>9, <1>10, <1>11, <1>12 DEF OrchestratorNext
<1>13. CASE UNCHANGED vars
  BY <1>2, <1>13 DEF vars
<1>14. CASE RelayNext
  BY <1>4, <1>14 DEF RelayNext
<1>15. QED
  BY <1>3, <1>7, <1>12, <1>13, <1>14 DEF Next

-----------------------------------------------------------------------------
\* IInv is an inductive invariant: the requests, the relay, the consumers and
\* the orchestrator preserve it together, whatever faults occur.
THEOREM Inductive == Spec => []IInv
<1>1. Init => IInv
  <2> SUFFICES ASSUME Init PROVE IInv
    OBVIOUS
  <2>1. TypeOK
    BY InitTypes
  <2>2. \A s \in Sagas : sagas[s].status = "NONE" /\ sagas[s].sub = 0
    BY DEF Init
  <2>3. RowsWellKeyed /\ OutcomeIsEarned /\ NoSagaForgotten
    BY <2>2 DEF Init, RowsWellKeyed, OutcomeIsEarned, NoSagaForgotten
  <2>4. EvidenceIsSound
    BY DEF Init, EvidenceIsSound
  <2>5. PendingRowsKeepTheirSaga /\ DoubleOptIn /\ CompensationRollsBack
    BY DEF Init, PendingRowsKeepTheirSaga, DoubleOptIn, CompensationRollsBack
  <2>6. CompensationStaysInPair /\ ConfirmedIsAnnounced /\ GhostsComeFromCompensation
    BY DEF Init, CompensationStaysInPair, ConfirmedIsAnnounced, GhostsComeFromCompensation
  <2>7. QED
    BY <2>1, <2>3, <2>4, <2>5, <2>6 DEF IInv
<1>2. IInv /\ [Next]_vars => IInv'
  BY NextTypes, KeysStep, EvidenceStep, PendingRowsStep, DoubleOptInStep, OutcomeStep,
     PendingStep, RollsBackStep, StaysInPairStep, AnnouncedStep, GhostsStep DEF IInv
<1>3. QED
  BY <1>1, <1>2, PTL DEF Spec

\* No interleaving of Subscribe, Confirm and UnsubscribeByToken leaves a row
\* confirmed under a token that was not mailed to the row's own pair.
THEOREM OptInHolds == Spec => []DoubleOptIn
  BY Inductive, PTL DEF IInv

\* The final status of a saga rests on what SMTP answered for it, despite
\* redelivered commands and duplicated or reordered replies.
THEOREM OutcomeHolds == Spec => []OutcomeIsEarned
  BY Inductive, PTL DEF IInv

\* From outbox to orchestrator a started saga always has its message somewhere,
\* unless the broker dropped it.
THEOREM NothingForgotten == Spec => []NoSagaForgotten
  BY Inductive, PTL DEF IInv

\* compensate leaves no pending row of its saga behind, although it deletes by
\* an id that upserts hand from saga to saga.
THEOREM RollbackHolds == Spec => []CompensationRollsBack
  BY Inductive, PTL DEF IInv

\* compensate's DELETE by id never reaches another user's or repository's row.
THEOREM StaysInPairHolds == Spec => []CompensationStaysInPair
  BY Inductive, PTL DEF IInv

\* A confirmed row and the last activation event of its pair carry one token.
THEOREM AnnouncementHolds == Spec => []ConfirmedIsAnnounced
  BY Inductive, PTL DEF IInv

\* Only compensation can make tracking keep a subscriber that is gone here.
THEOREM GhostsHold == Spec => []GhostsComeFromCompensation
  BY Inductive, PTL DEF IInv
=============================================================================
