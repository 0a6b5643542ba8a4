--------------------------- MODULE SubscriptionSaga ---------------------------
(***************************************************************************)
(* The subscription service's confirmation saga and everything that can    *)
(* touch the row it is about: the API requests of UserUseCase, the outbox  *)
(* relay, the ConfirmationConsumer of the notification service, and the    *)
(* SagaResultConsumer that hands replies to the Orchestrator.              *)
(*                                                                         *)
(* A Subscribe request draws a fresh uuid token and, in one transaction,   *)
(* starts one saga and queues one command that carries both.  Token, saga  *)
(* and command therefore stand in one-to-one correspondence, and the model *)
(* names all three by a member of Sagas.                                   *)
(*                                                                         *)
(* The two RabbitMQ queues are kept as the number of copies of each        *)
(* message: consumers set no Qos, so a requeued delivery comes back behind *)
(* messages that were published after it and no order can be relied upon.  *)
(***************************************************************************)
EXTENDS Naturals, FiniteSets

CONSTANTS
  Sagas,       \* the Subscribe requests that may be made (= tokens = saga ids)
  Pairs,       \* <<email, repository>> pairs
  PairOf,      \* PairOf[s] is the pair request s subscribes
  Handlers,    \* API goroutines that can serve a request concurrently
  Mailers,     \* ConfirmationConsumers, one per notification instance
  Workers,     \* SagaResultConsumers, one per subscription instance
  Faults,      \* where this deployment fails: subset of FaultKinds
  MaxAttempts, \* defaultMaxAttempts of the relay
  MaxCopies,   \* bound: copies of one message in one queue
  MaxSubId     \* bound: subscription ids the sequence hands out

FaultKinds == {"request", "relay", "smtp", "reply", "worker"}

ASSUME PairOfAssumption   == PairOf \in [Sagas -> Pairs]
ASSUME AttemptsAssumption == MaxAttempts \in Nat \ {0}

VARIABLES
  users,         \* emails that have a row in users
  subs,          \* rows of subscriptions
  nextId,        \* next value of the subscriptions_id_seq sequence
  sagas,         \* rows of subscription_sagas ("NONE": not created)
  outbox,        \* the saga's command in outbox_messages ("ABSENT": no row)
  requests,      \* API requests between two of their database steps
  announced,     \* per pair, what the activation events committed so far say
  declared,      \* has queue "confirmations" been declared?
  confirmations, \* copies of each command in queue "confirmations"
  mailing,       \* commands a ConfirmationConsumer holds after the SMTP call
  mailed,        \* tokens some SMTP server accepted a confirmation mail for
  refused,       \* sagas for which SMTP failed for good (history)
  successes,     \* copies of each success reply in the saga results queue
  failures,      \* copies of each failure reply in the saga results queue
  working,       \* success replies read by a worker, saga row not yet updated
  lost           \* sagas with a message the broker dropped (history)

apiVars  == <<users, requests>>
rowVars  == <<subs, nextId>>
results  == <<successes, failures>>
mailVars == <<declared, mailing, mailed, refused>>
vars == <<users, subs, nextId, sagas, outbox, requests, announced, declared,
          confirmations, mailing, mailed, refused, successes, failures, working,
          lost>>

Status       == {"NONE", "STARTED", "COMPLETED", "COMPENSATED"}
Subscription == [id : Nat, pair : Pairs, token : Sagas, confirmed : BOOLEAN]
SagaRow      == [status : Status, sub : Nat]
OutboxRow    == [status : {"ABSENT", "PENDING", "FAILED"}, attempts : Nat]
Request      == [by : Handlers, op : {"create", "subscribe", "confirm", "unsubscribe"},
                 token : Sagas]
Mailing      == [by : Mailers, saga : Sagas, ok : BOOLEAN]
Working      == [by : Workers, saga : Sagas]

Init ==
  /\ users = {} /\ subs = {} /\ nextId = 1
  /\ sagas = [s \in Sagas |-> [status |-> "NONE", sub |-> 0]]
  /\ outbox = [s \in Sagas |-> [status |-> "ABSENT", attempts |-> 0]]
  /\ requests = {} /\ announced = [p \in Pairs |-> {}]
  /\ declared = FALSE /\ confirmations = [s \in Sagas |-> 0]
  /\ mailing = {} /\ mailed = {} /\ refused = {}
  /\ successes = [s \in Sagas |-> 0] /\ failures = [s \in Sagas |-> 0]
  /\ working = {} /\ lost = {}

-----------------------------------------------------------------------------
(* Statements of the repositories *)

Idle(proc, held) == \A x \in held : x.by # proc

\* GetByToken: the rows that carry this token.
GetByToken(t) == {r \in subs : r.token = t}

\* Mutant of Save: the upsert does not reset is_confirmed.
SaveKeepsConfirmed(t, confirmed, id) ==
  LET p   == PairOf[t]
      old == {r \in subs : r.pair = p}
  IN  /\ \/ old = {} /\ id = nextId /\ nextId < MaxSubId /\ nextId' = nextId + 1
         \/ (\E r \in old : id = r.id) /\ nextId' = nextId
      /\ subs' = (subs \ old) \cup {[id |-> id, pair |-> p, token |-> t,
           confirmed |-> confirmed \/ \E r \in old : r.confirmed]}

\* Mutant of Save: the conflict target is the repository alone.
SaveByRepository(t, confirmed, id) ==
  LET p   == PairOf[t]
      old == {r \in subs : r.pair[2] = p[2]}
  IN  /\ \/ old = {} /\ id = nextId /\ nextId < MaxSubId /\ nextId' = nextId + 1
         \/ (\E r \in old : id = r.id) /\ nextId' = nextId
      /\ subs' = (subs \ old)
                 \cup {[id |-> id, pair |-> p, token |-> t, confirmed |-> confirmed]}

\* Save: insert a row under a fresh id, or overwrite token and is_confirmed of
\* the row the pair already has, which keeps its id.  id is what is returned.
Save(t, confirmed, id) ==
  LET p   == PairOf[t]
      old == {r \in subs : r.pair = p}
  IN  /\ \/ old = {} /\ id = nextId /\ nextId < MaxSubId /\ nextId' = nextId + 1
         \/ (\E r \in old : id = r.id) /\ nextId' = nextId
      /\ subs' = (subs \ old)
                 \cup {[id |-> id, pair |-> p, token |-> t, confirmed |-> confirmed]}

\* Delete: by user and repository, whatever the token; no row is not an error.
Delete(p) == subs' = {r \in subs : r.pair # p}

\* DeleteByID
DeleteByID(id) == subs' = {r \in subs : r.id # id}

\* Mutant of Start: the saga is created before Save has returned the id.
StartBeforeSave(s, id) ==
  /\ sagas'  = [sagas EXCEPT ![s] = [status |-> "STARTED", sub |-> 0]]
  /\ outbox' = [outbox EXCEPT ![s] = [status |-> "PENDING", attempts |-> 0]]

\* Orchestrator.Start, inside the caller's transaction.
Start(s, id) ==
  /\ sagas'  = [sagas EXCEPT ![s] = [status |-> "STARTED", sub |-> id]]
  /\ outbox' = [outbox EXCEPT ![s] = [status |-> "PENDING", attempts |-> 0]]

-----------------------------------------------------------------------------
(* API requests: each reads outside its transaction, then commits it.      *)

Replace(req, op) == (requests \ {req}) \cup {[req EXCEPT !.op = op]}

\* Subscribe up to GetByEmail; the repository is already resolved.
SubscribeLookup(h, s) ==
  /\ Idle(h, requests) /\ sagas[s].status = "NONE"
  /\ \A req \in requests : req.token # s
  /\ requests' = requests \cup
       {[by |-> h, token |-> s,
         op |-> IF PairOf[s][1] \in users THEN "subscribe" ELSE "create"]}
  /\ UNCHANGED <<users, rowVars, sagas, outbox, announced, confirmations,
                 mailVars, results, working, lost>>

\* Subscribe's userRepo.Create, outside any transaction: a concurrent request
\* may have created the user since the lookup, and then UNIQUE(email) fails.
SubscribeCreateUser(req) ==
  /\ req.op = "create"
  /\ \/ /\ PairOf[req.token][1] \notin users
        /\ users' = users \cup {PairOf[req.token][1]}
        /\ requests' = Replace(req, "subscribe")
     \/ /\ PairOf[req.token][1] \in users
        /\ requests' = requests \ {req}
        /\ UNCHANGED users
  /\ UNCHANGED <<rowVars, sagas, outbox, announced, confirmations, mailVars,
                 results, working, lost>>

\* Subscribe's transaction.
SubscribeCommit(req) ==
  /\ req.op = "subscribe"
  /\ \E id \in 1..nextId : Save(req.token, FALSE, id) /\ Start(req.token, id)
  /\ requests' = requests \ {req}
  /\ UNCHANGED <<users, announced, confirmations, mailVars, results, working, lost>>

\* Confirm and UnsubscribeByToken start alike: the link was mailed to the user,
\* and GetByToken must find a row.
TokenLookup(h, t, op) ==
  /\ Idle(h, requests) /\ t \in mailed /\ GetByToken(t) # {}
  /\ requests' = requests \cup {[by |-> h, op |-> op, token |-> t]}
  /\ UNCHANGED <<users, rowVars, sagas, outbox, announced, confirmations,
                 mailVars, results, working, lost>>

\* Confirm's transaction saves the row read earlier, confirmed, and queues the
\* SubscriptionActivated event.
ConfirmCommit(req) ==
  /\ req.op = "confirm"
  /\ \E id \in 1..nextId : Save(req.token, TRUE, id)
  /\ announced' = [announced EXCEPT ![PairOf[req.token]] = {req.token}]
  /\ requests' = requests \ {req}
  /\ UNCHANGED <<users, sagas, outbox, confirmations, mailVars, results, working, lost>>

\* Mutant of UnsubscribeCommit: delete by the token read earlier.
UnsubscribeDeletesToken(req) ==
  /\ req.op = "unsubscribe"
  /\ subs' = subs \ GetByToken(req.token)
  /\ announced' = [announced EXCEPT ![PairOf[req.token]] = {}]
  /\ requests' = requests \ {req}
  /\ UNCHANGED <<users, nextId, sagas, outbox, confirmations, mailVars, results,
                 working, lost>>

\* Mutant of UnsubscribeCommit: no UnsubscriptionActivated event is queued.
UnsubscribeSilently(req) ==
  /\ req.op = "unsubscribe"
  /\ Delete(PairOf[req.token])
  /\ requests' = requests \ {req}
  /\ UNCHANGED <<users, nextId, sagas, outbox, announced, confirmations, mailVars,
                 results, working, lost>>

\* UnsubscribeByToken's transaction deletes by pair and queues the
\* UnsubscriptionActivated event even if no row was left.
UnsubscribeCommit(req) ==
  /\ req.op = "unsubscribe"
  /\ Delete(PairOf[req.token])
  /\ announced' = [announced EXCEPT ![PairOf[req.token]] = {}]
  /\ requests' = requests \ {req}
  /\ UNCHANGED <<users, nextId, sagas, outbox, confirmations, mailVars, results,
                 working, lost>>

\* The request dies between its steps: a database error rolls its transaction
\* back, or the process stops.
RequestAborts(req) ==
  /\ "request" \in Faults
  /\ requests' = requests \ {req}
  /\ UNCHANGED <<users, rowVars, sagas, outbox, announced, confirmations,
                 mailVars, results, working, lost>>

-----------------------------------------------------------------------------
(* The outbox relay, seen from one row of its batch *)

\* The default exchange routes to the queue if it exists and otherwise drops
\* the message, confirming it all the same (mandatory is false).
Route(s) ==
  IF declared
  THEN /\ confirmations[s] < MaxCopies
       /\ confirmations' = [confirmations EXCEPT ![s] = @ + 1]
       /\ UNCHANGED lost
  ELSE lost' = lost \cup {s} /\ UNCHANGED confirmations

\* Published, confirmed, row deleted, batch committed.
RelayPublish(s) ==
  /\ outbox[s].status = "PENDING"
  /\ Route(s)
  /\ outbox' = [outbox EXCEPT ![s].status = "ABSENT"]
  /\ UNCHANGED <<apiVars, rowVars, sagas, announced, mailVars, results, working>>

\* Published, but the batch transaction rolls back (crash, or an error of Fail
\* or Delete for any row of the batch): the row stays as it was.
\* (A copy dropped for want of a queue while the row stays changes nothing.)
RelayRollback(s) ==
  /\ "relay" \in Faults
  /\ outbox[s].status = "PENDING" /\ declared
  /\ Route(s)
  /\ UNCHANGED <<apiVars, rowVars, sagas, outbox, announced, mailVars, results, working>>

\* Publish reported an error and Fail was committed.  The message may have
\* reached the queue: a connection that breaks before the confirm arrives
\* closes the confirm channel, which reads as a nack.
RelayFail(s, delivered) ==
  LET attempts == outbox[s].attempts + 1
  IN  /\ "relay" \in Faults
      /\ outbox[s].status = "PENDING"
      /\ outbox' = [outbox EXCEPT ![s] =
           [status   |-> IF attempts >= MaxAttempts THEN "FAILED" ELSE "PENDING",
            attempts |-> attempts]]
      /\ IF delivered THEN declared /\ Route(s) ELSE UNCHANGED <<confirmations, lost>>
      /\ UNCHANGED <<apiVars, rowVars, sagas, announced, mailVars, results, working>>

-----------------------------------------------------------------------------
(* ConfirmationConsumer of the notification service *)

\* consume declares the queue the first time a notification instance starts.
DeclareConfirmations ==
  /\ ~declared /\ declared' = TRUE
  /\ UNCHANGED <<apiVars, rowVars, sagas, outbox, announced, confirmations,
                 mailing, mailed, refused, results, working, lost>>

Take(m, s, ok) ==
  /\ Idle(m, mailing) /\ confirmations[s] > 0
  /\ confirmations' = [confirmations EXCEPT ![s] = @ - 1]
  /\ mailing' = mailing \cup {[by |-> m, saga |-> s, ok |-> ok]}

\* SendConfirmation returned nil: a success reply is due.
SmtpAccepts(m, s) ==
  /\ Take(m, s, TRUE)
  /\ mailed' = mailed \cup {s}
  /\ UNCHANGED <<apiVars, rowVars, sagas, outbox, announced, declared, refused,
                 results, working, lost>>

\* Mutant of SmtpRefuses: the failure is reported as a success.
RefusalReportsSuccess(m, s) ==
  /\ Take(m, s, TRUE)
  /\ refused' = refused \cup {s}
  /\ UNCHANGED <<apiVars, rowVars, sagas, outbox, announced, declared, mailed,
                 results, working, lost>>

\* An authentication failure: handleEmailError owes a failure reply.
SmtpRefuses(m, s) ==
  /\ Take(m, s, FALSE)
  /\ refused' = refused \cup {s}
  /\ UNCHANGED <<apiVars, rowVars, sagas, outbox, announced, declared, mailed,
                 results, working, lost>>

\* Any other SMTP error is ErrEmailUnavailable and requeues the command; it is
\* also what an error after the server took the message looks like.  (If the
\* server did not take it, nothing changes at all.)
SmtpBreaksAfterAccept(m, s) ==
  /\ "smtp" \in Faults
  /\ Idle(m, mailing) /\ confirmations[s] > 0
  /\ mailed' = mailed \cup {s}
  /\ UNCHANGED <<apiVars, rowVars, sagas, outbox, announced, declared, mailing,
                 refused, confirmations, results, working, lost>>

Requeue(s) ==
  /\ confirmations[s] < MaxCopies
  /\ confirmations' = [confirmations EXCEPT ![s] = @ + 1]

PutSuccess(s) ==
  /\ successes[s] < MaxCopies
  /\ successes' = [successes EXCEPT ![s] = @ + 1]
  /\ UNCHANGED failures

PutFailure(s) ==
  /\ failures[s] < MaxCopies
  /\ failures' = [failures EXCEPT ![s] = @ + 1]
  /\ UNCHANGED successes

PutResult(x) == IF x.ok THEN PutSuccess(x.saga) ELSE PutFailure(x.saga)

\* The reply is published and the delivery settled: acked after a success,
\* nacked without requeue after a failure.
ReplyDelivered(x) ==
  /\ PutResult(x)
  /\ mailing' = mailing \ {x}
  /\ UNCHANGED <<apiVars, rowVars, sagas, outbox, announced, declared, mailed,
                 refused, confirmations, working, lost>>

\* Publish awaits no confirm: it returns nil for a message the broker then
\* loses, and the delivery is settled all the same.
ReplyDropped(x) ==
  /\ "reply" \in Faults
  /\ mailing' = mailing \ {x}
  /\ lost' = lost \cup {x.saga}
  /\ UNCHANGED <<apiVars, rowVars, sagas, outbox, announced, declared, mailed,
                 refused, confirmations, results, working>>

\* Mutant of ReplyFails: the delivery is settled although no reply went out.
ReplyFailsAcked(x) ==
  /\ "reply" \in Faults
  /\ mailing' = mailing \ {x}
  /\ UNCHANGED <<apiVars, rowVars, sagas, outbox, announced, declared, mailed,
                 refused, confirmations, results, working, lost>>

\* Publish failed, or the process died before it: the command is redelivered.
ReplyFails(x) ==
  /\ "reply" \in Faults
  /\ Requeue(x.saga)
  /\ mailing' = mailing \ {x}
  /\ UNCHANGED <<apiVars, rowVars, sagas, outbox, announced, declared, mailed,
                 refused, results, working, lost>>

\* The reply is out, but the delivery is not settled (crash, lost connection).
ReplyUnsettled(x) ==
  /\ "reply" \in Faults
  /\ PutResult(x) /\ Requeue(x.saga)
  /\ mailing' = mailing \ {x}
  /\ UNCHANGED <<apiVars, rowVars, sagas, outbox, announced, declared, mailed,
                 refused, working, lost>>

-----------------------------------------------------------------------------
(* SagaResultConsumer and Orchestrator.HandleConfirmationReply *)

SettleSuccess(s) ==
  successes' = [successes EXCEPT ![s] = @ - 1] /\ UNCHANGED failures

SettleFailure(s) ==
  failures' = [failures EXCEPT ![s] = @ - 1] /\ UNCHANGED successes

\* Mutant of SkipCompleted: the reply is settled again after it was settled.
SkipSettlesTwice(w, s) ==
  /\ Idle(w, working) /\ sagas[s].status = "COMPLETED"
  /\ SettleSuccess(s)
  /\ UNCHANGED <<apiVars, rowVars, sagas, outbox, announced, confirmations,
                 mailVars, working, lost>>

\* Mutant of SkipCompleted: a saga in progress counts as a duplicate too.
SkipStarted(w, s) ==
  /\ Idle(w, working) /\ successes[s] > 0
  /\ sagas[s].status \in {"STARTED", "COMPLETED"}
  /\ SettleSuccess(s)
  /\ UNCHANGED <<apiVars, rowVars, sagas, outbox, announced, confirmations,
                 mailVars, working, lost>>

\* A duplicate success: stepActivateSubscription reads COMPLETED and returns.
SkipCompleted(w, s) ==
  /\ Idle(w, working) /\ successes[s] > 0
  /\ sagas[s].status = "COMPLETED"
  /\ SettleSuccess(s)
  /\ UNCHANGED <<apiVars, rowVars, sagas, outbox, announced, confirmations,
                 mailVars, working, lost>>

\* stepActivateSubscription up to its read; COMPENSATED is not looked for.
StepActivateRead(w, s) ==
  /\ Idle(w, working) /\ successes[s] > 0
  /\ sagas[s].status # "COMPLETED"
  /\ SettleSuccess(s)
  /\ working' = working \cup {[by |-> w, saga |-> s]}
  /\ UNCHANGED <<apiVars, rowVars, sagas, outbox, announced, confirmations,
                 mailVars, lost>>

\* UpdateStatusAndStep, a statement of its own.  settled is FALSE when the ack
\* does not reach the broker, which then redelivers the reply.
StepActivateUpdate(x, settled) ==
  /\ settled \/ "worker" \in Faults
  /\ sagas' = [sagas EXCEPT ![x.saga].status = "COMPLETED"]
  /\ working' = working \ {x}
  /\ IF settled THEN UNCHANGED results ELSE PutSuccess(x.saga)
  /\ UNCHANGED <<apiVars, rowVars, outbox, announced, confirmations, mailVars, lost>>

\* The update fails or the process dies: the reply is redelivered.
StepActivateAborts(x) ==
  /\ "worker" \in Faults
  /\ PutSuccess(x.saga)
  /\ working' = working \ {x}
  /\ UNCHANGED <<apiVars, rowVars, sagas, outbox, announced, confirmations,
                 mailVars, lost>>

\* Mutant of Compensate: only the saga is updated.
CompensateSagaOnly(w, s, settled) ==
  /\ settled \/ "worker" \in Faults
  /\ Idle(w, working) /\ failures[s] > 0
  /\ sagas' = [sagas EXCEPT ![s].status = "COMPENSATED"]
  /\ IF settled THEN SettleFailure(s) ELSE UNCHANGED results
  /\ UNCHANGED <<apiVars, rowVars, outbox, announced, confirmations, mailVars,
                 working, lost>>

\* compensate: one transaction, whatever the row and the saga look like by now.
\* No UnsubscriptionActivated event is queued.
Compensate(w, s, settled) ==
  /\ settled \/ "worker" \in Faults
  /\ Idle(w, working) /\ failures[s] > 0
  /\ DeleteByID(sagas[s].sub)
  /\ sagas' = [sagas EXCEPT ![s].status = "COMPENSATED"]
  /\ IF settled THEN SettleFailure(s) ELSE UNCHANGED results
  /\ UNCHANGED <<apiVars, nextId, outbox, announced, confirmations, mailVars,
                 working, lost>>

-----------------------------------------------------------------------------
ApiNext ==
  \/ \E h \in Handlers, s \in Sagas :
       \/ SubscribeLookup(h, s)
       \/ \E op \in {"confirm", "unsubscribe"} : TokenLookup(h, s, op)
  \/ \E req \in requests :
       \/ SubscribeCreateUser(req) \/ SubscribeCommit(req)
       \/ ConfirmCommit(req) \/ UnsubscribeCommit(req) \/ RequestAborts(req)

RelayNext ==
  \E s \in Sagas :
    \/ RelayPublish(s) \/ RelayRollback(s)
    \/ \E delivered \in BOOLEAN : RelayFail(s, delivered)

NotificationNext ==
  \/ DeclareConfirmations
  \/ \E m \in Mailers, s \in Sagas :
       SmtpAccepts(m, s) \/ SmtpRefuses(m, s) \/ SmtpBreaksAfterAccept(m, s)
  \/ \E x \in mailing :
       ReplyDelivered(x) \/ ReplyDropped(x) \/ ReplyFails(x) \/ ReplyUnsettled(x)

OrchestratorNext ==
  \/ \E w \in Workers, s \in Sagas :
       \/ SkipCompleted(w, s) \/ StepActivateRead(w, s)
       \/ \E settled \in BOOLEAN : Compensate(w, s, settled)
  \/ \E x \in working :
       \/ \E settled \in BOOLEAN : StepActivateUpdate(x, settled)
       \/ StepActivateAborts(x)

Next == ApiNext \/ RelayNext \/ NotificationNext \/ OrchestratorNext

Spec == Init /\ [][Next]_vars

(***************************************************************************)
(* Fairness.  The relay ticks, the consumers loop and restart themselves,  *)
(* and broker, database and SMTP server do not fail for ever: whatever is  *)
(* tried again and again gets through once.  Users and crashes are free.   *)
(***************************************************************************)
Fairness ==
  /\ WF_vars(DeclareConfirmations)
  /\ \A s \in Sagas :
       /\ SF_vars(RelayPublish(s))
       /\ SF_vars(\E m \in Mailers : SmtpAccepts(m, s) \/ SmtpRefuses(m, s))
       /\ SF_vars(\E x \in mailing : x.saga = s /\ ReplyDelivered(x))
       /\ SF_vars(\E w \in Workers : SkipCompleted(w, s) \/ StepActivateRead(w, s))
       /\ SF_vars(\E x \in working : x.saga = s /\ StepActivateUpdate(x, TRUE))
       /\ SF_vars(\E w \in Workers : Compensate(w, s, TRUE))

FairSpec == Spec /\ Fairness

-----------------------------------------------------------------------------
(* Properties *)

\* Every variable stays in its table's, queue's or process's range.
TypeOK ==
  /\ users \subseteq {p[1] : p \in Pairs}
  /\ subs \subseteq Subscription
  /\ nextId \in Nat \ {0}
  /\ sagas \in [Sagas -> SagaRow]
  /\ outbox \in [Sagas -> OutboxRow]
  /\ requests \subseteq Request
  /\ announced \in [Pairs -> SUBSET Sagas]
  /\ declared \in BOOLEAN
  /\ confirmations \in [Sagas -> Nat]
  /\ mailing \subseteq Mailing
  /\ mailed \subseteq Sagas
  /\ refused \subseteq Sagas
  /\ successes \in [Sagas -> Nat]
  /\ failures \in [Sagas -> Nat]
  /\ working \subseteq Working
  /\ lost \subseteq Sagas

\* Double opt-in: whatever requests, retries and replies interleave, a row is
\* confirmed only under a token that was mailed to the very pair of the row.
\* Save overwrites rows in place, so an old confirmation must never vouch for
\* a new token (Confirm, Subscribe and the upsert of SubscriptionRepository).
DoubleOptIn ==
  \A r \in subs : r.confirmed => r.token \in mailed /\ PairOf[r.token] = r.pair

\* A saga is COMPLETED only if some SMTP server took its mail, and COMPENSATED
\* only if some SMTP server refused it, however often the command was
\* redelivered and whichever reply was duplicated or overtaken.
OutcomeIsEarned ==
  \A s \in Sagas :
    /\ sagas[s].status = "COMPLETED" => s \in mailed
    /\ sagas[s].status = "COMPENSATED" => s \in refused

\* No saga is forgotten: one that is still STARTED has its command in the
\* outbox, its command or reply in a queue or in a consumer's hands, or a
\* message the broker dropped.  A FAILED outbox row counts as not forgotten,
\* an operator can still find it.
Pending(s) ==
  \/ outbox[s].status # "ABSENT" \/ confirmations[s] > 0
  \/ (\E x \in mailing : x.saga = s)
  \/ successes[s] > 0 \/ failures[s] > 0
  \/ (\E x \in working : x.saga = s)
NoSagaForgotten ==
  \A s \in Sagas : sagas[s].status = "STARTED" => Pending(s) \/ s \in lost

\* Compensation rolls back: no pending row is left behind whose own saga is
\* COMPENSATED, though upserts keep changing token and owner saga of a row.
CompensationRollsBack ==
  \A r \in subs : ~r.confirmed => sagas[r.token].status \in {"STARTED", "COMPLETED"}

\* A saga's subscription id names a row of the saga's own pair or no row, so
\* that compensate's DELETE by id cannot reach another user's subscription.
CompensationStaysInPair ==
  \A s \in Sagas, r \in subs : sagas[s].sub = r.id => r.pair = PairOf[s]

\* Row and event commit together: while a row is confirmed, the last activation
\* event queued for its pair announces exactly the row's token.
ConfirmedIsAnnounced ==
  \A r \in subs : r.confirmed => announced[r.pair] = {r.token}

\* The tracking service is told of a subscriber this database no longer knows
\* only after a compensation, which queues no event.
GhostsComeFromCompensation ==
  \A p \in Pairs :
    announced[p] # {} =>
      (\E r \in subs : r.pair = p) \/ (\E s \in refused : PairOf[s] = p)

\* Every saga is decided: STARTED does not last, unless the relay gave the
\* command up or the broker dropped a message.
SagaIsDecided ==
  \A s \in Sagas :
    sagas[s].status = "STARTED" ~>
      \/ sagas[s].status \in {"COMPLETED", "COMPENSATED"}
      \/ outbox[s].status = "FAILED"
      \/ s \in lost

(***************************************************************************)
(* The inductive invariant behind the safety properties.                   *)
(***************************************************************************)

\* Ids come from the sequence; no two rows share an id or a pair; a row's token
\* was drawn for its pair.
RowsWellKeyed ==
  /\ \A s \in Sagas : sagas[s].sub < nextId
  /\ \A r \in subs : r.id \in 1..(nextId - 1) /\ r.pair = PairOf[r.token]
  /\ \A r, q \in subs : r.id = q.id \/ r.pair = q.pair => r = q

\* Tokens in links, and replies wherever they are, stand for what SMTP did.
EvidenceIsSound ==
  /\ \A req \in requests : req.op \in {"confirm", "unsubscribe"} => req.token \in mailed
  /\ \A x \in mailing : IF x.ok THEN x.saga \in mailed ELSE x.saga \in refused
  /\ \A x \in working : x.saga \in mailed
  /\ \A s \in Sagas : successes[s] > 0 => s \in mailed
  /\ \A s \in Sagas : failures[s] > 0 => s \in refused

\* A pending row still has the id its own saga was started for.
PendingRowsKeepTheirSaga ==
  \A r \in subs : ~r.confirmed => r.id = sagas[r.token].sub

\* Together with the properties above this is preserved by every step.
IInv ==
  /\ TypeOK /\ RowsWellKeyed /\ EvidenceIsSound /\ PendingRowsKeepTheirSaga
  /\ DoubleOptIn /\ OutcomeIsEarned /\ NoSagaForgotten /\ CompensationRollsBack
  /\ CompensationStaysInPair /\ ConfirmedIsAnnounced /\ GhostsComeFromCompensation

(***************************************************************************)
(* What the documentation says and the code does not do.                   *)
(***************************************************************************)

\* ARCHITECTURE.md: the saga compensates by deleting the subscription that is
\* not confirmed yet.  So no compensation takes a confirmed row away.
CompensationDeletesPendingOnly ==
  [][\A s \in Sagas :
       sagas'[s].status = "COMPENSATED" /\ sagas[s].status # "COMPENSATED" =>
         \A r \in subs \ subs' : ~r.confirmed]_vars
=============================================================================
