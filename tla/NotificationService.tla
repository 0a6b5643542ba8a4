------------------------- MODULE NotificationService -------------------------
(***************************************************************************)
(* The notification-sender process (src/services/notification): one        *)
(* goroutine consumes release notifications, one confirmation requests,    *)
(* and both share a RabbitConnection, which the second one also publishes  *)
(* its replies through.  No consumer sets a prefetch limit, so the broker  *)
(* pushes whatever is ready; what is requeued comes back at the end.       *)
(* Deliveries pushed before the link was lost may still be handled, their  *)
(* acknowledgements then fail and the broker delivers the message again.   *)
(*                                                                         *)
(* The messages are those the relays of tracking and subscription have     *)
(* published; when each arrives is when the broker first pushes it.        *)
(* Every message is one our own services marshalled, so the branch of      *)
(* handle for a body that is not JSON is never taken.                      *)
(***************************************************************************)
EXTENDS RabbitConnection, SequencesExt

CONSTANTS
    Mail,           \* messages
    QueueOf,        \* the goroutine that consumes the queue of each message
    Undeliverable,  \* messages SMTP never accepts
    NoMail,         \* no message
    MaxBreaks,      \* bound: SMTP failures after the mail was taken
    MaxEnds         \* bound: how often the process ends

ASSUME ServiceAssumption ==
    /\ Goroutines = {"notifications", "confirmations"}
    /\ QueueOf \in [Mail -> Goroutines] /\ Undeliverable \subseteq Mail /\ NoMail \notin Mail
    /\ MaxBreaks \in Nat /\ MaxEnds \in Nat

VARIABLES
    process,    \* "running", "stopping" (SIGTERM seen), "stopped" or "crashed"
    ends,       \* times the process has ended (bounded)
    place,      \* at the broker: "ready", "pushed" (not settled) or "gone"
    at,         \* what each goroutine does next
    live,       \* its channel is the one the broker pushes to
    inbox,      \* deliveries pushed to it and not yet taken
    holds,      \* the delivery it handles
    mailed,     \* history: mails SMTP took for each message
    replied,    \* history: outcomes published for each confirmation
    excused,    \* history: mails whose delivery could not be settled
    breaks      \* SMTP failures after the mail was taken (bounded)

brokerVars == <<place, inbox>>
history    == <<mailed, replied, excused, breaks>>
vars == <<connVars, process, ends, brokerVars, at, live, holds, history>>

Handling == {"sends", "replies", "reports", "acks", "requeues", "drops"}
Steps == {"calls", "waits", "restarts", "done"} \cup Handling

TypeOK ==
    /\ ConnTypeOK
    /\ process \in {"running", "stopping", "stopped", "crashed"} /\ ends \in 0..MaxEnds
    /\ place \in [Mail -> {"ready", "pushed", "gone"}]
    /\ at \in [Goroutines -> Steps] /\ live \in [Goroutines -> BOOLEAN]
    /\ inbox \in [Goroutines -> Seq(Mail)] /\ holds \in [Goroutines -> Mail \cup {NoMail}]
    /\ \A g \in Goroutines : holds[g] # NoMail <=> at[g] \in Handling
    /\ mailed \in [Mail -> Nat] /\ excused \in [Mail -> Nat] /\ breaks \in 0..MaxBreaks
    /\ replied \in [Mail -> SUBSET {"success", "failure"}]

Init ==
    /\ ConnInit
    /\ process = "running" /\ ends = 0
    /\ place = [m \in Mail |-> "ready"]
    /\ at = [g \in Goroutines |-> "calls"] /\ live = [g \in Goroutines |-> FALSE]
    /\ inbox = [g \in Goroutines |-> << >>] /\ holds = [g \in Goroutines |-> NoMail]
    /\ mailed = [m \in Mail |-> 0] /\ excused = [m \in Mail |-> 0] /\ breaks = 0
    /\ replied = [m \in Mail |-> {}]

Running == process \in {"running", "stopping"}
Go(g, step) == at' = [at EXCEPT ![g] = step]

\* The broker takes back what was pushed over channels that are gone.
Reclaim(gs) == place' = [m \in Mail |->
    IF place[m] = "pushed" /\ QueueOf[m] \in gs THEN "ready" ELSE place[m]]

-----------------------------------------------------------------------------
(* The broker.                                                             *)

\* No prefetch limit: any ready message goes to a consumer that has subscribed.
Push(m) == LET g == QueueOf[m] IN
    /\ place[m] = "ready" /\ live[g]
    /\ place' = [place EXCEPT ![m] = "pushed"]
    /\ inbox' = [inbox EXCEPT ![g] = Append(@, m)]
    /\ UNCHANGED <<connVars, process, ends, at, live, holds, history>>

LinkLost ==
    /\ Outage
    /\ live' = [g \in Goroutines |-> FALSE]
    /\ Reclaim(Goroutines)
    /\ UNCHANGED <<process, ends, inbox, at, holds, history>>

BrokerBack == BrokerReturns /\ UNCHANGED <<process, ends, brokerVars, at, live, holds, history>>

-----------------------------------------------------------------------------
(* consume and Start, the same code in both consumers.                     *)

\* conn.Channel() is called by consume, and by the publisher of the reply.
CallChannel(g) ==
    /\ at[g] \in {"calls", "replies", "reports"} /\ Ask(g)
    /\ UNCHANGED <<process, ends, brokerVars, at, live, holds, history>>

LockConnection(g) == Lock(g) /\ UNCHANGED <<process, ends, brokerVars, at, live, holds, history>>
Redial(g)         == Dial(g) /\ UNCHANGED <<process, ends, brokerVars, at, live, holds, history>>

\* Channel, QueueDeclare and Consume; a link lost between them ends the deliveries
\* as one lost after them does.
ChannelOpens(g) ==
    /\ at[g] = "calls" /\ Opened(g)
    /\ Go(g, "waits")
    /\ live' = [live EXCEPT ![g] = TRUE]
    /\ UNCHANGED <<process, ends, brokerVars, holds, history>>

ChannelFails(g) ==
    /\ at[g] = "calls" /\ OpenFailed(g)
    /\ Go(g, "restarts")
    /\ UNCHANGED <<process, ends, brokerVars, live, holds, history>>

Take(g) ==
    /\ at[g] = "waits" /\ inbox[g] # << >>
    /\ holds' = [holds EXCEPT ![g] = Head(inbox[g])]
    /\ inbox' = [inbox EXCEPT ![g] = Tail(@)]
    /\ Go(g, "sends")
    /\ UNCHANGED <<connVars, process, ends, place, live, history>>

\* Mutant of Leave: the channel of a consumer that returns is never closed.
LeaveOpen(g) ==
    /\ at[g] = "waits" /\ (process = "stopping" \/ ~live[g])
    /\ Go(g, "restarts")
    /\ inbox' = [inbox EXCEPT ![g] = << >>]
    /\ UNCHANGED <<connVars, process, ends, place, live, holds, history>>

\* Mutant of Leave: the next channel's consumer finds the deliveries of this one.
LeaveBehind(g) ==
    /\ at[g] = "waits" /\ (process = "stopping" \/ ~live[g])
    /\ Go(g, "restarts")
    /\ live' = [live EXCEPT ![g] = FALSE]
    /\ Reclaim({g})
    /\ UNCHANGED <<connVars, process, ends, inbox, holds, history>>

\* ctx is done, or the deliveries end: consume returns and closes its channel.
Leave(g) ==
    /\ at[g] = "waits" /\ (process = "stopping" \/ ~live[g])
    /\ Go(g, "restarts")
    /\ live' = [live EXCEPT ![g] = FALSE]
    /\ inbox' = [inbox EXCEPT ![g] = << >>]
    /\ Reclaim({g})
    /\ UNCHANGED <<connVars, process, ends, holds, history>>

\* Mutant of StartAgain: the loop does not look at ctx.
StartForever(g) ==
    /\ at[g] = "restarts"
    /\ Go(g, "calls")
    /\ UNCHANGED <<connVars, process, ends, brokerVars, live, holds, history>>

\* Start: done when ctx is, else consume again after two seconds.
StartAgain(g) ==
    /\ at[g] = "restarts"
    /\ Go(g, IF process = "stopping" THEN "done" ELSE "calls")
    /\ UNCHANGED <<connVars, process, ends, brokerVars, live, holds, history>>

-----------------------------------------------------------------------------
(* handle: one mail, then for a confirmation the reply, then the broker.   *)

\* SMTP takes the mail of m.
SmtpAccepts(g, m) ==
    /\ at[g] = "sends" /\ holds[g] = m /\ m \notin Undeliverable
    /\ mailed' = [mailed EXCEPT ![m] = @ + 1]
    /\ Go(g, IF g = "confirmations" THEN "replies" ELSE "acks")
    /\ UNCHANGED <<connVars, process, ends, brokerVars, live, holds, replied, excused, breaks>>

\* The mail is taken, the answer is lost: an error like any other.
SmtpBreaks(g) ==
    /\ at[g] = "sends" /\ holds[g] \notin Undeliverable /\ breaks < MaxBreaks
    /\ breaks' = breaks + 1
    /\ mailed' = [mailed EXCEPT ![holds[g]] = @ + 1]
    /\ excused' = [excused EXCEPT ![holds[g]] = @ + 1]
    /\ Go(g, "requeues")
    /\ UNCHANGED <<connVars, process, ends, brokerVars, live, holds, replied>>

\* Mutant of SmtpRefuses: the consumer tries again at once, and goes on trying.
RetryInPlace(g) ==
    /\ at[g] = "sends"
    /\ Go(g, "sends")
    /\ UNCHANGED <<connVars, process, ends, brokerVars, live, holds, history>>

\* Any error but a refused login, and for a notification that one too.
SmtpRefuses(g) ==
    /\ at[g] = "sends"
    /\ Go(g, "requeues")
    /\ UNCHANGED <<connVars, process, ends, brokerVars, live, holds, history>>

\* 535: a confirmation is given up, with a reply that says so.
LoginRefused(g) ==
    /\ at[g] = "sends" /\ g = "confirmations"
    /\ Go(g, "reports")
    /\ UNCHANGED <<connVars, process, ends, brokerVars, live, holds, history>>

\* SagaResultPublisher.Publish, and the outcome decides what follows.
ReplyPublished(g) ==
    /\ at[g] \in {"replies", "reports"} /\ Opened(g)
    /\ replied' = [replied EXCEPT ![holds[g]] =
           @ \cup {IF at[g] = "replies" THEN "success" ELSE "failure"}]
    /\ Go(g, IF at[g] = "replies" THEN "acks" ELSE "drops")
    /\ UNCHANGED <<process, ends, brokerVars, live, holds, mailed, excused, breaks>>

\* No channel, or the publish fails on one just lost: the confirmation is requeued.
ReplyFails(g) ==
    /\ at[g] \in {"replies", "reports"} /\ OpenFailed(g)
    /\ excused' = [excused EXCEPT ![holds[g]] = IF at[g] = "replies" THEN @ + 1 ELSE @]
    /\ Go(g, "requeues")
    /\ UNCHANGED <<process, ends, brokerVars, live, holds, mailed, replied, breaks>>

\* Mutant of Settle: a mail that was sent is requeued.
SettleRequeues(g) ==
    /\ at[g] \in {"acks", "requeues", "drops"}
    /\ place' = IF live[g] THEN [place EXCEPT ![holds[g]] = "ready"] ELSE place
    /\ excused' = [excused EXCEPT ![holds[g]] = IF at[g] = "acks" /\ ~live[g] THEN @ + 1 ELSE @]
    /\ holds' = [holds EXCEPT ![g] = NoMail]
    /\ Go(g, "waits")
    /\ UNCHANGED <<connVars, process, ends, inbox, live, mailed, replied, breaks>>

\* Mutant of Settle: the delivery is kept.
SettleKeeps(g) ==
    /\ at[g] \in {"acks", "requeues", "drops"}
    /\ place' = IF live[g]
                THEN [place EXCEPT ![holds[g]] = IF at[g] = "requeues" THEN "ready" ELSE "gone"]
                ELSE place
    /\ excused' = [excused EXCEPT ![holds[g]] = IF at[g] = "acks" /\ ~live[g] THEN @ + 1 ELSE @]
    /\ Go(g, "waits")
    /\ UNCHANGED <<connVars, process, ends, inbox, live, holds, mailed, replied, breaks>>

\* Ack, Nack(requeue) or Nack(drop), lost on a channel that is gone.
Settle(g) ==
    /\ at[g] \in {"acks", "requeues", "drops"}
    /\ place' = IF live[g]
                THEN [place EXCEPT ![holds[g]] = IF at[g] = "requeues" THEN "ready" ELSE "gone"]
                ELSE place
    /\ excused' = [excused EXCEPT ![holds[g]] = IF at[g] = "acks" /\ ~live[g] THEN @ + 1 ELSE @]
    /\ holds' = [holds EXCEPT ![g] = NoMail]
    /\ Go(g, "waits")
    /\ UNCHANGED <<connVars, process, ends, inbox, live, mailed, replied, breaks>>

-----------------------------------------------------------------------------
(* The process.                                                            *)

\* SIGTERM (a redeployment), or the health server fails and cancels ctx.
Stop ==
    /\ process = "running" /\ ends < MaxEnds
    /\ process' = "stopping"
    /\ UNCHANGED <<connVars, ends, brokerVars, at, live, holds, history>>

\* Nothing of a process outlives it; what it had not settled goes back.
End(how) ==
    /\ ConnEnds
    /\ process' = how /\ ends' = ends + 1
    /\ live' = [g \in Goroutines |-> FALSE]
    /\ at' = [g \in Goroutines |-> "calls"]
    /\ inbox' = [g \in Goroutines |-> << >>]
    /\ holds' = [g \in Goroutines |-> NoMail]
    /\ Reclaim(Goroutines)

\* main: both consumers have returned.
Exit ==
    /\ process = "stopping" /\ \A g \in Goroutines : at[g] = "done"
    /\ End("stopped")
    /\ UNCHANGED history

Crash ==
    /\ Running /\ ends < MaxEnds
    /\ End("crashed")
    /\ excused' = [m \in Mail |->
           IF \E g \in Goroutines : holds[g] = m /\ at[g] \in {"replies", "acks"}
           THEN excused[m] + 1 ELSE excused[m]]
    /\ UNCHANGED <<mailed, replied, breaks>>

\* restart: always, and a start fails while the broker is away.
Restart ==
    /\ process \in {"stopped", "crashed"} /\ ConnStarts
    /\ process' = "running"
    /\ UNCHANGED <<ends, brokerVars, at, live, holds, history>>

-----------------------------------------------------------------------------
\* What the code of one goroutine may do next.
Code(g) ==
    /\ Running
    /\ \/ CallChannel(g) \/ LockConnection(g) \/ Redial(g)
       \/ ChannelOpens(g) \/ ChannelFails(g)
       \/ Take(g) \/ Leave(g) \/ StartAgain(g)
       \/ ReplyPublished(g) \/ ReplyFails(g) \/ Settle(g)

Smtp(g) ==
    /\ Running
    /\ \/ \E m \in Mail : SmtpAccepts(g, m)
       \/ SmtpBreaks(g) \/ SmtpRefuses(g) \/ LoginRefused(g)

Next ==
    \/ \E g \in Goroutines : Code(g) \/ Smtp(g)
    \/ \E m \in Mail : Push(m)
    \/ LinkLost \/ BrokerBack
    \/ Stop \/ Exit \/ Crash \/ Restart

Spec == Init /\ [][Next]_vars

(* The goroutines run, and select, which picks at random, does not pass    *)
(* over ctx.Done for ever;                                                 *)
(* SMTP answers, and takes a deliverable mail if asked often enough; the   *)
(* broker comes back and pushes what is ready; the container is restarted. *)
Fairness ==
    /\ \A g \in Goroutines : /\ WF_vars(Code(g)) /\ WF_vars(Smtp(g))
                             /\ SF_vars(Running /\ Leave(g))
    /\ \A m \in Mail \ Undeliverable : /\ SF_vars(Running /\ SmtpAccepts(QueueOf[m], m))
                                       /\ WF_vars(Push(m))
    /\ WF_vars(BrokerBack) /\ WF_vars(Exit) /\ WF_vars(Restart)

FairSpec == Spec /\ Fairness

-----------------------------------------------------------------------------
\* What has been pushed to g and not yet taken.
Waiting(g) == ToSet(inbox[g])

\* m has been pushed to its consumer and is not settled there.
InHand(m) == holds[QueueOf[m]] = m \/ m \in Waiting(QueueOf[m])

(* No message is lost between the broker and the mail server: what left    *)
(* its queue was mailed, and a confirmation also answered, or refused for  *)
(* good with an answer that says so; and what is not settled is in the     *)
(* hands of a consumer whose channel the broker still knows.               *)
NothingLost ==
    \A m \in Mail : LET g == QueueOf[m] IN
        /\ place[m] = "gone" =>
              \/ mailed[m] > 0 /\ (g = "confirmations" => "success" \in replied[m])
              \/ g = "confirmations" /\ "failure" \in replied[m]
        /\ place[m] = "pushed" => live[g] /\ InHand(m)
        /\ "success" \in replied[m] => mailed[m] > 0

(* A user gets a mail twice only for a reason: SMTP's answer, the reply or *)
(* the acknowledgement of the first one was lost.                          *)
DuplicatesAreAccounted == \A m \in Mail : mailed[m] <= 1 + excused[m]

(* A process told to stop does, whatever its consumers are doing: waiting  *)
(* for the mutex, for a broker that is away, or for SMTP.                  *)
ShutdownCompletes == process = "stopping" ~> process \in {"stopped", "crashed"}

(* A message that can be mailed is, though others are requeued for ever    *)
(* beside it, links and processes come and go and both consumers contend   *)
(* for one connection.                                                     *)
MailGetsThrough ==
    \A m \in Mail \ Undeliverable :
        place[m] = "ready" ~> (mailed[m] > 0 \/ "failure" \in replied[m])

-----------------------------------------------------------------------------
(* The inductive invariant behind the safety properties.                   *)

\* A consumer has deliveries of its own queue only, each once, and none between
\* two channels.
HandsOf(g) ==
    /\ \A m \in Waiting(g) : m \in Mail /\ QueueOf[m] = g /\ m # holds[g]
    /\ IsInjective(inbox[g])
    /\ holds[g] # NoMail => QueueOf[holds[g]] = g
    /\ at[g] \in {"calls", "restarts", "done"} => Waiting(g) = {} /\ ~live[g]

HandsAreOwn == \A g \in Goroutines : HandsOf(g)

\* What is in hand the broker waits for, or has taken back with the channel.
BrokerKnows ==
    \A m \in Mail : InHand(m) => place[m] = IF live[QueueOf[m]] THEN "pushed" ELSE "ready"

\* How far the handling of a delivery has come tells what was done for it.
Earned(g) ==
    /\ at[g] \in {"replies", "reports", "drops"} => g = "confirmations"
    /\ at[g] \in {"replies", "acks"} => mailed[holds[g]] > 0
    /\ at[g] = "acks" /\ g = "confirmations" => "success" \in replied[holds[g]]
    /\ at[g] = "drops" => "failure" \in replied[holds[g]]

StepsAreEarned == \A g \in Goroutines : Earned(g)

\* One mail needs no excuse: the one that was settled, or is about to be.
Settled(m) == LET g == QueueOf[m] IN
    place[m] = "gone" \/ (holds[g] = m /\ at[g] \in {"replies", "acks"})

MailIsCounted == \A m \in Mail : mailed[m] <= excused[m] + IF Settled(m) THEN 1 ELSE 0

\* A process told to stop has its end still to come.
EndIsDue == process = "stopping" => ends < MaxEnds

\* No goroutine outlives its process.
NobodyLeft == Running \/ \A g \in Goroutines : call[g] = "none"

IInv ==
    /\ TypeOK /\ ConnInv /\ EndIsDue /\ NobodyLeft /\ HandsAreOwn /\ BrokerKnows
    /\ StepsAreEarned /\ NothingLost /\ MailIsCounted
=============================================================================
