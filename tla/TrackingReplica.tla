--------------------------- MODULE TrackingReplica ---------------------------
(***************************************************************************)
(* The tracking service's copy of the confirmed subscribers.  The events   *)
(* SubscriptionActivated and UnsubscriptionActivated arrive in two queues, *)
(* each read by a consumer of its own per instance, and every statement of *)
(* a handler is a transaction of its own.  The gRPC GetOrCreateRepository  *)
(* that a Subscribe request makes runs beside them.  A repository that     *)
(* tracking does not have is registered only if GitHub knows it and a      *)
(* release of it; otherwise the event goes back to its queue.              *)
(*                                                                         *)
(* The events of one <<email, repository>> pair are numbered in the order  *)
(* the subscription service committed them; a row's token is the number of *)
(* the activation it comes from.                                           *)
(***************************************************************************)
EXTENDS Naturals, Sequences

CONSTANTS
  Pairs,         \* <<email, repository name>> pairs
  Activators,    \* SubscriptionActivatedConsumers, one per instance
  Unsubscribers, \* UnsubscriptionActivatedConsumers, one per instance
  Fickle,        \* repository names GitHub may cease to have a release for
  Resolvers,     \* goroutines that can serve GetOrCreateRepository concurrently
  Faults,        \* subset of {"abort", "repeat"}
  MaxEvents,     \* bound: events of one pair
  MaxRepeats,    \* bound: deliveries repeated after they were settled
  MaxRepoId      \* bound: repository ids the sequence hands out

ASSUME ReplicaAssumption ==
  /\ \A p \in Pairs : p = <<p[1], p[2]>>
  /\ MaxEvents \in Nat /\ MaxRepeats \in Nat /\ MaxRepoId \in Nat \ {0}

VARIABLES
  log,       \* log[p]: kinds of the events committed for pair p
  unanswered, \* names GitHub does not know, or knows no release of
  queued,    \* events on their way to, or in, their queue
  repos,     \* rows of repositories
  nextRepo,  \* next value of repositories_id_seq
  rows,      \* rows of tracking's subscriptions
  work,      \* handlers between two of their statements
  repeats,   \* deliveries repeated so far
  latest,    \* latest[p]: highest event of p applied so far (history)
  damaged    \* pairs last touched by an overtaken event or a cascade (history)

dataVars    == <<repos, nextRepo, rows>>
historyVars == <<latest, damaged>>
vars == <<log, unanswered, queued, repos, nextRepo, rows, work, repeats, latest, damaged>>

Names     == {p[2] : p \in Pairs}
Emails    == {p[1] : p \in Pairs}
Kinds     == {"activated", "unsubscribed"}
Event     == [pair : Pairs, number : 1..MaxEvents]
Kind(e)   == log[e.pair][e.number]
NoEvents  == {}
Processes == Activators \cup Unsubscribers \cup Resolvers
Handling  == [by : Processes, op : {"create", "upsert", "check", "drop"}, name : Names,
              repo : 0..MaxRepoId, event : {{e} : e \in Event} \cup {NoEvents}]

Init ==
  /\ log = [p \in Pairs |-> <<>>] /\ unanswered = {} /\ queued = {}
  /\ repos = {} /\ nextRepo = 1 /\ rows = {}
  /\ work = {} /\ repeats = 0
  /\ latest = [p \in Pairs |-> 0] /\ damaged = {}

-----------------------------------------------------------------------------
(* The subscription service *)

\* Confirm and UnsubscribeByToken commit an event.
Emit(p, kind) ==
  /\ Len(log[p]) < MaxEvents
  /\ log' = [log EXCEPT ![p] = Append(@, kind)]
  /\ queued' = queued \cup {[pair |-> p, number |-> Len(log[p]) + 1]}
  /\ UNCHANGED <<unanswered, dataVars, work, repeats, historyVars>>

\* The relay publishes again, or a lost acknowledgement makes the broker deliver
\* again.
Repeat(e) ==
  /\ "repeat" \in Faults /\ repeats < MaxRepeats
  /\ e.number <= Len(log[e.pair]) /\ e \notin queued
  /\ repeats' = repeats + 1
  /\ queued' = queued \cup {e}
  /\ UNCHANGED <<log, unanswered, dataVars, work, historyVars>>

\* On GitHub, or in the client's cache of it, a repository disappears or loses its
\* only release, or comes back.  (An open circuit breaker looks the same.)
GitHubChanges(name) ==
  /\ name \in Fickle
  /\ unanswered' = IF name \in unanswered THEN unanswered \ {name}
                                            ELSE unanswered \cup {name}
  /\ UNCHANGED <<log, queued, dataVars, work, repeats, historyVars>>

-----------------------------------------------------------------------------
(* Statements of the repositories *)

\* A consumer takes its next delivery when handle has returned.
Idle(c) == \A w \in work : w.by # c

GetByName(name) == {r \in repos : r.name = name}

\* The rows of a repository, found by its name.
Subscribed(name) == {s \in rows : \E r \in GetByName(name) : s.repo = r.id}

\* Mutant of DeleteRepository: no ON DELETE CASCADE.
DeleteRepositoryOnly(name) ==
  /\ repos' = repos \ GetByName(name)
  /\ UNCHANGED rows

\* DELETE FROM repositories cascades to the rows that reference it.
DeleteRepository(name) ==
  /\ repos' = repos \ GetByName(name)
  /\ rows' = rows \ Subscribed(name)

PairsOf(held, name) == {<<s.email, name>> : s \in held}

\* The history of pair p when event number n of it takes effect.
Applied(p, n) ==
  IF n >= latest[p]
  THEN latest' = [latest EXCEPT ![p] = n] /\ damaged' = damaged \ {p}
  ELSE damaged' = damaged \cup {p} /\ UNCHANGED latest

\* The next statement of a handler.
Proceed(w, next) == work' = (work \ {w}) \cup {next}

\* The delivery is acked, the gRPC call answered.
Settle(w) == work' = work \ {w}

\* Mutant of GiveBack: Nack without requeue.
GiveBackDropped(w) == work' = work \ {w} /\ UNCHANGED queued

\* Nack with requeue; an error for a gRPC caller.
GiveBack(w) == work' = work \ {w} /\ queued' = queued \cup w.event

-----------------------------------------------------------------------------
(* RepositoryUseCase.GetOrCreate *)

\* GetByName.  For an activation the delivery is taken from its queue; a gRPC
\* call that finds the repository has nothing left to do.
Look(c, name, event) ==
  \/ \E r \in GetByName(name) :
       /\ event # NoEvents
       /\ work' = work \cup {[by |-> c, op |-> "upsert", name |-> name,
                              repo |-> r.id, event |-> event]}
  \/ /\ GetByName(name) = {}
     /\ work' = work \cup {[by |-> c, op |-> "create", name |-> name,
                            repo |-> 0, event |-> event]}

ActivationBegins(c, e) ==
  /\ Idle(c) /\ e \in queued /\ Kind(e) = "activated"
  /\ queued' = queued \ {e}
  /\ Look(c, e.pair[2], {e})
  /\ UNCHANGED <<log, unanswered, dataVars, repeats, historyVars>>

Resolve(c, name) ==
  /\ Idle(c)
  /\ Look(c, name, NoEvents)
  /\ UNCHANGED <<log, unanswered, queued, dataVars, repeats, historyVars>>

\* Mutant of Create: the lowest free id is handed out.
CreateReusesId(w) ==
  /\ w.op = "create" /\ w.name \notin unanswered /\ GetByName(w.name) = {}
  /\ \E id \in 1..(MaxRepoId - 1) :
       /\ \A r \in repos : r.id # id
       /\ \A lower \in 1..(id - 1) : \E r \in repos : r.id = lower
       /\ repos' = repos \cup {[id |-> id, name |-> w.name]}
       /\ IF w.event = NoEvents THEN Settle(w)
          ELSE Proceed(w, [w EXCEPT !.op = "upsert", !.repo = id])
  /\ UNCHANGED <<log, unanswered, queued, nextRepo, rows, repeats, historyVars>>

\* GitHub has answered with a release; Create inserts the row under a fresh id.
Create(w) ==
  /\ w.op = "create" /\ w.name \notin unanswered /\ GetByName(w.name) = {}
  /\ nextRepo < MaxRepoId
  /\ repos' = repos \cup {[id |-> nextRepo, name |-> w.name]}
  /\ nextRepo' = nextRepo + 1
  /\ IF w.event = NoEvents THEN Settle(w)
     ELSE Proceed(w, [w EXCEPT !.op = "upsert", !.repo = nextRepo])
  /\ UNCHANGED <<log, unanswered, queued, rows, repeats, historyVars>>

\* ErrRepositoryNotFound or ErrReleaseNotFound: an error for the gRPC caller, one
\* more round through the queue for the event.
CreateRefused(w) ==
  /\ w.op = "create" /\ w.name \in unanswered
  /\ GiveBack(w)
  /\ UNCHANGED <<log, unanswered, dataVars, repeats, historyVars>>

\* Another caller was faster: UNIQUE(full_name) fails.
CreateConflicts(w) ==
  /\ w.op = "create" /\ GetByName(w.name) # {}
  /\ GiveBack(w)
  /\ UNCHANGED <<log, unanswered, dataVars, repeats, historyVars>>

-----------------------------------------------------------------------------
(* SubscriptionActivatedConsumer.handle *)

\* Upsert under the id found or created before.
Upsert(w, e) ==
  /\ w.op = "upsert" /\ w.event = {e} /\ \E r \in repos : r.id = w.repo
  /\ rows' = {s \in rows : s.repo # w.repo \/ s.email # e.pair[1]}
             \cup {[repo |-> w.repo, email |-> e.pair[1], token |-> e.number]}
  /\ Settle(w) /\ Applied(e.pair, e.number)
  /\ UNCHANGED <<log, unanswered, queued, repos, nextRepo, repeats>>

\* Mutant of UpsertFails: the event is dropped.
UpsertFailsDropped(w) ==
  /\ w.op = "upsert" /\ \A r \in repos : r.id # w.repo
  /\ Settle(w)
  /\ UNCHANGED <<log, unanswered, queued, dataVars, repeats, historyVars>>

\* The repository was deleted meanwhile: the foreign key fails.
UpsertFails(w) ==
  /\ w.op = "upsert" /\ \A r \in repos : r.id # w.repo
  /\ GiveBack(w)
  /\ UNCHANGED <<log, unanswered, dataVars, repeats, historyVars>>

-----------------------------------------------------------------------------
(* UnsubscriptionActivatedConsumer.handle *)

\* DeleteByEmailAndRepo.
UnsubscriptionBegins(c, e) ==
  /\ Idle(c) /\ e \in queued /\ Kind(e) = "unsubscribed"
  /\ queued' = queued \ {e}
  /\ rows' = rows \ {s \in Subscribed(e.pair[2]) : s.email = e.pair[1]}
  /\ Applied(e.pair, e.number)
  /\ work' = work \cup {[by |-> c, op |-> "check", name |-> e.pair[2],
                         repo |-> 0, event |-> {e}]}
  /\ UNCHANGED <<log, unanswered, repos, nextRepo, repeats>>

HasSubscriptions(w) ==
  /\ w.op = "check"
  /\ IF Subscribed(w.name) # {} THEN Settle(w)
     ELSE Proceed(w, [w EXCEPT !.op = "drop"])
  /\ UNCHANGED <<log, unanswered, queued, dataVars, repeats, historyVars>>

\* Mutant of Drop: no such repository is an error.
DropMissingFails(w) ==
  /\ w.op = "drop"
  /\ DeleteRepository(w.name)
  /\ damaged' = damaged \cup PairsOf(Subscribed(w.name), w.name)
  /\ IF GetByName(w.name) = {} THEN GiveBack(w) ELSE Settle(w) /\ UNCHANGED queued
  /\ UNCHANGED <<log, unanswered, nextRepo, repeats, latest>>

\* RepositoryUseCase.Delete, by name: nobody checks again for subscribers, and
\* no such repository is not an error.
Drop(w) ==
  /\ w.op = "drop"
  /\ DeleteRepository(w.name)
  /\ damaged' = damaged \cup PairsOf(Subscribed(w.name), w.name)
  /\ Settle(w)
  /\ UNCHANGED <<log, unanswered, queued, nextRepo, repeats, latest>>

\* A statement or a GitHub request fails, or the process dies: whatever was
\* committed stays, the delivery is requeued.
Abort(w) ==
  /\ "abort" \in Faults
  /\ GiveBack(w)
  /\ UNCHANGED <<log, unanswered, dataVars, repeats, historyVars>>

-----------------------------------------------------------------------------
Next ==
  \/ \E p \in Pairs, kind \in Kinds : Emit(p, kind)
  \/ \E e \in Event :
       \/ Repeat(e)
       \/ \E c \in Activators : ActivationBegins(c, e)
       \/ \E c \in Unsubscribers : UnsubscriptionBegins(c, e)
       \/ \E w \in work : Upsert(w, e)
  \/ \E name \in Names : GitHubChanges(name) \/ \E c \in Resolvers : Resolve(c, name)
  \/ \E w \in work :
       \/ Create(w) \/ CreateRefused(w) \/ CreateConflicts(w) \/ UpsertFails(w)
       \/ HasSubscriptions(w) \/ Drop(w) \/ Abort(w)

Spec == Init /\ [][Next]_vars

(***************************************************************************)
(* Fairness.  A queued event is delivered when its consumer is idle again  *)
(* and again, and a handler that has begun goes on.  GitHub owes nothing:  *)
(* a name may stay unanswered for ever.                                    *)
(***************************************************************************)
Handle(e) ==
  \E w \in work :
    /\ w.event = {e}
    /\ Create(w) \/ CreateRefused(w) \/ CreateConflicts(w) \/ Upsert(w, e) \/ UpsertFails(w)
         \/ HasSubscriptions(w) \/ Drop(w)

FairSpec ==
  /\ Spec
  /\ \A e \in Event :
       /\ SF_vars(\/ \E c \in Activators : ActivationBegins(c, e)
                  \/ \E c \in Unsubscribers : UnsubscriptionBegins(c, e))
       /\ WF_vars(Handle(e))

-----------------------------------------------------------------------------
(* Properties *)

Pending == queued \cup UNION {w.event : w \in work}

\* What the subscription service says of a pair: its activation, or 0.
Confirmed(p) ==
  IF Len(log[p]) > 0 /\ log[p][Len(log[p])] = "activated" THEN Len(log[p]) ELSE 0

\* What tracking has for a pair.
Tracked(p) == {s.token : s \in {q \in Subscribed(p[2]) : q.email = p[1]}}

\* Every variable in range, no two repositories with one name or id, no two rows
\* for one subscriber of a repository, no row without its repository.
TypeOK ==
  /\ log \in [Pairs -> Seq(Kinds)]
  /\ unanswered \subseteq Names /\ queued \subseteq Event
  /\ repos \subseteq [id : 1..MaxRepoId, name : Names]
  /\ nextRepo \in 1..MaxRepoId
  /\ rows \subseteq [repo : 1..MaxRepoId, email : Emails, token : 1..MaxEvents]
  /\ work \subseteq Handling
  /\ repeats \in 0..MaxRepeats
  /\ latest \in [Pairs -> 0..MaxEvents]
  /\ damaged \subseteq Pairs
  /\ \A r, q \in repos : r.id = q.id \/ r.name = q.name => r = q
  /\ \A s, q \in rows : s.repo = q.repo /\ s.email = q.email => s = q
  /\ \A s \in rows : \E r \in repos : r.id = s.repo

\* A subscriber is notified only of a repository for which that very email was
\* activated: a repository id kept across deletion and re-creation never leads
\* an Upsert to another repository.
RowsAreActivated ==
  \A s \in rows, r \in repos :
    s.repo = r.id =>
      /\ <<s.email, r.name>> \in Pairs
      /\ s.token <= Len(log[<<s.email, r.name>>])
      /\ log[<<s.email, r.name>>][s.token] = "activated"

\* Nothing else loses or invents subscribers: once nothing is under way, a pair
\* whose newest event was not overtaken and whose row no repository delete took
\* along is tracked exactly as the subscription service has it, whatever was
\* requeued, repeated, failed on a foreign key or lost a race to Create.
ReplicaConverges ==
  \A p \in Pairs \ damaged :
    (\A e \in Pending : e.pair # p) =>
      Tracked(p) = IF Confirmed(p) = 0 THEN {} ELSE {Confirmed(p)}

\* An event that only GitHub keeps from being settled.
WaitsForGitHub(e) ==
  Kind(e) = "activated" /\ e.pair[2] \in unanswered /\ GetByName(e.pair[2]) = {}

\* Requeueing comes to an end: no event is pending for good but one that activates
\* an unregistered repository that GitHub has no release for, again and again.  Such
\* an event circles between queue and consumer, and the others, its own
\* unsubscription among them, get past it.
EventsAreSettled ==
  \A e \in Event : []<>(e \in Pending => WaitsForGitHub(e))

(***************************************************************************)
(* The inductive invariant behind the safety properties.                   *)
(***************************************************************************)

\* Only events that were committed are handled or applied.
EventsExist ==
  /\ \A e \in Pending : e.number <= Len(log[e.pair])
  /\ \A p \in Pairs : latest[p] <= Len(log[p])

\* What a handler knows still holds at its next statement: the id it is going to
\* upsert under is that of its repository, or of none any more, and an
\* unsubscription has been applied.
Sound(w) ==
  /\ w.event # NoEvents =>
       \E e \in Event :
         /\ w.event = {e} /\ w.name = e.pair[2]
         /\ Kind(e) = (IF w.op \in {"create", "upsert"} THEN "activated" ELSE "unsubscribed")
         /\ w.op \in {"check", "drop"} => e.number <= latest[e.pair]
  /\ w.op # "create" => w.event # NoEvents
  /\ w.op = "upsert" =>
       /\ w.repo < nextRepo
       /\ \A r \in repos : r.id = w.repo => r.name = w.name

WorkIsSound == \A w \in work : Sound(w)

IdsAreFresh == \A r \in repos : r.id < nextRepo

\* An event is under way, applied, or overtaken by one that was applied.
NothingForgotten ==
  \A p \in Pairs : \A n \in 1..Len(log[p]) :
    [pair |-> p, number |-> n] \in Pending \/ n <= latest[p]

\* An undamaged pair has the row of its latest event, or none.
RowsAreLatest ==
  \A s \in rows, r \in repos :
    s.repo = r.id /\ <<s.email, r.name>> \notin damaged =>
      s.token = latest[<<s.email, r.name>>]

LatestIsTracked ==
  \A p \in Pairs \ damaged :
    latest[p] > 0 /\ log[p][latest[p]] = "activated" =>
      \E s \in rows, r \in repos : s.repo = r.id /\ s.email = p[1] /\ r.name = p[2]

IInv ==
  /\ TypeOK /\ EventsExist /\ WorkIsSound /\ IdsAreFresh /\ NothingForgotten
  /\ RowsAreActivated /\ RowsAreLatest /\ LatestIsTracked

(***************************************************************************)
(* What the documentation says and the code does not do.                   *)
(***************************************************************************)

\* systemDesign.md: a link for instantly unsubscribing.  When all events are
\* settled, who unsubscribed last is not on the list.
UnsubscribedIsRemoved ==
  Pending = {} => \A p \in Pairs : Confirmed(p) = 0 => Tracked(p) = {}
=============================================================================
