------------------------ MODULE TrackingReplicaProofs ------------------------
(***************************************************************************)
(* For any set of <<email, repository>> pairs, any number of consumers and *)
(* gRPC callers and any number of events, tracking's list of subscribers   *)
(* converges.  The invariant follows one event at a time: what a handler   *)
(* knows stays true while it waits, an event is under way until it is      *)
(* applied, and an undamaged pair has the row of its latest event.         *)
(***************************************************************************)
EXTENDS TrackingReplica, TLAPS

USE ReplicaAssumption

-----------------------------------------------------------------------------
(* Facts about the state.                                                  *)

LEMMA EventFacts ==
  ASSUME NEW e \in Event
  PROVE  /\ e.pair \in Pairs /\ e.number \in 1..MaxEvents
         /\ e.pair[1] \in Emails /\ e.pair[2] \in Names
         /\ e.pair = <<e.pair[1], e.pair[2]>>
         /\ e = [pair |-> e.pair, number |-> e.number]
  BY DEF Event, Emails, Names

LEMMA HandlingFacts ==
  ASSUME IInv, NEW w \in work
  PROVE  /\ w \in Handling /\ w.event \subseteq Event
         /\ w.op \in {"create", "upsert", "check", "drop"} /\ w.name \in Names
         /\ w.event # NoEvents => \E e \in Event : w.event = {e}
<1>1. w \in Handling
  BY DEF IInv, TypeOK
<1>2. w.event \in {{e} : e \in Event} \cup {NoEvents}
  BY <1>1 DEF Handling
<1>3. w.event # NoEvents => \E e \in Event : w.event = {e}
  BY <1>2
<1>4. w.event \subseteq Event
  BY <1>2, <1>3 DEF NoEvents
<1> QED
  BY <1>1, <1>3, <1>4 DEF Handling

LEMMA LogTypes ==
  ASSUME IInv, NEW p \in Pairs
  PROVE  /\ log[p] \in Seq(Kinds) /\ Len(log[p]) \in Nat
         /\ latest[p] \in 0..MaxEvents /\ latest[p] <= Len(log[p])
  BY DEF IInv, TypeOK, EventsExist

\* A pair's rows, through its repository.
LEMMA SubscribedFacts ==
  ASSUME NEW name, NEW s
  PROVE  s \in Subscribed(name) <=> s \in rows /\ \E r \in repos : r.name = name /\ s.repo = r.id
  BY DEF Subscribed, GetByName

-----------------------------------------------------------------------------
(* Steps.                                                                  *)

\* Steps that leave the log, the tables and the history alone.
Quiet == UNCHANGED <<log, dataVars, historyVars>>

Emits == \E p \in Pairs, kind \in Kinds : Emit(p, kind)
Upserts == \E e \in Event, w \in work : Upsert(w, e)
Unsubscribes == \E e \in Event, c \in Unsubscribers : UnsubscriptionBegins(c, e)
Creates == \E w \in work : Create(w)
Drops == \E w \in work : Drop(w)

LEMMA StepKinds ==
  ASSUME [Next]_vars PROVE Quiet \/ Emits \/ Upserts \/ Unsubscribes \/ Creates \/ Drops
<1>1. ASSUME NEW e \in Event, NEW c \in Activators, Repeat(e) \/ ActivationBegins(c, e) PROVE Quiet
  BY <1>1 DEF Repeat, ActivationBegins, Quiet
<1>2. ASSUME NEW e \in Event, Repeat(e) PROVE Quiet
  BY <1>2 DEF Repeat, Quiet
<1>3. ASSUME NEW c \in Resolvers, NEW name \in Names, Resolve(c, name) PROVE Quiet
  BY <1>3 DEF Resolve, Quiet
<1>4. ASSUME NEW w \in work,
             \/ CreateRefused(w) \/ CreateConflicts(w) \/ UpsertFails(w)
             \/ HasSubscriptions(w) \/ Abort(w)
      PROVE  Quiet
  BY <1>4 DEF CreateRefused, CreateConflicts, UpsertFails, HasSubscriptions, Abort, Quiet
<1>5. ASSUME NEW name \in Names, GitHubChanges(name) PROVE Quiet
  BY <1>5 DEF GitHubChanges, Quiet
<1>6. CASE UNCHANGED vars
  BY <1>6 DEF vars, Quiet, dataVars, historyVars
<1> QED
  BY <1>1, <1>2, <1>3, <1>4, <1>5, <1>6 DEF Next, Emits, Upserts, Unsubscribes, Creates, Drops

\* The history of an applied event.
LEMMA AppliedFacts ==
  ASSUME IInv, NEW e \in Event, Applied(e.pair, e.number)
  PROVE  /\ latest' \in [Pairs -> 0..MaxEvents] /\ damaged' \subseteq Pairs
         /\ \A p \in Pairs : p # e.pair =>
              latest'[p] = latest[p] /\ (p \in damaged' <=> p \in damaged)
         /\ e.number <= latest'[e.pair] /\ latest[e.pair] <= latest'[e.pair]
         /\ e.pair \notin damaged' => latest'[e.pair] = e.number
         /\ latest'[e.pair] \in {latest[e.pair], e.number}
<1>1. e.pair \in Pairs /\ e.number \in 0..MaxEvents /\ latest[e.pair] \in 0..MaxEvents
  BY EventFacts, LogTypes
<1>2. latest \in [Pairs -> 0..MaxEvents] /\ damaged \subseteq Pairs
  BY DEF IInv, TypeOK
<1> QED
  BY <1>1, <1>2 DEF Applied

\* The log grows, events are never unapplied, and ids are not used again.
LEMMA LogGrows ==
  ASSUME IInv, [Next]_vars
  PROVE  /\ log' \in [Pairs -> Seq(Kinds)]
         /\ \A p \in Pairs : /\ Len(log[p]) <= Len(log'[p])
                             /\ \A n \in 1..Len(log[p]) : log'[p][n] = log[p][n]
<1>1. log \in [Pairs -> Seq(Kinds)] /\ \A p \in Pairs : Len(log[p]) \in Nat
  BY LogTypes DEF IInv, TypeOK
<1>2. CASE log' = log
  BY <1>1, <1>2
<1>3. ASSUME NEW p \in Pairs, NEW kind \in Kinds, Emit(p, kind)
      PROVE  /\ log' \in [Pairs -> Seq(Kinds)]
             /\ \A q \in Pairs : /\ Len(log[q]) <= Len(log'[q])
                                 /\ \A n \in 1..Len(log[q]) : log'[q][n] = log[q][n]
  <2>1. log' = [log EXCEPT ![p] = Append(log[p], kind)]
    BY <1>3 DEF Emit
  <2>2. /\ Append(log[p], kind) \in Seq(Kinds)
        /\ Len(Append(log[p], kind)) = Len(log[p]) + 1
        /\ \A n \in 1..Len(log[p]) : Append(log[p], kind)[n] = log[p][n]
    BY <1>1
  <2>3. \A q \in Pairs : log'[q] = IF q = p THEN Append(log[p], kind) ELSE log[q]
    BY <1>1, <2>1
  <2>4. log' \in [Pairs -> Seq(Kinds)]
    BY <1>1, <2>1, <2>2
  <2> QED
    BY <1>1, <2>2, <2>3, <2>4
<1>4. Emits \/ log' = log
  BY StepKinds DEF Quiet, Upserts, Unsubscribes, Creates, Drops, Upsert, UnsubscriptionBegins, Create, Drop
<1> QED
  BY <1>2, <1>3, <1>4 DEF Emits

LEMMA LatestGrows ==
  ASSUME IInv, [Next]_vars
  PROVE  /\ latest' \in [Pairs -> 0..MaxEvents]
         /\ \A p \in Pairs : latest[p] <= latest'[p]
<1>1. latest \in [Pairs -> 0..MaxEvents]
  BY DEF IInv, TypeOK
<1>2. CASE latest' = latest
  BY <1>1, <1>2
<1>3. ASSUME NEW e \in Event, Applied(e.pair, e.number)
      PROVE  latest' \in [Pairs -> 0..MaxEvents] /\ \A p \in Pairs : latest[p] <= latest'[p]
  <2>1. \A p \in Pairs : latest[p] <= latest[p]
    BY <1>1
  <2> QED
    BY <1>3, <2>1, AppliedFacts
<1>4. (\E e \in Event : Applied(e.pair, e.number)) \/ latest' = latest
  BY StepKinds DEF Quiet, historyVars, Emits, Upserts, Unsubscribes, Creates, Drops,
                   Emit, Upsert, UnsubscriptionBegins, Create, Drop
<1> QED
  BY <1>2, <1>3, <1>4

LEMMA ReposGrow ==
  ASSUME IInv, [Next]_vars
  PROVE  /\ repos' \subseteq [id : 1..MaxRepoId, name : Names]
         /\ nextRepo' \in 1..MaxRepoId /\ nextRepo <= nextRepo'
         /\ \A r, q \in repos' : r.id = q.id \/ r.name = q.name => r = q
         /\ \A r \in repos' : r \in repos \/ r.id = nextRepo
         /\ \A r \in repos' : r.id < nextRepo'
<1>1. /\ repos \subseteq [id : 1..MaxRepoId, name : Names] /\ nextRepo \in 1..MaxRepoId
      /\ \A r, q \in repos : r.id = q.id \/ r.name = q.name => r = q
      /\ \A r \in repos : r.id < nextRepo
  BY DEF IInv, TypeOK, IdsAreFresh
<1>2. CASE repos' \subseteq repos /\ nextRepo' = nextRepo
  BY <1>1, <1>2
<1>3. ASSUME NEW w \in work, Create(w)
      PROVE  /\ repos' \subseteq [id : 1..MaxRepoId, name : Names]
             /\ nextRepo' \in 1..MaxRepoId /\ nextRepo <= nextRepo'
             /\ \A r, q \in repos' : r.id = q.id \/ r.name = q.name => r = q
             /\ \A r \in repos' : r \in repos \/ r.id = nextRepo
             /\ \A r \in repos' : r.id < nextRepo'
  <2> DEFINE n == [id |-> nextRepo, name |-> w.name]
  <2>1. n \in [id : 1..MaxRepoId, name : Names] /\ n.id = nextRepo /\ n.name = w.name
    BY <1>1, HandlingFacts
  <2>2. repos' = repos \cup {n} /\ nextRepo' = nextRepo + 1 /\ nextRepo < MaxRepoId
        /\ \A r \in repos : r.name # w.name
    BY <1>3 DEF Create, GetByName
  <2> HIDE DEF n
  <2>3. \A r \in repos : r.id # n.id /\ r.name # n.name
    BY <1>1, <2>1, <2>2
  <2> QED
    BY <1>1, <2>1, <2>2, <2>3
<1>4. Creates \/ (repos' \subseteq repos /\ nextRepo' = nextRepo)
  BY StepKinds DEF Quiet, dataVars, Emits, Upserts, Unsubscribes, Drops, Emit, Upsert,
                   UnsubscriptionBegins, Drop, DeleteRepository
<1> QED
  BY <1>2, <1>3, <1>4 DEF Creates

-----------------------------------------------------------------------------
(* Handlers.                                                               *)

\* GetByName by a handler: it goes on to upsert or to create.
LEMMA LookFacts ==
  ASSUME IInv, NEW c \in Activators \cup Resolvers, NEW name \in Names, NEW event,
         event = NoEvents \/ \E e \in Event : event = {e},
         Look(c, name, event), NEW y \in work', y \notin work
  PROVE  /\ y \in Handling /\ y.name = name /\ y.event = event
         /\ y.op \in {"create", "upsert"}
         /\ y.op = "upsert" =>
              event # NoEvents /\ \E r \in repos : r.id = y.repo /\ r.name = name
<1>1. event \in {{e} : e \in Event} \cup {NoEvents} /\ c \in Processes
  BY DEF Processes
<1>2. CASE \E r \in GetByName(name) :
             /\ event # NoEvents
             /\ work' = work \cup {[by |-> c, op |-> "upsert", name |-> name,
                                    repo |-> r.id, event |-> event]}
  <2>1. PICK r \in repos :
          /\ r.name = name /\ event # NoEvents
          /\ y = [by |-> c, op |-> "upsert", name |-> name, repo |-> r.id, event |-> event]
    BY <1>2 DEF GetByName
  <2>2. r.id \in 0..MaxRepoId
    BY DEF IInv, TypeOK
  <2>3. y \in Handling
    BY <1>1, <2>1, <2>2 DEF Handling
  <2> QED
    BY <2>1, <2>3
<1>3. CASE work' = work \cup {[by |-> c, op |-> "create", name |-> name, repo |-> 0, event |-> event]}
  <2>1. y = [by |-> c, op |-> "create", name |-> name, repo |-> 0, event |-> event]
    BY <1>3
  <2>2. y \in Handling
    BY <1>1, <2>1 DEF Handling
  <2> QED
    BY <2>1, <2>2
<1> QED
  BY <1>2, <1>3 DEF Look

\* The next statement of a handler that goes on.
LEMMA ProceedDrop ==
  ASSUME IInv, NEW w \in work, NEW next, next = [w EXCEPT !.op = "drop"]
  PROVE  next \in Handling /\ next.op = "drop" /\ next.name = w.name /\ next.event = w.event
<1>1. w \in Handling
  BY HandlingFacts
<1> QED
  BY <1>1 DEF Handling

LEMMA ProceedUpsert ==
  ASSUME IInv, NEW w \in work, NEW next, next = [w EXCEPT !.op = "upsert", !.repo = nextRepo]
  PROVE  /\ next \in Handling /\ next.op = "upsert" /\ next.name = w.name
         /\ next.event = w.event /\ next.repo = nextRepo
<1>1. w \in Handling /\ nextRepo \in 0..MaxRepoId
  BY HandlingFacts DEF IInv, TypeOK
<1> QED
  BY <1>1 DEF Handling

\* What a new handler, or one that goes on, knows.
LEMMA NewWork ==
  ASSUME IInv, [Next]_vars, NEW y \in work', y \notin work
  PROVE  y \in Handling /\ Sound(y)'
<1>1. ASSUME NEW e \in Event, NEW c \in Activators, ActivationBegins(c, e)
      PROVE  y \in Handling /\ Sound(y)'
  <2>1. Quiet /\ Look(c, e.pair[2], {e}) /\ Kind(e) = "activated"
    BY <1>1 DEF ActivationBegins, Quiet
  <2>2. e.pair[2] \in Names /\ {e} # NoEvents
    BY EventFacts DEF NoEvents
  <2>3. /\ y \in Handling /\ y.name = e.pair[2] /\ y.event = {e} /\ y.op \in {"create", "upsert"}
        /\ y.op = "upsert" => \E r \in repos : r.id = y.repo /\ r.name = e.pair[2]
    BY <2>1, <2>2, LookFacts
  <2>4. Kind(e)' = "activated" /\ repos' = repos /\ nextRepo' = nextRepo
    BY <2>1 DEF Quiet, Kind, dataVars
  <2>5. y.op = "upsert" =>
          y.repo < nextRepo' /\ \A r \in repos' : r.id = y.repo => r.name = y.name
    BY <2>3, <2>4 DEF IInv, TypeOK, IdsAreFresh
  <2> QED
    BY <2>2, <2>3, <2>4, <2>5 DEF Sound
<1>2. ASSUME NEW c \in Resolvers, NEW name \in Names, Resolve(c, name)
      PROVE  y \in Handling /\ Sound(y)'
  <2>1. Look(c, name, NoEvents)
    BY <1>2 DEF Resolve
  <2>2. y \in Handling /\ y.event = NoEvents /\ y.op = "create"
    BY <2>1, LookFacts
  <2> QED
    BY <2>2 DEF Sound
<1>3. ASSUME NEW e \in Event, NEW c \in Unsubscribers, UnsubscriptionBegins(c, e)
      PROVE  y \in Handling /\ Sound(y)'
  <2>1. /\ y = [by |-> c, op |-> "check", name |-> e.pair[2], repo |-> 0, event |-> {e}]
        /\ Kind(e) = "unsubscribed" /\ log' = log /\ Applied(e.pair, e.number)
    BY <1>3 DEF UnsubscriptionBegins
  <2>2. y \in Handling
    <3>1. e.pair[2] \in Names /\ c \in Processes /\ {e} \in {{f} : f \in Event} \cup {NoEvents}
      BY EventFacts DEF Processes
    <3> QED
      BY <2>1, <3>1 DEF Handling
  <2>3. Kind(e)' = "unsubscribed" /\ e.number <= latest'[e.pair]
    BY <2>1, AppliedFacts DEF Kind
  <2>4. y.op = "check" /\ y.name = e.pair[2] /\ y.event = {e} /\ {e} # NoEvents
    BY <2>1 DEF NoEvents
  <2> QED
    BY <2>2, <2>3, <2>4 DEF Sound
<1>4. ASSUME NEW w \in work, HasSubscriptions(w)
      PROVE  y \in Handling /\ Sound(y)'
  <2>1. Quiet /\ w.op = "check" /\ y = [w EXCEPT !.op = "drop"]
    BY <1>4 DEF HasSubscriptions, Settle, Proceed, Quiet
  <2>2. y \in Handling /\ y.op = "drop" /\ y.name = w.name /\ y.event = w.event
    BY <2>1, ProceedDrop, Zenon
  <2>3. Sound(w) /\ latest' = latest /\ \A e : Kind(e)' = Kind(e)
    BY <2>1 DEF IInv, WorkIsSound, Quiet, historyVars, Kind
  <2> QED
    BY <2>1, <2>2, <2>3 DEF Sound
<1>5. ASSUME NEW w \in work, Create(w)
      PROVE  y \in Handling /\ Sound(y)'
  <2>1. /\ w.op = "create" /\ w.event # NoEvents
        /\ y = [w EXCEPT !.op = "upsert", !.repo = nextRepo]
    BY <1>5 DEF Create, Settle, Proceed
  <2>2. nextRepo \in 0..MaxRepoId
    BY DEF IInv, TypeOK
  <2>3. y \in Handling /\ y.op = "upsert" /\ y.name = w.name /\ y.event = w.event /\ y.repo = nextRepo
    BY <2>1, ProceedUpsert, Zenon
  <2>4. /\ nextRepo' = nextRepo + 1 /\ log' = log
        /\ repos' = repos \cup {[id |-> nextRepo, name |-> w.name]}
    BY <1>5 DEF Create
  <2>5. y.repo < nextRepo' /\ \A r \in repos' : r.id = y.repo => r.name = y.name
    BY <2>2, <2>3, <2>4 DEF IInv, TypeOK, IdsAreFresh
  <2>6. Sound(w) /\ \A e : Kind(e)' = Kind(e)
    BY <2>4 DEF IInv, WorkIsSound, Kind
  <2> QED
    BY <2>1, <2>3, <2>5, <2>6 DEF Sound
<1>6. ASSUME NEW w \in work,
             CreateRefused(w) \/ CreateConflicts(w) \/ UpsertFails(w) \/ Drop(w) \/ Abort(w)
      PROVE  FALSE
  BY <1>6 DEF CreateRefused, CreateConflicts, UpsertFails, Drop, Abort, GiveBack, Settle
<1>7. ASSUME NEW w \in work, NEW e \in Event, Upsert(w, e) PROVE FALSE
  BY <1>7 DEF Upsert, Settle
<1>8. CASE UNCHANGED vars
  BY <1>8 DEF vars
<1>9. CASE \E e \in Event :
               \/ Repeat(e)
               \/ \E c \in Activators : ActivationBegins(c, e)
               \/ \E c \in Unsubscribers : UnsubscriptionBegins(c, e)
               \/ \E w \in work : Upsert(w, e)
  <2>1. ASSUME NEW e \in Event, Repeat(e) PROVE FALSE
    BY <2>1 DEF Repeat
  <2> QED
    BY <1>1, <1>3, <1>7, <1>9, <2>1
<1>10. CASE \E w \in work : \/ Create(w) \/ CreateRefused(w) \/ CreateConflicts(w) \/ UpsertFails(w)
                            \/ HasSubscriptions(w) \/ Drop(w) \/ Abort(w)
  BY <1>4, <1>5, <1>6, <1>10
<1>11. CASE \E p \in Pairs, kind \in Kinds : Emit(p, kind)
  BY <1>11 DEF Emit
<1>12. CASE \E name \in Names : GitHubChanges(name) \/ \E c \in Resolvers : Resolve(c, name)
  <2>1. ASSUME NEW name \in Names, GitHubChanges(name) PROVE FALSE
    BY <2>1 DEF GitHubChanges
  <2>2. ASSUME NEW name \in Names, NEW c \in Resolvers, Resolve(c, name)
        PROVE  y \in Handling /\ Sound(y)'
    BY <1>2, <2>2
  <2> QED
    BY <1>12, <2>1, <2>2
<1> QED
  BY <1>8, <1>9, <1>10, <1>11, <1>12 DEF Next

\* What a waiting handler knows stays true.
LEMMA SoundStays ==
  ASSUME IInv, [Next]_vars, NEW w \in work
  PROVE  Sound(w)'
<1>1. Sound(w)
  BY DEF IInv, WorkIsSound
<1>2. w.event # NoEvents =>
        \E e \in Event :
          /\ w.event = {e} /\ w.name = e.pair[2]
          /\ Kind(e)' = (IF w.op \in {"create", "upsert"} THEN "activated" ELSE "unsubscribed")
          /\ w.op \in {"check", "drop"} => e.number <= latest'[e.pair]
  <2> SUFFICES ASSUME w.event # NoEvents
               PROVE  \E e \in Event :
                 /\ w.event = {e} /\ w.name = e.pair[2]
                 /\ Kind(e)' = (IF w.op \in {"create", "upsert"} THEN "activated" ELSE "unsubscribed")
                 /\ w.op \in {"check", "drop"} => e.number <= latest'[e.pair]
    OBVIOUS
  <2>1. PICK e \in Event :
          /\ w.event = {e} /\ w.name = e.pair[2]
          /\ Kind(e) = (IF w.op \in {"create", "upsert"} THEN "activated" ELSE "unsubscribed")
          /\ w.op \in {"check", "drop"} => e.number <= latest[e.pair]
    BY <1>1 DEF Sound
  <2>2. e \in Pending
    BY <2>1 DEF Pending
  <2>3. e.number \in 1..Len(log[e.pair]) /\ e.pair \in Pairs
    BY <2>2, EventFacts, LogTypes DEF IInv, EventsExist
  <2>4. Kind(e)' = Kind(e)
    BY <2>3, LogGrows DEF Kind
  <2>5. e.number <= latest[e.pair] => e.number <= latest'[e.pair]
    BY <2>3, LogTypes, LatestGrows
  <2> QED
    BY <2>1, <2>4, <2>5
<1>3. w.op = "upsert" =>
        /\ w.repo < nextRepo'
        /\ \A r \in repos' : r.id = w.repo => r.name = w.name
  <2>1. w.repo \in 0..MaxRepoId /\ nextRepo \in 1..MaxRepoId
    BY HandlingFacts DEF Handling, IInv, TypeOK
  <2> QED
    BY <1>1, <2>1, ReposGrow DEF Sound
<1> QED
  BY <1>1, <1>2, <1>3 DEF Sound

-----------------------------------------------------------------------------
(* Events.                                                                 *)

LEMMA QueuedTypes == ASSUME IInv, [Next]_vars PROVE queued' \subseteq Event
<1>1. queued \subseteq Event
  BY DEF IInv, TypeOK
<1>2. ASSUME NEW p \in Pairs, NEW kind \in Kinds, Emit(p, kind) PROVE queued' \subseteq Event
  <2>1. Len(log[p]) + 1 \in 1..MaxEvents
    BY <1>2, LogTypes DEF Emit
  <2>2. [pair |-> p, number |-> Len(log[p]) + 1] \in Event
    BY <2>1 DEF Event
  <2> QED
    BY <1>1, <1>2, <2>2 DEF Emit
<1>3. ASSUME NEW w \in work, GiveBack(w) PROVE queued' \subseteq Event
  BY <1>1, <1>3, HandlingFacts DEF GiveBack
<1>4. Emits \/ (\E w \in work : GiveBack(w)) \/ (\E e \in Event : queued' \subseteq queued \cup {e})
        \/ queued' = queued
  BY DEF Next, Emits, Repeat, ActivationBegins, UnsubscriptionBegins, Upsert, Resolve, Create,
         CreateRefused, CreateConflicts, UpsertFails, HasSubscriptions, Drop, Abort,
         GitHubChanges, vars
<1> QED
  BY <1>1, <1>2, <1>3, <1>4 DEF Emits

\* A pending event stays pending until it is applied.
LEMMA PendingStays ==
  ASSUME IInv, [Next]_vars, NEW e \in Pending, e \notin Pending'
  PROVE  e \in Event /\ e.number <= latest'[e.pair]
<1> USE DEF Pending
<1>0. e \in Event
  BY HandlingFacts DEF IInv, TypeOK
<1>1. ASSUME NEW f \in Event, NEW c \in Activators, ActivationBegins(c, f) PROVE FALSE
  BY <1>1 DEF ActivationBegins, Look
<1>2. ASSUME NEW f \in Event, NEW c \in Unsubscribers, UnsubscriptionBegins(c, f) PROVE FALSE
  BY <1>2 DEF UnsubscriptionBegins
<1>3. ASSUME NEW w \in work, GiveBack(w) PROVE FALSE
  BY <1>3 DEF GiveBack
<1>4. ASSUME NEW w \in work, NEW next, Proceed(w, next), next.event = w.event, queued' = queued PROVE FALSE
  BY <1>4 DEF Proceed
<1>5. ASSUME NEW w \in work, Settle(w), queued' = queued PROVE w.event = {e}
  BY <1>5, HandlingFacts DEF Settle, NoEvents
<1>6. ASSUME queued \subseteq queued', work \subseteq work' PROVE FALSE
  BY <1>6
<1>7. ASSUME NEW w \in work, NEW f \in Event, Upsert(w, f) PROVE e.number <= latest'[e.pair]
  <2>1. w.event = {e} /\ w.event = {f} /\ Applied(f.pair, f.number)
    BY <1>5, <1>7 DEF Upsert
  <2>2. e = f
    BY <2>1
  <2> QED
    BY <2>1, <2>2, AppliedFacts
<1>8. ASSUME NEW w \in work, w.op \in {"check", "drop"}, w.event = {e}
      PROVE  e.number <= latest'[e.pair]
  <2>1. PICK f \in Event : w.event = {f} /\ f.number <= latest'[f.pair]
    BY <1>8, SoundStays DEF Sound, NoEvents
  <2>2. e = f
    BY <1>8, <2>1
  <2> QED
    BY <2>1, <2>2
<1>9. ASSUME NEW w \in work, HasSubscriptions(w) \/ Drop(w) PROVE e.number <= latest'[e.pair]
  <2>1. CASE Settle(w) /\ queued' = queued
    BY <1>5, <1>8, <1>9, <2>1 DEF HasSubscriptions, Drop
  <2>2. CASE Proceed(w, [w EXCEPT !.op = "drop"]) /\ queued' = queued
    <3> DEFINE next == [w EXCEPT !.op = "drop"]
    <3>1. Proceed(w, next) /\ next.event = w.event
      BY <2>2, ProceedDrop, Zenon
    <3> HIDE DEF next
    <3> QED
      BY <1>4, <2>2, <3>1
  <2> QED
    BY <1>9, <2>1, <2>2 DEF HasSubscriptions, Drop
<1>10. ASSUME NEW w \in work, Create(w) PROVE FALSE
  <2>1. queued' = queued
    BY <1>10 DEF Create
  <2>2. CASE w.event = NoEvents /\ Settle(w)
    BY <1>5, <2>1, <2>2 DEF NoEvents
  <2>3. CASE Proceed(w, [w EXCEPT !.op = "upsert", !.repo = nextRepo])
    <3> DEFINE next == [w EXCEPT !.op = "upsert", !.repo = nextRepo]
    <3>1. Proceed(w, next) /\ next.event = w.event
      BY <2>3, ProceedUpsert, Zenon
    <3> HIDE DEF next
    <3> QED
      BY <1>4, <2>1, <3>1
  <2> QED
    BY <1>10, <2>2, <2>3 DEF Create
<1>11. ASSUME NEW p \in Pairs, NEW kind \in Kinds, Emit(p, kind) PROVE FALSE
  BY <1>6, <1>11 DEF Emit
<1>12. ASSUME NEW f \in Event, Repeat(f) PROVE FALSE
  BY <1>6, <1>12 DEF Repeat
<1>13. ASSUME NEW c \in Resolvers, NEW name \in Names, Resolve(c, name) PROVE FALSE
  BY <1>6, <1>13 DEF Resolve, Look
<1>14. ASSUME NEW w \in work,
              CreateRefused(w) \/ CreateConflicts(w) \/ UpsertFails(w) \/ Abort(w)
       PROVE  FALSE
  BY <1>3, <1>14 DEF CreateRefused, CreateConflicts, UpsertFails, Abort
<1>15. ASSUME NEW name \in Names, GitHubChanges(name) PROVE FALSE
  BY <1>6, <1>15 DEF GitHubChanges
<1>16. CASE UNCHANGED vars
  BY <1>16 DEF vars
<1> QED
  BY <1>0, <1>1, <1>2, <1>7, <1>9, <1>10, <1>11, <1>12, <1>13, <1>14, <1>15, <1>16 DEF Next

-----------------------------------------------------------------------------
(* Rows.                                                                   *)

\* What the invariant says of a row and its repository.
LEMMA RowFacts ==
  ASSUME IInv, NEW s \in rows, NEW r \in repos, s.repo = r.id
  PROVE  /\ <<s.email, r.name>> \in Pairs /\ r.id \in 1..MaxRepoId
         /\ s.token \in 1..Len(log[<<s.email, r.name>>])
         /\ log[<<s.email, r.name>>][s.token] = "activated"
         /\ \A q \in repos : s.repo = q.id => q = r
<1>1. s.token \in 1..MaxEvents /\ r.id \in 1..MaxRepoId
  BY DEF IInv, TypeOK
<1>2. /\ <<s.email, r.name>> \in Pairs /\ s.token <= Len(log[<<s.email, r.name>>])
      /\ log[<<s.email, r.name>>][s.token] = "activated"
  BY DEF IInv, RowsAreActivated
<1>3. Len(log[<<s.email, r.name>>]) \in Nat
  BY <1>2, LogTypes
<1>4. \A q \in repos : s.repo = q.id => q = r
  BY DEF IInv, TypeOK
<1> QED
  BY <1>1, <1>2, <1>3, <1>4

\* The repository an Upsert finds is that of its event.
LEMMA UpsertFacts ==
  ASSUME IInv, NEW e \in Event, NEW w \in work, Upsert(w, e)
  PROVE  /\ e.number \in 1..Len(log[e.pair]) /\ log[e.pair][e.number] = "activated"
         /\ \E r \in repos : r.id = w.repo /\ r.name = e.pair[2]
         /\ \A r \in repos : r.id = w.repo <=> r.name = e.pair[2]
<1>1. w.op = "upsert" /\ w.event = {e} /\ Sound(w)
  BY DEF IInv, WorkIsSound, Upsert
<1>2. PICK f \in Event : w.event = {f} /\ w.name = f.pair[2] /\ Kind(f) = "activated"
  BY <1>1 DEF Sound, NoEvents
<1>3. e = f
  BY <1>1, <1>2
<1>4. e \in Pending
  BY <1>1 DEF Pending
<1>5. e.number \in 1..Len(log[e.pair])
  BY <1>4, EventFacts, LogTypes DEF IInv, EventsExist
<1>6. PICK r \in repos : r.id = w.repo
  BY DEF Upsert
<1>7. r.name = e.pair[2]
  BY <1>1, <1>2, <1>3, <1>6 DEF Sound
<1>8. \A q \in repos : q.id = w.repo <=> q.name = e.pair[2]
  BY <1>6, <1>7 DEF IInv, TypeOK
<1> QED
  BY <1>2, <1>3, <1>5, <1>6, <1>7, <1>8 DEF Kind

\* Where the rows after a step come from.
LEMMA RowsFrom ==
  ASSUME [Next]_vars, NEW s \in rows', s \notin rows
  PROVE  \E e \in Event, w \in work :
           Upsert(w, e) /\ s = [repo |-> w.repo, email |-> e.pair[1], token |-> e.number]
  BY StepKinds DEF Quiet, dataVars, Emits, Upserts, Unsubscribes, Creates, Drops, Emit, Upsert,
                   UnsubscriptionBegins, Create, Drop, DeleteRepository

LEMMA RowTypes ==
  ASSUME IInv, [Next]_vars
  PROVE  /\ rows' \subseteq [repo : 1..MaxRepoId, email : Emails, token : 1..MaxEvents]
         /\ \A s, q \in rows' : s.repo = q.repo /\ s.email = q.email => s = q
         /\ \A s \in rows' : \E r \in repos' : r.id = s.repo
<1>1. /\ rows \subseteq [repo : 1..MaxRepoId, email : Emails, token : 1..MaxEvents]
      /\ \A s, q \in rows : s.repo = q.repo /\ s.email = q.email => s = q
      /\ \A s \in rows : \E r \in repos : r.id = s.repo
      /\ repos \subseteq [id : 1..MaxRepoId, name : Names]
      /\ \A r, q \in repos : r.id = q.id \/ r.name = q.name => r = q
  BY DEF IInv, TypeOK
<1>2. CASE rows' \subseteq rows /\ repos \subseteq repos'
  BY <1>1, <1>2
<1>3. ASSUME NEW e \in Event, NEW w \in work, Upsert(w, e)
      PROVE  /\ rows' \subseteq [repo : 1..MaxRepoId, email : Emails, token : 1..MaxEvents]
             /\ \A s, q \in rows' : s.repo = q.repo /\ s.email = q.email => s = q
             /\ \A s \in rows' : \E r \in repos' : r.id = s.repo
  <2> DEFINE n == [repo |-> w.repo, email |-> e.pair[1], token |-> e.number]
  <2>1. repos' = repos /\ rows' = {s \in rows : s.repo # w.repo \/ s.email # e.pair[1]} \cup {n}
    BY <1>3 DEF Upsert
  <2>2. PICK r \in repos : r.id = w.repo
    BY <1>3, UpsertFacts
  <2>3. n.repo = w.repo /\ n.email = e.pair[1]
        /\ n \in [repo : 1..MaxRepoId, email : Emails, token : 1..MaxEvents]
    BY <1>1, <2>2, EventFacts
  <2> HIDE DEF n
  <2> QED
    BY <1>1, <2>1, <2>2, <2>3
<1>4. ASSUME NEW w \in work, Drop(w)
      PROVE  rows' \subseteq rows /\ \A s \in rows' : \E r \in repos' : r.id = s.repo
  <2>1. rows' = rows \ Subscribed(w.name) /\ repos' = repos \ GetByName(w.name)
    BY <1>4 DEF Drop, DeleteRepository
  <2> QED
    BY <1>1, <2>1 DEF Subscribed
<1>5. Upserts \/ Drops \/ (rows' \subseteq rows /\ repos \subseteq repos')
  BY StepKinds DEF Quiet, dataVars, Emits, Unsubscribes, Creates, Emit, UnsubscriptionBegins, Create
<1> QED
  BY <1>1, <1>2, <1>3, <1>4, <1>5 DEF Upserts, Drops

\* A row is not connected to a new repository.
LEMMA RowsKeepRepository ==
  ASSUME IInv, [Next]_vars, NEW s \in rows, NEW r \in repos', s.repo = r.id
  PROVE  r \in repos
<1>1. PICK q \in repos : q.id = s.repo
  BY DEF IInv, TypeOK
<1>2. q.id < nextRepo /\ nextRepo \in Nat /\ q.id \in Nat
  BY DEF IInv, IdsAreFresh, TypeOK
<1> QED
  BY <1>1, <1>2, ReposGrow

LEMMA NextActivated == ASSUME IInv, [Next]_vars PROVE RowsAreActivated'
<1> SUFFICES ASSUME NEW s \in rows', NEW r \in repos', s.repo = r.id
             PROVE  /\ <<s.email, r.name>> \in Pairs
                    /\ s.token <= Len(log'[<<s.email, r.name>>])
                    /\ log'[<<s.email, r.name>>][s.token] = "activated"
  BY DEF RowsAreActivated
<1> DEFINE p == <<s.email, r.name>>
<1>1. SUFFICES p \in Pairs /\ s.token \in 1..Len(log[p]) /\ log[p][s.token] = "activated"
  <2>1. ASSUME NEW q \in Pairs, NEW n \in 1..Len(log[q]), log[q][n] = "activated"
        PROVE  n <= Len(log'[q]) /\ log'[q][n] = "activated"
    <3>1. Len(log[q]) \in Nat /\ Len(log'[q]) \in Nat /\ Len(log[q]) <= Len(log'[q])
      BY LogTypes, LogGrows
    <3>2. log'[q][n] = log[q][n]
      BY LogGrows
    <3> QED
      BY <2>1, <3>1, <3>2
  <2> QED
    BY <2>1
<1>2. CASE s \in rows
  BY <1>2, RowsKeepRepository, RowFacts
<1>3. CASE s \notin rows
  <2>1. PICK e \in Event, w \in work :
          Upsert(w, e) /\ s = [repo |-> w.repo, email |-> e.pair[1], token |-> e.number]
    BY <1>3, RowsFrom
  <2>2. r \in repos /\ r.id = w.repo
    BY <2>1 DEF Upsert
  <2>3. r.name = e.pair[2]
    BY <2>1, <2>2, UpsertFacts
  <2>4. p = e.pair /\ e.pair \in Pairs /\ s.token = e.number
    BY <2>1, <2>3, EventFacts
  <2> QED
    BY <2>1, <2>4, UpsertFacts
<1> QED
  BY <1>2, <1>3

LEMMA DamagedTypes == ASSUME IInv, [Next]_vars PROVE damaged' \subseteq Pairs
<1>1. damaged \subseteq Pairs
  BY DEF IInv, TypeOK
<1>2. ASSUME NEW w \in work, Drop(w) PROVE damaged' \subseteq Pairs
  <2>1. damaged' = damaged \cup PairsOf(Subscribed(w.name), w.name)
    BY <1>2 DEF Drop
  <2>2. ASSUME NEW s \in Subscribed(w.name) PROVE <<s.email, w.name>> \in Pairs
    BY SubscribedFacts, RowFacts
  <2> QED
    BY <1>1, <2>1, <2>2 DEF PairsOf
<1>3. (\E e \in Event : Applied(e.pair, e.number)) \/ Drops \/ damaged' = damaged
  BY StepKinds DEF Quiet, historyVars, Emits, Upserts, Unsubscribes, Creates, Emit, Upsert,
                   UnsubscriptionBegins, Create
<1> QED
  BY <1>1, <1>2, <1>3, AppliedFacts DEF Drops

LEMMA NextLatest == ASSUME IInv, [Next]_vars PROVE RowsAreLatest'
<1> SUFFICES ASSUME NEW s \in rows', NEW r \in repos', s.repo = r.id,
                    <<s.email, r.name>> \notin damaged'
             PROVE  s.token = latest'[<<s.email, r.name>>]
  BY DEF RowsAreLatest
<1> DEFINE p == <<s.email, r.name>>
<1>1. ASSUME s \in rows, p \notin damaged PROVE p \in Pairs /\ s.token = latest[p] /\ r \in repos
  <2>1. r \in repos
    BY <1>1, RowsKeepRepository
  <2> QED
    BY <1>1, <2>1, RowFacts DEF IInv, RowsAreLatest
<1>2. CASE UNCHANGED <<latest, damaged>> /\ s \in rows
  BY <1>1, <1>2
<1>3. ASSUME NEW e \in Event, NEW w \in work, Upsert(w, e) PROVE s.token = latest'[p]
  <2>1. /\ rows' = {q \in rows : q.repo # w.repo \/ q.email # e.pair[1]}
                   \cup {[repo |-> w.repo, email |-> e.pair[1], token |-> e.number]}
        /\ repos' = repos /\ Applied(e.pair, e.number)
    BY <1>3 DEF Upsert
  <2>2. CASE p = e.pair
    <3>1. s.email = e.pair[1] /\ r.name = e.pair[2] /\ s.repo = w.repo
      BY <1>3, <2>1, <2>2, UpsertFacts
    <3>2. s.token = e.number
      BY <2>1, <3>1
    <3> QED
      BY <2>1, <2>2, <3>2, AppliedFacts
  <2>3. CASE p # e.pair
    <3>1. s \in rows
      <4>1. CASE s = [repo |-> w.repo, email |-> e.pair[1], token |-> e.number]
        <5>1. s.email = e.pair[1] /\ r.name = e.pair[2]
          BY <1>3, <2>1, <4>1, UpsertFacts
        <5> QED
          BY <2>3, <5>1, EventFacts
      <4> QED
        BY <2>1, <4>1
    <3>2. p \in Pairs
      BY <2>1, <3>1, RowFacts
    <3>3. latest'[p] = latest[p] /\ p \notin damaged
      BY <2>1, <2>3, <3>2, AppliedFacts
    <3> QED
      BY <1>1, <3>1, <3>3
  <2> QED
    BY <2>2, <2>3
<1>4. ASSUME NEW e \in Event, NEW c \in Unsubscribers, UnsubscriptionBegins(c, e)
      PROVE  s.token = latest'[p]
  <2>1. /\ rows' = rows \ {q \in Subscribed(e.pair[2]) : q.email = e.pair[1]}
        /\ repos' = repos /\ Applied(e.pair, e.number)
    BY <1>4 DEF UnsubscriptionBegins
  <2>2. s \in rows /\ p \in Pairs
    BY <2>1, RowFacts
  <2>3. p # e.pair
    BY <2>1, <2>2, SubscribedFacts
  <2>4. latest'[p] = latest[p] /\ p \notin damaged
    BY <2>1, <2>2, <2>3, AppliedFacts
  <2> QED
    BY <1>1, <2>2, <2>4
<1>5. ASSUME NEW w \in work, Drop(w) PROVE s.token = latest'[p]
  <2>1. rows' \subseteq rows /\ damaged \subseteq damaged' /\ latest' = latest
    BY <1>5 DEF Drop, DeleteRepository
  <2> QED
    BY <1>1, <2>1
<1>6. Upserts \/ Unsubscribes \/ Drops \/ (UNCHANGED <<latest, damaged>> /\ s \in rows)
  BY StepKinds DEF Quiet, dataVars, historyVars, Emits, Creates, Emit, Create
<1> QED
  BY <1>2, <1>3, <1>4, <1>5, <1>6 DEF Upserts, Unsubscribes, Drops

LEMMA NextTracked == ASSUME IInv, [Next]_vars PROVE LatestIsTracked'
<1> SUFFICES ASSUME NEW p \in Pairs, p \notin damaged', latest'[p] > 0,
                    log'[p][latest'[p]] = "activated"
             PROVE  \E s \in rows', r \in repos' : s.repo = r.id /\ s.email = p[1] /\ r.name = p[2]
  BY DEF LatestIsTracked
<1>1. ASSUME p \notin damaged, latest'[p] = latest[p]
      PROVE  \E s \in rows, r \in repos : s.repo = r.id /\ s.email = p[1] /\ r.name = p[2]
  <2>1. latest[p] \in 1..Len(log[p])
    BY <1>1, LogTypes
  <2>2. log[p][latest[p]] = "activated"
    BY <1>1, <2>1, LogGrows
  <2> QED
    BY <1>1, <2>1, <2>2 DEF IInv, LatestIsTracked
<1>2. CASE UNCHANGED <<latest, damaged>> /\ rows \subseteq rows' /\ repos \subseteq repos'
  BY <1>1, <1>2
<1>3. ASSUME NEW e \in Event, NEW w \in work, Upsert(w, e)
      PROVE  \E s \in rows', r \in repos' : s.repo = r.id /\ s.email = p[1] /\ r.name = p[2]
  <2> DEFINE n == [repo |-> w.repo, email |-> e.pair[1], token |-> e.number]
  <2>1. /\ rows' = {q \in rows : q.repo # w.repo \/ q.email # e.pair[1]} \cup {n}
        /\ repos' = repos /\ Applied(e.pair, e.number)
    BY <1>3 DEF Upsert
  <2>2. CASE p = e.pair
    <3>1. PICK r \in repos : r.id = w.repo /\ r.name = e.pair[2]
      BY <1>3, UpsertFacts
    <3>2. n \in rows' /\ n.repo = r.id /\ n.email = p[1]
      BY <2>1, <2>2, <3>1
    <3> QED
      BY <2>1, <2>2, <3>1, <3>2
  <2>3. CASE p # e.pair
    <3>1. latest'[p] = latest[p] /\ p \notin damaged
      BY <2>1, <2>3, AppliedFacts
    <3>2. PICK s \in rows, r \in repos : s.repo = r.id /\ s.email = p[1] /\ r.name = p[2]
      BY <1>1, <3>1
    <3>3. s.repo # w.repo \/ s.email # e.pair[1]
      BY <1>3, <2>3, <3>2, UpsertFacts, EventFacts
    <3> QED
      BY <2>1, <3>2, <3>3
  <2> QED
    BY <2>2, <2>3
<1>4. ASSUME NEW e \in Event, NEW c \in Unsubscribers, UnsubscriptionBegins(c, e)
      PROVE  \E s \in rows', r \in repos' : s.repo = r.id /\ s.email = p[1] /\ r.name = p[2]
  <2>1. /\ rows' = rows \ {q \in Subscribed(e.pair[2]) : q.email = e.pair[1]}
        /\ repos' = repos /\ log' = log /\ Applied(e.pair, e.number)
        /\ log[e.pair][e.number] = "unsubscribed"
    BY <1>4 DEF UnsubscriptionBegins, Kind
  <2>2. p # e.pair
    BY <2>1, AppliedFacts
  <2>3. latest'[p] = latest[p] /\ p \notin damaged
    BY <2>1, <2>2, AppliedFacts
  <2>4. PICK s \in rows, r \in repos : s.repo = r.id /\ s.email = p[1] /\ r.name = p[2]
    BY <1>1, <2>3
  <2>5. ~(s \in Subscribed(e.pair[2]) /\ s.email = e.pair[1])
    <3> SUFFICES ASSUME s \in Subscribed(e.pair[2]), s.email = e.pair[1] PROVE FALSE
      OBVIOUS
    <3>1. PICK q \in repos : q.name = e.pair[2] /\ s.repo = q.id
      BY SubscribedFacts
    <3>2. q = r
      BY <2>4, <3>1, RowFacts
    <3> QED
      BY <2>2, <2>4, <3>1, <3>2, EventFacts
  <2> QED
    BY <2>1, <2>4, <2>5
<1>5. ASSUME NEW w \in work, Drop(w)
      PROVE  \E s \in rows', r \in repos' : s.repo = r.id /\ s.email = p[1] /\ r.name = p[2]
  <2>1. /\ rows' = rows \ Subscribed(w.name) /\ repos' = repos \ GetByName(w.name)
        /\ damaged' = damaged \cup PairsOf(Subscribed(w.name), w.name) /\ latest' = latest
    BY <1>5 DEF Drop, DeleteRepository
  <2>2. PICK s \in rows, r \in repos : s.repo = r.id /\ s.email = p[1] /\ r.name = p[2]
    BY <1>1, <2>1
  <2>3. r.name # w.name
    <3> SUFFICES ASSUME r.name = w.name PROVE FALSE
      OBVIOUS
    <3>1. s \in Subscribed(w.name)
      BY <2>2, SubscribedFacts
    <3>2. <<s.email, w.name>> \in damaged'
      BY <2>1, <3>1 DEF PairsOf
    <3> QED
      BY <2>2, <3>2
  <2>4. s \notin Subscribed(w.name)
    BY <2>2, <2>3, SubscribedFacts, RowFacts
  <2> QED
    BY <2>1, <2>2, <2>3, <2>4 DEF GetByName
<1>6. \/ Upserts \/ Unsubscribes \/ Drops
      \/ UNCHANGED <<latest, damaged>> /\ rows \subseteq rows' /\ repos \subseteq repos'
  BY StepKinds DEF Quiet, dataVars, historyVars, Emits, Creates, Emit, Create
<1> QED
  BY <1>2, <1>3, <1>4, <1>5, <1>6 DEF Upserts, Unsubscribes, Drops

-----------------------------------------------------------------------------
(* The theorems.                                                           *)

LEMMA NextTypes == ASSUME IInv, [Next]_vars PROVE TypeOK'
<1>1. work' \subseteq Handling
  BY NewWork, HandlingFacts
<1>2. repeats' \in 0..MaxRepeats
  <2>1. repeats \in 0..MaxRepeats
    BY DEF IInv, TypeOK
  <2>2. ASSUME NEW e \in Event, Repeat(e) PROVE repeats' \in 0..MaxRepeats
    BY <2>1, <2>2 DEF Repeat
  <2>3. (\E e \in Event : Repeat(e)) \/ repeats' = repeats
    BY DEF Next, Emit, ActivationBegins, UnsubscriptionBegins, Upsert, Resolve, Create,
           CreateRefused, CreateConflicts, UpsertFails, HasSubscriptions, Drop, Abort,
           GitHubChanges, vars
  <2> QED
    BY <2>1, <2>2, <2>3
<1>3. unanswered' \subseteq Names
  <2>1. unanswered \subseteq Names
    BY DEF IInv, TypeOK
  <2>2. (\E name \in Names : GitHubChanges(name)) \/ unanswered' = unanswered
    BY DEF Next, Emit, Repeat, ActivationBegins, UnsubscriptionBegins, Upsert, Resolve, Create,
           CreateRefused, CreateConflicts, UpsertFails, HasSubscriptions, Drop, Abort, vars
  <2> QED
    BY <2>1, <2>2 DEF GitHubChanges
<1> QED
  BY <1>1, <1>2, <1>3, LogGrows, QueuedTypes, ReposGrow, RowTypes, LatestGrows, DamagedTypes DEF TypeOK

LEMMA NextPending == ASSUME IInv, [Next]_vars PROVE EventsExist' /\ NothingForgotten'
<1>0. \A p \in Pairs : Len(log[p]) \in Nat /\ Len(log'[p]) \in Nat /\ Len(log[p]) <= Len(log'[p])
  BY LogTypes, LogGrows
<1>1. ASSUME NEW e \in Pending' PROVE e.number <= Len(log'[e.pair])
  <2>1. e \in Event
    BY QueuedTypes, NewWork, HandlingFacts DEF Pending, Handling, NoEvents
  <2>2. CASE e.number <= Len(log[e.pair])
    BY <1>0, <2>1, <2>2, EventFacts
  <2>3. CASE e \in Pending
    BY <2>2, <2>3 DEF IInv, EventsExist
  <2>4. ASSUME NEW p \in Pairs, NEW kind \in Kinds, Emit(p, kind)
        PROVE  e.number <= Len(log'[e.pair]) \/ e \in Pending
    <3>1. CASE e = [pair |-> p, number |-> Len(log[p]) + 1]
      <4>1. log' = [log EXCEPT ![p] = Append(log[p], kind)]
        BY <2>4 DEF Emit
      <4>2. Len(log'[p]) = Len(log[p]) + 1
        BY <4>1, LogTypes DEF IInv, TypeOK
      <4> QED
        BY <1>0, <3>1, <4>2
    <3>2. CASE e # [pair |-> p, number |-> Len(log[p]) + 1]
      BY <2>4, <3>2 DEF Emit, Pending
    <3> QED
      BY <3>1, <3>2
  <2>5. ASSUME NEW f \in Event, Repeat(f) PROVE e.number <= Len(log[e.pair]) \/ e \in Pending
    BY <2>5 DEF Repeat, Pending
  <2>6. ASSUME ~Emits, ~(\E f \in Event : Repeat(f)) PROVE e \in Pending
    <3>1. \A f \in queued' : f \in Pending
      BY <2>6 DEF Next, Emits, ActivationBegins, UnsubscriptionBegins, Upsert, Resolve, Create,
                  CreateRefused, CreateConflicts, UpsertFails, HasSubscriptions, Drop, Abort,
                  GitHubChanges, vars, GiveBack, Pending
    <3>2. ASSUME NEW y \in work', y \notin work, y.event # NoEvents
          PROVE  y.event \subseteq Pending
      <4>1. ASSUME NEW f \in Event, NEW c \in Activators, ActivationBegins(c, f)
            PROVE  y.event \subseteq Pending
        <5>1. f.pair[2] \in Names /\ f \in queued /\ Look(c, f.pair[2], {f})
          BY <4>1, EventFacts DEF ActivationBegins
        <5>2. y.event = {f}
          BY <3>2, <5>1, LookFacts
        <5> QED
          BY <5>1, <5>2 DEF Pending
      <4>2. ASSUME NEW f \in Event, NEW c \in Unsubscribers, UnsubscriptionBegins(c, f)
            PROVE  y.event \subseteq Pending
        BY <3>2, <4>2 DEF UnsubscriptionBegins, Pending
      <4>3. ASSUME NEW w \in work, HasSubscriptions(w) PROVE y.event \subseteq Pending
        <5>1. y = [w EXCEPT !.op = "drop"]
          BY <3>2, <4>3 DEF HasSubscriptions, Settle, Proceed
        <5>2. y.event = w.event
          BY <5>1, ProceedDrop, Zenon
        <5> QED
          BY <5>2 DEF Pending
      <4>4. ASSUME NEW w \in work, Create(w) PROVE y.event \subseteq Pending
        <5>1. y = [w EXCEPT !.op = "upsert", !.repo = nextRepo]
          BY <3>2, <4>4 DEF Create, Settle, Proceed
        <5>2. y.event = w.event
          BY <5>1, ProceedUpsert, Zenon
        <5> QED
          BY <5>2 DEF Pending
      <4>5. ASSUME NEW c \in Resolvers, NEW name \in Names, Resolve(c, name)
            PROVE  FALSE
        <5>1. Look(c, name, NoEvents)
          BY <4>5 DEF Resolve
        <5> QED
          BY <3>2, <5>1, LookFacts
      <4>6. ASSUME NEW w \in work,
                   CreateRefused(w) \/ CreateConflicts(w) \/ UpsertFails(w) \/ Drop(w) \/ Abort(w)
            PROVE  FALSE
        BY <3>2, <4>6 DEF CreateRefused, CreateConflicts, UpsertFails, Drop, Abort, GiveBack, Settle
      <4>7. ASSUME NEW w \in work, NEW f \in Event, Upsert(w, f) PROVE FALSE
        BY <3>2, <4>7 DEF Upsert, Settle
      <4>8. CASE UNCHANGED vars \/ \E name \in Names : GitHubChanges(name)
        BY <3>2, <4>8 DEF vars, GitHubChanges
      <4> QED
        BY <2>6, <4>1, <4>2, <4>3, <4>4, <4>5, <4>6, <4>7, <4>8 DEF Next, Emits
    <3> QED
      BY <3>1, <3>2 DEF Pending, NoEvents
  <2> QED
    BY <2>2, <2>3, <2>4, <2>5, <2>6 DEF Emits
<1>2. ASSUME NEW p \in Pairs PROVE latest'[p] <= Len(log'[p])
  <2>1. CASE latest' = latest
    BY <1>0, <2>1, LogTypes
  <2>2. ASSUME NEW e \in Event, NEW w \in work, Upsert(w, e) PROVE latest'[p] <= Len(log'[p])
    BY <1>0, <2>2, UpsertFacts, AppliedFacts, LogTypes DEF Upsert
  <2>3. ASSUME NEW e \in Event, NEW c \in Unsubscribers, UnsubscriptionBegins(c, e)
        PROVE  latest'[p] <= Len(log'[p])
    <3>1. e \in Pending /\ Applied(e.pair, e.number)
      BY <2>3 DEF UnsubscriptionBegins, Pending
    <3>2. e.number <= Len(log[e.pair])
      BY <3>1 DEF IInv, EventsExist
    <3>3. log' = log
      BY <2>3 DEF UnsubscriptionBegins
    <3>4. latest'[p] \in {latest[p], IF p = e.pair THEN e.number ELSE latest[p]}
      BY <3>1, AppliedFacts
    <3> QED
      BY <3>2, <3>3, <3>4, LogTypes
  <2>4. Upserts \/ Unsubscribes \/ latest' = latest
    BY StepKinds DEF Quiet, historyVars, Emits, Creates, Drops, Emit, Create, Drop
  <2> QED
    BY <2>1, <2>2, <2>3, <2>4 DEF Upserts, Unsubscribes
<1>3. ASSUME NEW p \in Pairs, NEW n \in 1..Len(log'[p])
      PROVE  [pair |-> p, number |-> n] \in Pending' \/ n <= latest'[p]
  <2>1. CASE n \in 1..Len(log[p])
    <3>1. CASE [pair |-> p, number |-> n] \in Pending
      BY <3>1, PendingStays
    <3>2. CASE n <= latest[p]
      BY <2>1, <3>2, LogTypes, LatestGrows
    <3> QED
      BY <2>1, <3>1, <3>2 DEF IInv, NothingForgotten
  <2>2. CASE n \notin 1..Len(log[p])
    <3>1. log' # log
      BY <2>2
    <3>2. Emits
      BY <3>1, StepKinds DEF Quiet, Upserts, Unsubscribes, Creates, Drops, Upsert,
                             UnsubscriptionBegins, Create, Drop
    <3>3. PICK q \in Pairs, kind \in Kinds : Emit(q, kind)
      BY <3>2 DEF Emits
    <3>4. log' = [log EXCEPT ![q] = Append(log[q], kind)]
      BY <3>3 DEF Emit
    <3>5. q = p /\ Len(log'[p]) = Len(log[p]) + 1
      <4>1. log \in [Pairs -> Seq(Kinds)]
        BY DEF IInv, TypeOK
      <4>2. q # p => log'[p] = log[p]
        BY <3>4, <4>1
      <4>3. Len(Append(log[p], kind)) = Len(log[p]) + 1
        BY <4>1
      <4> QED
        BY <2>2, <3>4, <4>1, <4>2, <4>3
    <3>6. n = Len(log[p]) + 1
      BY <1>0, <2>2, <3>5
    <3> QED
      BY <3>3, <3>5, <3>6 DEF Emit, Pending
  <2> QED
    BY <2>1, <2>2
<1> QED
  BY <1>1, <1>2, <1>3 DEF EventsExist, NothingForgotten

LEMMA InitIInv == Init => IInv
<1> SUFFICES ASSUME Init PROVE IInv
  OBVIOUS
<1>1. /\ log \in [Pairs -> Seq(Kinds)] /\ latest \in [Pairs -> 0..MaxEvents]
      /\ \A p \in Pairs : Len(log[p]) = 0 /\ latest[p] = 0
  BY DEF Init
<1>2. 1 \in 1..MaxRepoId /\ 0 \in 0..MaxRepeats
  OBVIOUS
<1>3. TypeOK
  BY <1>1, <1>2 DEF Init, TypeOK
<1>4. EventsExist
  BY <1>1 DEF Init, EventsExist, Pending
<1>5. WorkIsSound /\ IdsAreFresh /\ RowsAreActivated /\ RowsAreLatest
  BY DEF Init, WorkIsSound, IdsAreFresh, RowsAreActivated, RowsAreLatest
<1>6. NothingForgotten /\ LatestIsTracked
  BY <1>1 DEF NothingForgotten, LatestIsTracked
<1> QED
  BY <1>3, <1>4, <1>5, <1>6 DEF IInv

LEMMA NextIInv == IInv /\ [Next]_vars => IInv'
<1> SUFFICES ASSUME IInv, [Next]_vars PROVE IInv'
  OBVIOUS
<1>1. WorkIsSound'
  BY NewWork, SoundStays DEF WorkIsSound
<1>2. IdsAreFresh'
  BY ReposGrow DEF IdsAreFresh
<1> QED
  BY <1>1, <1>2, NextTypes, NextPending, NextActivated, NextLatest, NextTracked DEF IInv

(* For any pairs, consumers, callers and events: variables keep their      *)
(* types, handlers stay sound, no event is forgotten, and the rows of an   *)
(* undamaged pair are those of its latest event.                           *)
THEOREM InvariantHolds == Spec => []IInv
<1> QED
  BY InitIInv, NextIInv, PTL DEF Spec

(* Every variable in range, no two repositories with one name, no two rows *)
(* for one subscriber, no row without its repository.                      *)
THEOREM TypesHold == Spec => []TypeOK
<1>1. IInv => TypeOK
  BY DEF IInv
<1> QED
  BY <1>1, InvariantHolds, PTL

(* The consumers' requeueing, conflicts in Create and failing foreign keys *)
(* never lead an Upsert to another repository, however long a handler      *)
(* holds the id it looked up.                                              *)
THEOREM NobodyElseIsNotified == Spec => []RowsAreActivated
<1>1. IInv => RowsAreActivated
  BY DEF IInv
<1> QED
  BY <1>1, InvariantHolds, PTL

LEMMA IInvConverges == IInv => ReplicaConverges
<1> SUFFICES ASSUME IInv, NEW p \in Pairs, p \notin damaged, \A e \in Pending : e.pair # p
             PROVE  Tracked(p) = IF Confirmed(p) = 0 THEN {} ELSE {Confirmed(p)}
  BY DEF ReplicaConverges
<1>1. latest[p] = Len(log[p]) /\ Len(log[p]) \in Nat
  <2>1. latest[p] \in 0..MaxEvents /\ Len(log[p]) \in Nat /\ latest[p] <= Len(log[p])
    BY LogTypes
  <2>2. CASE Len(log[p]) = 0
    BY <2>1, <2>2
  <2>3. CASE Len(log[p]) > 0
    <3>1. Len(log[p]) \in 1..Len(log[p]) /\ [pair |-> p, number |-> Len(log[p])] \notin Pending
      BY <2>1, <2>3
    <3>2. Len(log[p]) <= latest[p]
      BY <3>1 DEF IInv, NothingForgotten
    <3> QED
      BY <2>1, <3>2
  <2> QED
    BY <2>1, <2>2, <2>3
<1>2. p = <<p[1], p[2]>>
  OBVIOUS
<1>3. ASSUME NEW t \in Tracked(p)
      PROVE  t = latest[p] /\ t > 0 /\ log[p][t] = "activated"
  <2>1. PICK s \in rows, r \in repos : s.repo = r.id /\ r.name = p[2] /\ s.email = p[1] /\ s.token = t
    BY SubscribedFacts DEF Tracked
  <2>2. <<s.email, r.name>> = p
    BY <1>2, <2>1
  <2>3. t \in 1..Len(log[p]) /\ log[p][t] = "activated"
    BY <2>1, <2>2, RowFacts
  <2>4. t = latest[p]
    BY <2>1, <2>2 DEF IInv, RowsAreLatest
  <2> QED
    BY <2>3, <2>4
<1>4. ASSUME latest[p] > 0, log[p][latest[p]] = "activated"
      PROVE  Tracked(p) # {}
  <2>1. PICK s \in rows, r \in repos : s.repo = r.id /\ s.email = p[1] /\ r.name = p[2]
    BY <1>4 DEF IInv, LatestIsTracked
  <2>2. s \in {q \in Subscribed(p[2]) : q.email = p[1]}
    BY <2>1, SubscribedFacts
  <2> QED
    BY <2>2 DEF Tracked
<1>5. CASE Confirmed(p) = 0
  <2>1. ~(latest[p] > 0 /\ log[p][latest[p]] = "activated")
    BY <1>1, <1>5 DEF Confirmed
  <2>2. Tracked(p) = {}
    BY <1>3, <2>1
  <2> QED
    BY <1>5, <2>2
<1>6. CASE Confirmed(p) # 0
  <2>1. latest[p] > 0 /\ log[p][latest[p]] = "activated" /\ Confirmed(p) = latest[p]
    BY <1>1, <1>6 DEF Confirmed
  <2>2. Tracked(p) = {latest[p]}
    BY <1>3, <1>4, <2>1
  <2> QED
    BY <1>6, <2>1, <2>2
<1> QED
  BY <1>5, <1>6

(* Nothing loses or invents a subscriber: a pair without an event under    *)
(* way, neither overtaken nor hit by a cascade, is tracked exactly as the  *)
(* subscription service has it.                                            *)
THEOREM ReplicaFollows == Spec => []ReplicaConverges
<1> QED
  BY InvariantHolds, IInvConverges, PTL
=============================================================================
