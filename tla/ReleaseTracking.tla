--------------------------- MODULE ReleaseTracking ---------------------------
(***************************************************************************)
(* The release scanner of the tracking service, for one repository: every  *)
(* instance runs ProcessReleases on a timer, asks GitHub through a cache   *)
(* that all instances share, and records a new tag together with one       *)
(* command per subscriber in a transaction.  Beside it the subscriber list *)
(* changes, and GetOrCreate registers the repository, asking the same      *)
(* cache for its first tag.  The subscription service keeps a copy of the  *)
(* tag.  Releases are numbered as they are published.                      *)
(***************************************************************************)
EXTENDS Naturals

CONSTANTS
  Emails,   \* possible subscribers
  Scanners, \* ProcessReleases loops, one per instance
  Callers,  \* goroutines that can run GetOrCreate concurrently
  Faults,   \* subset of {"redis", "report"}
  MaxTag,   \* bound: releases
  MaxRepoId,\* bound: repository ids the sequence hands out
  MaxAborts,\* bound: errors and crashes
  MaxTold   \* bound: commands counted per subscriber and release

ASSUME TrackingAssumption ==
  /\ MaxTag \in Nat \ {0} /\ MaxRepoId \in Nat \ {0}
  /\ MaxAborts \in Nat /\ MaxTold \in Nat \ {0}

VARIABLES
  release,  \* GitHub's latest release
  cache,    \* key "release:<repository>" in Redis (0: no such key)
  repo,     \* the repository's row: a set of at most one
  nextRepo, \* next value of repositories_id_seq
  rows,     \* rows of subscriptions; since: the tag recorded by then (history)
  dropping, \* an unsubscription found no subscriber left
  active,   \* scans and GetOrCreate calls between two of their steps
  told,     \* told[e][t]: commands queued that tell e of t (MaxTold: or more)
  copy,     \* last_seen_tag in the subscription service (0: no row yet)
  astray,   \* the copy missed its tag's last change (history)
  aborts    \* errors and crashes so far (bound)

gitVars  == <<release, cache>>
listVars == <<nextRepo, rows, dropping>>
copyVars == <<copy, astray>>
vars == <<gitVars, repo, listVars, active, told, copyVars, aborts>>

Tags      == 1..MaxTag
Processes == Scanners \cup Callers

\* A scan (id # 0) or a GetOrCreate call (id = 0) in progress.
Activity == [by : Processes, op : {"check", "store", "subscribers", "commit", "report", "create", "answer"},
             id : 0..MaxRepoId, seen : 0..MaxTag, tag : 0..MaxTag, subs : SUBSET Emails]

Init ==
  /\ release = 1 /\ cache = 0
  /\ repo = {} /\ nextRepo = 1 /\ rows = {} /\ dropping = FALSE
  /\ active = {}
  /\ told = [e \in Emails |-> [t \in Tags |-> 0]]
  /\ copy = 0 /\ astray = FALSE /\ aborts = 0

Idle(c) == \A x \in active : x.by # c
Replace(x, next) == active' = (active \ {x}) \cup {next}
Finish(x) == active' = active \ {x}

-----------------------------------------------------------------------------
(* GitHub and Redis *)

\* A new release is published.
NewRelease ==
  /\ release < MaxTag /\ release' = release + 1
  /\ UNCHANGED <<cache, repo, listVars, active, told, copyVars, aborts>>

\* The key's five minutes are over.
Expire ==
  /\ cache # 0 /\ cache' = 0
  /\ UNCHANGED <<release, repo, listVars, active, told, copyVars, aborts>>

\* CheckForUpdates compares with the tag GetAll read; GetOrCreate goes on to
\* create the row.
Decide(x, t) ==
  IF x.id = 0 THEN Replace(x, [x EXCEPT !.op = "create", !.tag = t])
  ELSE IF t = x.seen THEN Finish(x)
  ELSE Replace(x, [x EXCEPT !.op = "subscribers", !.tag = t, !.seen = 0])

\* GetLatestRelease finds the key.
CacheHit(x) ==
  /\ x.op = "check" /\ cache # 0
  /\ Decide(x, cache)
  /\ UNCHANGED <<gitVars, repo, listVars, told, copyVars, aborts>>

\* It does not, or Redis fails: GitHub is asked.
Fetch(x) ==
  /\ x.op = "check" /\ (cache = 0 \/ "redis" \in Faults)
  /\ Replace(x, [x EXCEPT !.op = "store", !.tag = release])
  /\ UNCHANGED <<gitVars, repo, listVars, told, copyVars, aborts>>

\* The answer is cached and returned, whatever others cached meanwhile.
Store(x) ==
  /\ x.op = "store"
  /\ cache' = x.tag
  /\ Decide(x, x.tag)
  /\ UNCHANGED <<release, repo, listVars, told, copyVars, aborts>>

-----------------------------------------------------------------------------
(* ReleaseProcessor *)

\* GetAll: repositories with subscribers.
Scan(s) ==
  /\ Idle(s) /\ rows # {}
  /\ \E r \in repo :
       active' = active \cup {[by |-> s, op |-> "check", id |-> r.id, seen |-> r.tag,
                               tag |-> 0, subs |-> {}]}
  /\ UNCHANGED <<gitVars, repo, listVars, told, copyVars, aborts>>

\* Mutant of ReadSubscribers: only the first row is scanned.
ReadFirstSubscriber(x) ==
  /\ x.op = "subscribers"
  /\ \E subs \in {{}} \cup {{q.email} : q \in rows} :
       /\ subs = {} => rows = {} \/ \A r \in repo : r.id # x.id
       /\ Replace(x, [x EXCEPT !.op = "commit", !.subs = subs])
  /\ UNCHANGED <<gitVars, repo, listVars, told, copyVars, aborts>>

\* GetByRepoID, before the transaction.
ReadSubscribers(x) ==
  /\ x.op = "subscribers"
  /\ Replace(x, [x EXCEPT !.op = "commit",
       !.subs = IF \E r \in repo : r.id = x.id THEN {q.email : q \in rows} ELSE {}])
  /\ UNCHANGED <<gitVars, repo, listVars, told, copyVars, aborts>>

\* One command each for the subscribers read.
Tell(subs, t) ==
  [e \in Emails |-> [told[e] EXCEPT ![t] = IF e \in subs /\ @ < MaxTold THEN @ + 1 ELSE @]]

\* Mutant of CommitRelease: the tag is left alone.
CommitCommandsOnly(x) ==
  /\ x.op = "commit" /\ \E r \in repo : r.id = x.id
  /\ told' = Tell(x.subs, x.tag)
  /\ Replace(x, [x EXCEPT !.op = "report", !.subs = {}])
  /\ UNCHANGED <<gitVars, repo, listVars, copyVars, aborts>>

\* Mutant of CommitRelease: no transaction, the tag is there before the commands.
CommitTagFirst(x) ==
  /\ x.op = "commit" /\ \E r \in repo : r.id = x.id
  /\ repo' = {[id |-> x.id, tag |-> x.tag]}
  /\ IF repo' # repo THEN UNCHANGED <<active, told>>
     ELSE /\ told' = Tell(x.subs, x.tag)
          /\ Replace(x, [x EXCEPT !.op = "report", !.subs = {}])
  /\ UNCHANGED <<gitVars, listVars, copyVars, aborts>>

\* Mutant of CommitRelease: the new tag is not reported.
CommitUnreported(x) ==
  /\ x.op = "commit" /\ \E r \in repo : r.id = x.id
  /\ repo' = {[id |-> x.id, tag |-> x.tag]}
  /\ told' = Tell(x.subs, x.tag)
  /\ Finish(x)
  /\ UNCHANGED <<gitVars, listVars, copyVars, aborts>>

\* commitRelease: the tag and a command for every subscriber read.
CommitRelease(x) ==
  /\ x.op = "commit" /\ \E r \in repo : r.id = x.id
  /\ repo' = {[id |-> x.id, tag |-> x.tag]}
  /\ told' = Tell(x.subs, x.tag)
  /\ Replace(x, [x EXCEPT !.op = "report", !.subs = {}])
  /\ UNCHANGED <<gitVars, listVars, copyVars, aborts>>

\* The repository was deleted meanwhile: the update hits no row, and the
\* transaction is rolled back.
CommitFails(x) ==
  /\ x.op = "commit" /\ \A r \in repo : r.id # x.id
  /\ Finish(x)
  /\ UNCHANGED <<gitVars, repo, listVars, told, copyVars, aborts>>

\* Has the repository another tag by now than the one x knows?
Outdated(x) == repo # {[id |-> x.id, tag |-> x.tag]}

\* The tag is reported once, and only updates the copy; a failure is logged.
Report(x) ==
  /\ x.op = "report"
  /\ Finish(x)
  /\ \/ /\ copy # 0
        /\ copy' = x.tag /\ astray' = Outdated(x)
     \/ /\ copy = 0 \/ "report" \in Faults
        /\ astray' = TRUE /\ UNCHANGED copy
  /\ UNCHANGED <<gitVars, repo, listVars, told, aborts>>

\* An error before the commit, or a crash anywhere.
Abort(x) ==
  /\ aborts < MaxAborts /\ aborts' = aborts + 1
  /\ Finish(x)
  /\ astray' = (astray \/ x.op = "report")
  /\ UNCHANGED <<gitVars, repo, listVars, told, copy>>

-----------------------------------------------------------------------------
(* The list of subscribers *)

Call(c, op, id, t) ==
  [by |-> c, op |-> op, id |-> id, seen |-> 0, tag |-> t, subs |-> {}]

\* GetOrCreate finds the repository, or goes on to ask GitHub.  The tag it
\* returns matters until the subscription service has a row of its own.
Lookup(c) ==
  /\ Idle(c)
  /\ \/ repo = {} /\ active' = active \cup {Call(c, "check", 0, 0)}
     \/ copy = 0 /\ \E r \in repo : active' = active \cup {Call(c, "answer", r.id, r.tag)}
  /\ UNCHANGED <<gitVars, repo, listVars, told, copyVars, aborts>>

\* It creates the row, unless a faster caller has.  A new row's tag is
\* reported to nobody.
Create(x) ==
  /\ x.op = "create"
  /\ \/ /\ repo = {} /\ nextRepo < MaxRepoId
        /\ repo' = {[id |-> nextRepo, tag |-> x.tag]}
        /\ nextRepo' = nextRepo + 1
        /\ IF copy = 0 THEN Replace(x, [x EXCEPT !.op = "answer", !.id = nextRepo]) ELSE Finish(x)
        /\ astray' = (copy \notin {0, x.tag})
     \/ /\ repo # {} /\ Finish(x) /\ UNCHANGED <<repo, nextRepo, astray>>
  /\ UNCHANGED <<gitVars, rows, dropping, told, copy, aborts>>

\* A caller from the subscription service inserts its own row, or leaves the
\* one it has alone.  The consumer's caller has no use for the tag.
Answer(x) ==
  /\ x.op = "answer"
  /\ Finish(x)
  /\ \/ copy = 0 /\ copy' = x.tag /\ astray' = Outdated(x)
     \/ UNCHANGED copyVars
  /\ UNCHANGED <<gitVars, repo, listVars, told, aborts>>

\* Is a scan between reading the subscribers of this repository and committing?
Closing(r) == \E x \in active : x.op = "commit" /\ x.id = r.id

\* Upsert by an activation.
Subscribe(e) ==
  /\ \A q \in rows : q.email # e
  /\ \E r \in repo :
       rows' = rows \cup {[email |-> e, since |-> r.tag, late |-> Closing(r)]}
  /\ UNCHANGED <<gitVars, repo, nextRepo, dropping, active, told, copyVars, aborts>>

\* DeleteByEmailAndRepo and HasSubscriptions, in one step: TrackingReplica has
\* what happens between them.  The event may find no row to delete.
Unsubscribe(e) ==
  /\ rows' = {q \in rows : q.email # e}
  /\ dropping' = (dropping \/ rows' = {})
  /\ UNCHANGED <<gitVars, repo, nextRepo, active, told, copyVars, aborts>>

\* Mutant of Drop: the foreign key does not cascade.
DropOrphansRows ==
  /\ dropping /\ dropping' = FALSE
  /\ repo' = {}
  /\ UNCHANGED <<gitVars, nextRepo, rows, active, told, copyVars, aborts>>

\* The unsubscription's handler deletes the repository, and by cascade whoever
\* subscribed since it looked.
Drop ==
  /\ dropping /\ dropping' = FALSE
  /\ repo' = {} /\ rows' = {}
  /\ UNCHANGED <<gitVars, nextRepo, active, told, copyVars, aborts>>

-----------------------------------------------------------------------------
Go(x) ==
  \/ CacheHit(x) \/ Fetch(x) \/ Store(x) \/ ReadSubscribers(x)
  \/ CommitRelease(x) \/ CommitFails(x) \/ Report(x) \/ Create(x)
  \/ Answer(x)

Next ==
  \/ NewRelease \/ Expire \/ Drop
  \/ \E s \in Scanners : Scan(s)
  \/ \E c \in Callers : Lookup(c)
  \/ \E e \in Emails : Subscribe(e) \/ Unsubscribe(e)
  \/ \E x \in active : Go(x) \/ Abort(x)

Spec == Init /\ [][Next]_vars

(***************************************************************************)
(* Fairness.  The ticker starts scans, their calls return, and the cached  *)
(* answer expires.  Subscribers, releases and faults are free.             *)
(***************************************************************************)
FairSpec ==
  /\ Spec
  /\ WF_vars(Expire)
  /\ \A s \in Scanners :
       WF_vars(Scan(s)) /\ WF_vars(\E x \in active : x.by = s /\ Go(x))

-----------------------------------------------------------------------------
(* Properties *)

\* Every variable in range; subscribers only of an existing repository.
TypeOK ==
  /\ release \in Tags /\ cache \in 0..MaxTag
  /\ repo \subseteq [id : 1..MaxRepoId, tag : Tags]
  /\ \A r, q \in repo : r = q
  /\ nextRepo \in 1..MaxRepoId
  /\ rows \subseteq [email : Emails, since : Tags, late : BOOLEAN]
  /\ rows # {} => repo # {}
  /\ dropping \in BOOLEAN
  /\ active \subseteq Activity
  /\ told \in [Emails -> [Tags -> 0..MaxTold]]
  /\ copy \in 0..MaxTag /\ astray \in BOOLEAN /\ aborts \in 0..MaxAborts

\* Nobody is passed over: a subscriber under whom the recorded tag changed was
\* told of the recorded release, unless the subscription fell between a scan's
\* reading of the subscribers and its commit.  Errors and crashes between
\* any two steps, stale caches and re-registration do not change that.
RecordedIsTold ==
  \A r \in repo, q \in rows :
    r.tag # q.since => told[q.email][r.tag] > 0 \/ q.late

\* README.md: caching "prevents duplicate emails".  Nobody is told of a release
\* twice.
ToldOnce == \A e \in Emails, t \in Tags : told[e][t] <= 1

\* Tag synchronisation: once tracking's tag is reported, the subscription
\* service shows it, unless a report was lost or overtaken, or the repository
\* was registered anew.
CopyIsExplained ==
  \A r \in repo :
    copy \in {0, r.tag} \/ astray \/ \E x \in active : x.op = "report"

\* A release is not missed: while the repository has subscribers, its tag
\* catches up with GitHub, whatever the cache held.
ReleaseIsSeen ==
  \A t \in Tags :
    (release = t /\ rows # {}) ~>
      ((\E r \in repo : r.tag >= t) \/ rows = {})

(***************************************************************************)
(* The inductive invariant behind the safety properties.                   *)
(***************************************************************************)

\* Past the cache and GitHub, a scan or a call knows a tag.
TagsAreKnown == \A x \in active : x.op # "check" => x.tag # 0

\* Whoever is subscribed while a scan closes was read by it, or marked late.
CommitsCover ==
  \A x \in active, r \in repo, q \in rows :
    x.op = "commit" /\ x.id = r.id => q.email \in x.subs \/ q.late

IInv == TypeOK /\ TagsAreKnown /\ CommitsCover /\ RecordedIsTold /\ CopyIsExplained
=============================================================================
