------------------------ MODULE ReleaseTrackingProofs ------------------------
(***************************************************************************)
(* For any number of scanners, callers, subscribers, releases and aborts   *)
(* nobody is passed over when a tag is recorded, and the subscription      *)
(* service's copy of the tag is explained.  What makes the first inductive *)
(* is that a scan which has read the subscribers either read everybody who *)
(* is subscribed now, or left a mark on who came since.                    *)
(***************************************************************************)
EXTENDS ReleaseTracking, TLAPS

USE TrackingAssumption

-----------------------------------------------------------------------------
(* Activities in progress.                                                 *)

\* What a step may do to the activities: x goes on as next, or ends.
Goes(x, next) == x \in active /\ active' = (active \ {x}) \cup {next}
Ends(x)       == x \in active /\ active' = active \ {x}

\* A scan or a call that knows a tag.
Knowing == {x \in Activity : x.tag # 0}

LEMMA TagFacts ==
  /\ \A t : t \in Tags <=> t \in 0..MaxTag /\ t # 0
  /\ \A t \in Tags : t < MaxTag => t + 1 \in Tags
  BY DEF Tags

LEMMA ActiveTypes ==
  ASSUME IInv, NEW x \in active
  PROVE  /\ x \in Activity
         /\ x.op # "check" => x.tag \in Tags
  BY DEF IInv, TypeOK, TagsAreKnown, Activity, Tags

LEMMA GoesOn ==
  ASSUME IInv, NEW x, NEW y, Goes(x, y), y \in Activity, y.op # "check" => y.tag # 0
  PROVE  active' \subseteq Activity /\ TagsAreKnown'
  BY DEF IInv, TypeOK, TagsAreKnown, Goes

LEMMA GoesAway ==
  ASSUME IInv, NEW x, Ends(x)
  PROVE  active' \subseteq Activity /\ TagsAreKnown'
  BY DEF IInv, TypeOK, TagsAreKnown, Ends

\* The outcome of CheckForUpdates and of GetOrCreate's request.
LEMMA DecideEffect ==
  ASSUME IInv, NEW x \in active, NEW t \in Tags, Decide(x, t)
  PROVE  \/ Ends(x)
         \/ \E y \in Activity : /\ Goes(x, y) /\ y.tag = t
                                /\ y.op \in {"create", "subscribers"}
<1>1. x \in Activity
  BY ActiveTypes
<1>0. t \in 0..MaxTag /\ 0 \in 0..MaxTag
  BY DEF Tags
<1>2. [x EXCEPT !.op = "create", !.tag = t] \in Activity
  BY <1>0, <1>1 DEF Activity
<1>3. [x EXCEPT !.op = "subscribers", !.tag = t, !.seen = 0] \in Activity
  BY <1>0, <1>1 DEF Activity
<1> QED
  BY <1>1, <1>2, <1>3 DEF Decide, Replace, Finish, Goes, Ends, Activity

\* How each step of an activity leaves the activities.
LEMMA GoActive ==
  ASSUME IInv, NEW x \in active, Go(x) \/ Abort(x)
  PROVE  \/ Ends(x)
         \/ \E y \in Activity : /\ Goes(x, y) /\ y.tag # 0
                                /\ y.op = "commit" => x.op = "subscribers"
                                /\ x.op = "report" => y.op = "report"
<1>1. x \in Activity /\ (x.op # "check" => x.tag \in Tags)
  BY ActiveTypes
<1>2. CASE CacheHit(x) \/ Store(x)
  <2>1. PICK t \in Tags : Decide(x, t)
    BY <1>1, <1>2 DEF CacheHit, Store, IInv, TypeOK, Tags
  <2> QED
    BY <1>2, <2>1, DecideEffect DEF CacheHit, Store, Tags
<1>3. CASE Fetch(x)
  <2>1. release \in 0..MaxTag /\ release # 0
    BY DEF IInv, TypeOK, Tags
  <2> DEFINE y == [x EXCEPT !.op = "store", !.tag = release]
  <2>2. y \in Activity /\ y.op = "store" /\ y.tag = release
    BY <1>1, <2>1 DEF Activity
  <2>3. Goes(x, y) /\ x.op = "check"
    BY <1>3 DEF Fetch, Replace, Goes
  <2> HIDE DEF y
  <2> QED
    BY <2>1, <2>2, <2>3
<1>4. CASE ReadSubscribers(x)
  <2> DEFINE subs == IF \E r \in repo : r.id = x.id THEN {q.email : q \in rows} ELSE {}
  <2>1. subs \in SUBSET Emails
    BY DEF IInv, TypeOK
  <2> DEFINE y == [x EXCEPT !.op = "commit", !.subs = subs]
  <2>2. y \in Activity /\ y.op = "commit" /\ y.tag = x.tag
    BY <1>1, <2>1 DEF Activity
  <2>3. Goes(x, y) /\ x.op = "subscribers" /\ x.tag # 0
    <3>1. active' = (active \ {x}) \cup {y} /\ x.op = "subscribers"
      BY <1>4, Zenon DEF Replace, ReadSubscribers
    <3> QED
      BY <1>1, <3>1, TagFacts DEF Goes
  <2> HIDE DEF y
  <2> QED
    BY <2>2, <2>3
<1>5. CASE CommitRelease(x)
  <2> DEFINE y == [x EXCEPT !.op = "report", !.subs = {}]
  <2>1. y \in Activity /\ y.op = "report" /\ y.tag = x.tag
    BY <1>1 DEF Activity
  <2>2. Goes(x, y) /\ x.tag # 0
    BY <1>1, <1>5 DEF CommitRelease, Replace, Goes, Tags
  <2> HIDE DEF y
  <2> QED
    BY <2>1, <2>2
<1>6. CASE Create(x)
  <2>1. CASE active' = active \ {x}
    BY <2>1 DEF Ends
  <2>2. CASE Replace(x, [x EXCEPT !.op = "answer", !.id = nextRepo])
    <3>1. nextRepo \in 0..MaxRepoId
      BY DEF IInv, TypeOK
    <3> DEFINE y == [x EXCEPT !.op = "answer", !.id = nextRepo]
    <3>2. y \in Activity /\ y.op = "answer" /\ y.tag = x.tag
      BY <1>1, <3>1 DEF Activity
    <3>3. Goes(x, y) /\ x.op = "create" /\ x.tag # 0
      BY <1>1, <1>6, <2>2 DEF Create, Replace, Goes, Tags
    <3> HIDE DEF y
    <3> QED
      BY <3>2, <3>3
  <2> QED
    BY <1>6, <2>1, <2>2 DEF Create, Finish
<1>7. CASE CommitFails(x) \/ Report(x) \/ Answer(x) \/ Abort(x)
  BY <1>7 DEF CommitFails, Report, Answer, Abort, Finish, Ends
<1> QED
  BY <1>2, <1>3, <1>4, <1>5, <1>6, <1>7 DEF Go

\* A scan or a call begins.
LEMMA BeginsActive ==
  ASSUME IInv, (\E s \in Scanners : Scan(s)) \/ (\E c \in Callers : Lookup(c))
  PROVE  \E y \in Activity : /\ active' = active \cup {y}
                             /\ y.op \in {"check", "answer"} /\ (y.op # "check" => y.tag # 0)
<1> USE DEF IInv, TypeOK
<1>1. ASSUME NEW s \in Scanners, Scan(s)
      PROVE  \E y \in Activity : active' = active \cup {y} /\ y.op = "check"
  <2>1. PICK r \in repo : active' = active \cup {[by |-> s, op |-> "check", id |-> r.id, seen |-> r.tag,
                                                  tag |-> 0, subs |-> {}]}
    BY <1>1 DEF Scan
  <2>2. r.id \in 0..MaxRepoId /\ r.tag \in 0..MaxTag /\ 0 \in 0..MaxTag
    BY DEF Tags
  <2>3. [by |-> s, op |-> "check", id |-> r.id, seen |-> r.tag, tag |-> 0, subs |-> {}] \in Activity
    BY <2>2 DEF Activity, Processes
  <2> QED
    BY <2>1, <2>3
<1>2. ASSUME NEW c \in Callers, Lookup(c)
      PROVE  \E y \in Activity : /\ active' = active \cup {y}
                                 /\ y.op \in {"check", "answer"} /\ (y.op # "check" => y.tag # 0)
  <2>1. ASSUME NEW op \in {"check", "answer"}, NEW id \in 0..MaxRepoId, NEW t \in 0..MaxTag
        PROVE  Call(c, op, id, t) \in Activity
    BY <2>1 DEF Call, Activity, Processes
  <2>2. 0 \in 0..MaxRepoId /\ 0 \in 0..MaxTag
    OBVIOUS
  <2>3. CASE active' = active \cup {Call(c, "check", 0, 0)}
    BY <2>1, <2>2, <2>3 DEF Call
  <2>4. ASSUME NEW r \in repo, active' = active \cup {Call(c, "answer", r.id, r.tag)}
        PROVE  \E y \in Activity : active' = active \cup {y} /\ y.op = "answer" /\ y.tag # 0
    <3> DEFINE y == Call(c, "answer", r.id, r.tag)
    <3>1. r.id \in 0..MaxRepoId /\ r.tag \in 0..MaxTag /\ r.tag # 0
      BY DEF Tags
    <3>2. y \in Activity
      BY <2>1, <3>1
    <3>3. y.op = "answer" /\ y.tag = r.tag
      BY DEF Call
    <3> HIDE DEF y
    <3> QED
      BY <2>4, <3>1, <3>2, <3>3 DEF y
  <2> QED
    BY <1>2, <2>3, <2>4 DEF Lookup
<1> QED
  BY <1>1, <1>2

\* The steps that leave the activities alone.
Around ==
  \/ NewRelease \/ Expire \/ Drop \/ UNCHANGED vars
  \/ \E e \in Emails : Subscribe(e) \/ Unsubscribe(e)

LEMMA AroundActive == ASSUME Around PROVE active' = active
  BY DEF Around, NewRelease, Expire, Drop, Subscribe, Unsubscribe, vars

LEMMA NextActive == ASSUME IInv, [Next]_vars PROVE active' \subseteq Activity /\ TagsAreKnown'
<1> USE DEF IInv, TypeOK, TagsAreKnown
<1>1. ASSUME NEW x \in active, Go(x) \/ Abort(x) PROVE active' \subseteq Activity /\ TagsAreKnown'
  BY <1>1, GoActive, GoesOn, GoesAway
<1>2. CASE (\E s \in Scanners : Scan(s)) \/ (\E c \in Callers : Lookup(c))
  BY <1>2, BeginsActive
<1>3. CASE Around
  BY <1>3, AroundActive
<1> QED
  BY <1>1, <1>2, <1>3 DEF Next, Around

-----------------------------------------------------------------------------
(* The types.                                                              *)

LEMMA TellTypes ==
  ASSUME IInv, NEW subs, NEW t \in Tags
  PROVE  /\ Tell(subs, t) \in [Emails -> [Tags -> 0..MaxTold]]
         /\ \A e \in Emails, u \in Tags :
               /\ Tell(subs, t)[e][u] >= told[e][u]
               /\ e \in subs /\ u = t => Tell(subs, t)[e][u] > 0
<1> USE DEF IInv, TypeOK
<1>1. ASSUME NEW e \in Emails
      PROVE  /\ Tell(subs, t)[e] \in [Tags -> 0..MaxTold]
             /\ \A u \in Tags : /\ Tell(subs, t)[e][u] >= told[e][u]
                               /\ e \in subs /\ u = t => Tell(subs, t)[e][u] > 0
  <2>1. told[e] \in [Tags -> 0..MaxTold]
    OBVIOUS
  <2>2. Tell(subs, t)[e] =
          [told[e] EXCEPT ![t] = IF e \in subs /\ @ < MaxTold THEN @ + 1 ELSE @]
    BY DEF Tell
  <2>3. (IF e \in subs /\ told[e][t] < MaxTold THEN told[e][t] + 1 ELSE told[e][t]) \in 0..MaxTold
    BY <2>1
  <2> QED
    BY <2>1, <2>2, <2>3
<1> QED
  BY <1>1 DEF Tell

LEMMA NextTypes == ASSUME IInv, [Next]_vars PROVE TypeOK'
<1> USE DEF IInv, TypeOK
<1>0. active' \subseteq Activity
  BY NextActive
<1>1. CASE NewRelease \/ Expire
  <2>1. release' \in Tags /\ cache' \in 0..MaxTag
    BY <1>1, TagFacts DEF NewRelease, Expire
  <2>2. UNCHANGED <<repo, nextRepo, rows, dropping, told, copy, astray, aborts>>
    BY <1>1 DEF NewRelease, Expire, listVars, copyVars
  <2> QED
    BY <1>0, <2>1, <2>2
<1>2. CASE Drop
  BY <1>0, <1>2 DEF Drop, gitVars, copyVars
<1>3. ASSUME NEW s \in Scanners, Scan(s) PROVE TypeOK'
  BY <1>0, <1>3 DEF Scan, gitVars, listVars, copyVars
<1>4. ASSUME NEW c \in Callers, Lookup(c) PROVE TypeOK'
  BY <1>0, <1>4 DEF Lookup, gitVars, listVars, copyVars
<1>5. ASSUME NEW e \in Emails, Subscribe(e) PROVE TypeOK'
  <2>1. PICK r \in repo :
          rows' = rows \cup {[email |-> e, since |-> r.tag, late |-> Closing(r)]}
    BY <1>5 DEF Subscribe
  <2>2. Closing(r) \in BOOLEAN /\ r.tag \in Tags
    BY DEF Closing
  <2>3. rows' \subseteq [email : Emails, since : Tags, late : BOOLEAN] /\ repo # {}
    BY <2>1, <2>2
  <2> QED
    BY <1>0, <1>5, <2>3 DEF Subscribe, gitVars, copyVars
<1>6. ASSUME NEW e \in Emails, Unsubscribe(e) PROVE TypeOK'
  BY <1>0, <1>6 DEF Unsubscribe, gitVars, copyVars
<1>7. ASSUME NEW x \in active, Go(x) \/ Abort(x) PROVE TypeOK'
  <2>1. x \in Activity /\ (x.op # "check" => x.tag \in Tags)
    BY ActiveTypes
  <2>2. CASE CacheHit(x) \/ Fetch(x) \/ ReadSubscribers(x) \/ CommitFails(x)
    BY <1>0, <2>2 DEF CacheHit, Fetch, ReadSubscribers, CommitFails, gitVars, listVars, copyVars
  <2>3. CASE Store(x)
    <3>1. cache' \in 0..MaxTag
      BY <2>1, <2>3, TagFacts DEF Store
    <3> QED
      BY <1>0, <2>3, <3>1 DEF Store, listVars, copyVars
  <2>4. CASE CommitRelease(x)
    <3>1. x.tag \in Tags /\ x.id \in 1..MaxRepoId
      BY <2>1, <2>4 DEF CommitRelease
    <3>2. told' \in [Emails -> [Tags -> 0..MaxTold]]
      BY <2>4, <3>1, TellTypes DEF CommitRelease
    <3> QED
      BY <1>0, <2>4, <3>1, <3>2 DEF CommitRelease, gitVars, listVars, copyVars
  <2>5. CASE Report(x) \/ Answer(x)
    <3>1. copy' \in 0..MaxTag /\ astray' \in BOOLEAN
      BY <2>1, <2>5, TagFacts DEF Report, Answer, Outdated, copyVars
    <3>2. UNCHANGED <<release, cache, repo, nextRepo, rows, dropping, told, aborts>>
      BY <2>5 DEF Report, Answer, gitVars, listVars
    <3> QED
      BY <1>0, <3>1, <3>2
  <2>6. CASE Abort(x)
    BY <1>0, <2>6 DEF Abort, gitVars, listVars
  <2>7. CASE Create(x)
    <3>1. x.tag \in Tags
      BY <2>1, <2>7 DEF Create
    <3>2. CASE repo = {} /\ nextRepo < MaxRepoId /\ repo' = {[id |-> nextRepo, tag |-> x.tag]}
               /\ nextRepo' = nextRepo + 1 /\ astray' = (copy \notin {0, x.tag})
      BY <1>0, <2>7, <3>1, <3>2 DEF Create, gitVars
    <3>3. CASE UNCHANGED <<repo, nextRepo, astray>>
      BY <1>0, <2>7, <3>3 DEF Create, gitVars
    <3> QED
      BY <2>7, <3>2, <3>3 DEF Create
  <2> QED
    BY <1>7, <2>2, <2>3, <2>4, <2>5, <2>6, <2>7 DEF Go
<1>8. CASE UNCHANGED vars
  BY <1>8 DEF vars, gitVars, listVars, copyVars
<1> QED
  BY <1>1, <1>2, <1>3, <1>4, <1>5, <1>6, <1>7, <1>8 DEF Next

-----------------------------------------------------------------------------
(* The subscribers.                                                        *)

\* An activity that is closing was so before, or has just read the subscribers.
LEMMA CommitsBefore ==
  ASSUME IInv, NEW x \in active, Go(x) \/ Abort(x), x.op # "subscribers",
         NEW z \in active', z.op = "commit"
  PROVE  z \in active
  BY GoActive DEF Goes, Ends

LEMMA NextCover == ASSUME IInv, [Next]_vars PROVE CommitsCover'
<1> USE DEF CommitsCover
<1>0. \A x \in active, r \in repo, q \in rows :
        x.op = "commit" /\ x.id = r.id => q.email \in x.subs \/ q.late
  BY DEF IInv
<1>1. CASE NewRelease \/ Expire \/ UNCHANGED vars
  <2>1. UNCHANGED <<active, repo, rows>>
    BY <1>1 DEF NewRelease, Expire, vars, gitVars, listVars
  <2> QED
    BY <1>0, <2>1
<1>2. CASE Drop
  BY <1>2 DEF Drop
<1>3. CASE (\E s \in Scanners : Scan(s)) \/ (\E c \in Callers : Lookup(c))
  <2>1. UNCHANGED <<repo, rows>>
    BY <1>3 DEF Scan, Lookup, listVars
  <2> QED
    BY <1>0, <1>3, <2>1, BeginsActive
<1>4. ASSUME NEW e \in Emails, Subscribe(e) PROVE CommitsCover'
  <2>1. PICK r \in repo :
          rows' = rows \cup {[email |-> e, since |-> r.tag, late |-> Closing(r)]}
    BY <1>4 DEF Subscribe
  <2>2. ASSUME NEW x \in active, x.op = "commit", x.id = r.id PROVE Closing(r)
    BY <2>2 DEF Closing
  <2>3. UNCHANGED <<active, repo>> /\ \A q \in repo : q = r
    BY <1>4 DEF Subscribe, IInv, TypeOK
  <2> QED
    BY <1>0, <2>1, <2>2, <2>3
<1>5. ASSUME NEW e \in Emails, Unsubscribe(e) PROVE CommitsCover'
  BY <1>0, <1>5 DEF Unsubscribe
<1>6. ASSUME NEW x \in active, Go(x) \/ Abort(x), x.op # "subscribers" PROVE CommitsCover'
  <2>1. rows' = rows
    BY <1>6 DEF Go, Abort, CacheHit, Fetch, Store, ReadSubscribers, CommitRelease, CommitFails,
                Report, Create, Answer, listVars
  <2>2. \A z \in active' : z.op = "commit" => z \in active
    BY <1>6, CommitsBefore
  <2>3. CASE repo' = repo
    BY <1>0, <2>1, <2>2, <2>3
  <2>4. CASE rows = {}
    BY <2>1, <2>4
  <2>5. CASE CommitRelease(x)
    <3>1. \A r \in repo' : \E q \in repo : q.id = r.id
      BY <2>5 DEF CommitRelease
    <3> QED
      BY <1>0, <2>1, <2>2, <3>1
  <2>6. repo' = repo \/ rows = {} \/ CommitRelease(x)
    BY <1>6 DEF Go, Abort, CacheHit, Fetch, Store, ReadSubscribers, CommitFails,
                Report, Create, Answer, IInv, TypeOK
  <2> QED
    BY <2>3, <2>4, <2>5, <2>6
<1>7. ASSUME NEW x \in active, Go(x) \/ Abort(x), x.op = "subscribers" PROVE CommitsCover'
  <2>1. UNCHANGED <<repo, rows>>
    BY <1>7 DEF Go, Abort, CacheHit, Fetch, Store, ReadSubscribers, CommitRelease, CommitFails,
                Report, Create, Answer, listVars
  <2>2. CASE ReadSubscribers(x)
    <3> DEFINE subs == IF \E r \in repo : r.id = x.id THEN {q.email : q \in rows} ELSE {}
               y == [x EXCEPT !.op = "commit", !.subs = subs]
    <3>1. active' = (active \ {x}) \cup {y}
      BY <2>2, Zenon DEF ReadSubscribers, Replace
    <3>2. y.id = x.id /\ y.subs = subs
      BY ActiveTypes DEF Activity
    <3>3. \A r \in repo, q \in rows : r.id = x.id => q.email \in subs
      OBVIOUS
    <3> HIDE DEF subs, y
    <3> QED
      BY <1>0, <2>1, <3>1, <3>2, <3>3
  <2>3. CASE Abort(x)
    BY <1>0, <2>1, <2>3 DEF Abort, Finish
  <2> QED
    BY <1>7, <2>2, <2>3 DEF Go, CacheHit, Fetch, Store, CommitRelease, CommitFails,
                            Report, Create, Answer
<1> QED
  BY <1>1, <1>2, <1>3, <1>4, <1>5, <1>6, <1>7 DEF Next

LEMMA NextTold == ASSUME IInv, [Next]_vars PROVE RecordedIsTold'
<1> USE DEF RecordedIsTold
<1>0. \A r \in repo, q \in rows : r.tag # q.since => told[q.email][r.tag] > 0 \/ q.late
  BY DEF IInv
<1>1. CASE UNCHANGED <<repo, rows, told>>
  BY <1>0, <1>1
<1>2. CASE rows' = {}
  BY <1>2
<1>3. ASSUME NEW e \in Emails, Subscribe(e) PROVE RecordedIsTold'
  <2>1. PICK r \in repo :
          rows' = rows \cup {[email |-> e, since |-> r.tag, late |-> Closing(r)]}
    BY <1>3 DEF Subscribe
  <2>2. UNCHANGED <<repo, told>> /\ \A q \in repo : q = r
    BY <1>3 DEF Subscribe, IInv, TypeOK
  <2> QED
    BY <1>0, <2>1, <2>2
<1>4. ASSUME NEW e \in Emails, Unsubscribe(e) PROVE RecordedIsTold'
  BY <1>0, <1>4 DEF Unsubscribe
<1>5. ASSUME NEW x \in active, CommitRelease(x) PROVE RecordedIsTold'
  <2>1. x.tag \in Tags
    BY <1>5, ActiveTypes DEF CommitRelease
  <2>2. repo' = {[id |-> x.id, tag |-> x.tag]} /\ told' = Tell(x.subs, x.tag) /\ rows' = rows
    BY <1>5 DEF CommitRelease, listVars
  <2>3. ASSUME NEW q \in rows PROVE told'[q.email][x.tag] > 0 \/ q.late
    <3>1. q.email \in Emails /\ (q.email \in x.subs \/ q.late)
      BY <1>5 DEF IInv, TypeOK, CommitsCover, CommitRelease
    <3> QED
      BY <2>1, <2>2, <3>1, TellTypes
  <2> QED
    BY <2>2, <2>3
<1>6. ASSUME NEW x \in active, Create(x) PROVE UNCHANGED <<repo, rows, told>> \/ rows' = {}
  BY <1>6 DEF Create, IInv, TypeOK
<1>7. ASSUME NEW x \in active, Go(x) \/ Abort(x), ~Create(x), ~CommitRelease(x)
      PROVE  UNCHANGED <<repo, rows, told>>
  BY <1>7 DEF Go, Abort, CacheHit, Fetch, Store, ReadSubscribers, CommitFails, Report, Answer, listVars
<1>8. CASE NewRelease \/ Expire \/ (\E s \in Scanners : Scan(s)) \/ (\E c \in Callers : Lookup(c))
           \/ UNCHANGED vars
  BY <1>1, <1>8 DEF NewRelease, Expire, Scan, Lookup, vars, listVars
<1>9. CASE Drop
  BY <1>2, <1>9 DEF Drop
<1> QED
  BY <1>1, <1>2, <1>3, <1>4, <1>5, <1>6, <1>7, <1>8, <1>9 DEF Next

-----------------------------------------------------------------------------
(* The copy of the tag.                                                    *)

Reporting == \E x \in active : x.op = "report"

LEMMA ReportingStays ==
  ASSUME IInv, Reporting, NEW x \in active, Go(x) \/ Abort(x), x.op # "report"
  PROVE  Reporting'
  BY GoActive DEF Reporting, Goes, Ends

LEMMA NextCopy == ASSUME IInv, [Next]_vars PROVE CopyIsExplained'
<1> USE DEF CopyIsExplained
<1>0. \A r \in repo : copy \in {0, r.tag} \/ astray \/ Reporting
  BY DEF IInv, Reporting
<1>a. (\A r \in repo' : copy' \in {0, r.tag} \/ astray' \/ Reporting') => CopyIsExplained'
  BY DEF Reporting
<1>1. CASE Around
  <2>1. CASE Drop
    BY <2>1 DEF Drop
  <2>2. CASE ~Drop
    <3>1. UNCHANGED <<repo, copy, astray, active>>
      BY <1>1, <2>2 DEF Around, NewRelease, Expire, Subscribe, Unsubscribe, vars, copyVars
    <3> QED
      BY <1>0, <1>a, <3>1 DEF Reporting
  <2> QED
    BY <2>1, <2>2
<1>2. CASE (\E s \in Scanners : Scan(s)) \/ (\E c \in Callers : Lookup(c))
  <2>1. UNCHANGED <<repo, copy, astray>>
    BY <1>2 DEF Scan, Lookup, copyVars
  <2>2. Reporting => Reporting'
    BY <1>2, BeginsActive DEF Reporting
  <2> QED
    BY <1>0, <1>a, <2>1, <2>2
<1>3. ASSUME NEW x \in active, CommitRelease(x) PROVE CopyIsExplained'
  <2>1. Reporting'
    <3>1. [x EXCEPT !.op = "report", !.subs = {}].op = "report"
      BY ActiveTypes DEF Activity
    <3>2. [x EXCEPT !.op = "report", !.subs = {}] \in active'
      BY <1>3 DEF CommitRelease, Replace
    <3> QED
      BY <3>1, <3>2 DEF Reporting
  <2> QED
    BY <1>a, <2>1
<1>4. ASSUME NEW x \in active, Report(x) \/ (Answer(x) /\ copy = 0 /\ copy' = x.tag /\ astray' = Outdated(x))
      PROVE  CopyIsExplained'
  <2>1. astray' \/ (repo' = {[id |-> x.id, tag |-> x.tag]} /\ copy' = x.tag)
    BY <1>4 DEF Report, Answer, Outdated
  <2> QED
    BY <1>a, <2>1
<1>5. ASSUME NEW x \in active, Answer(x), UNCHANGED copyVars PROVE CopyIsExplained'
  <2>1. UNCHANGED <<repo, copy, astray>> /\ x.op # "report"
    BY <1>5 DEF Answer, copyVars
  <2> QED
    BY <1>0, <1>5, <1>a, <2>1, ReportingStays DEF Go
<1>6. ASSUME NEW x \in active, Create(x) PROVE CopyIsExplained'
  <2>1. CASE repo' = {[id |-> nextRepo, tag |-> x.tag]} /\ astray' = (copy \notin {0, x.tag})
    <3>1. copy' = copy /\ \A r \in repo' : r.tag = x.tag
      BY <1>6, <2>1 DEF Create
    <3>2. copy \notin {0, x.tag} => astray'
      BY <2>1
    <3> QED
      BY <1>a, <3>1, <3>2
  <2>2. CASE UNCHANGED <<repo, astray>>
    BY <1>0, <1>6, <1>a, <2>2, ReportingStays DEF Create, Go
  <2> QED
    BY <1>6, <2>1, <2>2 DEF Create
<1>7. ASSUME NEW x \in active, Abort(x) PROVE CopyIsExplained'
  <2>1. UNCHANGED <<repo, copy>> /\ astray' = (astray \/ x.op = "report")
    BY <1>7 DEF Abort
  <2> QED
    BY <1>0, <1>7, <1>a, <2>1, ReportingStays
<1>8. ASSUME NEW x \in active, CacheHit(x) \/ Fetch(x) \/ Store(x) \/ ReadSubscribers(x) \/ CommitFails(x)
      PROVE  CopyIsExplained'
  <2>1. UNCHANGED <<repo, copy, astray>> /\ x.op # "report"
    BY <1>8 DEF CacheHit, Fetch, Store, ReadSubscribers, CommitFails, copyVars
  <2> QED
    BY <1>0, <1>8, <1>a, <2>1, ReportingStays DEF Go
<1>9. ASSUME NEW x \in active, Go(x) \/ Abort(x) PROVE CopyIsExplained'
  BY <1>3, <1>4, <1>5, <1>6, <1>7, <1>8, <1>9 DEF Go, Answer
<1> QED
  BY <1>1, <1>2, <1>9 DEF Next, Around

-----------------------------------------------------------------------------
(* The theorems.                                                           *)

LEMMA InitIInv == Init => IInv
<1> SUFFICES ASSUME Init PROVE IInv
  OBVIOUS
<1>1. 1 \in Tags /\ 0 \in 0..MaxTag /\ 0 \in 0..MaxTold /\ 1 \in 1..MaxRepoId /\ 0 \in 0..MaxAborts
  BY DEF Tags
<1>2. told \in [Emails -> [Tags -> 0..MaxTold]]
  BY <1>1 DEF Init
<1>3. TypeOK
  BY <1>1, <1>2 DEF Init, TypeOK
<1> QED
  BY <1>3 DEF Init, IInv, TagsAreKnown, CommitsCover, RecordedIsTold, CopyIsExplained

LEMMA NextIInv == IInv /\ [Next]_vars => IInv'
  BY NextTypes, NextActive, NextCover, NextTold, NextCopy DEF IInv

(* For any number of scanners, callers, releases and aborts: variables     *)
(* keep their types, who goes on knows a tag, a closing scan covers the    *)
(* subscribers, and the two properties below hold.                         *)
THEOREM InvariantHolds == Spec => []IInv
  BY InitIInv, NextIInv, PTL DEF Spec

(* The variables keep their types; there is one row of the repository at   *)
(* most, and no subscriber without it.                                     *)
THEOREM TypesHold == Spec => []TypeOK
<1>1. IInv => TypeOK
  BY DEF IInv
<1> QED
  BY <1>1, InvariantHolds, PTL

(* commitRelease passes over nobody but who subscribed while it closed,    *)
(* however many scanners share the cache and whatever fails in between.    *)
THEOREM NobodyIsPassedOver == Spec => []RecordedIsTold
<1>1. IInv => RecordedIsTold
  BY DEF IInv
<1> QED
  BY <1>1, InvariantHolds, PTL

(* A copy of the tag that differs from tracking's has a report on its way, *)
(* or had one that was lost, overtaken or not due.                         *)
THEOREM CopyHasReasons == Spec => []CopyIsExplained
<1>1. IInv => CopyIsExplained
  BY DEF IInv
<1> QED
  BY <1>1, InvariantHolds, PTL
=============================================================================
