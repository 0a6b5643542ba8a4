----------------------------- MODULE SubscribeApi -----------------------------
(***************************************************************************)
(* The subscription service's API in front of tracking and GitHub: what a  *)
(* client of the HTTP or the gRPC server is answered when it subscribes to *)
(* a repository, and when.  A request passes the middleware, the handler   *)
(* asks tracking to resolve the repository, tracking looks in its database *)
(* and asks GitHub (GitHubClient), the errors travel back through a gRPC   *)
(* status, and the subscription is stored.  The other operations answer in *)
(* one step here; what they do to the data is modelled elsewhere.          *)
(* A request may be served, cut off by its client, or by a shutdown.  The  *)
(* release scanner asks GitHub beside it about another repository, and     *)
(* others may register the same one.                                       *)
(***************************************************************************)
EXTENDS GitHubClient, FiniteSets

CONSTANTS
    Requests,   \* clients, each with one request at a time
    Transport,  \* "http" or "grpc" for each of them
    Emails,     \* addresses that subscribe
    EmailOf,    \* the one each client uses; two may share it
    Scanner,    \* the release scanner
    MaxActive,  \* bound: requests served at once, those about to store a user aside
    MaxAmiss    \* bound: requests served at once while something goes wrong

ASSUME ApiAssumption == /\ Callers = Requests \cup {Scanner} /\ Scanner \notin Requests
                        /\ Others = {Scanner} /\ MaxActive \in Nat /\ MaxAmiss \in Nat
                        /\ Transport \in [Requests -> {"http", "grpc"}]
                        /\ EmailOf \in [Requests -> Emails]

VARIABLES
    at,         \* what the request does next, "idle" when there is none
    tracked,    \* tracking has a row for the repository
    users,      \* emails with a row of their own; rows are never deleted
    server,     \* "serving", "draining" (SIGTERM) or "exited"
    said,       \* the answer given by the last step, if it gave one
    saw         \* history: what was amiss while each request was served

vars == <<worldVars, clientVars, at, tracked, users, server, said, saw>>

Ops   == {"subscribe", "list", "token", "tag"}
Codes == {"accepted", "notFound", "unavailable", "internal", "cut"}
Amiss == {"absent", "shield", "trouble", "raced"}
InTracking == {"lookup", "exists", "release", "create"}
Plain == {"none", "ok", "badRequest", "unauthorized", "tooMany"}
Nothing == [code |-> "none"]

TypeOK ==
    /\ ClientTypeOK
    /\ at \in [Requests -> InTracking \cup {"idle", "user", "newUser", "save"}]
    /\ \A q \in Requests : call[q] # "none" <=> at[q] \in {"exists", "release"}
    /\ tracked \in BOOLEAN /\ users \subseteq Emails
    /\ server \in {"serving", "draining", "exited"}
    /\ said \in [to : Requests, op : Ops, code : Codes, saw : SUBSET Amiss] \cup {Nothing}
    /\ saw \in [Requests -> SUBSET Amiss]

Init ==
    /\ ClientInit
    /\ at = [q \in Requests |-> "idle"]
    /\ tracked = FALSE /\ users = {} /\ server = "serving"
    /\ said = Nothing /\ saw = [q \in Requests |-> {}]

-----------------------------------------------------------------------------
(* History: what is amiss now, and what a request has seen.                *)
When(cond, what) == IF cond THEN {what} ELSE {}

Now ==
    When(github = "absent", "absent") \cup
    When(breaker.state # "closed" \/ fault \in {"github", "tracking"}, "shield") \cup
    When(\/ fault \in {"github", "redis", "db"} \/ github = "unreleased"
         \/ github = "absent" /\ cached.exists = "true", "trouble")

Seen(q) == Now \cup IF at[q] = "idle" THEN {} ELSE saw[q]

\* Somebody else's step changes the repository, or tracking's row of it, or
\* stores the user this request did not find; the cache answers with a denial.
Meets(q) == When(github' # github \/ (tracked' # tracked /\ at'[q] = at[q]), "trouble") \cup
            When(users' # users /\ EmailOf[q] \in users' /\ at[q] = "newUser" /\ at'[q] = "newUser",
                 "raced") \cup
            When(call[q] = "exists" /\ call'[q] = "false", "absent")

\* What may explain an answer the request can still get; only HTTP clients learn
\* why their request failed.
Matters(q, step) ==
    (IF Transport[q] = "http" THEN Amiss ELSE {"trouble"}) \cap
        CASE step = "idle" -> {}
          [] step \in {"lookup", "exists"} -> {"absent", "shield", "trouble"}
          [] step = "release" -> {"shield", "trouble"}
          [] step = "newUser" -> {"trouble", "raced"}
          [] OTHER -> {"trouble"}

Watch == saw' = [q \in Requests |-> Matters(q, at'[q]) \cap (Now' \cup
                    IF at[q] = "idle" THEN {} ELSE saw[q] \cup Meets(q))]

-----------------------------------------------------------------------------
\* What the gRPC handler of each operation makes of the use case's error.
GrpcCode(o, code) ==
    IF code \in {"accepted", "ok"} \/ (o = "tag" /\ code = "notFound") THEN code ELSE "internal"

\* The HTTP handlers tell them apart, but for the tag endpoint.
HttpCode(o, code) == IF o = "tag" /\ code # "ok" THEN "internal" ELSE code

\* What may be the reason of an answer.
Reasons(code) == CASE code = "notFound" -> {"absent"}
                   [] code = "unavailable" -> {"shield"}
                   [] code = "internal" -> {"trouble", "raced"}
                   [] code = "accepted" -> {"trouble"}
                   [] OTHER -> {}

\* Answers that no property asks about are all the same.
Asked(q, o, code) ==
    \/ o = "subscribe" /\ code \in {"accepted", "notFound", "cut"}
    \/ Transport[q] = "http" /\ (code = "internal" \/ (o = "subscribe" /\ code = "unavailable"))

Say(q, o, code) ==
    said' = IF ~Asked(q, o, code) THEN Nothing
            ELSE [to |-> q, op |-> o, code |-> code, saw |-> Seen(q) \cap Reasons(code)]
Answer(q, o, code) ==
    Say(q, o, IF Transport[q] = "http" THEN HttpCode(o, code) ELSE GrpcCode(o, code))
Goes(q, step) == at' = [at EXCEPT ![q] = step]

Busy == {q \in Requests : at[q] # "idle"}

\* Requests may overlap freely only while nothing else goes wrong (a bound).
Arrives(q) ==
    /\ server = "serving" /\ at[q] = "idle"
    /\ IF fault = "none" THEN Cardinality({r \in Busy : at[r] # "newUser"}) < MaxActive
       ELSE Cardinality(Busy) < MaxAmiss

\* The rate limiter sits in front of every HTTP route, and panics without Redis.
Limited(q) == Transport[q] = "http" /\ fault = "redis"

\* Links from mails carry no key, except over gRPC.
NeedsKey(q, o) == Transport[q] = "grpc" \/ o # "token"

\* A token in a path cannot be empty; gRPC checks nothing of Subscribe and List.
Validates(q, o) == o = "tag" \/ (Transport[q] = "grpc" <=> o = "token")

Refuse(q) ==
    /\ Arrives(q)
    /\ \E o \in Ops :
          \/ Limited(q) /\ Say(q, o, "internal")
          \/ ~Limited(q) /\ Transport[q] = "http" /\ Say(q, o, "tooMany")
          \/ ~Limited(q) /\ NeedsKey(q, o) /\ Say(q, o, "unauthorized")
          \/ ~Limited(q) /\ Validates(q, o) /\ Say(q, o, "badRequest")
    /\ UNCHANGED <<worldVars, clientVars, at, tracked, users, server>>

\* ListByEmail; the token actions and UpdateTag, whose token or repository may
\* be unknown here.
Serve(q) ==
    /\ Arrives(q) /\ ~Limited(q)
    /\ \E o \in Ops \ {"subscribe"} :
          \/ fault = "db" /\ Answer(q, o, "internal")
          \/ fault # "db" /\ Answer(q, o, "ok")
          \/ fault # "db" /\ o # "list" /\ Answer(q, o, "notFound")
    /\ UNCHANGED <<worldVars, clientVars, at, tracked, users, server>>

Begin(q) ==
    /\ Arrives(q) /\ ~Limited(q)
    /\ Goes(q, "lookup") /\ said' = Nothing
    /\ UNCHANGED <<worldVars, clientVars, tracked, users, server>>

-----------------------------------------------------------------------------
(* Subscribe.                                                              *)

\* GetOrCreateRepository turns what the client returned into a status.
Status(result) ==
    CASE result = "false" -> "NotFound"
      [] result \in {"unavailable", "rateLimited"} -> "Unavailable"
      [] OTHER -> "Internal"

\* Mutant of Translated: the adapter passes NotFound on as it is.
TranslatedUnavailable(status) == IF status = "Unavailable" THEN "unavailable" ELSE "internal"

\* translateGRPCError.
Translated(status) ==
    CASE status = "NotFound" -> "notFound"
      [] status = "Unavailable" -> "unavailable"
      [] OTHER -> "internal"

\* The request ends with an answer.
Ends(q, code) ==
    /\ Answer(q, "subscribe", code)
    /\ Goes(q, "idle")
    /\ Returns(q, "none")
    /\ UNCHANGED <<worldVars, cached, breaker, fresh, tracked, users, server>>

\* The connection to tracking breaks: Unavailable, and the call is cancelled there.
TrackingAway(q) ==
    /\ at[q] \in InTracking /\ fault = "tracking"
    /\ Answer(q, "subscribe", Translated("Unavailable")) /\ Goes(q, "idle")
    /\ Cancel(q)
    /\ UNCHANGED <<tracked, users, server>>

\* The request goes on in tracking, calling the client or not.
Continues(q, step, method) ==
    /\ Goes(q, step) /\ Returns(q, method) /\ said' = Nothing
    /\ UNCHANGED <<worldVars, cached, breaker, fresh, tracked, users, server>>

\* Any of the statements, of either service, but inside a call of the client.
DatabaseFails(q) ==
    at[q] \in {"lookup", "create", "user", "newUser", "save"} /\ fault = "db" /\ Ends(q, "internal")

\* Mutant of LookUp: the existence check is left to the release request.
LookUpUnverified(q) ==
    /\ at[q] = "lookup" /\ fault # "db"
    /\ IF tracked THEN Continues(q, "user", "none") ELSE Continues(q, "release", "release")

\* GetByName.
LookUp(q) ==
    /\ at[q] = "lookup" /\ fault # "db"
    /\ IF tracked THEN Continues(q, "user", "none") ELSE Continues(q, "exists", "exists")

Existence(q) ==
    /\ at[q] = "exists" /\ call[q] \in Results
    /\ IF call[q] = "true" THEN Continues(q, "release", "release")
       ELSE Ends(q, Translated(Status(call[q])))

LatestRelease(q) ==
    /\ at[q] = "release" /\ call[q] \in Results
    /\ IF call[q] = "found" THEN Continues(q, "create", "none")
       ELSE Ends(q, Translated(Status(call[q])))

\* Mutant of Create: the caller gets a repository that is not stored.
CreateNothing(q) ==
    /\ at[q] = "create" /\ fault # "db" /\ ~tracked
    /\ Goes(q, "user") /\ said' = Nothing
    /\ UNCHANGED <<worldVars, clientVars, tracked, users, server>>

\* Create: repositories.full_name is unique.
Create(q) ==
    /\ at[q] = "create" /\ fault # "db" /\ ~tracked
    /\ tracked' = TRUE
    /\ Goes(q, "user") /\ said' = Nothing
    /\ UNCHANGED <<worldVars, clientVars, users, server>>

CreateConflicts(q) == at[q] = "create" /\ fault # "db" /\ tracked /\ Ends(q, "internal")

\* Mutant of FindUser: the user is inserted without being looked for.
FindUserNever(q) == at[q] = "user" /\ fault # "db" /\ Continues(q, "newUser", "none")

\* The adapter upserts its own row; GetByEmail.
FindUser(q) ==
    /\ at[q] = "user" /\ fault # "db"
    /\ Continues(q, IF EmailOf[q] \in users THEN "save" ELSE "newUser", "none")

\* userRepo.Create, outside of any transaction.
CreateUser(q) ==
    /\ at[q] = "newUser" /\ fault # "db" /\ EmailOf[q] \notin users
    /\ users' = users \cup {EmailOf[q]}
    /\ Goes(q, "save") /\ said' = Nothing
    /\ UNCHANGED <<worldVars, clientVars, tracked, server>>

\* users.email is unique, and another first request of the user was faster.
CreateUserConflicts(q) ==
    at[q] = "newUser" /\ fault # "db" /\ EmailOf[q] \in users /\ Ends(q, "internal")

\* The transaction of subscription and saga.
Save(q) == at[q] = "save" /\ fault # "db" /\ Ends(q, "accepted")

Handler(q) ==
    \/ TrackingAway(q) \/ DatabaseFails(q) \/ LookUp(q) \/ Existence(q) \/ LatestRelease(q)
    \/ Create(q) \/ CreateConflicts(q)
    \/ FindUser(q) \/ CreateUser(q) \/ CreateUserConflicts(q) \/ Save(q)

-----------------------------------------------------------------------------
(* Clients that hang up, the shutdown, and other callers of tracking.      *)

ClientLeaves(q) ==
    /\ fault = "others" /\ server # "exited" /\ at[q] # "idle"
    /\ Goes(q, "idle") /\ Cancel(q) /\ said' = Nothing
    /\ UNCHANGED <<tracked, users, server>>

\* One thing goes wrong at a time (a bound): a shutdown counts as one.
Terminate ==
    /\ server = "serving" /\ fault = "none" /\ Cardinality(Busy) <= MaxAmiss
    /\ server' = "draining" /\ said' = Nothing
    /\ UNCHANGED <<worldVars, clientVars, at, tracked, users>>

\* Mutant of Exit: nobody waits for the gRPC server either.
ExitAtOnce ==
    /\ server = "draining" /\ server' = "exited" /\ said' = Nothing
    /\ UNCHANGED <<worldVars, clientVars, at, tracked, users>>

\* ListenAndServe returns as soon as Shutdown is called, Serve when GracefulStop
\* has seen the last call off; then main closes the pool and returns.
Exit ==
    /\ server = "draining" /\ \A q \in Requests : at[q] # "idle" => Transport[q] = "http"
    /\ server' = "exited" /\ said' = Nothing
    /\ UNCHANGED <<worldVars, clientVars, at, tracked, users>>

\* What the process had not answered is cut off with it.
Cut(q) ==
    /\ server = "exited" /\ at[q] # "idle"
    /\ Say(q, "subscribe", "cut") /\ Goes(q, "idle") /\ Cancel(q)
    /\ UNCHANGED <<tracked, users, server>>

Restart ==
    /\ server = "exited" /\ \A q \in Requests : at[q] = "idle"
    /\ server' = "serving" /\ said' = Nothing
    /\ UNCHANGED <<worldVars, clientVars, at, tracked, users>>

\* A consumer of an activation registers the repository, as another instance's
\* request may; the last unsubscription deletes it.
TrackingMoves ==
    /\ fault = "others" /\ tracked' = ~tracked /\ said' = Nothing
    /\ UNCHANGED <<worldVars, clientVars, at, users, server>>

Client(c) == Step(c) /\ said' = Nothing /\ UNCHANGED <<at, tracked, users, server>>

\* GitHub changes while nothing else is wrong, and all stands still while the
\* process is away (bounds).
Around(change) ==
    /\ change /\ server = "serving" /\ said' = Nothing
    /\ fault' # fault => Cardinality(Busy) <= MaxAmiss
    /\ github' # github => fault = "none"
    /\ UNCHANGED <<at, tracked, users, server>>

-----------------------------------------------------------------------------
Proceeds(q) == Begin(q) \/ (server # "exited" /\ Handler(q)) \/ Client(q)

Next ==
    /\ \/ \E q \in Requests : Refuse(q) \/ Serve(q) \/ Proceeds(q) \/ ClientLeaves(q) \/ Cut(q)
       \/ Client(Scanner)
       \/ Around(World) \/ TrackingMoves \/ Terminate \/ Exit \/ Restart
    /\ Watch

Spec == Init /\ [][Next]_vars

(* Clients try again, goroutines run, the breaker's timeout and the keys'  *)
(* lifetimes pass.  Nothing says that a fault ends or a process restarts.  *)
(* The subscripts are what the steps of each change.                       *)
Fairness ==
    /\ \A q \in Requests : WF_<<at[q], call[q]>>(Proceeds(q))
    /\ WF_<<call[Scanner]>>(Client(Scanner))
    /\ WF_<<cached, breaker>>(Around(Expire \/ TimeoutEnds))

FairSpec == Spec /\ Fairness

-----------------------------------------------------------------------------
Told(o, code) == said.code = code /\ said.op = o
Over(proto)   == said.code \notin Plain /\ Transport[said.to] = proto

(* A client is told that a repository does not exist only if GitHub said   *)
(* so while the request ran, or a cached denial did.                       *)
NotFoundIsHonest == Told("subscribe", "notFound") => "absent" \in said.saw

(* An HTTP client is told 500 or 503 only for a reason its request met: a  *)
(* dependency failed, the repository changed under it or has no release,   *)
(* or its user was stored by somebody else after it looked for him; resp.  *)
(* GitHub limited us, the breaker was not closed or tracking was away.  A  *)
(* tag that is not known here fails its report.                            *)
ErrorsAreExplained ==
    Over("http") =>
        /\ said.code = "internal" =>
              "trouble" \in said.saw \/ said.op = "tag" \/ (said.op = "subscribe" /\ "raced" \in said.saw)
        /\ said.code = "unavailable" => "shield" \in said.saw

(* Who is told that a subscription was accepted can rely on tracking       *)
(* knowing the repository, unless its last subscriber left meanwhile.      *)
AcceptedIsRegistered ==
    Told("subscribe", "accepted") => tracked \/ "trouble" \in said.saw

(* A shutdown answers every gRPC request it finds; HTTP requests are cut.  *)
GrpcIsDrained == Told("subscribe", "cut") => Over("http")

(* The inductive invariant: what the history must have recorded by the     *)
(* time a request has come so far, for each answer it may still be given.  *)
PhasesAgree(q) ==
    /\ at[q] = "exists" => call[q] \in {"exists", "asksExists", "storesTrue", "storesFalse", "true",
                                       "false", "rateLimited", "unavailable", "error"}
    /\ at[q] = "release" => call[q] \in {"release", "asksRelease", "storesRelease", "found",
                                        "unavailable", "error"}

ResultsAreExplained(q) ==
    Transport[q] = "http" =>
        /\ call[q] \in {"storesFalse", "false"} => "absent" \in saw[q]
        /\ call[q] \in {"unavailable", "rateLimited"} => "shield" \in saw[q]
        /\ call[q] = "error" => "trouble" \in saw[q]

\* A request goes on for as long as the repository it asked for is there, and
\* neither tracking nor the users get their row from somebody else.
WorldIsExplained(q) ==
    /\ (at[q] = "release" \/ call[q] \in {"true", "storesTrue"}) /\ github = "absent" =>
          "trouble" \in saw[q]
    /\ at[q] \in {"exists", "release", "create"} /\ tracked => "trouble" \in saw[q]
    /\ at[q] \in {"user", "newUser", "save"} => tracked \/ "trouble" \in saw[q]
    /\ at[q] = "newUser" /\ EmailOf[q] \in users /\ Transport[q] = "http" => "raced" \in saw[q]

OnlyHttpRemains(q) == server = "exited" /\ at[q] # "idle" => Transport[q] = "http"

IInv ==
    /\ TypeOK
    /\ \A q \in Requests :
          PhasesAgree(q) /\ ResultsAreExplained(q) /\ WorldIsExplained(q) /\ OnlyHttpRemains(q)
    /\ NotFoundIsHonest /\ ErrorsAreExplained /\ AcceptedIsRegistered /\ GrpcIsDrained

(* Once GitHub and the rest behave, the breaker closes, denials expire and *)
(* subscriptions are accepted again and again.                             *)
Healthy == fault = "none" /\ github = "released" /\ server = "serving"
RecoversWithGitHub == <>[]Healthy => []<>Told("subscribe", "accepted")
=============================================================================
