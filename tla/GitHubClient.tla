---------------------------- MODULE GitHubClient ----------------------------
(***************************************************************************)
(* Tracking's way to GitHub, for one repository: a cache in Redis in front *)
(* of a client behind a circuit breaker (src/services/tracking/internal/   *)
(* infrastructure/clients/github, cache/redis, and gobreaker v1.0.0).      *)
(* A call looks in the cache, asks the breaker, is answered by GitHub or   *)
(* gives up, reports to the breaker, and stores the answer; several run at *)
(* once.  The actions change the variables of this module only.            *)
(***************************************************************************)
EXTENDS Naturals

CONSTANTS
    Callers,        \* goroutines that call the client
    Others,         \* those of them that ask about another repository
    Faults,         \* what may fail or interfere, one at a time (a bound)
    Threshold,      \* CBFailureThreshold
    MaxRequests     \* CBMaxRequests

ASSUME ClientAssumption ==
    /\ Others \subseteq Callers
    /\ Faults \subseteq {"github", "redis", "db", "tracking", "others"}
    /\ Threshold \in Nat \ {0} /\ MaxRequests \in Nat \ {0}

VARIABLES
    github,     \* the repository: "absent", "unreleased" or "released"
    fault,      \* the one that does so now, or "none"
    cached,     \* keys "repo_exists:" ("none", "true", "false") and "release:"
    breaker,    \* state, and the counts of its generation
    call,       \* where each caller is in the client, or what it got from it
    fresh       \* its request belongs to the breaker's current generation

worldVars  == <<github, fault>>
clientVars == <<cached, breaker, call, fresh>>

InClient == {"exists", "release", "asksExists", "asksRelease",
             "storesTrue", "storesFalse", "storesRelease"}
Results  == {"true", "false", "found", "rateLimited", "unavailable", "error"}
Asking   == {"asksExists", "asksRelease"}

\* A new generation starts with its counts cleared.
Generation(s) == [state |-> s, fails |-> 0, probes |-> 0, oks |-> 0]

ClientTypeOK ==
    /\ github \in {"absent", "unreleased", "released"} /\ fault \in Faults \cup {"none"}
    /\ cached \in [exists : {"none", "true", "false"}, release : BOOLEAN]
    /\ breaker \in [state : {"closed", "open", "half"}, fails : 0..(Threshold - 1),
                    probes : 0..MaxRequests, oks : 0..(MaxRequests - 1)]
    /\ call \in [Callers -> InClient \cup Results \cup {"none"}]
    /\ fresh \in [Callers -> BOOLEAN]
    /\ \A c \in Callers : fresh[c] => call[c] \in Asking /\ breaker.state # "open"

ClientInit ==
    /\ github \in {"absent", "unreleased", "released"} /\ fault = "none"
    /\ cached = [exists |-> "none", release |-> FALSE]
    /\ breaker = Generation("closed")
    /\ call = [c \in Callers |-> "none"] /\ fresh = [c \in Callers |-> FALSE]

Returns(c, r) == call' = [call EXCEPT ![c] = r]

-----------------------------------------------------------------------------
(* The world.                                                              *)

GitHubChanges ==
    /\ \E s \in {"absent", "unreleased", "released"} \ {github} : github' = s
    /\ UNCHANGED <<fault, clientVars>>

FaultBegins ==
    /\ fault = "none" /\ \E f \in Faults : fault' = f
    /\ UNCHANGED <<github, clientVars>>

FaultEnds ==
    /\ fault # "none" /\ fault' = "none"
    /\ UNCHANGED <<github, clientVars>>

-----------------------------------------------------------------------------
(* The breaker.                                                            *)

\* CBInterval is over: a closed breaker forgets, and so does who asked before.
IntervalEnds ==
    /\ breaker.state = "closed"
    /\ breaker' = Generation("closed")
    /\ fresh' = [c \in Callers |-> FALSE]
    /\ UNCHANGED <<worldVars, cached, call>>

\* CBTimeout is over.
TimeoutEnds ==
    /\ breaker.state = "open"
    /\ breaker' = Generation("half")
    /\ UNCHANGED <<worldVars, cached, call, fresh>>

Admits == breaker.state = "closed" \/ (breaker.state = "half" /\ breaker.probes < MaxRequests)

\* afterRequest: what the outcome of c's request makes of the breaker.
Reported(c, ok) ==
    CASE ~fresh[c] -> breaker
      [] fresh[c] /\ ok /\ breaker.state = "closed" -> [breaker EXCEPT !.fails = 0]
      [] fresh[c] /\ ok /\ breaker.state = "half" ->
            IF breaker.oks + 1 >= MaxRequests THEN Generation("closed")
            ELSE [breaker EXCEPT !.oks = @ + 1]
      [] fresh[c] /\ ~ok ->
            IF breaker.state = "half" \/ breaker.fails + 1 >= Threshold THEN Generation("open")
            ELSE [breaker EXCEPT !.fails = @ + 1]

\* Mutant of Report: requests of an old generation count in the new one.
ReportLate(c, ok) ==
    /\ breaker' = Reported(c, ok)
    /\ fresh' = [fresh EXCEPT ![c] = FALSE]

Report(c, ok) ==
    /\ breaker' = Reported(c, ok)
    /\ fresh' = IF breaker'.state = breaker.state THEN [fresh EXCEPT ![c] = FALSE]
                ELSE [d \in Callers |-> FALSE]

-----------------------------------------------------------------------------
(* A call.  Cache.Get fails when Redis is away, which counts as a miss.    *)

Hit(c) ==
    \/ call[c] = "exists" /\ cached.exists # "none"
    \/ call[c] = "release" /\ cached.release

CacheAnswers(c) ==
    /\ Hit(c) /\ fault # "redis"
    /\ Returns(c, IF call[c] = "exists" THEN cached.exists ELSE "found")
    /\ UNCHANGED <<worldVars, cached, breaker, fresh>>

Missed(c) == call[c] \in {"exists", "release"} /\ (~Hit(c) \/ fault = "redis")

BreakerRefuses(c) ==
    /\ Missed(c) /\ ~Admits
    /\ Returns(c, "unavailable")
    /\ UNCHANGED <<worldVars, cached, breaker, fresh>>

\* A call about another repository shows here only while it is in flight.
Ask(c) ==
    /\ Missed(c) \/ (c \in Others /\ call[c] = "none")
    /\ Admits
    /\ breaker' = IF breaker.state = "half" THEN [breaker EXCEPT !.probes = @ + 1] ELSE breaker
    /\ fresh' = [fresh EXCEPT ![c] = TRUE]
    /\ Returns(c, IF call[c] = "exists" THEN "asksExists" ELSE "asksRelease")
    /\ UNCHANGED <<worldVars, cached>>

\* Mutant of ExistsAnswer: every status but 200 is a repository that is not there.
ExistsAnswerDefault ==
    IF fault # "github" /\ github # "absent" THEN {"storesTrue"} ELSE {"storesFalse"}

\* repoExistsRequest by status: 200, 404, 403, and an error for 429, 5xx or no
\* answer before HTTPTimeout or the request's deadline.
ExistsAnswer ==
    IF fault = "github" THEN {"rateLimited", "error"}
    ELSE IF github = "absent" THEN {"storesFalse"} ELSE {"storesTrue"}

\* The other repository has a release, but while "others" is the fault.
HasRelease(c) == IF c \in Others THEN fault # "others" ELSE github = "released"

\* latestReleaseRequest: 200, and an error for any other status: the 404 of a
\* repository without releases is one, and counts as a failure of GitHub.
ReleaseAnswer(c) == IF fault # "github" /\ HasRelease(c) THEN {"storesRelease"} ELSE {"error"}

Ended(c, r) == Returns(c, IF c \in Others THEN "none" ELSE r)

Answers(c) ==
    /\ call[c] \in Asking
    /\ \E r \in IF call[c] = "asksExists" THEN ExistsAnswer ELSE ReleaseAnswer(c) :
          /\ Ended(c, r)
          /\ Report(c, r \notin Results)
    /\ UNCHANGED <<worldVars, cached>>

\* Cache.Set, whose error is the call's.
Stores(c) ==
    /\ call[c] \in {"storesTrue", "storesFalse", "storesRelease"}
    /\ IF fault = "redis" THEN Returns(c, "error") /\ UNCHANGED cached
       ELSE \/ /\ call[c] = "storesRelease" /\ Returns(c, "found")
               /\ cached' = [cached EXCEPT !.release = TRUE]
            \/ /\ call[c] = "storesTrue" /\ Returns(c, "true")
               /\ cached' = [cached EXCEPT !.exists = "true"]
            \/ /\ call[c] = "storesFalse" /\ Returns(c, "false")
               /\ cached' = [cached EXCEPT !.exists = "false"]
    /\ UNCHANGED <<worldVars, breaker, fresh>>

\* Mutant of Expire: what is known of the repository is kept for ever.
ExpireRelease ==
    /\ cached.release
    /\ cached' = [cached EXCEPT !.release = FALSE]
    /\ UNCHANGED <<worldVars, breaker, call, fresh>>

\* One minute for repo_exists, five for release.
Expire ==
    /\ \/ cached.release /\ cached' = [cached EXCEPT !.release = FALSE]
       \/ cached.exists # "none" /\ cached' = [cached EXCEPT !.exists = "none"]
    /\ UNCHANGED <<worldVars, breaker, call, fresh>>

\* The caller's context is cancelled, wherever the call is.
Cancel(c) ==
    /\ Returns(c, "none")
    /\ IF call[c] \in Asking THEN Report(c, FALSE) ELSE UNCHANGED <<breaker, fresh>>
    /\ UNCHANGED <<worldVars, cached>>

World == GitHubChanges \/ FaultBegins \/ FaultEnds \/ IntervalEnds \/ TimeoutEnds \/ Expire

Step(c) ==
    \/ CacheAnswers(c) \/ BreakerRefuses(c) \/ Ask(c) \/ Answers(c) \/ Stores(c)
=============================================================================
