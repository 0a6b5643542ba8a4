-------------------------- MODULE SubscribeApiProofs --------------------------
(***************************************************************************)
(* For any number of clients of either server, any thresholds of the       *)
(* breaker and any faults, the answers of the API are honest: what a       *)
(* client is told was true of the world at some moment of its request.     *)
(* Each answer is explained when it is given, because what leads to it was *)
(* recorded in the history by the step that led to it.                     *)
(***************************************************************************)
EXTENDS SubscribeApi, TLAPS

USE ClientAssumption, ApiAssumption

-----------------------------------------------------------------------------
(* Facts about the state and the history.                                  *)

\* The invariant of one request.
Explained(q) == PhasesAgree(q) /\ ResultsAreExplained(q) /\ WorldIsExplained(q) /\ OnlyHttpRemains(q)

Honest == NotFoundIsHonest /\ ErrorsAreExplained /\ AcceptedIsRegistered /\ GrpcIsDrained

Phases == {"idle", "lookup", "exists", "release", "create", "user", "newUser", "save"}

LEMMA RequestFacts ==
  ASSUME IInv, NEW q \in Requests
  PROVE  /\ Explained(q) /\ q \in Callers /\ q \notin Others
         /\ at[q] \in Phases
         /\ call[q] # "none" <=> at[q] \in {"exists", "release"}
         /\ saw[q] \subseteq Amiss
  BY DEF IInv, TypeOK, Explained, Phases, InTracking

LEMMA NowFacts ==
  /\ Now \subseteq Amiss
  /\ "absent" \in Now <=> github = "absent"
  /\ "shield" \in Now <=> breaker.state # "closed" \/ fault \in {"github", "tracking"}
  /\ "trouble" \in Now <=> \/ fault \in {"github", "redis", "db"} \/ github = "unreleased"
                           \/ github = "absent" /\ cached.exists = "true"
  BY DEF Now, When, Amiss

LEMMA NowFactsNext ==
  /\ Now' \subseteq Amiss
  /\ "absent" \in Now' <=> github' = "absent"
  /\ "shield" \in Now' <=> breaker'.state # "closed" \/ fault' \in {"github", "tracking"}
  /\ "trouble" \in Now' <=> \/ fault' \in {"github", "redis", "db"} \/ github' = "unreleased"
                            \/ github' = "absent" /\ cached'.exists = "true"
  BY DEF Now, When, Amiss

LEMMA SeenFacts ==
  ASSUME IInv, NEW q \in Requests
  PROVE  /\ Seen(q) \subseteq Amiss /\ Now \subseteq Seen(q)
         /\ at[q] # "idle" => saw[q] \subseteq Seen(q)
  BY RequestFacts, NowFacts DEF Seen

\* What a step adds to the history of a request that is going on, and what it
\* leaves in it because it still matters.
LEMMA WatchFacts ==
  ASSUME IInv, Watch, NEW q \in Requests
  PROVE  /\ saw'[q] \subseteq Amiss
         /\ at[q] # "idle" /\ at'[q] \in Phases \ {"idle"} =>
              /\ "trouble" \in saw[q] \cup Now' => "trouble" \in saw'[q]
              /\ github' # github => "trouble" \in saw'[q]
              /\ tracked' # tracked /\ at'[q] = at[q] => "trouble" \in saw'[q]
         /\ at[q] # "idle" /\ at'[q] \in Phases \ {"idle"} /\ Transport[q] = "http" =>
              /\ at'[q] \in {"exists", "release"} /\ "shield" \in saw[q] \cup Now' => "shield" \in saw'[q]
              /\ at'[q] = "exists" /\ "absent" \in saw[q] \cup Now' => "absent" \in saw'[q]
              /\ at'[q] = "exists" /\ call[q] = "exists" /\ call'[q] = "false" => "absent" \in saw'[q]
              /\ at[q] = "newUser" /\ at'[q] = "newUser" /\ "raced" \in saw[q] => "raced" \in saw'[q]
              /\ /\ at[q] = "newUser" /\ at'[q] = "newUser"
                 /\ users' # users /\ EmailOf[q] \in users'
                 => "raced" \in saw'[q]
<1>1. saw'[q] = Matters(q, at'[q]) \cap (Now' \cup IF at[q] = "idle" THEN {} ELSE saw[q] \cup Meets(q))
  BY DEF Watch
<1>2. Matters(q, at'[q]) \subseteq Amiss
  BY DEF Matters, Amiss
<1>3. /\ at'[q] \in Phases \ {"idle"} => "trouble" \in Matters(q, at'[q])
      /\ Transport[q] = "http" =>
           /\ at'[q] \in {"exists", "release"} => "shield" \in Matters(q, at'[q])
           /\ at'[q] = "exists" => "absent" \in Matters(q, at'[q])
           /\ at'[q] = "newUser" => "raced" \in Matters(q, at'[q])
  BY DEF Matters, Phases, Amiss
<1>4. /\ github' # github => "trouble" \in Meets(q)
      /\ tracked' # tracked /\ at'[q] = at[q] => "trouble" \in Meets(q)
      /\ call[q] = "exists" /\ call'[q] = "false" => "absent" \in Meets(q)
      /\ users' # users /\ EmailOf[q] \in users' /\ at[q] = "newUser" /\ at'[q] = "newUser"
         => "raced" \in Meets(q)
  BY DEF Meets, When
<1> QED
  BY <1>1, <1>2, <1>3, <1>4

-----------------------------------------------------------------------------
(* Answers.                                                                *)

Message == [to : Requests, op : Ops, code : Codes, saw : SUBSET Amiss] \cup {Nothing}

LEMMA NothingFacts == ASSUME said' = Nothing PROVE said' \in Message /\ Honest'
<1>1. said'.code = "none" /\ "none" \in Plain /\ said' \in Message
  BY DEF Nothing, Plain, Message
<1> QED
  BY <1>1 DEF Honest, NotFoundIsHonest, ErrorsAreExplained, AcceptedIsRegistered, GrpcIsDrained,
              Told, Over, Plain

\* What is true of an answer, that is not about its being one, when it is given.
LEMMA SayFacts ==
  ASSUME IInv, NEW q \in Requests, NEW o \in Ops, NEW code \in Codes \cup Plain, Say(q, o, code),
         o = "subscribe" /\ code = "notFound" => "absent" \in Seen(q),
         Transport[q] = "http" /\ code = "internal" =>
             "trouble" \in Seen(q) \/ o = "tag" \/ (o = "subscribe" /\ "raced" \in Seen(q)),
         Transport[q] = "http" /\ code = "unavailable" => "shield" \in Seen(q),
         o = "subscribe" /\ code = "accepted" => tracked' \/ "trouble" \in Seen(q),
         code = "cut" => Transport[q] = "http"
  PROVE  said' \in Message /\ Honest'
<1>0. Transport[q] \in {"http", "grpc"}
  OBVIOUS
<1>1. CASE ~Asked(q, o, code)
  BY <1>1, NothingFacts DEF Say
<1>2. CASE Asked(q, o, code)
  <2>0. code \in Codes /\ code \notin Plain
    BY <1>2 DEF Asked, Codes, Plain
  <2> DEFINE reasons == Seen(q) \cap Reasons(code)
  <2>1. said' = [to |-> q, op |-> o, code |-> code, saw |-> reasons]
    BY <1>2 DEF Say
  <2>2. said' \in Message
    BY <2>0, <2>1, SeenFacts DEF Message
  <2>3. said'.to = q /\ said'.op = o /\ said'.code = code /\ said'.saw = reasons
    BY <2>1
  <2>4. /\ code = "notFound" /\ "absent" \in Seen(q) => "absent" \in reasons
        /\ code = "unavailable" /\ "shield" \in Seen(q) => "shield" \in reasons
        /\ code \in {"internal", "accepted"} /\ "trouble" \in Seen(q) => "trouble" \in reasons
        /\ code = "internal" /\ "raced" \in Seen(q) => "raced" \in reasons
    BY DEF Reasons
  <2> HIDE DEF reasons
  <2> QED
    BY <1>0, <2>0, <2>2, <2>3, <2>4 DEF Honest, NotFoundIsHonest, ErrorsAreExplained,
                          AcceptedIsRegistered, GrpcIsDrained, Told, Over
<1> QED
  BY <1>1, <1>2

\* The same of an answer that passes a handler's translation.
LEMMA AnswerFacts ==
  ASSUME IInv, NEW q \in Requests, NEW o \in Ops,
         NEW code \in {"accepted", "notFound", "unavailable", "internal", "ok"}, Answer(q, o, code),
         Transport[q] = "http" /\ o = "subscribe" /\ code = "notFound" => "absent" \in Seen(q),
         Transport[q] = "http" /\ code = "internal" =>
             "trouble" \in Seen(q) \/ o = "tag" \/ (o = "subscribe" /\ "raced" \in Seen(q)),
         Transport[q] = "http" /\ code = "unavailable" => "shield" \in Seen(q),
         o = "subscribe" /\ code = "accepted" => tracked' \/ "trouble" \in Seen(q)
  PROVE  said' \in Message /\ Honest'
<1>0. Transport[q] \in {"http", "grpc"}
  OBVIOUS
<1>1. CASE Transport[q] = "http"
  <2>1. Say(q, o, HttpCode(o, code)) /\ HttpCode(o, code) \in {code, IF o = "tag" THEN "internal" ELSE code}
    BY <1>1 DEF Answer, HttpCode
  <2>2. HttpCode(o, code) \in Codes \cup Plain
    BY <2>1 DEF Codes, Plain
  <2> HIDE DEF HttpCode
  <2> QED
    BY <1>1, <2>1, <2>2, SayFacts
<1>2. CASE Transport[q] = "grpc"
  <2>1. Say(q, o, GrpcCode(o, code))
        /\ GrpcCode(o, code) \in {"internal", code} /\ (GrpcCode(o, code) = "notFound" => o = "tag")
    BY <1>2 DEF Answer, GrpcCode
  <2>2. GrpcCode(o, code) \in Codes \cup Plain
    BY <2>1 DEF Codes, Plain
  <2> HIDE DEF GrpcCode
  <2> QED
    BY <1>2, <2>1, <2>2, SayFacts
<1> QED
  BY <1>0, <1>1, <1>2

\* Statuses on their way back.
LEMMA TranslatedFacts ==
  ASSUME IInv, NEW q \in Requests, call[q] \in Results, at[q] \in {"exists", "release"}, NEW code,
         code = Translated(Status(call[q]))
  PROVE  /\ code \in {"notFound", "unavailable", "internal"}
         /\ Transport[q] = "http" =>
              /\ code = "notFound" => "absent" \in Seen(q)
              /\ code = "unavailable" => "shield" \in Seen(q)
              /\ code = "internal" => "trouble" \in Seen(q) \/ call[q] \in {"true", "found"}
<1>1. /\ code = "notFound" => call[q] = "false"
      /\ code = "unavailable" => call[q] \in {"unavailable", "rateLimited"}
      /\ code = "internal" => call[q] \in {"error", "true", "found"}
      /\ code \in {"notFound", "unavailable", "internal"}
  <2>1. CASE call[q] = "false"
    BY <2>1 DEF Translated, Status
  <2>2. CASE call[q] \in {"unavailable", "rateLimited"}
    BY <2>2 DEF Translated, Status
  <2>3. CASE call[q] \in {"error", "true", "found"}
    BY <2>3 DEF Translated, Status
  <2> QED
    BY <2>1, <2>2, <2>3 DEF Results
<1>2. ResultsAreExplained(q) /\ saw[q] \subseteq Seen(q)
  BY RequestFacts, SeenFacts DEF Explained
<1> QED
  BY <1>1, <1>2 DEF ResultsAreExplained

\* Every answer is honest when it is given, whoever gives it.
LEMMA HandlerHonest ==
  ASSUME IInv, NEW q \in Requests, Handler(q) PROVE said' \in Message /\ Honest'
<1>0. "subscribe" \in Ops
  BY DEF Ops
<1>1. /\ fault = "tracking" => "shield" \in Seen(q)
      /\ fault = "db" => "trouble" \in Seen(q)
  BY NowFacts, SeenFacts
<1>2. /\ Explained(q)
      /\ at[q] # "idle" => saw[q] \subseteq Seen(q)
  BY RequestFacts, SeenFacts
<1>3. CASE TrackingAway(q)
  <2>1. Translated("Unavailable") = "unavailable"
    BY DEF Translated
  <2> QED
    BY <1>0, <1>1, <1>3, <2>1, AnswerFacts DEF TrackingAway
<1>4. CASE DatabaseFails(q)
  BY <1>0, <1>1, <1>4, AnswerFacts DEF DatabaseFails, Ends
<1>5. CASE LookUp(q) \/ Create(q) \/ FindUser(q) \/ CreateUser(q)
  BY <1>5, NothingFacts DEF LookUp, Create, FindUser, CreateUser, Continues
<1>6. ASSUME at[q] \in {"exists", "release"}, call[q] \in Results, call[q] \notin {"true", "found"},
             Ends(q, Translated(Status(call[q])))
      PROVE  said' \in Message /\ Honest'
  <2> DEFINE code == Translated(Status(call[q]))
  <2>1. /\ code \in {"notFound", "unavailable", "internal"}
        /\ Transport[q] = "http" =>
             /\ code = "notFound" => "absent" \in Seen(q)
             /\ code = "unavailable" => "shield" \in Seen(q)
             /\ code = "internal" => "trouble" \in Seen(q)
    BY <1>6, TranslatedFacts
  <2>2. Answer(q, "subscribe", code)
    BY <1>6 DEF Ends
  <2> HIDE DEF code
  <2> QED
    BY <1>0, <2>1, <2>2, AnswerFacts
<1>7. CASE Existence(q)
  <2>1. at[q] = "exists" /\ call[q] # "found"
    BY <1>2, <1>7 DEF Existence, Explained, PhasesAgree
  <2> QED
    BY <1>6, <1>7, <2>1, NothingFacts DEF Existence, Continues
<1>8. CASE LatestRelease(q)
  <2>1. at[q] = "release" /\ call[q] # "true"
    BY <1>2, <1>8 DEF LatestRelease, Explained, PhasesAgree
  <2> QED
    BY <1>6, <1>8, <2>1, NothingFacts DEF LatestRelease, Continues
<1>9. CASE CreateConflicts(q)
  <2>1. Answer(q, "subscribe", "internal") /\ at[q] = "create" /\ tracked
    BY <1>9 DEF CreateConflicts, Ends
  <2>2. "trouble" \in Seen(q)
    BY <1>2, <2>1 DEF Explained, WorldIsExplained
  <2> QED
    BY <1>0, <2>1, <2>2, AnswerFacts
<1>10. CASE CreateUserConflicts(q)
  <2>1. Answer(q, "subscribe", "internal") /\ at[q] = "newUser" /\ EmailOf[q] \in users
    BY <1>10 DEF CreateUserConflicts, Ends
  <2>2. Transport[q] = "http" => "raced" \in Seen(q)
    BY <1>2, <2>1 DEF Explained, WorldIsExplained
  <2> QED
    BY <1>0, <2>1, <2>2, AnswerFacts
<1>11. CASE Save(q)
  <2>1. Answer(q, "subscribe", "accepted") /\ at[q] = "save" /\ tracked' = tracked
    BY <1>11 DEF Save, Ends
  <2>2. tracked' \/ "trouble" \in Seen(q)
    BY <1>2, <2>1 DEF Explained, WorldIsExplained
  <2> QED
    BY <1>0, <2>1, <2>2, AnswerFacts
<1> QED
  BY <1>3, <1>4, <1>5, <1>7, <1>8, <1>9, <1>10, <1>11 DEF Handler

LEMMA NextHonest == ASSUME IInv, Next PROVE said' \in Message /\ Honest'
<1>1. ASSUME NEW q \in Requests, Refuse(q) PROVE said' \in Message /\ Honest'
  <2>1. PICK o \in Ops : \/ Limited(q) /\ Say(q, o, "internal")
                         \/ \E code \in {"tooMany", "unauthorized", "badRequest"} : Say(q, o, code)
    BY <1>1 DEF Refuse
  <2>2. Limited(q) => "trouble" \in Seen(q)
    BY NowFacts, SeenFacts DEF Limited
  <2>3. {"internal", "tooMany", "unauthorized", "badRequest"} \subseteq Codes \cup Plain
    BY DEF Codes, Plain
  <2> QED
    BY <2>1, <2>2, <2>3, SayFacts
<1>2. ASSUME NEW q \in Requests, Serve(q) PROVE said' \in Message /\ Honest'
  <2>1. PICK o \in Ops, code \in {"internal", "ok", "notFound"} :
          Answer(q, o, code) /\ o # "subscribe" /\ (code = "internal" => fault = "db")
    BY <1>2 DEF Serve
  <2>2. fault = "db" => "trouble" \in Seen(q)
    BY NowFacts, SeenFacts
  <2> QED
    BY <2>1, <2>2, AnswerFacts
<1>3. ASSUME NEW q \in Requests, Cut(q) PROVE said' \in Message /\ Honest'
  <2>1. Say(q, "subscribe", "cut") /\ server = "exited" /\ at[q] # "idle"
    BY <1>3 DEF Cut
  <2>2. Transport[q] = "http"
    BY <2>1, RequestFacts DEF Explained, OnlyHttpRemains
  <2> QED
    BY <2>1, <2>2, SayFacts DEF Ops, Codes
<1>4. ASSUME NEW q \in Requests, Begin(q) \/ ClientLeaves(q) PROVE said' \in Message /\ Honest'
  BY <1>4, NothingFacts DEF Begin, ClientLeaves
<1>5. ASSUME NEW c \in Callers, Client(c) PROVE said' \in Message /\ Honest'
  BY <1>5, NothingFacts DEF Client
<1>6. CASE Around(World) \/ TrackingMoves \/ Terminate \/ Exit \/ Restart
  BY <1>6, NothingFacts DEF Around, TrackingMoves, Terminate, Exit, Restart
<1> QED
  BY <1>1, <1>2, <1>3, <1>4, <1>5, <1>6, HandlerHonest DEF Next, Proceeds

-----------------------------------------------------------------------------
(* The client of GitHub.                                                   *)

LEMMA ReportTypes ==
  ASSUME ClientTypeOK, NEW c \in Callers, NEW ok \in BOOLEAN, call[c] \in Asking, Report(c, ok),
         NEW r, r \notin Asking, Returns(c, r)
  PROVE  /\ breaker' \in [state : {"closed", "open", "half"}, fails : 0..(Threshold - 1),
                          probes : 0..MaxRequests, oks : 0..(MaxRequests - 1)]
         /\ fresh' \in [Callers -> BOOLEAN]
         /\ \A d \in Callers : fresh'[d] => call'[d] \in Asking /\ breaker'.state # "open"
<1> DEFINE B == [state : {"closed", "open", "half"}, fails : 0..(Threshold - 1),
                 probes : 0..MaxRequests, oks : 0..(MaxRequests - 1)]
<1>1. \A st \in {"closed", "open", "half"} : Generation(st) \in B
  BY DEF Generation
<1>2. breaker \in B
  BY DEF ClientTypeOK
<1>3. Reported(c, ok) \in B
  <2>1. CASE ~fresh[c]
    BY <1>2, <2>1 DEF Reported
  <2>2. CASE fresh[c] /\ ok /\ breaker.state = "closed"
    <3>1. Reported(c, ok) = [breaker EXCEPT !.fails = 0]
      BY <2>2 DEF Reported
    <3> QED
      BY <1>2, <3>1
  <2>3. CASE fresh[c] /\ ok /\ breaker.state = "half"
    <3>1. Reported(c, ok) = IF breaker.oks + 1 >= MaxRequests THEN Generation("closed")
                            ELSE [breaker EXCEPT !.oks = breaker.oks + 1]
      BY <2>3 DEF Reported
    <3>2. breaker.oks + 1 < MaxRequests => [breaker EXCEPT !.oks = breaker.oks + 1] \in B
      BY <1>2
    <3> QED
      BY <1>1, <1>2, <3>1, <3>2
  <2>4. CASE fresh[c] /\ ~ok
    <3>1. Reported(c, ok) = IF breaker.state = "half" \/ breaker.fails + 1 >= Threshold
                            THEN Generation("open") ELSE [breaker EXCEPT !.fails = breaker.fails + 1]
      BY <2>4 DEF Reported
    <3>2. breaker.fails + 1 < Threshold => [breaker EXCEPT !.fails = breaker.fails + 1] \in B
      BY <1>2
    <3> QED
      BY <1>1, <1>2, <3>1, <3>2
  <2> QED
    BY <1>2, <2>1, <2>2, <2>3, <2>4 DEF ClientTypeOK
<1>4. breaker' \in B
  BY <1>3 DEF Report
<1>5. /\ fresh' \in [Callers -> BOOLEAN] /\ ~fresh'[c]
      /\ \A d \in Callers : fresh'[d] => fresh[d] /\ breaker'.state = breaker.state
  BY DEF Report, ClientTypeOK
<1>6. \A d \in Callers : d # c => call'[d] = call[d]
  BY DEF Returns, ClientTypeOK
<1> QED
  BY <1>4, <1>5, <1>6 DEF ClientTypeOK

\* A caller that is not in a request leaves the breaker alone.
LEMMA ReturnsTypes ==
  ASSUME ClientTypeOK, NEW c \in Callers, call[c] \notin Asking, NEW r \in InClient \cup Results \cup {"none"},
         Returns(c, r), UNCHANGED <<breaker, fresh, worldVars>>,
         cached' \in [exists : {"none", "true", "false"}, release : BOOLEAN]
  PROVE  ClientTypeOK'
<1>1. call' \in [Callers -> InClient \cup Results \cup {"none"}]
      /\ \A d \in Callers : call'[d] = IF d = c THEN r ELSE call[d]
  BY DEF Returns, ClientTypeOK
<1>2. UNCHANGED <<github, fault, breaker, fresh>>
  BY DEF worldVars
<1>3. \A d \in Callers : fresh'[d] => call'[d] \in Asking /\ breaker'.state # "open"
  BY <1>1, <1>2 DEF ClientTypeOK
<1> QED
  BY <1>1, <1>2, <1>3 DEF ClientTypeOK

LEMMA CancelTypes == ASSUME ClientTypeOK, NEW c \in Callers, Cancel(c) PROVE ClientTypeOK'
<1>1. UNCHANGED <<github, fault, cached>> /\ Returns(c, "none")
  BY DEF Cancel, worldVars
<1>2. CASE call[c] \in Asking
  <2>1. call' \in [Callers -> InClient \cup Results \cup {"none"}]
    BY <1>1 DEF Returns, ClientTypeOK
  <2>2. Report(c, FALSE) /\ "none" \notin Asking
    BY <1>2 DEF Cancel, Asking
  <2> QED
    BY <1>1, <1>2, <2>1, <2>2, ReportTypes DEF ClientTypeOK
<1>3. CASE call[c] \notin Asking
  BY <1>1, <1>3, ReturnsTypes DEF Cancel, ClientTypeOK, worldVars
<1> QED
  BY <1>2, <1>3

LEMMA StepTypes == ASSUME ClientTypeOK, NEW c \in Callers, Step(c) PROVE ClientTypeOK'
<1>0. cached \in [exists : {"none", "true", "false"}, release : BOOLEAN]
  BY DEF ClientTypeOK
<1>1. CASE CacheAnswers(c)
  <2>1. call[c] \notin Asking /\ UNCHANGED <<breaker, fresh, worldVars, cached>>
    BY <1>1 DEF CacheAnswers, Hit, Asking
  <2>2. PICK r \in {"true", "false", "found"} : Returns(c, r)
    BY <1>0, <1>1 DEF CacheAnswers, Hit
  <2> QED
    BY <1>0, <2>1, <2>2, ReturnsTypes DEF Results
<1>2. CASE BreakerRefuses(c)
  <2>1. call[c] \notin Asking /\ UNCHANGED <<breaker, fresh, worldVars, cached>> /\ Returns(c, "unavailable")
    BY <1>2 DEF BreakerRefuses, Missed, Asking
  <2> QED
    BY <1>0, <2>1, ReturnsTypes DEF Results
<1>3. CASE Ask(c)
  <2>1. PICK r \in Asking : Returns(c, r)
    BY <1>3 DEF Ask, Asking
  <2>2. call' \in [Callers -> InClient \cup Results \cup {"none"}]
        /\ \A d \in Callers : call'[d] = IF d = c THEN r ELSE call[d]
    BY <2>1 DEF Returns, ClientTypeOK, Asking, InClient
  <2>3. fresh' \in [Callers -> BOOLEAN] /\ \A d \in Callers : fresh'[d] = IF d = c THEN TRUE ELSE fresh[d]
    BY <1>3 DEF Ask, ClientTypeOK
  <2>4. breaker' \in [state : {"closed", "open", "half"}, fails : 0..(Threshold - 1),
                      probes : 0..MaxRequests, oks : 0..(MaxRequests - 1)]
        /\ breaker'.state = breaker.state /\ breaker.state # "open"
    <3>1. \/ /\ breaker' = [breaker EXCEPT !.probes = breaker.probes + 1]
             /\ breaker.probes < MaxRequests
          \/ breaker' = breaker
      BY <1>3 DEF Ask, Admits
    <3> QED
      BY <1>3, <3>1 DEF ClientTypeOK, Ask, Admits
  <2>5. UNCHANGED <<github, fault, cached>>
    BY <1>3 DEF Ask, worldVars
  <2>6. ASSUME NEW d \in Callers, fresh'[d] PROVE call'[d] \in Asking /\ breaker'.state # "open"
    <3>1. fresh[d] => call[d] \in Asking
      BY DEF ClientTypeOK
    <3>2. d = c \/ fresh[d]
      BY <2>3, <2>6
    <3>3. call'[d] \in Asking
      BY <2>1, <2>2, <3>1, <3>2
    <3> QED
      BY <2>4, <3>3
  <2> QED
    BY <2>2, <2>3, <2>4, <2>5, <2>6 DEF ClientTypeOK
<1>4. CASE Answers(c)
  <2>1. PICK r : /\ r \in (IF call[c] = "asksExists" THEN ExistsAnswer ELSE ReleaseAnswer(c))
                 /\ Ended(c, r) /\ Report(c, r \notin Results)
    BY <1>4 DEF Answers
  <2>2. r \in {"rateLimited", "error", "storesFalse", "storesTrue", "storesRelease"}
    BY <2>1 DEF ExistsAnswer, ReleaseAnswer
  <2>3. PICK t \in {r, "none"} : Returns(c, t)
    BY <2>1 DEF Ended
  <2>4. t \in InClient \cup Results \cup {"none"} /\ t \notin Asking
    BY <2>2, <2>3 DEF InClient, Results, Asking
  <2>5. call' \in [Callers -> InClient \cup Results \cup {"none"}]
    BY <2>3, <2>4 DEF Returns, ClientTypeOK
  <2>6. UNCHANGED <<github, fault, cached>> /\ call[c] \in Asking
    BY <1>4 DEF Answers, worldVars
  <2> QED
    BY <2>1, <2>3, <2>4, <2>5, <2>6, ReportTypes DEF ClientTypeOK
<1>5. CASE Stores(c)
  <2>1. call[c] \notin Asking /\ UNCHANGED <<breaker, fresh, worldVars>>
    BY <1>5 DEF Stores, Asking
  <2>2. PICK r \in {"error", "found", "true", "false"} : Returns(c, r)
    BY <1>5 DEF Stores
  <2>3. cached' \in [exists : {"none", "true", "false"}, release : BOOLEAN]
    BY <1>0, <1>5 DEF Stores
  <2> QED
    BY <2>1, <2>2, <2>3, ReturnsTypes DEF Results
<1> QED
  BY <1>1, <1>2, <1>3, <1>4, <1>5 DEF Step

LEMMA WorldTypes == ASSUME ClientTypeOK, World PROVE ClientTypeOK' /\ call' = call
<1>1. \A st \in {"closed", "open", "half"} :
        Generation(st) \in [state : {"closed", "open", "half"}, fails : 0..(Threshold - 1),
                            probes : 0..MaxRequests, oks : 0..(MaxRequests - 1)]
        /\ Generation(st).state = st
  BY DEF Generation
<1>2. CASE GitHubChanges \/ FaultBegins \/ FaultEnds
  BY <1>2 DEF GitHubChanges, FaultBegins, FaultEnds, clientVars, ClientTypeOK
<1>3. CASE IntervalEnds
  BY <1>1, <1>3 DEF IntervalEnds, worldVars, ClientTypeOK
<1>4. CASE TimeoutEnds
  BY <1>1, <1>4 DEF TimeoutEnds, worldVars, ClientTypeOK
<1>5. CASE Expire
  <2>1. cached' \in [exists : {"none", "true", "false"}, release : BOOLEAN]
    BY <1>5 DEF Expire, ClientTypeOK
  <2> QED
    BY <1>5, <2>1 DEF Expire, worldVars, ClientTypeOK
<1> QED
  BY <1>2, <1>3, <1>4, <1>5 DEF World

\* What a step of the client leaves alone.
LEMMA StepFacts ==
  ASSUME ClientTypeOK, NEW c \in Callers, Step(c)
  PROVE  /\ UNCHANGED <<github, fault>>
         /\ \A d \in Callers : d # c => call'[d] = call[d]
<1>1. \E r : Returns(c, r)
  BY DEF Step, CacheAnswers, BreakerRefuses, Ask, Answers, Ended, Stores
<1>2. UNCHANGED worldVars
  BY DEF Step, CacheAnswers, BreakerRefuses, Ask, Answers, Stores
<1> QED
  BY <1>1, <1>2 DEF Returns, worldVars, ClientTypeOK

-----------------------------------------------------------------------------
(* How a request moves.                                                    *)

Sits(q) == at'[q] = at[q] /\ call'[q] = call[q]
Gone(q) == at'[q] = "idle" /\ call'[q] = "none"

\* One request's own steps change nobody else's place.
Moves(q) == Refuse(q) \/ Serve(q) \/ Proceeds(q) \/ ClientLeaves(q) \/ Cut(q)

LEMMA ReturnsFacts ==
  ASSUME IInv, NEW q \in Requests, NEW step \in Phases, NEW r, Goes(q, step), Returns(q, r)
  PROVE  /\ at' \in [Requests -> Phases] /\ at'[q] = step /\ call'[q] = r
         /\ \A p \in Requests : p # q => Sits(p)
  BY DEF IInv, TypeOK, ClientTypeOK, Goes, Returns, Sits, Phases, InTracking

LEMMA EndsFacts ==
  ASSUME IInv, NEW q \in Requests, Goes(q, "idle"), Returns(q, "none")
  PROVE  at' \in [Requests -> Phases] /\ Gone(q) /\ \A p \in Requests : p # q => Sits(p)
  BY ReturnsFacts DEF Gone, Phases

\* A handler's next step, when it does not end the request.
LEMMA GoesOn ==
  ASSUME IInv, NEW q \in Requests, Handler(q), at'[q] # "idle"
  PROVE  /\ server' = server /\ github' = github
         /\ \/ at[q] = "lookup" /\ at'[q] = "user" /\ call'[q] = "none" /\ tracked'
            \/ at[q] = "lookup" /\ at'[q] = "exists" /\ call'[q] = "exists" /\ ~tracked'
            \/ /\ at[q] = "exists" /\ call[q] = "true" /\ tracked' = tracked
               /\ at'[q] = "release" /\ call'[q] = "release"
            \/ at[q] = "release" /\ at'[q] = "create" /\ call'[q] = "none" /\ tracked' = tracked
            \/ at[q] = "create" /\ at'[q] = "user" /\ call'[q] = "none" /\ tracked'
            \/ at[q] = "user" /\ at'[q] = "save" /\ call'[q] = "none" /\ tracked' = tracked
            \/ /\ at[q] = "user" /\ at'[q] = "newUser" /\ call'[q] = "none" /\ tracked' = tracked
               /\ EmailOf[q] \notin users'
            \/ at[q] = "newUser" /\ at'[q] = "save" /\ call'[q] = "none" /\ tracked' = tracked
<1>0. {"idle", "user", "newUser", "save", "exists", "release", "create"} \subseteq Phases
  BY DEF Phases
<1>1. ASSUME Goes(q, "idle") PROVE FALSE
  BY <1>1 DEF Goes, IInv, TypeOK
<1>2. CASE LookUp(q)
  <2>1. CASE Continues(q, "user", "none") /\ tracked
    BY <1>0, <1>2, <2>1, ReturnsFacts DEF LookUp, Continues, worldVars
  <2>2. CASE Continues(q, "exists", "exists") /\ ~tracked
    BY <1>0, <1>2, <2>2, ReturnsFacts DEF LookUp, Continues, worldVars
  <2> QED
    BY <1>2, <2>1, <2>2 DEF LookUp
<1>3. CASE Existence(q)
  <2>1. call[q] = "true" /\ at[q] = "exists" /\ Continues(q, "release", "release")
    BY <1>1, <1>3 DEF Existence, Ends
  <2> QED
    BY <1>0, <2>1, ReturnsFacts DEF Continues, worldVars
<1>4. CASE LatestRelease(q)
  <2>1. at[q] = "release" /\ Continues(q, "create", "none")
    BY <1>1, <1>4 DEF LatestRelease, Ends
  <2> QED
    BY <1>0, <2>1, ReturnsFacts DEF Continues, worldVars
<1>5. CASE Create(q)
  <2>1. at[q] = "create" /\ tracked' /\ Goes(q, "user") /\ UNCHANGED <<worldVars, clientVars, server>>
    BY <1>5 DEF Create
  <2>2. call' = call /\ github' = github /\ server' = server
    BY <2>1 DEF worldVars, clientVars
  <2>3. call[q] = "none"
    BY <2>1, RequestFacts
  <2>4. at'[q] = "user"
    BY <2>1 DEF Goes, IInv, TypeOK
  <2> QED
    BY <2>1, <2>2, <2>3, <2>4
<1>6. CASE FindUser(q)
  <2>1. CASE EmailOf[q] \in users
    BY <1>0, <1>6, <2>1, ReturnsFacts DEF FindUser, Continues, worldVars
  <2>2. CASE EmailOf[q] \notin users
    BY <1>0, <1>6, <2>2, ReturnsFacts DEF FindUser, Continues, worldVars
  <2> QED
    BY <2>1, <2>2
<1>7. CASE CreateUser(q)
  <2>1. /\ at[q] = "newUser" /\ Goes(q, "save")
        /\ UNCHANGED <<worldVars, clientVars, tracked, server>>
    BY <1>7 DEF CreateUser
  <2>2. call' = call /\ github' = github /\ server' = server /\ tracked' = tracked
    BY <2>1 DEF worldVars, clientVars
  <2>3. call[q] = "none"
    BY <2>1, RequestFacts
  <2>4. at'[q] = "save"
    BY <2>1 DEF Goes, IInv, TypeOK
  <2> QED
    BY <2>1, <2>2, <2>3, <2>4
<1>8. CASE \/ TrackingAway(q) \/ DatabaseFails(q) \/ CreateConflicts(q)
           \/ CreateUserConflicts(q) \/ Save(q)
  BY <1>1, <1>8 DEF TrackingAway, DatabaseFails, CreateConflicts, CreateUserConflicts, Save, Ends
<1> QED
  BY <1>2, <1>3, <1>4, <1>5, <1>6, <1>7, <1>8 DEF Handler

LEMMA HandlerMoves ==
  ASSUME IInv, NEW q \in Requests, Handler(q)
  PROVE  /\ at' \in [Requests -> Phases] /\ ClientTypeOK'
         /\ \A p \in Requests : p # q => Sits(p)
         /\ at'[q] = "idle" => call'[q] = "none"
<1>0. {"idle", "user", "newUser", "save", "exists", "release", "create"} \subseteq Phases
  BY DEF Phases
<1>1. ClientTypeOK /\ q \in Callers
  BY DEF IInv, TypeOK
<1>2. ASSUME NEW step \in {"idle", "user", "newUser", "save", "exists", "release", "create"},
             NEW r \in {"none", "exists", "release"},
             Goes(q, step), Returns(q, r), UNCHANGED <<worldVars, cached, breaker, fresh>>,
             call[q] \notin Asking, step = "idle" => r = "none"
      PROVE  /\ at' \in [Requests -> Phases] /\ ClientTypeOK'
             /\ \A p \in Requests : p # q => Sits(p)
             /\ at'[q] = "idle" => call'[q] = "none"
  <2>1. r \in InClient \cup Results \cup {"none"}
    BY DEF InClient
  <2>2. ClientTypeOK'
    BY <1>1, <1>2, <2>1, ReturnsTypes DEF ClientTypeOK
  <2> QED
    BY <1>0, <1>2, <2>2, ReturnsFacts
<1>3. ASSUME NEW code, Ends(q, code), call[q] \notin Asking
      PROVE  /\ at' \in [Requests -> Phases] /\ ClientTypeOK'
             /\ \A p \in Requests : p # q => Sits(p)
             /\ at'[q] = "idle" => call'[q] = "none"
  BY <1>2, <1>3 DEF Ends
<1>4. at[q] \in {"lookup", "create", "user", "newUser", "save"} \/ call[q] \in Results => call[q] \notin Asking
  BY RequestFacts DEF Results, Asking
<1>5. CASE TrackingAway(q)
  <2>1. Goes(q, "idle") /\ Cancel(q) /\ Returns(q, "none")
    BY <1>5 DEF TrackingAway, Cancel
  <2> QED
    BY <1>1, <2>1, CancelTypes, EndsFacts DEF Gone
<1>6. CASE DatabaseFails(q) \/ CreateConflicts(q) \/ CreateUserConflicts(q) \/ Save(q)
  BY <1>3, <1>4, <1>6 DEF DatabaseFails, CreateConflicts, CreateUserConflicts, Save
<1>7. CASE LookUp(q)
  BY <1>2, <1>4, <1>7 DEF LookUp, Continues
<1>8. CASE Existence(q)
  BY <1>2, <1>3, <1>4, <1>8 DEF Existence, Continues
<1>9. CASE LatestRelease(q)
  BY <1>2, <1>3, <1>4, <1>9 DEF LatestRelease, Continues
<1>10. CASE Create(q) \/ CreateUser(q)
  <2>1. /\ Goes(q, "user") \/ Goes(q, "save")
        /\ at[q] \in {"create", "newUser"} /\ UNCHANGED <<worldVars, clientVars>>
    BY <1>10 DEF Create, CreateUser
  <2>2. ClientTypeOK' /\ call' = call
    BY <1>1, <2>1 DEF worldVars, clientVars, ClientTypeOK
  <2> QED
    BY <1>0, <2>1, <2>2 DEF Goes, IInv, TypeOK, Sits, Phases, InTracking
<1>11. CASE FindUser(q)
  <2>1. PICK step \in {"save", "newUser"} : Continues(q, step, "none")
    BY <1>11 DEF FindUser
  <2> QED
    BY <1>2, <1>4, <1>11, <2>1 DEF FindUser, Continues
<1> QED
  BY <1>5, <1>6, <1>7, <1>8, <1>9, <1>10, <1>11 DEF Handler

LEMMA ClientMoves ==
  ASSUME IInv, NEW c \in Callers, Client(c)
  PROVE  /\ at' = at /\ ClientTypeOK' /\ UNCHANGED <<github, fault, tracked, users, server>>
         /\ \A p \in Requests : p # c => Sits(p)
<1>1. ClientTypeOK /\ Step(c) /\ UNCHANGED <<at, tracked, users, server>>
  BY DEF IInv, TypeOK, Client
<1>2. \A p \in Requests : p \in Callers
  OBVIOUS
<1> QED
  BY <1>1, <1>2, StepTypes, StepFacts DEF Sits

\* Everything but a request's handler and its client.
LEMMA OtherMoves ==
  ASSUME IInv, Next, \A q \in Requests : ~Handler(q), \A c \in Callers : ~Client(c)
  PROVE  /\ at' \in [Requests -> Phases] /\ ClientTypeOK'
         /\ \A p \in Requests : \/ Sits(p) \/ Gone(p)
                                \/ /\ at[p] = "idle" /\ at'[p] = "lookup" /\ call'[p] = call[p]
                                   /\ server' = "serving"
<1>0. at \in [Requests -> Phases] /\ ClientTypeOK
  BY DEF IInv, TypeOK, Phases, InTracking
<1>1. ASSUME UNCHANGED <<worldVars, clientVars, at>>
      PROVE  at' \in [Requests -> Phases] /\ ClientTypeOK' /\ \A p \in Requests : Sits(p)
  BY <1>0, <1>1 DEF worldVars, clientVars, ClientTypeOK, Sits
<1>2. ASSUME NEW q \in Requests, Refuse(q) \/ Serve(q) PROVE UNCHANGED <<worldVars, clientVars, at>>
  BY <1>2 DEF Refuse, Serve
<1>3. CASE TrackingMoves \/ Terminate \/ Exit \/ Restart
  <2>1. UNCHANGED <<worldVars, clientVars, at>>
    BY <1>3 DEF TrackingMoves, Terminate, Exit, Restart
  <2> QED
    BY <1>1, <2>1
<1>4. CASE Around(World)
  <2>1. at' = at /\ World
    BY <1>4 DEF Around
  <2> QED
    BY <1>0, <2>1, WorldTypes DEF Sits
<1>5. ASSUME NEW q \in Requests, ClientLeaves(q) \/ Cut(q)
      PROVE  /\ at' \in [Requests -> Phases] /\ ClientTypeOK'
             /\ Gone(q) /\ \A p \in Requests : p # q => Sits(p)
  <2>1. Goes(q, "idle") /\ Cancel(q) /\ Returns(q, "none") /\ q \in Callers
    BY <1>5 DEF ClientLeaves, Cut, Cancel
  <2> QED
    BY <1>0, <2>1, CancelTypes, EndsFacts
<1>6. ASSUME NEW q \in Requests, Begin(q)
      PROVE  /\ at' \in [Requests -> Phases] /\ ClientTypeOK'
             /\ at[q] = "idle" /\ at'[q] = "lookup" /\ call'[q] = call[q] /\ server' = "serving"
             /\ \A p \in Requests : p # q => Sits(p)
  <2>1. /\ Goes(q, "lookup") /\ UNCHANGED <<worldVars, clientVars, server>>
        /\ at[q] = "idle" /\ server = "serving"
    BY <1>6 DEF Begin, Arrives
  <2>2. ClientTypeOK' /\ call' = call
    BY <1>0, <2>1 DEF worldVars, clientVars, ClientTypeOK
  <2> QED
    BY <1>0, <2>1, <2>2 DEF Goes, Sits, Phases
<1>7. \/ \E q \in Requests : Refuse(q) \/ Serve(q)
      \/ \E q \in Requests : ClientLeaves(q) \/ Cut(q)
      \/ \E q \in Requests : Begin(q)
      \/ Around(World) \/ TrackingMoves \/ Terminate \/ Exit \/ Restart
  BY DEF Next, Proceeds
<1> QED
  BY <1>1, <1>2, <1>3, <1>4, <1>5, <1>6, <1>7

-----------------------------------------------------------------------------
(* What a request may still be told stays explained.                       *)

LEMMA ServerFacts ==
  ASSUME IInv, Next, NEW q \in Requests, server' = "exited", at[q] # "idle"
  PROVE  Transport[q] = "http"
<1>1. server = "exited" \/ Exit
  BY DEF Next, Refuse, Serve, Proceeds, Begin, Handler, TrackingAway, DatabaseFails, LookUp, Existence,
         LatestRelease, Create, CreateConflicts, FindUser, CreateUser, CreateUserConflicts, Save, Ends, Continues, Client, ClientLeaves, Cut,
         Around, TrackingMoves, Terminate, Restart
<1>2. server = "exited" => Transport[q] = "http"
  BY RequestFacts DEF Explained, OnlyHttpRemains
<1> QED
  BY <1>1, <1>2 DEF Exit

LEMMA GoneExplained ==
  ASSUME NEW q \in Requests, Gone(q) \/ (at'[q] = "lookup" /\ call'[q] = "none" /\ server' = "serving")
  PROVE  Explained(q)'
  BY DEF Gone, Explained, PhasesAgree, ResultsAreExplained, WorldIsExplained, OnlyHttpRemains

LEMMA SitsExplained ==
  ASSUME IInv, Next, NEW q \in Requests, Sits(q) PROVE Explained(q)'
<1>1. CASE at[q] = "idle"
  BY <1>1, RequestFacts, GoneExplained DEF Sits, Gone
<1>2. CASE at[q] # "idle"
  <2>1. /\ at'[q] = at[q] /\ call'[q] = call[q] /\ Explained(q) /\ at[q] \in Phases
        /\ call[q] # "none" <=> at[q] \in {"exists", "release"}
    BY RequestFacts DEF Sits
  <2>2. /\ "trouble" \in saw[q] => "trouble" \in saw'[q]
        /\ github' # github \/ tracked' # tracked => "trouble" \in saw'[q]
        /\ Transport[q] = "http" =>
             /\ at[q] \in {"exists", "release"} /\ "shield" \in saw[q] => "shield" \in saw'[q]
             /\ at[q] = "exists" /\ "absent" \in saw[q] => "absent" \in saw'[q]
             /\ at[q] = "newUser" /\ "raced" \in saw[q] => "raced" \in saw'[q]
             /\ at[q] = "newUser" /\ users' # users /\ EmailOf[q] \in users' => "raced" \in saw'[q]
    BY <1>2, <2>1, WatchFacts DEF Next
  <2>3. OnlyHttpRemains(q)'
    BY <1>2, ServerFacts DEF OnlyHttpRemains
  <2>4. PhasesAgree(q)'
    BY <2>1 DEF Explained, PhasesAgree
  <2>5. ResultsAreExplained(q)'
    BY <2>1, <2>2 DEF Explained, PhasesAgree, ResultsAreExplained
  <2>6. WorldIsExplained(q)'
    BY <2>1, <2>2 DEF Explained, WorldIsExplained
  <2> QED
    BY <2>3, <2>4, <2>5, <2>6 DEF Explained
<1> QED
  BY <1>1, <1>2

\* A handler that goes on takes its reasons along.
LEMMA HandlerExplained ==
  ASSUME IInv, Next, NEW q \in Requests, Handler(q), at'[q] # "idle" PROVE Explained(q)'
<1>1. Explained(q) /\ at[q] # "idle"
  BY RequestFacts, GoesOn
<1>2. "trouble" \in saw[q] => "trouble" \in saw'[q]
  <2>1. at'[q] \in Phases
    BY HandlerMoves
  <2> QED
    BY <1>1, <2>1, WatchFacts DEF Next
<1>3. OnlyHttpRemains(q)'
  BY <1>1, ServerFacts DEF OnlyHttpRemains
<1>4. PhasesAgree(q)' /\ ResultsAreExplained(q)'
  BY GoesOn DEF PhasesAgree, ResultsAreExplained
<1>5. WorldIsExplained(q)'
  BY <1>1, <1>2, GoesOn DEF Explained, WorldIsExplained
<1> QED
  BY <1>3, <1>4, <1>5 DEF Explained

LEMMA ClientExplained ==
  ASSUME IInv, Next, NEW q \in Requests, Client(q)
  PROVE  Explained(q)' /\ at[q] \in {"exists", "release"} /\ call'[q] # "none"
<1>0. /\ q \in Callers /\ Step(q) /\ at' = at /\ UNCHANGED <<github, fault, tracked, server>>
      /\ Explained(q) /\ q \notin Others
  BY ClientMoves, RequestFacts DEF Client
<1>1. call[q] # "none"
  BY <1>0 DEF Step, CacheAnswers, Hit, BreakerRefuses, Missed, Ask, Answers, Asking, Stores
<1>2. at[q] \in {"exists", "release"} /\ at'[q] = at[q]
  BY <1>0, <1>1, RequestFacts
<1>3. /\ "trouble" \in saw[q] \cup Now' => "trouble" \in saw'[q]
      /\ Transport[q] = "http" =>
           /\ "shield" \in saw[q] \cup Now' => "shield" \in saw'[q]
           /\ at[q] = "exists" /\ "absent" \in saw[q] \cup Now' => "absent" \in saw'[q]
           /\ at[q] = "exists" /\ call[q] = "exists" /\ call'[q] = "false" => "absent" \in saw'[q]
  <2>1. at'[q] \in Phases \ {"idle"} /\ at[q] # "idle"
    BY <1>2 DEF Phases
  <2> QED
    BY <1>2, <2>1, WatchFacts DEF Next
<1>4. OnlyHttpRemains(q)'
  BY <1>2, ServerFacts DEF OnlyHttpRemains
<1>5. \A r : Returns(q, r) => call'[q] = r
  BY <1>0 DEF Returns, IInv, TypeOK, ClientTypeOK
<1>6. /\ at[q] = "exists" => call[q] \in {"exists", "asksExists", "storesTrue", "storesFalse", "true",
                                         "false", "rateLimited", "unavailable", "error"}
      /\ at[q] = "release" => call[q] \in {"release", "asksRelease", "storesRelease", "found",
                                          "unavailable", "error"}
      /\ Transport[q] = "http" /\ call[q] = "storesFalse" => "absent" \in saw[q]
  BY <1>0 DEF Explained, PhasesAgree, ResultsAreExplained
<1>7. at[q] = "release" /\ github = "absent" => "trouble" \in saw'[q]
  BY <1>0, <1>3 DEF Explained, WorldIsExplained
<1>8. at[q] \in {"exists", "release"} /\ tracked => "trouble" \in saw'[q]
  BY <1>0, <1>3 DEF Explained, WorldIsExplained
<1>9. ASSUME call'[q] # "none",
             /\ at[q] = "exists" => call'[q] \in {"asksExists", "storesTrue", "storesFalse", "true",
                                                 "false", "rateLimited", "unavailable", "error"}
             /\ at[q] = "release" => call'[q] \in {"asksRelease", "storesRelease", "found",
                                                  "unavailable", "error"},
             /\ Transport[q] = "http" =>
                  /\ call'[q] \in {"storesFalse", "false"} => "absent" \in saw'[q]
                  /\ call'[q] \in {"unavailable", "rateLimited"} => "shield" \in saw'[q]
                  /\ call'[q] = "error" => "trouble" \in saw'[q]
             /\ call'[q] \in {"true", "storesTrue"} /\ github = "absent" => "trouble" \in saw'[q]
      PROVE  Explained(q)' /\ call'[q] # "none"
  <2>1. PhasesAgree(q)'
    BY <1>2, <1>9 DEF PhasesAgree
  <2>2. ResultsAreExplained(q)'
    BY <1>9 DEF ResultsAreExplained
  <2>3. WorldIsExplained(q)'
    BY <1>0, <1>2, <1>7, <1>8, <1>9 DEF WorldIsExplained
  <2> QED
    BY <1>4, <1>9, <2>1, <2>2, <2>3 DEF Explained
<1>10. CASE CacheAnswers(q)
  <2>1. cached' = cached /\ Hit(q) /\ call'[q] = IF call[q] = "exists" THEN cached.exists ELSE "found"
    BY <1>5, <1>10 DEF CacheAnswers
  <2>2. CASE call[q] = "exists"
    <3>1. at[q] = "exists" /\ call'[q] = cached.exists /\ cached.exists \in {"true", "false"}
      BY <1>2, <1>6, <2>1, <2>2 DEF Hit, IInv, TypeOK, ClientTypeOK
    <3>2. cached.exists = "true" /\ github = "absent" => "trouble" \in saw'[q]
      BY <1>0, <1>3, <2>1, NowFactsNext
    <3> QED
      BY <1>3, <1>9, <2>2, <3>1, <3>2
  <2>3. CASE call[q] = "release"
    <3>1. at[q] = "release" /\ call'[q] = "found"
      BY <1>2, <1>6, <2>1, <2>3
    <3> QED
      BY <1>9, <3>1
  <2> QED
    BY <2>1, <2>2, <2>3 DEF Hit
<1>11. CASE BreakerRefuses(q)
  <2>1. call'[q] = "unavailable" /\ breaker' = breaker /\ ~Admits
    BY <1>5, <1>11 DEF BreakerRefuses
  <2>2. Transport[q] = "http" => "shield" \in saw'[q]
    BY <1>3, <2>1, NowFactsNext DEF Admits
  <2> QED
    BY <1>2, <1>9, <2>1, <2>2
<1>12. CASE Ask(q)
  <2>1. call[q] \in {"exists", "release"}
    BY <1>0, <1>12 DEF Ask, Missed
  <2>2. call'[q] = IF call[q] = "exists" THEN "asksExists" ELSE "asksRelease"
    BY <1>5, <1>12 DEF Ask
  <2>3. at[q] = call[q]
    BY <1>2, <1>6, <2>1
  <2> QED
    BY <1>9, <2>1, <2>2, <2>3
<1>13. CASE Answers(q)
  <2>1. PICK r : /\ r \in (IF call[q] = "asksExists" THEN ExistsAnswer ELSE ReleaseAnswer(q))
                 /\ Returns(q, r)
    BY <1>0, <1>13 DEF Answers, Ended
  <2>2. call'[q] = r /\ call[q] \in Asking
    BY <1>5, <1>13, <2>1 DEF Answers
  <2>3. CASE at[q] = "exists"
    <3>1. call[q] = "asksExists"
      BY <1>6, <2>2, <2>3 DEF Asking
    <3>2. \/ r \in {"rateLimited", "error"} /\ fault = "github"
          \/ r = "storesFalse" /\ github = "absent"
          \/ r = "storesTrue" /\ github # "absent"
      BY <2>1, <3>1 DEF ExistsAnswer
    <3>3. Transport[q] = "http" =>
            /\ fault = "github" => "trouble" \in saw'[q] /\ "shield" \in saw'[q]
            /\ github = "absent" => "absent" \in saw'[q]
      BY <1>0, <1>3, <2>3, NowFactsNext
    <3> QED
      BY <1>9, <2>2, <2>3, <3>2, <3>3
  <2>4. CASE at[q] = "release"
    <3>1. call[q] = "asksRelease"
      BY <1>6, <2>2, <2>4 DEF Asking
    <3>2. r = "storesRelease" \/ (r = "error" /\ (fault = "github" \/ github \in {"absent", "unreleased"}))
      BY <1>0, <2>1, <3>1 DEF ReleaseAnswer, HasRelease, IInv, TypeOK, ClientTypeOK
    <3>3. fault = "github" \/ github = "unreleased" => "trouble" \in saw'[q]
      BY <1>0, <1>3, NowFactsNext
    <3> QED
      BY <1>7, <1>9, <2>2, <2>4, <3>2, <3>3
  <2> QED
    BY <1>2, <2>3, <2>4
<1>14. CASE Stores(q)
  <2>1. \/ call'[q] = "error" /\ fault = "redis"
        \/ call[q] = "storesRelease" /\ call'[q] = "found"
        \/ call[q] = "storesTrue" /\ call'[q] = "true"
        \/ call[q] = "storesFalse" /\ call'[q] = "false"
    BY <1>5, <1>14 DEF Stores
  <2>2. fault = "redis" => "trouble" \in saw'[q]
    BY <1>0, <1>3, NowFactsNext
  <2>3. call[q] = "storesTrue" /\ github = "absent" => "trouble" \in saw'[q]
    BY <1>0, <1>3 DEF Explained, WorldIsExplained
  <2> QED
    BY <1>2, <1>3, <1>6, <1>9, <2>1, <2>2, <2>3
<1> QED
  BY <1>0, <1>2, <1>10, <1>11, <1>12, <1>13, <1>14 DEF Step

-----------------------------------------------------------------------------
(* The theorems.                                                           *)

\* The parts of TypeOK that a request's place is about.
LEMMA NextRequests ==
  ASSUME IInv, Next
  PROVE  /\ at' \in [Requests -> Phases] /\ ClientTypeOK'
         /\ \A q \in Requests : Explained(q)' /\ (call'[q] # "none" <=> at'[q] \in {"exists", "release"})
<1>0. at \in [Requests -> Phases]
  BY DEF IInv, TypeOK, Phases, InTracking
<1>1. ASSUME NEW q \in Requests, Sits(q)
      PROVE  Explained(q)' /\ (call'[q] # "none" <=> at'[q] \in {"exists", "release"})
  BY <1>1, SitsExplained, RequestFacts DEF Sits
<1>2. ASSUME NEW q \in Requests, Gone(q)
      PROVE  Explained(q)' /\ (call'[q] # "none" <=> at'[q] \in {"exists", "release"})
  BY <1>2, GoneExplained DEF Gone
<1>3. ASSUME NEW q \in Requests, Handler(q)
      PROVE  Explained(q)' /\ (call'[q] # "none" <=> at'[q] \in {"exists", "release"})
  <2>1. CASE at'[q] = "idle"
    BY <1>2, <1>3, <2>1, HandlerMoves DEF Gone
  <2>2. CASE at'[q] # "idle"
    BY <1>3, <2>2, HandlerExplained, GoesOn
  <2> QED
    BY <2>1, <2>2
<1>4. ASSUME NEW q \in Requests, Client(q)
      PROVE  Explained(q)' /\ (call'[q] # "none" <=> at'[q] \in {"exists", "release"})
  <2>1. at'[q] = at[q]
    BY <1>4, ClientMoves
  <2> QED
    BY <1>4, <2>1, ClientExplained
<1>5. CASE \E q \in Requests : Handler(q)
  BY <1>1, <1>3, <1>5, HandlerMoves
<1>6. CASE \E c \in Callers : Client(c)
  BY <1>0, <1>1, <1>4, <1>6, ClientMoves
<1>7. CASE (\A q \in Requests : ~Handler(q)) /\ (\A c \in Callers : ~Client(c))
  <2>1. ASSUME NEW q \in Requests, at[q] = "idle", at'[q] = "lookup", call'[q] = call[q], server' = "serving"
        PROVE  Explained(q)' /\ (call'[q] # "none" <=> at'[q] \in {"exists", "release"})
    BY <2>1, GoneExplained, RequestFacts
  <2> QED
    BY <1>1, <1>2, <1>7, <2>1, OtherMoves
<1> QED
  BY <1>5, <1>6, <1>7

LEMMA NextTypes == ASSUME IInv, Next PROVE TypeOK'
<1>1. saw' \in [Requests -> SUBSET Amiss]
  <2>1. \A q \in Requests : saw'[q] \in SUBSET Amiss
    BY WatchFacts DEF Next
  <2>2. \E f : saw' = [q \in Requests |-> f[q]]
    <3>1. Watch
      BY DEF Next
    <3>2. saw' = [q \in Requests |-> saw'[q]]
      BY <3>1 DEF Watch
    <3> QED
      BY <3>2
  <2> QED
    BY <2>1, <2>2
<1>2. tracked' \in BOOLEAN /\ server' \in {"serving", "draining", "exited"} /\ users' \subseteq Emails
  <2>1. tracked \in BOOLEAN /\ server \in {"serving", "draining", "exited"} /\ users \subseteq Emails
    BY DEF IInv, TypeOK
  <2>2. tracked' \in {tracked, ~tracked, TRUE} /\ server' \in {server, "serving", "draining", "exited"}
    BY DEF Next, Refuse, Serve, Proceeds, Begin, Handler, TrackingAway, DatabaseFails, LookUp, Existence,
           LatestRelease, Create, CreateConflicts, FindUser, CreateUser, CreateUserConflicts, Save, Ends, Continues, Client, ClientLeaves, Cut,
           Around, TrackingMoves, Terminate, Exit, Restart
  <2>3. users' = users \/ \E q \in Requests : users' = users \cup {EmailOf[q]}
    BY DEF Next, Refuse, Serve, Proceeds, Begin, Handler, TrackingAway, DatabaseFails, LookUp, Existence,
           LatestRelease, Create, CreateConflicts, FindUser, CreateUser, CreateUserConflicts, Save, Ends, Continues, Client, ClientLeaves, Cut,
           Around, TrackingMoves, Terminate, Exit, Restart
  <2>4. \A q \in Requests : EmailOf[q] \in Emails
    OBVIOUS
  <2> QED
    BY <2>1, <2>2, <2>3, <2>4
<1> QED
  BY <1>1, <1>2, NextRequests, NextHonest DEF TypeOK, Message, Phases, InTracking

LEMMA InitIInv == Init => IInv
<1> SUFFICES ASSUME Init PROVE IInv
  OBVIOUS
<1>1. Generation("closed") \in [state : {"closed", "open", "half"}, fails : 0..(Threshold - 1),
                                probes : 0..MaxRequests, oks : 0..(MaxRequests - 1)]
  BY DEF Generation
<1>2. ClientTypeOK
  BY <1>1 DEF Init, ClientInit, ClientTypeOK
<1>3. said = Nothing /\ said.code = "none"
  BY DEF Init, Nothing
<1>4. TypeOK
  <2>1. \A q \in Requests : at[q] = "idle" /\ call[q] = "none"
    BY DEF Init, ClientInit
  <2> QED
    BY <1>2, <1>3, <2>1 DEF Init, TypeOK, Amiss
<1>5. Honest
  BY <1>3 DEF Honest, NotFoundIsHonest, ErrorsAreExplained, AcceptedIsRegistered, GrpcIsDrained,
              Told, Over, Plain
<1>6. ASSUME NEW q \in Requests PROVE Explained(q)
  <2>1. at[q] = "idle" /\ call[q] = "none"
    BY DEF Init, ClientInit
  <2> QED
    BY <2>1 DEF Explained, PhasesAgree, ResultsAreExplained, WorldIsExplained, OnlyHttpRemains
<1> QED
  BY <1>4, <1>5, <1>6 DEF IInv, Explained, Honest

LEMMA StutterIInv == IInv /\ UNCHANGED vars => IInv'
<1> SUFFICES ASSUME IInv, UNCHANGED vars PROVE IInv'
  OBVIOUS
<1>1. UNCHANGED <<github, fault, cached, breaker, call, fresh, at, tracked, users, server, said, saw>>
  BY DEF vars, worldVars, clientVars
<1>2. ClientTypeOK'
  BY <1>1 DEF IInv, TypeOK, ClientTypeOK
<1>3. TypeOK'
  BY <1>1, <1>2 DEF IInv, TypeOK
<1>4. Honest'
  BY <1>1 DEF IInv, Honest, NotFoundIsHonest, ErrorsAreExplained, AcceptedIsRegistered, GrpcIsDrained,
              Told, Over
<1>5. ASSUME NEW q \in Requests PROVE Explained(q)'
  <2>1. Explained(q)
    BY RequestFacts
  <2> QED
    BY <1>1, <2>1 DEF Explained, PhasesAgree, ResultsAreExplained, WorldIsExplained, OnlyHttpRemains
<1> QED
  BY <1>3, <1>4, <1>5 DEF IInv, Explained, Honest

LEMMA NextIInv == IInv /\ [Next]_vars => IInv'
<1>1. ASSUME IInv, Next PROVE IInv'
  BY <1>1, NextTypes, NextHonest, NextRequests DEF IInv, Explained, Honest
<1> QED
  BY <1>1, StutterIInv

(* For any clients, thresholds and faults: every request's history has     *)
(* recorded the reason of each answer it may still be given.               *)
THEOREM InvariantHolds == Spec => []IInv
<1> QED
  BY InitIInv, NextIInv, PTL DEF Spec

(* Every variable in range; the client of GitHub runs for exactly the      *)
(* requests that wait for it, and an open breaker has no live request.     *)
THEOREM TypesHold == Spec => []TypeOK
<1>1. IInv => TypeOK
  BY DEF IInv
<1> QED
  BY <1>1, InvariantHolds, PTL

(* "Not found" is never an error in disguise: GitHub said so during the    *)
(* request, or a cached denial did.                                        *)
THEOREM NotFoundIsTrue == Spec => []NotFoundIsHonest
<1>1. IInv => NotFoundIsHonest
  BY DEF IInv
<1> QED
  BY <1>1, InvariantHolds, PTL

(* An HTTP client is told 500 or 503 only for a reason its request met.    *)
THEOREM ErrorsHaveReasons == Spec => []ErrorsAreExplained
<1>1. IInv => ErrorsAreExplained
  BY DEF IInv
<1> QED
  BY <1>1, InvariantHolds, PTL

(* Who is told "accepted" can rely on tracking knowing the repository.     *)
THEOREM AcceptedIsKept == Spec => []AcceptedIsRegistered
<1>1. IInv => AcceptedIsRegistered
  BY DEF IInv
<1> QED
  BY <1>1, InvariantHolds, PTL

(* A shutdown never cuts off a gRPC request.                               *)
THEOREM GrpcIsServed == Spec => []GrpcIsDrained
<1>1. IInv => GrpcIsDrained
  BY DEF IInv
<1> QED
  BY <1>1, InvariantHolds, PTL
=============================================================================
