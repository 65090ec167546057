----------------------------- MODULE GatewayProofs -----------------------------
(***************************************************************************)
(* Proofs about Gateway, for every number of applications and requests,    *)
(* every set of configurations, and any number of edits and restarts.      *)
(***************************************************************************)
EXTENDS Gateway, FiniteSetTheorems, TLAPS

Up == {a \in Apps : Serving(a)}

LeasesCounted == leases = Cardinality(Up)

RuntimeLeased ==
  /\ runtime = None => Up = {}
  /\ \A a \in Up : app[a].runtime = runtime

(* What AppSettings makes of any configuration it accepts.                 *)
Configured(s) ==
  /\ s \in Variables /\ Validates(s)
  /\ s.key # "blank" /\ s.apiKey # "blank" /\ s.endpoint # "blank"

SettingsConfigured ==
  /\ cached # None => Configured(cached)
  /\ \A a \in Up : Configured(app[a].settings)

(* Until somebody clears the cache, everything leased is of its settings.  *)
OneConfiguration ==
  ~ cleared /\ runtime # None =>
    /\ cached # None /\ ~ HeadersRejected(cached)
    /\ runtime = RuntimeOf(cached)
    /\ \A a \in Up : app[a].settings = cached

(* What a request of a running application can look like: a collection     *)
(* that was admitted and waits or has ended, or a request answered at once.*)
AdmittedRequest(q, s) ==
  /\ q.route = "collect" /\ Ready(s) /\ q.key = Pseudonymizer(s)
  /\ q.answer = None => ~ q.published
  /\ q.answer # None =>
       /\ q.answer.code \notin {"configuration_error", "internal_error"}
       /\ q.answer.retryable => ~ q.published
       /\ q.answer.after # None => q.answer.retryable

AnsweredAtOnce(q, s) ==
  /\ q.key = "none" /\ ~ q.published
  /\ q.answer # None /\ ~ q.answer.retryable /\ q.answer.after = None
  /\ q.route = "ready" => (q.answer = Ok) <=> Ready(s)
  /\ q.route = "collect" =>
       \/ q.answer.code = "invalid_request"
       \/ q.answer.code = "configuration_error" /\ ~ Ready(s)

RequestsAnswered ==
  \A r \in Requests : request[r] # NewRequest =>
    /\ request[r].app \in Up
    /\ LET s == app[request[r].app].settings IN
         AdmittedRequest(request[r], s) \/ AnsweredAtOnce(request[r], s)

(* A collection that leaves a preview leaves a document.                   *)
DocumentKept == summarized => file = "document"

IInv ==
  /\ TypeOK /\ LeasesCounted /\ RuntimeLeased /\ SettingsConfigured
  /\ OneConfiguration /\ RequestsAnswered /\ DocumentKept

-------------------------------------------------------------------------------
(* Settings that validation accepts are configured: an empty variable is   *)
(* an unset one.                                                           *)
LEMMA AppSettingsConfigured ==
  ASSUME NEW v \in Variables
  PROVE  /\ AppSettings(v) \in Variables
         /\ Validates(AppSettings(v)) => Configured(AppSettings(v))
  <1>. DEFINE s == AppSettings(v)
  <1>1. /\ Unblank(v.key) \in {"none", "given"}
        /\ Unblank(v.apiKey) \in {"none", "given"}
        /\ Unblank(v.endpoint) \in {"none", "given"}
        /\ Unblank(v.preview) \in {"none", "true", "false"}
    BY DEF Variables, Optional, Unblank
  <1>2. s = [v EXCEPT !.key = Unblank(v.key), !.apiKey = Unblank(v.apiKey),
               !.endpoint = Unblank(v.endpoint), !.preview = Unblank(v.preview)]
    BY DEF AppSettings
  <1>3. s \in Variables
    BY <1>1, <1>2 DEF Variables, Optional
  <1>4. s.key = Unblank(v.key) /\ s.apiKey = Unblank(v.apiKey)
          /\ s.endpoint = Unblank(v.endpoint)
    BY <1>2 DEF Variables
  <1>. QED BY <1>1, <1>3, <1>4 DEF Configured

LEMMA GetSettingsConfigured ==
  ASSUME TypeOK, SettingsConfigured, Validates(GetSettings)
  PROVE  Configured(GetSettings) /\ GetSettings \in Variables /\ GetSettings # None
  BY AppSettingsConfigured, NoneAssumption
     DEF TypeOK, SettingsConfigured, GetSettings, Configured

LEMMA RuntimeTyped ==
  ASSUME NEW s \in Variables
  PROVE  RuntimeOf(s) \in Runtimes /\ RuntimeOf(s) # None
  <1>1. s.environment \in Environments
    BY DEF Variables
  <1>2. ExportMode(s) \in {"otlp_http", "console", "none"}
    BY DEF ExportMode
  <1>3. \A k \in DOMAIN s.headers : s.headers[k].name \in Names
    <2>1. s.headers \in Seq(Items)
      BY DEF Variables
    <2>2. \A k \in DOMAIN s.headers : s.headers[k] \in Items
      BY <2>1
    <2>. QED BY <2>2 DEF Items
  <1>4. RuntimeOf(s) \in Runtimes
    BY <1>1, <1>2, <1>3 DEF RuntimeOf, Runtimes
  <1>. QED BY <1>4, NoneAssumption

(* Of configured settings, those that are ready, and no others, find a     *)
(* key and a client: the two methods of the service agree.                 *)
LEMMA ReadyMeansAdmitted ==
  ASSUME NEW s, Configured(s)
  PROVE  /\ Ready(s) => Pseudonymizer(s) \in {"configured", "local"}
         /\ Ready(s) => Refusal(s) = "none"
         /\ ~ Ready(s) => Refusal(s) = "ServiceConfigurationError"
  <1>1. /\ s.key \in {"none", "given"} /\ s.apiKey \in {"none", "given"}
        /\ s.provider \in {"mock", "anthropic"}
    BY DEF Configured, Variables, Optional, ProviderNames
  <1>2. Ready(s) => Pseudonymizer(s) \in {"configured", "local"}
    BY <1>1 DEF Ready, Pseudonymizer
  <1>. QED BY <1>1, <1>2 DEF Refusal

-------------------------------------------------------------------------------
(* The answers of the error handlers.                                      *)
LEMMA AnswerFields ==
  ASSUME NEW code, NEW retryable
  PROVE  /\ Answer(code, retryable).code = code
         /\ Answer(code, retryable).retryable = retryable
         /\ Answer(code, retryable).after = None
  BY DEF Answer

LEMMA ErrorAnswered ==
  /\ ErrorAnswers["RequestValidationError"] = Answer("invalid_request", FALSE)
  /\ ErrorAnswers["ServiceConfigurationError"] = Answer("configuration_error", FALSE)
  /\ ErrorAnswers["PreviewNotFoundError"] = Answer("preview_not_found", FALSE)
  /\ ErrorAnswers["PreviewReadError"] = Answer("preview_invalid", FALSE)
  /\ ErrorAnswers["CollectionFailedError"] = Answer("collection_failed", FALSE)
  /\ ErrorAnswers["ProviderRateLimitError"] = Answer("upstream_rate_limited", TRUE)
  /\ ErrorAnswers["NotFound"] = Answer("not_found", FALSE)
  /\ ErrorAnswers["HTTPException"] = Answer("http_error", FALSE)
  BY DEF ErrorAnswers, CollectionFailed

LEMMA HandledTyped ==
  /\ {"RequestValidationError", "ServiceConfigurationError", "PreviewNotFoundError",
       "PreviewReadError", "CollectionFailedError", "ProviderRateLimitError",
       "NotFound", "HTTPException"} \subseteq DOMAIN ErrorAnswers
  /\ ProviderErrors \subseteq DOMAIN ErrorAnswers
  /\ \A e \in DOMAIN ErrorAnswers : ErrorAnswers[e] \in Answers
  /\ CollectionFailed \in Answers /\ Ok \in Answers
  /\ Answer("disabled", FALSE) \in Answers
  <1>1. DOMAIN ErrorAnswers =
          {"RequestValidationError", "ServiceConfigurationError", "PreviewNotFoundError",
           "PreviewReadError", "CollectionFailedError",
           "ProviderReportingDateUnavailableError", "ProviderAuthenticationError",
           "ProviderAuthorizationError", "ProviderRateLimitError",
           "ProviderResponseValidationError", "ProviderServerError",
           "ProviderTransportError", "ProviderError", "NotFound", "HTTPException",
           "Exception"}
    BY DEF ErrorAnswers
  <1>2. \A e \in DOMAIN ErrorAnswers : ErrorAnswers[e] \in Answers
    BY DEF Answers
  <1>3. CollectionFailed = ErrorAnswers["CollectionFailedError"]
    BY DEF ErrorAnswers
  <1>4. Ok \in Answers /\ Answer("disabled", FALSE) \in Answers
    BY DEF Answers
  <1>. QED BY <1>1, <1>2, <1>3, <1>4 DEF ProviderErrors

(* Those a route gives at once invite no retry.                            *)
LEMMA AnsweredWithoutRetry ==
  ASSUME NEW e \in {"RequestValidationError", "ServiceConfigurationError",
                    "PreviewNotFoundError", "PreviewReadError", "NotFound",
                    "HTTPException"}
  PROVE  /\ ErrorAnswers[e] \in Answers
         /\ ErrorAnswers[e].retryable = FALSE /\ ErrorAnswers[e].after = None
         /\ e = "RequestValidationError" => ErrorAnswers[e].code = "invalid_request"
         /\ e = "ServiceConfigurationError" =>
              ErrorAnswers[e].code = "configuration_error" /\ ErrorAnswers[e] # Ok
  <1>1. ErrorAnswers[e] \in Answers
    BY HandledTyped
  <1>2. PICK code \in {"invalid_request", "configuration_error", "preview_not_found",
                     "preview_invalid", "not_found", "http_error"} :
          /\ ErrorAnswers[e] = Answer(code, FALSE)
          /\ e = "RequestValidationError" => code = "invalid_request"
          /\ e = "ServiceConfigurationError" => code = "configuration_error"
    BY ErrorAnswered
  <1>3. /\ ErrorAnswers[e].code = code
        /\ ErrorAnswers[e].retryable = FALSE /\ ErrorAnswers[e].after = None
    BY <1>2 DEF Answer
  <1>4. Ok.code = "ok"
    BY DEF Ok, Answer
  <1>. QED BY <1>1, <1>2, <1>3, <1>4

(* Those of a provider's failure name no failure of the gateway's own.     *)
LEMMA ProviderAnswered ==
  ASSUME NEW e \in ProviderErrors
  PROVE  /\ ErrorAnswers[e].code \notin {"configuration_error", "internal_error"}
         /\ ErrorAnswers[e].after = None
  <1>1. /\ ErrorAnswers["ProviderReportingDateUnavailableError"]
              = Answer("reporting_date_unavailable", FALSE)
        /\ ErrorAnswers["ProviderAuthenticationError"]
              = Answer("upstream_authentication_failed", FALSE)
        /\ ErrorAnswers["ProviderAuthorizationError"]
              = Answer("upstream_authorization_failed", FALSE)
        /\ ErrorAnswers["ProviderResponseValidationError"]
              = Answer("upstream_response_invalid", FALSE)
        /\ ErrorAnswers["ProviderServerError"] = Answer("upstream_server_error", TRUE)
        /\ ErrorAnswers["ProviderTransportError"] = Answer("upstream_unavailable", TRUE)
        /\ ErrorAnswers["ProviderError"] = Answer("upstream_request_failed", FALSE)
    BY DEF ErrorAnswers
  <1>2. \E c \in {"reporting_date_unavailable", "upstream_authentication_failed",
                  "upstream_authorization_failed", "upstream_rate_limited",
                  "upstream_response_invalid", "upstream_server_error",
                  "upstream_unavailable", "upstream_request_failed"} :
          ErrorAnswers[e] = Answer(c, TRUE) \/ ErrorAnswers[e] = Answer(c, FALSE)
    <2>1. e \in {"ProviderError", "ProviderAuthenticationError",
                "ProviderAuthorizationError", "ProviderRateLimitError",
                "ProviderReportingDateUnavailableError",
                "ProviderResponseValidationError", "ProviderServerError",
                "ProviderTransportError"}
      BY DEF ProviderErrors
    <2>. QED BY <1>1, <2>1, ErrorAnswered
  <1>. QED BY <1>2 DEF Answer

-------------------------------------------------------------------------------
(* A request becomes q and nothing else changes, except perhaps the file.  *)
LEMMA RequestStep ==
  ASSUME IInv, NEW r \in Requests, NEW q \in RequestStates, q.app \in Up,
         \/ AdmittedRequest(q, app[q.app].settings)
         \/ AnsweredAtOnce(q, app[q.app].settings),
         request' = [request EXCEPT ![r] = q],
         UNCHANGED <<env, lifespans, bounds>>,
         file' \in Files /\ summarized' \in BOOLEAN, DocumentKept'
  PROVE  IInv'
  <1>. USE DEF IInv
  <1>1. UNCHANGED <<cached, app, runtime, leases, cleared, changes, crashes>> /\ Up' = Up
    BY DEF lifespans, bounds, Up, Serving
  <1>2. TypeOK'
    BY <1>1 DEF TypeOK
  <1>3. LeasesCounted' /\ RuntimeLeased' /\ SettingsConfigured' /\ OneConfiguration'
    BY <1>1 DEF LeasesCounted, RuntimeLeased, SettingsConfigured, OneConfiguration
  <1>4. RequestsAnswered'
    <2>1. \A p \in Requests : request'[p] = IF p = r THEN q ELSE request[p]
      BY DEF TypeOK
    <2>2. NewRequest' = NewRequest
      BY DEF NewRequest
    <2>. SUFFICES ASSUME NEW p \in Requests, request'[p] # NewRequest
                  PROVE  /\ request'[p].app \in Up
                         /\ \/ AdmittedRequest(request'[p], app[request'[p].app].settings)
                            \/ AnsweredAtOnce(request'[p], app[request'[p].app].settings)
      BY <1>1, <2>2 DEF RequestsAnswered
    <2>3. CASE p = r
      BY <2>1, <2>3
    <2>4. CASE p # r
      BY <2>1, <2>4 DEF RequestsAnswered
    <2>. QED BY <2>3, <2>4
  <1>. QED BY <1>2, <1>3, <1>4

(* A lifespan that does not come to serve has at most read the settings.   *)
LEMMA SettingsRead ==
  ASSUME IInv, Validates(GetSettings), cached' = GetSettings,
         UNCHANGED <<env, app, runtime, leases, cleared, request, disk, bounds>>
  PROVE  IInv'
  <1>. USE DEF IInv
  <1>1. Configured(GetSettings) /\ GetSettings \in Variables
    BY GetSettingsConfigured
  <1>2. UNCHANGED <<file, summarized, changes, crashes>> /\ Up' = Up
    BY DEF disk, bounds, Up, Serving
  <1>3. TypeOK'
    BY <1>1, <1>2 DEF TypeOK
  <1>4. LeasesCounted' /\ RuntimeLeased' /\ DocumentKept'
    BY <1>2 DEF LeasesCounted, RuntimeLeased, DocumentKept
  <1>5. SettingsConfigured'
    BY <1>1, <1>2 DEF SettingsConfigured
  <1>6. OneConfiguration'
    <2>1. ~ cleared /\ runtime # None => cached' = cached
      BY DEF OneConfiguration, GetSettings
    <2>. QED BY <1>2, <2>1 DEF OneConfiguration
  <1>7. RequestsAnswered'
    BY <1>2 DEF RequestsAnswered
  <1>. QED BY <1>3, <1>4, <1>5, <1>6, <1>7

LEMMA UpFinite ==
  ASSUME LeasesCounted
  PROVE  IsFiniteSet(Up) /\ leases = Cardinality(Up) /\ leases \in Nat
           /\ leases <= Cardinality(Apps)
  BY AppsAssumption, FS_Subset, FS_CardinalityType DEF Up, LeasesCounted

LEMMA StartStep ==
  ASSUME IInv, NEW a \in Apps, Start(a)
  PROVE  IInv'
  <1>. USE DEF IInv
  <1>. DEFINE s == GetSettings  x == [settings |-> s, runtime |-> runtime']
  <1>1. Configured(s) /\ s \in Variables /\ s # None
    BY GetSettingsConfigured DEF Start
  <1>2. /\ cached' = s /\ leases' = leases + 1 /\ app' = [app EXCEPT ![a] = x]
        /\ runtime' = IF runtime = None THEN RuntimeOf(s) ELSE runtime
        /\ cleared' = (cleared /\ runtime # None)
        /\ app[a] = None /\ (runtime = None => ~ HeadersRejected(s))
        /\ UNCHANGED <<env, request, file, summarized, changes, crashes>>
    BY DEF Start, Down, CanLease, disk, bounds
  <1>. HIDE DEF s
  <1>3. runtime' \in Runtimes /\ runtime' # None
    BY <1>1, <1>2, RuntimeTyped DEF TypeOK
  <1>4. x \in Applications /\ x # None /\ x.settings = s /\ x.runtime = runtime'
    BY <1>1, <1>3, NoneAssumption DEF Applications
  <1>5. \A b \in Apps : app'[b] = IF b = a THEN x ELSE app[b]
    BY <1>2 DEF TypeOK
  <1>6. a \notin Up /\ Up' = Up \cup {a}
    BY <1>2, <1>4, <1>5 DEF Up, Serving
  <1>7. LeasesCounted' /\ leases' \in 0 .. Cardinality(Apps)
    <2>1. IsFiniteSet(Up) /\ leases = Cardinality(Up)
      BY UpFinite
    <2>2. LeasesCounted'
      BY <1>2, <1>6, <2>1, FS_AddElement DEF LeasesCounted
    <2>3. Up' \subseteq Apps
      BY DEF Up
    <2>4. Cardinality(Up') \in Nat /\ Cardinality(Up') <= Cardinality(Apps)
            /\ Cardinality(Apps) \in Nat
      BY <2>3, AppsAssumption, FS_Subset, FS_CardinalityType
    <2>. QED BY <2>2, <2>4 DEF LeasesCounted
  <1>8. TypeOK'
    <2>1. app' \in [Apps -> Applications \cup {None}]
      BY <1>2, <1>4 DEF TypeOK
    <2>2. cleared' \in BOOLEAN
      BY <1>2
    <2>. QED BY <1>1, <1>2, <1>3, <1>7, <2>1, <2>2 DEF TypeOK
  <1>9. RuntimeLeased'
    BY <1>2, <1>3, <1>4, <1>5, <1>6 DEF RuntimeLeased, Up
  <1>10. SettingsConfigured'
    BY <1>1, <1>2, <1>4, <1>5, <1>6 DEF SettingsConfigured, Up
  <1>11. OneConfiguration'
    <2>. SUFFICES ASSUME ~ cleared'
                  PROVE  /\ ~ HeadersRejected(s) /\ runtime' = RuntimeOf(s)
                         /\ \A b \in Up' : app'[b].settings = s
      BY <1>1, <1>2 DEF OneConfiguration
    <2>1. CASE runtime = None
      BY <1>2, <1>4, <1>5, <1>6, <2>1 DEF RuntimeLeased
    <2>2. CASE runtime # None
      <3>1. ~ cleared
        BY <1>2, <2>2
      <3>2. s = cached
        BY <3>1, <2>2 DEF OneConfiguration, GetSettings, s
      <3>. QED BY <1>2, <1>4, <1>5, <1>6, <2>2, <3>1, <3>2 DEF OneConfiguration, Up
    <2>. QED BY <2>1, <2>2
  <1>12. RequestsAnswered'
    <2>1. \A b \in Up : b \in Up' /\ app'[b] = app[b]
      BY <1>5, <1>6 DEF Up
    <2>. QED BY <1>2, <2>1 DEF RequestsAnswered
  <1>13. DocumentKept'
    BY <1>2 DEF DocumentKept
  <1>. QED BY <1>7, <1>8, <1>9, <1>10, <1>11, <1>12, <1>13

LEMMA StopStep ==
  ASSUME IInv, NEW a \in Apps, Stop(a)
  PROVE  IInv'
  <1>. USE DEF IInv
  <1>1. /\ a \in Up /\ leases' = leases - 1 /\ app' = [app EXCEPT ![a] = None]
        /\ runtime' = IF leases = 1 THEN None ELSE runtime
        /\ request' = [r \in Requests |->
                         IF request[r].app = a THEN NewRequest ELSE request[r]]
        /\ UNCHANGED <<env, cached, cleared, file, summarized, changes, crashes>>
    BY DEF Stop, disk, bounds, Up
  <1>2. \A b \in Apps : app'[b] = IF b = a THEN None ELSE app[b]
    BY <1>1 DEF TypeOK
  <1>3. Up' = Up \ {a}
    BY <1>2 DEF Up, Serving
  <1>4. /\ LeasesCounted' /\ leases' \in 0 .. Cardinality(Apps)
        /\ leases = 1 <=> Up' = {}
    <2>1. /\ IsFiniteSet(Up) /\ leases = Cardinality(Up) /\ leases \in Nat
          /\ leases <= Cardinality(Apps)
      BY UpFinite
    <2>2. IsFiniteSet(Up') /\ Cardinality(Up') = leases - 1
      BY <1>1, <1>3, <2>1, FS_RemoveElement
    <2>3. Cardinality(Up') \in Nat /\ Cardinality(Apps) \in Nat
      BY <2>2, AppsAssumption, FS_CardinalityType
    <2>4. Cardinality(Up') = 0 <=> Up' = {}
      BY <2>2, FS_EmptySet
    <2>. QED BY <1>1, <2>1, <2>2, <2>3, <2>4 DEF LeasesCounted
  <1>5. TypeOK'
    <2>1. app' \in [Apps -> Applications \cup {None}]
      BY <1>1 DEF TypeOK
    <2>2. NewRequest \in RequestStates
      BY DEF NewRequest, RequestStates, Routes
    <2>3. request' \in [Requests -> RequestStates]
      BY <1>1, <2>2 DEF TypeOK
    <2>. QED BY <1>1, <1>4, <2>1, <2>3 DEF TypeOK
  <1>6. RuntimeLeased'
    BY <1>1, <1>2, <1>3, <1>4 DEF RuntimeLeased, Up
  <1>7. SettingsConfigured'
    BY <1>1, <1>2, <1>3 DEF SettingsConfigured, Up
  <1>8. OneConfiguration'
    <2>. SUFFICES ASSUME ~ cleared, runtime' # None
                  PROVE  OneConfiguration'
      BY <1>1 DEF OneConfiguration
    <2>. QED BY <1>1, <1>2, <1>3 DEF OneConfiguration, Up
  <1>9. RequestsAnswered'
    <2>1. NewRequest' = NewRequest
      BY DEF NewRequest
    <2>. SUFFICES ASSUME NEW r \in Requests, request'[r] # NewRequest
                  PROVE  /\ request'[r].app \in Up'
                         /\ \/ AdmittedRequest(request'[r], app'[request'[r].app].settings)
                            \/ AnsweredAtOnce(request'[r], app'[request'[r].app].settings)
      BY <2>1 DEF RequestsAnswered
    <2>2. request'[r] = request[r] /\ request[r].app # a
      BY <1>1
    <2>3. request[r].app \in Up
      BY <2>2 DEF RequestsAnswered
    <2>4. request[r].app \in Up' /\ app'[request[r].app] = app[request[r].app]
      BY <1>2, <1>3, <2>2, <2>3 DEF Up
    <2>. QED BY <2>2, <2>4 DEF RequestsAnswered
  <1>10. DocumentKept'
    BY <1>1 DEF DocumentKept
  <1>. QED BY <1>4, <1>5, <1>6, <1>7, <1>8, <1>9, <1>10

LEMMA CrashStep ==
  ASSUME IInv, Crash
  PROVE  IInv'
  <1>. USE DEF IInv
  <1>1. /\ cached' = None /\ app' = [a \in Apps |-> None]
        /\ runtime' = None /\ leases' = 0
        /\ request' = [r \in Requests |-> NewRequest]
        /\ crashes' \in 0 .. MaxCrashes
        /\ UNCHANGED <<env, cleared, file, summarized, changes>>
    BY BoundsAssumption DEF Crash, disk, TypeOK
  <1>2. Up' = {}
    BY <1>1 DEF Up, Serving
  <1>3. LeasesCounted' /\ 0 \in 0 .. Cardinality(Apps)
    BY <1>1, <1>2, FS_EmptySet, FS_CardinalityType, AppsAssumption DEF LeasesCounted
  <1>4. NewRequest \in RequestStates /\ NewRequest' = NewRequest
    BY DEF NewRequest, RequestStates, Routes
  <1>5. TypeOK'
    BY <1>1, <1>3, <1>4 DEF TypeOK
  <1>6. RuntimeLeased' /\ SettingsConfigured' /\ OneConfiguration'
    BY <1>1, <1>2 DEF RuntimeLeased, SettingsConfigured, OneConfiguration
  <1>7. RequestsAnswered' /\ DocumentKept'
    BY <1>1, <1>4 DEF RequestsAnswered, DocumentKept
  <1>. QED BY <1>3, <1>5, <1>6, <1>7

-------------------------------------------------------------------------------
(* A request just received: neither answered nor admitted.                 *)
LEMMA ReceivedRequest ==
  ASSUME NEW a, NEW route
  PROVE  Received(a, route) = [app |-> a, route |-> route, answer |-> None,
                               key |-> "none", published |-> FALSE]
  <1>. DEFINE n == NewRequest
  <1>1. n = [app |-> None, route |-> "unknown", answer |-> None, key |-> "none",
             published |-> FALSE]
    BY DEF NewRequest
  <1>2. Received(a, route) = [n EXCEPT !.app = a, !.route = route]
    BY DEF Received
  <1>. HIDE DEF n
  <1>. QED BY <1>1, <1>2

(* What an application with settings s answers at once on a route.         *)
FitsRoute(route, answer, s) ==
  /\ answer.retryable = FALSE /\ answer.after = None
  /\ route = "ready" => (answer = Ok <=> Ready(s))
  /\ route = "collect" => \/ answer.code = "invalid_request"
                          \/ answer.code = "configuration_error" /\ ~ Ready(s)

Replied(a, route, answer) == [Received(a, route) EXCEPT !.answer = answer]

LEMMA RepliedFields ==
  ASSUME NEW a \in Apps, NEW route \in Routes, NEW answer \in Answers
  PROVE  Replied(a, route, answer) \in
           [app : {a}, route : {route}, answer : {answer}, key : {"none"},
            published : {FALSE}]
  <1>. DEFINE n == Received(a, route)  q == Replied(a, route, answer)
  <1>1. n = [app |-> a, route |-> route, answer |-> None, key |-> "none",
             published |-> FALSE]
    BY ReceivedRequest
  <1>2. q = [n EXCEPT !.answer = answer]
    BY DEF Replied
  <1>. HIDE DEF n, q
  <1>3. q \in [app : {a}, route : {route}, answer : {answer}, key : {"none"},
              published : {FALSE}]
    BY <1>1, <1>2
  <1>. QED BY <1>3 DEF q

LEMMA RepliedAtOnce ==
  ASSUME NEW a \in Apps, NEW route \in Routes, NEW answer \in Answers, NEW s,
         FitsRoute(route, answer, s)
  PROVE  /\ Replied(a, route, answer) \in RequestStates
         /\ Replied(a, route, answer).app = a
         /\ AnsweredAtOnce(Replied(a, route, answer), s)
  <1>. DEFINE q == Replied(a, route, answer)
  <1>1. q \in [app : {a}, route : {route}, answer : {answer}, key : {"none"},
              published : {FALSE}]
    BY RepliedFields
  <1>. HIDE DEF q
  <1>2. q \in RequestStates /\ q.app = a
    BY <1>1 DEF RequestStates
  <1>3. AnsweredAtOnce(q, s)
    BY <1>1, NoneAssumption DEF AnsweredAtOnce, FitsRoute
  <1>. QED BY <1>2, <1>3 DEF q

(* A request that is answered at once.                                     *)
LEMMA ReplyStep ==
  ASSUME IInv, NEW r \in Requests, NEW a \in Apps, NEW route \in Routes,
         NEW answer \in Answers, Reply(r, a, route, answer),
         FitsRoute(route, answer, app[a].settings)
  PROVE  IInv'
  <1>. DEFINE q == Replied(a, route, answer)
  <1>1. q \in RequestStates /\ q.app = a /\ AnsweredAtOnce(q, app[a].settings)
    BY RepliedAtOnce
  <1>2. a \in Up /\ request' = [request EXCEPT ![r] = q]
          /\ UNCHANGED <<env, lifespans, disk, bounds>>
    BY DEF Reply, Up, Replied
  <1>3. file' \in Files /\ summarized' \in BOOLEAN /\ DocumentKept'
    BY <1>2 DEF IInv, TypeOK, DocumentKept, disk
  <1>. HIDE DEF q
  <1>. QED BY <1>1, <1>2, <1>3, RequestStep

(* The collection of an admitted request, and the settings it runs under.  *)
LEMMA AdmittedCollection ==
  ASSUME IInv, NEW a \in Apps, Serving(a), Refusal(app[a].settings) = "none"
  PROVE  LET s == app[a].settings
             c == Collecting(a)
         IN /\ c = [app |-> a, route |-> "collect", answer |-> None,
                    key |-> Pseudonymizer(s), published |-> FALSE]
            /\ c \in RequestStates /\ a \in Up /\ AdmittedRequest(c, s)
  <1>. DEFINE s == app[a].settings  c == Collecting(a)
  <1>1. a \in Up /\ Configured(s)
    BY DEF IInv, SettingsConfigured, Up
  <1>2. Ready(s) /\ Pseudonymizer(s) \in {"configured", "local"}
    BY <1>1, ReadyMeansAdmitted
  <1>3. c = [app |-> a, route |-> "collect", answer |-> None,
             key |-> Pseudonymizer(s), published |-> FALSE]
    <2>. DEFINE n == Received(a, "collect")
    <2>1. n = [app |-> a, route |-> "collect", answer |-> None, key |-> "none",
               published |-> FALSE]
      BY ReceivedRequest
    <2>2. c = [n EXCEPT !.key = Pseudonymizer(s)]
      BY DEF Collecting
    <2>. HIDE DEF n, c
    <2>. QED BY <2>1, <2>2
  <1>4. c \in RequestStates
    BY <1>2, <1>3 DEF RequestStates, Routes
  <1>5. AdmittedRequest(c, s)
    BY <1>2, <1>3 DEF AdmittedRequest
  <1>. QED BY <1>1, <1>3, <1>4, <1>5

(* A collection that ends.                                                 *)
LEMMA EndStep ==
  ASSUME IInv, NEW r \in Requests, NEW c \in RequestStates, c.app \in Up,
         AdmittedRequest(c, app[c.app].settings),
         NEW answer \in Answers, NEW published \in BOOLEAN,
         Ends(r, c, answer, published), UNCHANGED <<env, lifespans, bounds>>,
         answer.code \notin {"configuration_error", "internal_error"},
         answer.retryable => ~ published, answer.after # None => answer.retryable,
         file' \in Files /\ summarized' \in BOOLEAN, DocumentKept'
  PROVE  IInv'
  <1>. DEFINE q == [c EXCEPT !.answer = answer, !.published = published]
  <1>1. /\ q \in RequestStates /\ q.app = c.app /\ q.route = c.route /\ q.key = c.key
        /\ q.answer = answer /\ q.published = published
    BY DEF RequestStates
  <1>2. request' = [request EXCEPT ![r] = q]
    BY DEF Ends
  <1>3. answer # None
    BY NoneAssumption
  <1>. HIDE DEF q
  <1>4. AdmittedRequest(q, app[q.app].settings)
    BY <1>1, <1>3 DEF AdmittedRequest
  <1>. QED BY <1>1, <1>2, <1>4, RequestStep

LEMMA OwnAnswers ==
  /\ CollectionFailed \in Answers /\ CollectionFailed.code = "collection_failed"
  /\ CollectionFailed.retryable = FALSE /\ CollectionFailed.after = None
  /\ Ok \in Answers /\ Ok.code = "ok" /\ Ok.retryable = FALSE /\ Ok.after = None
  BY HandledTyped DEF CollectionFailed, Ok, Answer

LEMMA FinishStep ==
  ASSUME IInv, NEW r \in Requests, NEW c \in RequestStates, c.app \in Up,
         AdmittedRequest(c, app[c.app].settings), Finish(r, c)
  PROVE  IInv'
  <1>1. UNCHANGED <<env, lifespans, bounds>>
    BY DEF Finish
  <1>2. file' \in Files /\ summarized' \in BOOLEAN /\ DocumentKept'
    BY DEF Finish, ReplacePreview, IInv, TypeOK, DocumentKept, disk, Files
  <1>3. PICK b \in BOOLEAN :
          Ends(r, c, CollectionFailed, b) \/ Ends(r, c, Ok, b)
    BY DEF Finish
  <1>4. CASE Ends(r, c, CollectionFailed, b)
    BY <1>1, <1>2, <1>4, OwnAnswers, EndStep
  <1>5. CASE Ends(r, c, Ok, b)
    BY <1>1, <1>2, <1>5, OwnAnswers, EndStep
  <1>. QED BY <1>3, <1>4, <1>5

(* A collection that waits was admitted.                                   *)
LEMMA WaitingAdmitted ==
  ASSUME IInv, NEW r \in Requests, Waiting(r)
  PROVE  /\ request[r] \in RequestStates /\ request[r].app \in Up
         /\ AdmittedRequest(request[r], app[request[r].app].settings)
  <1>1. request[r] \in RequestStates /\ request[r] # NewRequest
    BY DEF IInv, TypeOK, Waiting, NewRequest
  <1>2. ~ AnsweredAtOnce(request[r], app[request[r].app].settings)
    BY DEF Waiting, AnsweredAtOnce
  <1>. QED BY <1>1, <1>2 DEF IInv, RequestsAnswered

LEMMA ProviderFailsStep ==
  ASSUME IInv, NEW r \in Requests, ProviderFails(r)
  PROVE  IInv'
  <1>. DEFINE c == request[r]
  <1>1. c \in RequestStates /\ c.app \in Up /\ AdmittedRequest(c, app[c.app].settings)
    BY WaitingAdmitted DEF ProviderFails
  <1>2. UNCHANGED <<env, lifespans, disk, bounds>>
    BY DEF ProviderFails
  <1>3. file' \in Files /\ summarized' \in BOOLEAN /\ DocumentKept'
    BY <1>2 DEF IInv, TypeOK, DocumentKept, disk
  <1>4. CASE \E e \in ProviderErrors : Ends(r, c, ErrorAnswers[e], FALSE)
    <2>1. PICK e \in ProviderErrors : Ends(r, c, ErrorAnswers[e], FALSE)
      BY <1>4
    <2>2. ErrorAnswers[e] \in Answers
      BY HandledTyped
    <2>3. /\ ErrorAnswers[e].code \notin {"configuration_error", "internal_error"}
          /\ ErrorAnswers[e].after = None
      BY ProviderAnswered
    <2>. QED BY <1>1, <1>2, <1>3, <2>1, <2>2, <2>3, EndStep
  <1>5. CASE \E d \in Delays :
               Ends(r, c, [ErrorAnswers["ProviderRateLimitError"] EXCEPT !.after = d], FALSE)
    <2>1. PICK d \in Delays :
            Ends(r, c, [ErrorAnswers["ProviderRateLimitError"] EXCEPT !.after = d], FALSE)
      BY <1>5
    <2>. DEFINE x == [ErrorAnswers["ProviderRateLimitError"] EXCEPT !.after = d]
    <2>2. x \in Answers
      BY DEF Answers
    <2>3. x.code = "upstream_rate_limited" /\ x.retryable = TRUE
      BY ErrorAnswered DEF Answer
    <2>. HIDE DEF x
    <2>4. Ends(r, c, x, FALSE)
      BY <2>1 DEF x
    <2>. QED BY <1>1, <1>2, <1>3, <2>2, <2>3, <2>4, EndStep
  <1>. QED BY <1>4, <1>5 DEF ProviderFails

LEMMA ServeStep ==
  ASSUME IInv, NEW r \in Requests, NEW a \in Apps, Serve(r, a)
  PROVE  IInv'
  <1>. DEFINE s == app[a].settings
  <1>1. CASE Health(r, a)
    BY <1>1, OwnAnswers, ReplyStep DEF Health, Routes, FitsRoute
  <1>2. CASE Readiness(r, a)
    <2>1. Serving(a)
      BY <1>2 DEF Readiness, Reply
    <2>2. CASE Ready(s)
      <3>1. Reply(r, a, "ready", Ok)
        BY <1>2, <2>1, <2>2 DEF Readiness
      <3>. QED BY <2>2, <3>1, OwnAnswers, ReplyStep DEF Routes, FitsRoute
    <2>3. CASE ~ Ready(s)
      <3>. DEFINE x == ErrorAnswers["ServiceConfigurationError"]
      <3>1. Reply(r, a, "ready", x)
        BY <1>2, <2>1, <2>3 DEF Readiness
      <3>2. /\ x \in Answers /\ x # Ok /\ x.retryable = FALSE /\ x.after = None
            /\ x.code = "configuration_error"
        BY AnsweredWithoutRetry
      <3>. HIDE DEF x
      <3>. QED BY <2>3, <3>1, <3>2, ReplyStep DEF Routes, FitsRoute
    <2>. QED BY <2>2, <2>3
  <1>3. CASE Misaddressed(r, a)
    <2>. DEFINE w == ErrorAnswers["NotFound"]
                x == ErrorAnswers["HTTPException"]
                y == ErrorAnswers["RequestValidationError"]
    <2>1. /\ w \in Answers /\ w.retryable = FALSE /\ w.after = None
          /\ x \in Answers /\ x.retryable = FALSE /\ x.after = None
          /\ y \in Answers /\ y.retryable = FALSE /\ y.after = None
          /\ y.code = "invalid_request"
      BY AnsweredWithoutRetry
    <2>2. \/ Reply(r, a, "unknown", w) \/ Reply(r, a, "unknown", x)
          \/ Reply(r, a, "collect", y)
      BY <1>3 DEF Misaddressed
    <2>. HIDE DEF w, x, y
    <2>. QED BY <2>1, <2>2, ReplyStep DEF Routes, FitsRoute
  <1>4. CASE Preview(r, a)
    <2>. DEFINE x == PreviewAnswer(s)
    <2>1. x \in {Answer("disabled", FALSE), Ok, ErrorAnswers["PreviewNotFoundError"],
                ErrorAnswers["PreviewReadError"]}
      BY DEF PreviewAnswer, IInv, TypeOK, Files
    <2>2. x \in Answers /\ x.retryable = FALSE /\ x.after = None
      <3>1. CASE x = Answer("disabled", FALSE)
        BY <3>1, HandledTyped DEF Answer
      <3>2. CASE x = Ok
        BY <3>2, OwnAnswers
      <3>3. CASE x \in {ErrorAnswers["PreviewNotFoundError"], ErrorAnswers["PreviewReadError"]}
        BY <3>3, AnsweredWithoutRetry
      <3>. QED BY <2>1, <3>1, <3>2, <3>3
    <2>3. Reply(r, a, "preview", x)
      BY <1>4 DEF Preview
    <2>. HIDE DEF x
    <2>. QED BY <2>2, <2>3, ReplyStep DEF Routes, FitsRoute
  <1>5. CASE Refuse(r, a)
    <2>. DEFINE x == ErrorAnswers["ServiceConfigurationError"]
    <2>1. Configured(s)
      BY <1>5 DEF Refuse, IInv, SettingsConfigured, Up
    <2>2. ~ Ready(s) /\ Reply(r, a, "collect", x)
      BY <1>5, <2>1, ReadyMeansAdmitted DEF Refuse
    <2>3. /\ x \in Answers /\ x.retryable = FALSE /\ x.after = None
          /\ x.code = "configuration_error"
      BY AnsweredWithoutRetry
    <2>. HIDE DEF x
    <2>. QED BY <2>2, <2>3, ReplyStep DEF Routes, FitsRoute
  <1>6. CASE BeginAnthropic(r, a)
    <2>. DEFINE c == Collecting(a)
    <2>1. c \in RequestStates /\ c.app = a /\ a \in Up /\ AdmittedRequest(c, s)
      BY <1>6, AdmittedCollection DEF BeginAnthropic, Admitted
    <2>2. request' = [request EXCEPT ![r] = c] /\ UNCHANGED <<env, lifespans, disk, bounds>>
      BY <1>6 DEF BeginAnthropic
    <2>3. file' \in Files /\ summarized' \in BOOLEAN /\ DocumentKept'
      BY <2>2 DEF IInv, TypeOK, DocumentKept, disk
    <2>. HIDE DEF c
    <2>. QED BY <2>1, <2>2, <2>3, RequestStep
  <1>7. CASE CollectMock(r, a)
    <2>. DEFINE c == Collecting(a)
    <2>1. c \in RequestStates /\ c.app = a /\ a \in Up /\ AdmittedRequest(c, s)
      BY <1>7, AdmittedCollection DEF CollectMock, Admitted
    <2>2. Finish(r, c)
      BY <1>7 DEF CollectMock
    <2>. HIDE DEF c
    <2>. QED BY <2>1, <2>2, FinishStep
  <1>. QED BY <1>1, <1>2, <1>3, <1>4, <1>5, <1>6, <1>7 DEF Serve

(* What is not a request's answer: the cancellation of its task,           *)
LEMMA CancelStep ==
  ASSUME IInv, NEW r \in Requests, Cancel(r)
  PROVE  IInv'
  <1>. USE DEF IInv
  <1>1. request' = [request EXCEPT ![r] = NewRequest] /\ UNCHANGED <<env, lifespans, disk, bounds>>
    BY DEF Cancel
  <1>2. /\ UNCHANGED <<env, cached, app, runtime, leases, cleared, file, summarized,
                       changes, crashes>>
        /\ Up' = Up /\ NewRequest' = NewRequest
    BY <1>1 DEF lifespans, disk, bounds, Up, Serving, NewRequest
  <1>3. NewRequest \in RequestStates
    BY DEF NewRequest, RequestStates, Routes
  <1>4. TypeOK'
    BY <1>1, <1>2, <1>3 DEF TypeOK
  <1>5. \A p \in Requests : request'[p] = IF p = r THEN NewRequest ELSE request[p]
    BY <1>1 DEF TypeOK
  <1>6. RequestsAnswered'
    BY <1>2, <1>5 DEF RequestsAnswered
  <1>. QED
    BY <1>2, <1>4, <1>6 DEF LeasesCounted, RuntimeLeased, SettingsConfigured,
       OneConfiguration, DocumentKept

(* and what happens around the applications.                               *)
LEMMA OutsideStep ==
  ASSUME IInv, Reconfigure \/ Tamper \/ ClearCache \/ UNCHANGED vars
  PROVE  IInv'
  <1>. USE DEF IInv
  <1>1. UNCHANGED <<app, runtime, leases, request>> /\ Up' = Up /\ NewRequest' = NewRequest
    BY DEF Reconfigure, Tamper, ClearCache, vars, lifespans, Up, Serving, NewRequest
  <1>2. TypeOK'
    <2>1. CASE Reconfigure
      BY <2>1, BoundsAssumption, ConfigurationsAssumption
         DEF Reconfigure, lifespans, disk, TypeOK
    <2>2. CASE Tamper
      BY <2>2 DEF Tamper, lifespans, bounds, TypeOK
    <2>3. CASE ClearCache
      BY <2>3 DEF ClearCache, disk, bounds, TypeOK
    <2>4. CASE UNCHANGED vars
      BY <2>4 DEF vars, lifespans, disk, bounds, TypeOK
    <2>. QED BY <2>1, <2>2, <2>3, <2>4
  <1>3. \/ cached' = cached /\ cleared' = cleared
        \/ cached' = None /\ cleared' = TRUE
    BY DEF Reconfigure, Tamper, ClearCache, vars, lifespans
  <1>4. LeasesCounted' /\ RuntimeLeased'
    BY <1>1 DEF LeasesCounted, RuntimeLeased
  <1>5. SettingsConfigured'
    BY <1>1, <1>3 DEF SettingsConfigured
  <1>6. OneConfiguration'
    BY <1>1, <1>3 DEF OneConfiguration
  <1>7. RequestsAnswered'
    BY <1>1 DEF RequestsAnswered
  <1>8. DocumentKept'
    BY DEF Reconfigure, Tamper, ClearCache, vars, disk, DocumentKept
  <1>. QED BY <1>2, <1>4, <1>5, <1>6, <1>7, <1>8

LEMMA InitInvariant == Init => IInv
  <1>. SUFFICES ASSUME Init PROVE IInv
    OBVIOUS
  <1>1. Up = {}
    BY DEF Init, Up, Serving
  <1>2. NewRequest \in RequestStates
    BY DEF NewRequest, RequestStates, Routes
  <1>3. 0 \in 0 .. Cardinality(Apps) /\ Cardinality({}) = 0
    BY AppsAssumption, FS_CardinalityType, FS_EmptySet
  <1>4. TypeOK
    <2>1. env \in Variables /\ file \in Files
      BY ConfigurationsAssumption DEF Init
    <2>2. changes \in 0 .. MaxChanges /\ crashes \in 0 .. MaxCrashes
      BY BoundsAssumption DEF Init
    <2>3. leases \in 0 .. Cardinality(Apps)
      BY <1>3 DEF Init
    <2>. QED BY <1>2, <2>1, <2>2, <2>3 DEF Init, TypeOK
  <1>5. RequestsAnswered
    BY DEF Init, RequestsAnswered
  <1>. QED
    BY <1>1, <1>3, <1>4, <1>5
       DEF Init, IInv, LeasesCounted, RuntimeLeased, SettingsConfigured,
           OneConfiguration, DocumentKept

LEMMA NextStep ==
  ASSUME IInv, [Next]_vars
  PROVE  IInv'
  <1>1. CASE \E a \in Apps : Lifecycle(a)
    <2>1. PICK a \in Apps : Lifecycle(a)
      BY <1>1
    <2>2. CASE SettingsRejected(a)
      BY <2>2, OutsideStep DEF SettingsRejected
    <2>3. CASE RuntimeRejected(a)
      BY <2>3, SettingsRead DEF RuntimeRejected
    <2>4. CASE ServiceRejected(a)
      BY <2>4, SettingsRead DEF ServiceRejected
    <2>. QED BY <2>1, <2>2, <2>3, <2>4, StartStep, StopStep DEF Lifecycle
  <1>2. CASE \E r \in Requests, a \in Apps : Serve(r, a)
    BY <1>2, ServeStep
  <1>3. CASE \E r \in Requests : Resume(r) \/ ProviderFails(r) \/ Cancel(r)
    <2>1. PICK r \in Requests : Resume(r) \/ ProviderFails(r) \/ Cancel(r)
      BY <1>3
    <2>2. CASE Resume(r)
      BY <2>2, WaitingAdmitted, FinishStep DEF Resume
    <2>. QED BY <2>1, <2>2, ProviderFailsStep, CancelStep
  <1>. QED BY <1>1, <1>2, <1>3, CrashStep, OutsideStep DEF Next

-------------------------------------------------------------------------------
(* The inductive invariant holds for any applications, requests and        *)
(* configurations (create_lifespan, GatewayService, the handlers).         *)
THEOREM Invariance == Spec => []IInv
  <1>1. IInv /\ [Next]_vars => IInv'
    BY NextStep
  <1>. QED BY <1>1, InitInvariant, PTL DEF Spec

(* Every variable keeps its type; the leases are never more than the       *)
(* applications and never negative (create_lifespan).                      *)
THEOREM TypeCorrect == Spec => []TypeOK
  BY Invariance, PTL DEF IInv

(* Exactly the running applications hold a lease, also after starts that   *)
(* failed at any point (create_lifespan).                                  *)
THEOREM LeasesOfTheServing == Spec => []LeasesCounted
  BY Invariance, PTL DEF IInv

(* As many different names as there are, counted.                          *)
LEMMA DistinctNames ==
  ASSUME NEW n \in Nat, NEW f, \A j, k \in 1 .. n : j < k => f[j] # f[k]
  PROVE  Cardinality({f[k] : k \in 1 .. n}) = n
  <1>. DEFINE Image == {f[k] : k \in 1 .. n}
             g == [k \in 1 .. n |-> f[k]]
  <1>1. \A j, k \in 1 .. n : j # k => f[j] # f[k]
    OBVIOUS
  <1>2. g \in Surjection(1 .. n, Image) /\ g \in Injection(1 .. n, Image)
    BY <1>1 DEF Surjection, Injection, IsInjective
  <1>3. IsFiniteSet(1 .. n) /\ Cardinality(1 .. n) = n
    BY FS_Interval
  <1>. QED BY <1>2, <1>3, FS_Surjection

(* Readiness and collection agree for every combination of settings        *)
(* (validate_readiness, _pseudonymizer, collect).                          *)
THEOREM ReadinessDecides == Spec => []ReadinessDecidesCollection
  <1>1. IInv => ReadinessDecidesCollection
    <2>. SUFFICES ASSUME IInv, NEW q \in Requests, NEW r \in Requests,
                         request[q].route = "ready", request[r].route = "collect",
                         request[q].app = request[r].app, request[q].answer # None
                  PROVE  IF request[q].answer = Ok
                           THEN request[r].answer # None =>
                                  request[r].answer.code
                                    \notin {"configuration_error", "internal_error"}
                           ELSE /\ request[r].key = "none" /\ request[r].answer # None
                                /\ request[r].answer.code
                                     \in {"configuration_error", "invalid_request"}
      BY DEF ReadinessDecidesCollection
    <2>. DEFINE s == app[request[q].app].settings
    <2>1. NewRequest.route = "unknown"
      BY DEF NewRequest
    <2>2. request[q] # NewRequest /\ request[r] # NewRequest
      BY <2>1
    <2>3. AnsweredAtOnce(request[q], s)
      BY <2>2 DEF IInv, RequestsAnswered, AdmittedRequest
    <2>4. request[q].answer = Ok <=> Ready(s)
      BY <2>3 DEF AnsweredAtOnce
    <2>5. CASE AdmittedRequest(request[r], s)
      BY <2>4, <2>5 DEF AdmittedRequest
    <2>6. CASE AnsweredAtOnce(request[r], s)
      BY <2>4, <2>6 DEF AnsweredAtOnce
    <2>. QED BY <2>2, <2>5, <2>6 DEF IInv, RequestsAnswered
  <1>. QED BY <1>1, Invariance, PTL

(* Whatever is edited or restarted, telemetry goes out under the settings  *)
(* of the application that emits it, while nobody clears the cache         *)
(* (TelemetryManager.initialize, get_settings).                            *)
THEOREM OwnTelemetry == Spec => []TelemetryOfOwnSettings
  <1>1. IInv => TelemetryOfOwnSettings
    BY DEF IInv, OneConfiguration, RuntimeLeased, Up, TelemetryOfOwnSettings
  <1>. QED BY <1>1, Invariance, PTL

(* The exporters send every configured header under a name of its own      *)
(* (parse_otlp_headers).                                                   *)
THEOREM HeadersWhole == Spec => []HeadersWholeAndDistinct
  <1>1. IInv => HeadersWholeAndDistinct
    <2>. SUFFICES ASSUME IInv, NEW a \in Apps, Serving(a), ~ cleared,
                         app[a].settings.endpoint # "none"
                  PROVE  Cardinality({Casefold[n] : n \in runtime.headers})
                           = Len(app[a].settings.headers)
      BY DEF HeadersWholeAndDistinct
    <2>. DEFINE s == app[a].settings
                h == s.headers
                Name(k) == Casefold[h[k].name]
    <2>1. s \in Variables /\ ~ HeadersRejected(s) /\ runtime = RuntimeOf(s)
      BY DEF IInv, OneConfiguration, RuntimeLeased, SettingsConfigured, Configured, Up
    <2>2. h \in Seq(Items)
      BY <2>1 DEF Variables
    <2>3. Len(h) \in Nat /\ DOMAIN h = 1 .. Len(h)
      BY <2>2
    <2>4. \A k \in 1 .. Len(h) : ~ HeaderRejected(h, k)
      BY <2>1 DEF HeadersRejected
    <2>5. runtime.headers = {h[k].name : k \in 1 .. Len(h)}
      BY <2>1, <2>3 DEF RuntimeOf
    <2>. HIDE DEF h, s
    <2>6. {Casefold[n] : n \in runtime.headers} = {Name(k) : k \in 1 .. Len(h)}
      BY <2>5
    <2>7. \A j, k \in 1 .. Len(h) : j < k => Name(j) # Name(k)
      <3>. SUFFICES ASSUME NEW j \in 1 .. Len(h), NEW k \in 1 .. Len(h), j < k
                    PROVE  Name(j) # Name(k)
        OBVIOUS
      <3>1. j \in 1 .. k - 1
        BY <2>3
      <3>. QED BY <2>4, <3>1 DEF HeaderRejected
    <2>. DEFINE f == [k \in 1 .. Len(h) |-> Name(k)]
                n == Len(h)
    <2>8. {Name(k) : k \in 1 .. n} = {f[k] : k \in 1 .. n}
      OBVIOUS
    <2>9. \A j, k \in 1 .. n : j < k => f[j] # f[k]
      BY <2>7
    <2>. HIDE DEF f, n
    <2>10. n \in Nat
      BY <2>3 DEF n
    <2>11. Cardinality({f[k] : k \in 1 .. n}) = n
      BY <2>9, <2>10, DistinctNames
    <2>. QED BY <2>6, <2>8, <2>11 DEF h, s, n
  <1>. QED BY <1>1, Invariance, PTL

(* No answer invites a retry of a collection that published (the provider  *)
(* handlers and _error_response).                                          *)
THEOREM RetryIsSafe == Spec => []RetryableMeansUnpublished
  <1>1. IInv => RetryableMeansUnpublished
    <2>. SUFFICES ASSUME IInv, NEW r \in Requests, request[r].answer # None
                  PROVE  /\ request[r].answer.retryable =>
                              request[r].key # "none" /\ ~ request[r].published
                         /\ request[r].answer.after # None => request[r].answer.retryable
      BY DEF RetryableMeansUnpublished
    <2>. DEFINE s == app[request[r].app].settings
    <2>1. NewRequest.answer = None
      BY DEF NewRequest
    <2>2. /\ request[r].app \in Up
          /\ AdmittedRequest(request[r], s) \/ AnsweredAtOnce(request[r], s)
      BY <2>1 DEF IInv, RequestsAnswered
    <2>3. Ready(s) => Pseudonymizer(s) # "none"
      BY <2>2, ReadyMeansAdmitted DEF IInv, SettingsConfigured
    <2>. QED BY <2>2, <2>3 DEF AdmittedRequest, AnsweredAtOnce
  <1>. QED BY <1>1, Invariance, PTL

(* The fixed local key pseudonymizes nothing but synthetic users, and      *)
(* those only in development and test (_pseudonymizer).                    *)
THEOREM LocalKeyStaysLocal ==
  Spec => [](\A r \in Requests : request[r].key = "local" =>
               /\ app[request[r].app].settings.provider = "mock"
               /\ app[request[r].app].settings.environment \in Local)
  <1>. DEFINE Stays ==
         \A r \in Requests : request[r].key = "local" =>
           /\ app[request[r].app].settings.provider = "mock"
           /\ app[request[r].app].settings.environment \in Local
  <1>1. IInv => Stays
    <2>. SUFFICES ASSUME IInv, NEW r \in Requests, request[r].key = "local"
                  PROVE  /\ app[request[r].app].settings.provider = "mock"
                         /\ app[request[r].app].settings.environment \in Local
      OBVIOUS
    <2>1. NewRequest.key = "none"
      BY DEF NewRequest
    <2>2. Pseudonymizer(app[request[r].app].settings) = "local"
      BY <2>1 DEF IInv, RequestsAnswered, AdmittedRequest, AnsweredAtOnce
    <2>. QED BY <2>2 DEF Pseudonymizer
  <1>. HIDE DEF Stays
  <1>2. Spec => []Stays
    BY <1>1, Invariance, PTL
  <1>. QED BY <1>2 DEF Stays

-------------------------------------------------------------------------------
(* A reply is the request it was given for, and touches no other.          *)
LEMMA RepliedRequest ==
  ASSUME IInv, NEW r \in Requests, NEW a \in Apps, NEW route \in Routes,
         NEW answer \in Answers, Reply(r, a, route, answer)
  PROVE  /\ request'[r].app = a /\ request'[r].route = route
         /\ request'[r].answer = answer
  <1>. DEFINE q == Replied(a, route, answer)
  <1>1. request'[r] = q
    BY DEF IInv, TypeOK, Reply, Replied
  <1>2. q \in [app : {a}, route : {route}, answer : {answer}, key : {"none"},
              published : {FALSE}]
    BY RepliedFields
  <1>. HIDE DEF q
  <1>. QED BY <1>1, <1>2

(* A request that comes in is served.                                      *)
LEMMA OnlyServed ==
  ASSUME IInv, Next, NEW r \in Requests, request'[r] # request[r],
         request'[r] # NewRequest, ~ Waiting(r)
  PROVE  \E a \in Apps : Serve(r, a)
  <1>1. CASE \E a \in Apps : Lifecycle(a)
    BY <1>1 DEF Lifecycle, SettingsRejected, RuntimeRejected, ServiceRejected, Start,
       Stop, vars
  <1>2. CASE \E p \in Requests, a \in Apps : Serve(p, a)
    <2>1. PICK p \in Requests, a \in Apps : Serve(p, a)
      BY <1>2
    <2>2. \E q : request' = [request EXCEPT ![p] = q]
      BY <2>1 DEF Serve, Health, Readiness, Misaddressed, Preview, Refuse,
         BeginAnthropic, CollectMock, Reply, Finish, Ends
    <2>3. p = r
      BY <2>2 DEF IInv, TypeOK
    <2>. QED BY <2>1, <2>3
  <1>3. CASE \E p \in Requests : Resume(p) \/ ProviderFails(p) \/ Cancel(p)
    <2>1. PICK p \in Requests : Resume(p) \/ ProviderFails(p) \/ Cancel(p)
      BY <1>3
    <2>2. Waiting(p)
      BY <2>1 DEF Resume, ProviderFails, Cancel
    <2>3. \E q : request' = [request EXCEPT ![p] = q]
      BY <2>1 DEF Resume, ProviderFails, Cancel, Finish, Ends
    <2>. QED BY <2>2, <2>3 DEF IInv, TypeOK
  <1>4. CASE Reconfigure \/ Tamper \/ ClearCache \/ Crash
    BY <1>4 DEF Reconfigure, Tamper, ClearCache, Crash
  <1>. QED BY <1>1, <1>2, <1>3, <1>4 DEF Next

(* Nothing else that is served takes the preview's route.                  *)
LEMMA ServedRoute ==
  ASSUME IInv, NEW r \in Requests, NEW a \in Apps, Serve(r, a),
         request'[r].route = "preview"
  PROVE  Preview(r, a)
  <1>. DEFINE s == app[a].settings
  <1>1. ASSUME NEW route \in Routes \ {"preview"}, NEW answer \in Answers,
               Reply(r, a, route, answer)
        PROVE  FALSE
    BY <1>1, RepliedRequest
  <1>2. ~ Health(r, a)
    BY <1>1, OwnAnswers DEF Health, Routes
  <1>3. ~ Readiness(r, a)
    <2>1. ErrorAnswers["ServiceConfigurationError"] \in Answers
      BY AnsweredWithoutRetry
    <2>. QED BY <1>1, <2>1, OwnAnswers DEF Readiness, Routes
  <1>4. ~ Misaddressed(r, a)
    <2>1. /\ ErrorAnswers["NotFound"] \in Answers
          /\ ErrorAnswers["HTTPException"] \in Answers
          /\ ErrorAnswers["RequestValidationError"] \in Answers
      BY AnsweredWithoutRetry
    <2>. QED BY <1>1, <2>1 DEF Misaddressed, Routes
  <1>5. ~ Refuse(r, a)
    <2>. SUFFICES ASSUME Refuse(r, a) PROVE FALSE
      OBVIOUS
    <2>1. Refusal(s) = "ServiceConfigurationError"
      BY ReadyMeansAdmitted DEF Refuse, IInv, SettingsConfigured, Up
    <2>2. ErrorAnswers[Refusal(s)] \in Answers
      BY <2>1, AnsweredWithoutRetry
    <2>. QED BY <1>1, <2>2 DEF Refuse, Routes
  <1>6. ASSUME Serving(a), Refusal(s) = "none", NEW answer, NEW published,
               \/ request' = [request EXCEPT ![r] = Collecting(a)]
               \/ Ends(r, Collecting(a), answer, published)
        PROVE  FALSE
    <2>. DEFINE c == Collecting(a)
    <2>1. c.route = "collect" /\ c \in RequestStates
      BY <1>6, AdmittedCollection
    <2>. HIDE DEF c
    <2>2. request'[r] = c \/ request'[r] = [c EXCEPT !.answer = answer, !.published = published]
      BY <1>6 DEF c, Ends, IInv, TypeOK
    <2>. QED BY <2>1, <2>2 DEF RequestStates
  <1>7. ~ BeginAnthropic(r, a)
    BY <1>6 DEF BeginAnthropic, Admitted
  <1>8. ~ CollectMock(r, a)
    BY <1>6 DEF CollectMock, Admitted, Finish
  <1>. QED BY <1>2, <1>3, <1>4, <1>5, <1>7, <1>8 DEF Serve

LEMMA PreviewAnswered ==
  ASSUME IInv, NEW s
  PROVE  /\ PreviewAnswer(s) \in Answers
         /\ ~ PreviewEnabled(s) => PreviewAnswer(s).code = "disabled"
         /\ PreviewEnabled(s) /\ summarized => PreviewAnswer(s) = Ok
  <1>1. CASE ~ PreviewEnabled(s)
    <2>1. PreviewAnswer(s) = Answer("disabled", FALSE)
      BY <1>1 DEF PreviewAnswer
    <2>. QED BY <1>1, <2>1, HandledTyped DEF Answer
  <1>2. CASE PreviewEnabled(s)
    <2>1. /\ file = "absent" => PreviewAnswer(s) = ErrorAnswers["PreviewNotFoundError"]
          /\ file = "invalid" => PreviewAnswer(s) = ErrorAnswers["PreviewReadError"]
          /\ file = "document" => PreviewAnswer(s) = Ok
      BY <1>2 DEF PreviewAnswer
    <2>2. /\ ErrorAnswers["PreviewNotFoundError"] \in Answers
          /\ ErrorAnswers["PreviewReadError"] \in Answers /\ Ok \in Answers
      BY AnsweredWithoutRetry, OwnAnswers
    <2>3. file \in {"absent", "document", "invalid"} /\ (summarized => file = "document")
      BY DEF IInv, TypeOK, Files, DocumentKept
    <2>. QED BY <1>2, <2>1, <2>2, <2>3
  <1>. QED BY <1>1, <1>2

(* A preview left by a collection is shown by every later request that may *)
(* see one, and by no other (read_preview, DevelopmentPreviewWriter).      *)
THEOREM PreviewShown == Spec => PreviewShownOnceWritten
  <1>. DEFINE Shows(r, a) ==
         request[r] = NewRequest /\ request'[r].route = "preview" /\ request'[r].app = a =>
           IF PreviewEnabled(app[a].settings)
             THEN summarized => request'[r].answer = Ok
             ELSE request'[r].answer.code = "disabled"
  <1>1. ASSUME IInv, Next, NEW r \in Requests, NEW a \in Apps
        PROVE  Shows(r, a)
    <2>. SUFFICES ASSUME request[r] = NewRequest, request'[r].route = "preview",
                         request'[r].app = a
                  PROVE  IF PreviewEnabled(app[a].settings)
                           THEN summarized => request'[r].answer = Ok
                           ELSE request'[r].answer.code = "disabled"
      OBVIOUS
    <2>1. request'[r] # request[r] /\ request'[r] # NewRequest /\ ~ Waiting(r)
      BY <1>1 DEF NewRequest, Waiting
    <2>2. PICK b \in Apps : Serve(r, b)
      BY <1>1, <2>1, OnlyServed
    <2>3. Serving(b)
      BY <2>2 DEF Serve, Health, Readiness, Misaddressed, Preview, Refuse,
         BeginAnthropic, CollectMock, Admitted, Reply
    <2>4. Preview(r, b)
      BY <1>1, <2>2, ServedRoute
    <2>. DEFINE x == PreviewAnswer(app[b].settings)
    <2>5. x \in Answers
      BY <1>1, PreviewAnswered
    <2>6. Reply(r, b, "preview", x)
      BY <2>4 DEF Preview
    <2>. HIDE DEF x
    <2>7. request'[r].app = b /\ request'[r].answer = x
      BY <1>1, <2>5, <2>6, RepliedRequest DEF Routes
    <2>. QED BY <1>1, <2>7, PreviewAnswered DEF x
  <1>. DEFINE Shown == \A r \in Requests, a \in Apps : Shows(r, a)
  <1>2. IInv /\ [Next]_vars => [Shown]_vars
    BY <1>1
  <1>. HIDE DEF Shown
  <1>3. Spec => [][Shown]_vars
    BY <1>2, Invariance, PTL DEF Spec
  <1>. QED BY <1>3 DEF Shown, PreviewShownOnceWritten

===============================================================================
