-------------------------------- MODULE Gateway --------------------------------
(***************************************************************************)
(* The applications of one gateway process: the settings they read from    *)
(* the environment (config.py), their lifespans and the telemetry runtime  *)
(* those share (app.py, telemetry.py), the service behind each of them     *)
(* (service.py), and the answers of their routes (app.py).                 *)
(*                                                                         *)
(* The applications share one event loop.  A lifespan does not await       *)
(* between entering and serving, and of the routes only a collection with  *)
(* the Anthropic client awaits anything, so each of these is one action    *)
(* and such a collection two.  How its retrieval ends is the subject of    *)
(* Pagination, the stretch behind it that of Collection and Protection,    *)
(* the preview's file that of PreviewStore, and threads that of            *)
(* TelemetryLease.                                                         *)
(***************************************************************************)
EXTENDS Naturals, Sequences, FiniteSets

CONSTANTS
  Apps,            \* the applications that may be started in the process
  Requests,        \* the slots of the requests an application answers
  Configurations,  \* what the environment variables and .env may hold
  Names,           \* the names of OTLP headers
  Casefold,        \* external: str.casefold on those names
  Delays,          \* the delays a provider asks for with a rate limit
  MaxChanges,      \* bound: how often somebody edits the configuration
  MaxCrashes,      \* bound: how often the process dies and is restarted
  None

Environments == {"development", "test", "staging", "production"}
Local == {"development", "test"}
ProviderNames == {"mock", "anthropic"}
Optional == {"none", "blank", "given"}

(* An item of a header list; `valid` says that it has a separator, a name  *)
(* of the characters RFC 9110 allows, and a value that is not blank and    *)
(* has no line break.                                                      *)
Items == [name : Names, valid : BOOLEAN]

(* The settings' fields.  "none" is an unset variable, "blank" an empty    *)
(* one; no header at all is the empty list.                                *)
Variables ==
  [environment : Environments, provider : ProviderNames,
   key : Optional,       \* PSEUDONYMIZATION_KEY
   apiKey : Optional,    \* ANTHROPIC_ANALYTICS_API_KEY
   endpoint : Optional,  \* OTEL_EXPORTER_OTLP_ENDPOINT
   headers : Seq(Items),
   preview : {"none", "blank", "true", "false"},
   pathNamesFile : BOOLEAN]  \* PREVIEW_OUTPUT_PATH has a last component

ASSUME ConfigurationsAssumption == Configurations \subseteq Variables
ASSUME AppsAssumption == IsFiniteSet(Apps)
ASSUME BoundsAssumption == MaxChanges \in Nat /\ MaxCrashes \in Nat

VARIABLES
  env,        \* external: the configuration the process would read now
  cached,     \* the settings get_settings holds, or None
  app,        \* each running application: its settings, and its telemetry
  runtime,    \* TelemetryManager._runtime, or None
  leases,     \* TelemetryManager._leases
  request,    \* the requests of the running applications and their answers
  file,       \* the file at the preview's path
  cleared,    \* history: the settings cache was cleared under this runtime
  summarized, \* history: a collection wrote the file, and only other
              \* collections have touched it since
  changes, crashes

lifespans == <<cached, app, runtime, leases, cleared>>
disk == <<file, summarized>>
bounds == <<changes, crashes>>
vars == <<env, lifespans, request, disk, bounds>>

-------------------------------------------------------------------------------
(* AppSettings: blank strings are unset, except for the path,              *)
Unblank(value) == IF value = "blank" THEN "none" ELSE value

AppSettings(v) ==
  [v EXCEPT !.key = Unblank(@), !.apiKey = Unblank(@), !.endpoint = Unblank(@),
            !.preview = Unblank(@)]

(* and secrets are required where the runtime needs them.                  *)
Validates(s) ==
  /\ s.environment \notin Local => s.key # "none"
  /\ s.provider = "anthropic" => s.apiKey # "none"

(* Mutant: every lifespan reads the configuration anew.                    *)
UncachedSettings == AppSettings(env)

(* get_settings: one instance for the process.                             *)
GetSettings == IF cached = None THEN AppSettings(env) ELSE cached

PreviewEnabled(s) ==
  IF s.preview # "none" THEN s.preview = "true" ELSE s.environment = "development"

(* preview_writer_from_settings raises.                                    *)
PathRejected(s) == PreviewEnabled(s) /\ ~ s.pathNamesFile

(* Mutant: header names are compared as they are written.                  *)
RejectedAsWritten(items, k) ==
  ~ items[k].valid \/ \E j \in 1 .. k - 1 : items[j].name = items[k].name

(* parse_otlp_headers raises at item k, all items before it being headers. *)
HeaderRejected(items, k) ==
  \/ ~ items[k].valid
  \/ \E j \in 1 .. k - 1 : Casefold[items[j].name] = Casefold[items[k].name]

HeadersRejected(s) ==
  s.endpoint # "none" /\ \E k \in 1 .. Len(s.headers) : HeaderRejected(s.headers, k)

ExportMode(s) ==
  CASE s.endpoint # "none" -> "otlp_http"
    [] s.endpoint = "none" /\ s.environment = "development" -> "console"
    [] OTHER -> "none"

(* create_telemetry_runtime: its resource's deployment environment, where  *)
(* it exports to, and the headers its exporters send.                      *)
RuntimeOf(s) ==
  [environment |-> s.environment,
   mode |-> ExportMode(s),
   headers |-> IF s.endpoint = "none" THEN {}
               ELSE {s.headers[k].name : k \in DOMAIN s.headers}]

-------------------------------------------------------------------------------
(* validate_readiness raises no ServiceConfigurationError.                 *)
Ready(s) ==
  IF s.provider = "anthropic" THEN s.apiKey # "none" /\ s.key # "none"
  ELSE s.environment \in Local \/ s.key # "none"

(* Mutant: the local key is for development alone.                         *)
PseudonymizerInDevelopment(s) ==
  CASE s.key = "given" -> "configured"
    [] s.key = "blank" -> "Exception"
    [] s.key = "none" /\ s.provider = "mock" /\ s.environment = "development" -> "local"
    [] OTHER -> "ServiceConfigurationError"

(* _pseudonymizer: the key it takes, or the exception it raises.           *)
Pseudonymizer(s) ==
  CASE s.key = "given" -> "configured"
    [] s.key = "blank" -> "Exception"
    [] s.key = "none" /\ s.provider = "mock" /\ s.environment \in Local -> "local"
    [] OTHER -> "ServiceConfigurationError"

(* The exceptions a route ends with, by the handler that answers them.     *)
ProviderErrors ==
  {"ProviderError", "ProviderAuthenticationError", "ProviderAuthorizationError",
   "ProviderRateLimitError", "ProviderReportingDateUnavailableError",
   "ProviderResponseValidationError", "ProviderServerError", "ProviderTransportError"}

Answer(code, retryable) == [code |-> code, retryable |-> retryable, after |-> None]

(* Mutant: the collection's own failures are offered for a retry.          *)
CollectionRetried == Answer("collection_failed", TRUE)

CollectionFailed == Answer("collection_failed", FALSE)

ErrorAnswers ==
  [RequestValidationError |-> Answer("invalid_request", FALSE),
   ServiceConfigurationError |-> Answer("configuration_error", FALSE),
   PreviewNotFoundError |-> Answer("preview_not_found", FALSE),
   PreviewReadError |-> Answer("preview_invalid", FALSE),
   CollectionFailedError |-> CollectionFailed,
   ProviderReportingDateUnavailableError |-> Answer("reporting_date_unavailable", FALSE),
   ProviderAuthenticationError |-> Answer("upstream_authentication_failed", FALSE),
   ProviderAuthorizationError |-> Answer("upstream_authorization_failed", FALSE),
   ProviderRateLimitError |-> Answer("upstream_rate_limited", TRUE),
   ProviderResponseValidationError |-> Answer("upstream_response_invalid", FALSE),
   ProviderServerError |-> Answer("upstream_server_error", TRUE),
   ProviderTransportError |-> Answer("upstream_unavailable", TRUE),
   ProviderError |-> Answer("upstream_request_failed", FALSE),
   NotFound |-> Answer("not_found", FALSE),        \* HTTPException 404
   HTTPException |-> Answer("http_error", FALSE),
   Exception |-> Answer("internal_error", FALSE)]

Ok == Answer("ok", FALSE)
Answers == {Ok, Answer("disabled", FALSE)}
             \cup {ErrorAnswers[e] : e \in DOMAIN ErrorAnswers}
             \cup {[ErrorAnswers["ProviderRateLimitError"] EXCEPT !.after = d] : d \in Delays}

(* What collect raises before it contacts the provider, or "none".         *)
Refusal(s) ==
  CASE ~ Ready(s) -> "ServiceConfigurationError"
    [] Ready(s) /\ Pseudonymizer(s) \notin {"configured", "local"} -> Pseudonymizer(s)
    [] Ready(s) /\ Pseudonymizer(s) \in {"configured", "local"} ->
         IF s.provider = "anthropic" /\ s.apiKey = "blank"
           THEN "CollectionFailedError" ELSE "none"

-------------------------------------------------------------------------------
Routes == {"health", "ready", "collect", "preview", "unknown"}
Files == {"absent", "document", "invalid"}

NewRequest ==
  [app |-> None, route |-> "unknown",
   answer |-> None,      \* the reply; None while the collection waits
   key |-> "none",       \* the pseudonymization key of a collection under way
   published |-> FALSE]  \* whether its gauges and usage events are out

RequestStates ==
  [app : Apps \cup {None}, route : Routes, answer : Answers \cup {None},
   key : {"none", "configured", "local"}, published : BOOLEAN]

Runtimes == [environment : Environments, mode : {"otlp_http", "console", "none"},
             headers : SUBSET Names]

Applications == [settings : Variables, runtime : Runtimes]

ASSUME NoneAssumption ==
  /\ None \notin Apps \cup Delays
  /\ None \notin Variables /\ None \notin Runtimes /\ None \notin Applications
  /\ None \notin Answers

TypeOK ==
  /\ env \in Variables
  /\ cached \in Variables \cup {None}
  /\ app \in [Apps -> Applications \cup {None}]
  /\ runtime \in Runtimes \cup {None}
  /\ leases \in 0 .. Cardinality(Apps)
  /\ request \in [Requests -> RequestStates]
  /\ file \in Files
  /\ cleared \in BOOLEAN /\ summarized \in BOOLEAN
  /\ changes \in 0 .. MaxChanges /\ crashes \in 0 .. MaxCrashes

Init ==
  /\ env \in Configurations
  /\ cached = None
  /\ app = [a \in Apps |-> None]
  /\ runtime = None /\ leases = 0
  /\ request = [r \in Requests |-> NewRequest]
  /\ file \in Files
  /\ cleared = FALSE /\ summarized = FALSE
  /\ changes = 0 /\ crashes = 0

-------------------------------------------------------------------------------
Down(a) == app[a] = None
Serving(a) == app[a] # None

(* AppSettings raises, which no cache remembers.                           *)
SettingsRejected(a) == Down(a) /\ ~ Validates(GetSettings) /\ UNCHANGED vars

(* The factory of the first runtime raises: no lease is taken, but the     *)
(* settings stay cached.                                                   *)
RuntimeRejected(a) ==
  /\ Down(a) /\ Validates(GetSettings)
  /\ runtime = None /\ HeadersRejected(GetSettings)
  /\ cached' = GetSettings
  /\ UNCHANGED <<env, app, runtime, leases, cleared, request, disk, bounds>>

(* manager.initialize would return a runtime.                              *)
CanLease == runtime # None \/ ~ HeadersRejected(GetSettings)

(* Mutant: a failing service_factory is outside the try.                   *)
ServiceRejectedKeepingLease(a) ==
  /\ Down(a) /\ Validates(GetSettings) /\ CanLease
  /\ PathRejected(GetSettings)
  /\ cached' = GetSettings
  /\ leases' = leases + 1
  /\ UNCHANGED <<env, app, runtime, cleared, request, disk, bounds>>

(* GatewayService raises, and the finally returns the lease just taken, of *)
(* the runtime there was or of one made and shut down for it.              *)
ServiceRejected(a) ==
  /\ Down(a) /\ Validates(GetSettings) /\ CanLease
  /\ PathRejected(GetSettings)
  /\ cached' = GetSettings
  /\ UNCHANGED <<env, app, runtime, leases, cleared, request, disk, bounds>>

(* The lifespan enters and its application serves.                         *)
Start(a) ==
  /\ Down(a) /\ Validates(GetSettings) /\ CanLease
  /\ ~ PathRejected(GetSettings)
  /\ cached' = GetSettings
  /\ runtime' = IF runtime = None THEN RuntimeOf(GetSettings) ELSE runtime
  /\ leases' = leases + 1
  /\ app' = [app EXCEPT ![a] = [settings |-> GetSettings, runtime |-> runtime']]
  /\ cleared' = (cleared /\ runtime # None)
  /\ UNCHANGED <<env, request, disk, bounds>>

(* The lifespan is left; the server has waited for the last answer.        *)
Stop(a) ==
  /\ Serving(a)
  /\ \A r \in Requests : request[r].app = a => request[r].answer # None
  /\ leases' = leases - 1
  /\ runtime' = IF leases = 1 THEN None ELSE runtime
  /\ app' = [app EXCEPT ![a] = None]
  /\ request' = [r \in Requests |->
                   IF request[r].app = a THEN NewRequest ELSE request[r]]
  /\ UNCHANGED <<env, cached, cleared, disk, bounds>>

-------------------------------------------------------------------------------
Received(a, route) == [NewRequest EXCEPT !.app = a, !.route = route]

(* Request r arrives at application a, which answers it at once.           *)
Reply(r, a, route, answer) ==
  /\ Serving(a) /\ request[r] = NewRequest
  /\ request' = [request EXCEPT ![r] = [Received(a, route) EXCEPT !.answer = answer]]
  /\ UNCHANGED <<env, lifespans, disk, bounds>>

(* The root and the liveness routes look at nothing.                       *)
Health(r, a) == Reply(r, a, "health", Ok)

Readiness(r, a) ==
  Reply(r, a, "ready", IF Serving(a) /\ Ready(app[a].settings) THEN Ok
                       ELSE ErrorAnswers["ServiceConfigurationError"])

(* No such resource; no such method on it; no valid reporting_date.        *)
Misaddressed(r, a) ==
  \/ Reply(r, a, "unknown", ErrorAnswers["NotFound"])
  \/ Reply(r, a, "unknown", ErrorAnswers["HTTPException"])
  \/ Reply(r, a, "collect", ErrorAnswers["RequestValidationError"])

PreviewAnswer(s) ==
  CASE ~ PreviewEnabled(s) -> Answer("disabled", FALSE)
    [] PreviewEnabled(s) /\ file = "absent" -> ErrorAnswers["PreviewNotFoundError"]
    [] PreviewEnabled(s) /\ file = "invalid" -> ErrorAnswers["PreviewReadError"]
    [] PreviewEnabled(s) /\ file = "document" -> Ok

Preview(r, a) == Serving(a) /\ Reply(r, a, "preview", PreviewAnswer(app[a].settings))

(* GatewayService.collect refuses.                                         *)
Refuse(r, a) ==
  /\ Serving(a) /\ Refusal(app[a].settings) # "none"
  /\ Reply(r, a, "collect", ErrorAnswers[Refusal(app[a].settings)])

(* The collection of request r, before its retrieval.                      *)
Collecting(a) ==
  [Received(a, "collect") EXCEPT !.key = Pseudonymizer(app[a].settings)]

Admitted(r, a, provider) ==
  /\ Serving(a) /\ request[r] = NewRequest
  /\ Refusal(app[a].settings) = "none"
  /\ app[a].settings.provider = provider

BeginAnthropic(r, a) ==
  /\ Admitted(r, a, "anthropic")
  /\ request' = [request EXCEPT ![r] = Collecting(a)]
  /\ UNCHANGED <<env, lifespans, disk, bounds>>

Ends(r, collection, answer, published) ==
  request' = [request EXCEPT ![r] =
                [collection EXCEPT !.answer = answer, !.published = published]]

(* The document of a collection replaces the preview's file.               *)
ReplacePreview == file' = "document" /\ summarized' = TRUE

(* Mutant: a failing write of the preview leaves its file truncated.       *)
FinishWritingInPlace(r, c) ==
  /\ \/ Ends(r, c, CollectionFailed, FALSE) /\ UNCHANGED disk
     \/ /\ PreviewEnabled(app[c.app].settings)
        /\ Ends(r, c, CollectionFailed, TRUE)
        /\ file' = "invalid" /\ UNCHANGED summarized
     \/ /\ Ends(r, c, Ok, TRUE)
        /\ IF PreviewEnabled(app[c.app].settings) THEN ReplacePreview
                                                  ELSE UNCHANGED disk
  /\ UNCHANGED <<env, lifespans, bounds>>

(* The end of collection c: its records are rejected or the retrieval      *)
(* raised something unforeseen; its totals and events are published and    *)
(* the write of the preview raises, before or after the replacement; or    *)
(* all is well.                                                            *)
Finish(r, c) ==
  /\ \/ Ends(r, c, CollectionFailed, FALSE) /\ UNCHANGED disk
     \/ /\ PreviewEnabled(app[c.app].settings)
        /\ Ends(r, c, CollectionFailed, TRUE)
        /\ UNCHANGED disk \/ ReplacePreview
     \/ /\ Ends(r, c, Ok, TRUE)
        /\ IF PreviewEnabled(app[c.app].settings) THEN ReplacePreview
                                                  ELSE UNCHANGED disk
  /\ UNCHANGED <<env, lifespans, bounds>>

CollectMock(r, a) == Admitted(r, a, "mock") /\ Finish(r, Collecting(a))

Waiting(r) == request[r].app # None /\ request[r].answer = None

Resume(r) == Waiting(r) /\ Finish(r, request[r])

(* The retrieval ends with a ProviderError, which the service passes on    *)
(* and the application answers; a rate limit keeps its Retry-After.        *)
ProviderFails(r) ==
  /\ Waiting(r)
  /\ \/ \E e \in ProviderErrors : Ends(r, request[r], ErrorAnswers[e], FALSE)
     \/ \E d \in Delays :
          Ends(r, request[r],
               [ErrorAnswers["ProviderRateLimitError"] EXCEPT !.after = d], FALSE)
  /\ UNCHANGED <<env, lifespans, disk, bounds>>

(* The server gives up waiting for the answer and cancels the task.        *)
Cancel(r) ==
  /\ Waiting(r)
  /\ request' = [request EXCEPT ![r] = NewRequest]
  /\ UNCHANGED <<env, lifespans, disk, bounds>>

-------------------------------------------------------------------------------
(* External: somebody edits the environment or .env,                       *)
Reconfigure ==
  /\ changes < MaxChanges
  /\ changes' = changes + 1
  /\ env' \in Configurations
  /\ UNCHANGED <<lifespans, request, disk, crashes>>

(* or removes, replaces or damages the preview's file.                     *)
Tamper ==
  /\ file' \in Files
  /\ summarized' = FALSE
  /\ UNCHANGED <<env, lifespans, request, bounds>>

(* clear_settings_cache, "for tests and explicit runtime reconfiguration". *)
ClearCache ==
  /\ cached' = None
  /\ cleared' = TRUE
  /\ UNCHANGED <<env, app, runtime, leases, request, disk, bounds>>

(* The process dies and another takes its place.                           *)
Crash ==
  /\ crashes < MaxCrashes
  /\ crashes' = crashes + 1
  /\ cached' = None
  /\ app' = [a \in Apps |-> None]
  /\ runtime' = None /\ leases' = 0
  /\ request' = [r \in Requests |-> NewRequest]
  /\ UNCHANGED <<env, cleared, disk, changes>>

Lifecycle(a) ==
  SettingsRejected(a) \/ RuntimeRejected(a) \/ ServiceRejected(a) \/ Start(a) \/ Stop(a)

Serve(r, a) ==
  \/ Health(r, a) \/ Readiness(r, a) \/ Misaddressed(r, a) \/ Preview(r, a)
  \/ Refuse(r, a) \/ BeginAnthropic(r, a) \/ CollectMock(r, a)

Next ==
  \/ \E a \in Apps : Lifecycle(a)
  \/ \E r \in Requests, a \in Apps : Serve(r, a)
  \/ \E r \in Requests : Resume(r) \/ ProviderFails(r) \/ Cancel(r)
  \/ Reconfigure \/ Tamper \/ ClearCache \/ Crash

Spec == Init /\ [][Next]_vars

-------------------------------------------------------------------------------
(* An application's readiness route and its collect route agree, in either *)
(* order, whatever happens to the configuration in between: if the first   *)
(* answers ready, no collection of this application is refused for lack of *)
(* configuration or dies of it; if not, none contacts the provider.        *)
ReadinessDecidesCollection ==
  \A q, r \in Requests :
    /\ request[q].route = "ready"
    /\ request[r].route = "collect"
    /\ request[q].app = request[r].app
    /\ request[q].answer # None
    => IF request[q].answer = Ok
         THEN request[r].answer # None =>
                request[r].answer.code \notin {"configuration_error", "internal_error"}
         ELSE /\ request[r].key = "none" /\ request[r].answer # None
              /\ request[r].answer.code \in {"configuration_error", "invalid_request"}

(* Unless the settings cache was cleared meanwhile, every application      *)
(* emits under its own environment's name to its own collector, although   *)
(* the manager ignores the settings of all lifespans but the first, and    *)
(* the configuration is edited at any time.                                *)
TelemetryOfOwnSettings ==
  ~ cleared => \A a \in Apps : Serving(a) =>
                  app[a].runtime = RuntimeOf(app[a].settings)

(* Exporters never send part of the configured headers, nor two headers    *)
(* that a collector would take for one: header names have no case.         *)
HeadersWholeAndDistinct ==
  \A a \in Apps :
    LET s == app[a].settings IN
      Serving(a) /\ ~ cleared /\ s.endpoint # "none" =>
        Cardinality({Casefold[n] : n \in runtime.headers}) = Len(s.headers)

(* An answer that invites a retry, with or without a delay, is given only  *)
(* for a collection that published nothing, so that the retry repeats no   *)
(* usage event.                                                            *)
RetryableMeansUnpublished ==
  \A r \in Requests : request[r].answer # None =>
    /\ request[r].answer.retryable => request[r].key # "none" /\ ~ request[r].published
    /\ request[r].answer.after # None => request[r].answer.retryable

(* Once a collection has left a preview, an application with previews      *)
(* enabled can show one, also if it did not write it, restarted, or had    *)
(* later writes fail, until somebody else touches the file; an application *)
(* without never looks.                                                    *)
PreviewShownOnceWritten ==
  [][\A r \in Requests, a \in Apps :
       request[r] = NewRequest /\ request'[r].route = "preview" /\ request'[r].app = a =>
         IF PreviewEnabled(app[a].settings)
           THEN summarized => request'[r].answer = Ok
           ELSE request'[r].answer.code = "disabled"]_vars

===============================================================================
