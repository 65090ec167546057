# Verification of the GenAI usage observability gateway

This directory holds TLA+ models of the gateway in `src/`, TLC configurations that check
them on small instances, and proofs, checked by TLAPS, that their central properties hold
for every instance. Paths below are relative to
`src/src/genai_usage_observability_gateway/` unless they start with `src/`.

- [The system](#the-system): its parts, their state and operations, what is hard about them
- [The models](#the-models): which module models what, and how it corresponds to the code
- [The runs](#the-runs): what is checked, in which bounds, and what each run shows
- [Fairness](#fairness) and [disagreements with the documentation](#disagreements)
- [The proofs](#the-proofs): theorems, assumptions, inductive invariants
- [What is not covered](#what-is-not-covered) and [the plan](#the-plan)

`PROJECT.json` is the index: components, runs, mutants of definitions that must break each
property, the source lines behind each definition, findings, hazards and theorems.

To check a run: `tlc -config Collection.cfg MC_Collection.tla` (the module of each run is in
the table below). To check proofs: `tlapm CollectionProofs.tla`.

## The system

The gateway is one FastAPI process. `POST /collect` retrieves one UTC date's usage records
from a provider, sums them for the organization, removes identities, and publishes the
result in four places: OpenTelemetry gauges, one log event for each user, lifecycle events on
a span, and (in development) a JSON preview document that `GET /preview` reads back.

| Component | State | Operations | Interacts with |
|---|---|---|---|
| HTTP application, `app.py` | the app's service and settings | routes for health, readiness, collect and preview; error handlers; `create_lifespan` | calls the service; leases a telemetry runtime |
| Gateway service, `service.py` | settings, clients and writer factories | `validate_readiness`, `collect`, `read_preview` | builds a workflow for each collection |
| Collection workflows, `workflow.py` | one collection: span, checkpoint, record count | `collect`, of both providers | awaits the client, then calls all the parts below in a row |
| Anthropic client, `providers/anthropic.py` | cursor, seen cursors, records | `get_usage_analytics`: the page loop | the Enterprise Analytics API |
| Mock client, `providers/mock.py` | none | `get_usage_analytics`, without suspending | - |
| Normalization, `normalization.py` | none | a record to the common activity and an extension | - |
| Aggregation, `aggregation.py` | none | validation and some fifty totals | - |
| Privacy boundary, `privacy.py` | the HMAC key | pseudonyms, protected records, the collection's validator | calls aggregation |
| Organization gauges, `organization_metrics.py` | one gauge for each name | `emit` sets the gauges of a summary, one by one | read by the SDK's periodic reader, in another thread |
| Usage events, `usage_events.py` | none | one event for each protected record | the SDK's batch log processor |
| Lifecycle events, `lifecycle_events.py` | none | an event at each checkpoint | the span of the collection |
| Development preview, `preview.py` | the file and its temporary siblings | build, `write` | the file system, shared with other processes |
| Telemetry, `telemetry.py` | the manager's runtime and lease count; each runtime's lock and flag | `initialize`, `shutdown`, `force_flush` | the lifespans; the SDK's providers |
| Configuration, `config.py` | immutable settings | validation, readiness | everything |

Hard behaviours, and what correctness means there (the lines are in `PROJECT.json`,
"hazards"):

- **Overlapping collections.** Requests share one event loop, one set of gauges and one
  preview file. `collect` has one `await` (the retrieval); all that follows is one
  uninterrupted stretch. Correct: no observer on the loop sees two collections mixed; a
  date's gauges, events and preview are of one retrieval; an older retrieval does not
  replace a newer one.
- **Partial failure of a collection.** Anything may raise between two checkpoints, and the
  preview is written after the gauges and events are out. Correct: span, lifecycle events and
  reply tell the same story, and nothing but a failed preview write leaves a collection
  published in part.
- **Pagination.** A `while True` that trusts an upstream's cursors, over a listing that may
  change. Correct: it ends, and returns the whole of a listing that stood still.
- **The file protocol.** Any system call may fail, the process may die, the machine may lose
  power, another process may write the same path. Correct: whoever opens the destination
  finds a complete document, and a write that returned has shown its document, one that failed
  at a step has not.
- **Leases and shutdown.** The lease count is guarded by one lock, a runtime's shutdown by
  another, taken after the first was released, and each SDK call may raise. Correct: no
  application emits through a runtime that is being shut down, and each runtime that is
  given up is shut down, once.
- **Acceptance of data.** Whether records may be published is decided by checks in three
  modules before the first gauge is set and by more behind it. Correct: together they accept
  what may be published and nothing else, and none that comes too late ever refuses.
- **Configuration against lifespans.** Settings are read once for the process, the telemetry
  runtime is made for the first lifespan and shared by all, and a start can fail at three
  places. Correct: an application emits under its own settings, its readiness route and its
  collect route agree, and a failed start leaves the leases as it found them.
- **Answers far from their causes.** Sixteen kinds of exception are turned into codes, a
  retryable flag and a delay, by handlers that do not see what was published. Correct: an
  answer invites a retry only where a retry repeats nothing.
- **Some fifty totals** with almost the same names, three times over (record fields, totals,
  gauges), for two providers. Correct: each is the sum of what its name says over what the
  events report.

## The models

| Module | What it is |
|---|---|
| `Collection` | concurrent requests on the event loop: service, workflows, gauges, events, span, preview, exporting thread, crash |
| `MC_Collection` | the symmetry of the calls, for TLC |
| `Publication` | abstract: a collection is one indivisible publication, of everything, of the totals with or without the preview when its write raised, or of nothing |
| `CollectionTransaction` | `Collection` implements `Publication` |
| `Pagination` | one call of the Anthropic client: the loop and every way to end it |
| `Retrieval` | abstract: a call answers with the whole listing, with an exception, or not yet |
| `PaginationRefinement` | `Pagination` implements `Retrieval` |
| `PreviewStore` | the preview's file, one system call at a time, in several processes |
| `PreviewRegister` | abstract: a register of whole documents |
| `TelemetryLease` | the manager's leases and the shutdown of runtimes, one SDK call at a time |
| `Protection` | the data of one collection, from client records to gauges, events and preview |
| `ProtectionRefinement` | with its data, a collection takes the steps `Collection` gives it |
| `MC_Protection` | the responses `Protection` is checked with |
| `Gateway` | the applications of a process: settings, lifespans, the shared runtime, routes, error answers |
| `MC_Gateway` | the configurations `Gateway` is checked with |
| `...Proofs` | the theorems of the module named before; those of `PaginationRefinement` are in `PaginationProofs` |

The modules meet at narrow interfaces. `Collection` identifies data with the call that retrieved
it and knows of a retrieval only when it ends and whether its records are `usable`; `Pagination`
says how a retrieval ends, and `Protection` what makes records usable (`Acceptable`);
`ProtectionRefinement` is where the two meet: it maps the state of `Protection` to that of one
call of `Collection` (`usable` to `Acceptable`, the gauges to the areas of the emitter) and
checks that its steps are `Collection`'s. `Gateway` knows of a collection that it was admitted,
how it ended and whether it had published. `Collection` and `Gateway` take the preview write as
one step that succeeds or raises, with the document in place or not, which `PreviewStore`
justifies by implementing a register. `TelemetryLease` justifies that the gauges and events of
`Collection` go to a live runtime.

### Collection

A request is a record `call[c]`: `pc` is its place in `GatewayService.collect` and
`AnthropicCollectionWorkflow.collect` / `MockCollectionWorkflow.collect`, `answer` what the
retrieval returned, `events` and `span` what it has emitted, `reply` what its caller got.
`loop` is the coroutine that has the event loop: a step of a call that waits needs
`loop = None`, and a call keeps the loop until it awaits or ends. That is what asyncio
guarantees and what the code relies on; it is a variable, not an assumption that the tail is
atomic, so that the gauges are set one by one (`SetGauge`, `emit`'s loop) with the exporting
thread (`ExportGauge`), the upstream (`Revise`, `Answered`, `Faulted`), a disconnecting
client (`Cancel`) and the death of the process (`Crash`) between any two of them.

| Action | Code |
|---|---|
| `Arrive`, `RefuseUnready` | the collect route; `validate_readiness` |
| `BeginAnthropic`, `BeginMock`, `BeginEarlyDate` | span and `collection_started`, up to the await; the mock client returns without suspending |
| `Answered`, `Faulted`, `Resume` | the await ends (external), the coroutine is resumed |
| `MapRecords`, `Protect` | normalization and `records_mapped`; `protect_*_collection` and `aggregation_completed`, or the exception |
| `SetGauge`, `EmitUsage`, `WritePreview`, `PreviewError` | the emitters and the preview writer |
| `Complete`, `Fail`, `Cancel` | success tail; `except Exception`; `CancelledError`, which that does not catch |
| `Revise`, `ExportGauge`, `Crash` | external: new data upstream, the periodic reader, the process |

After a crash the calls in flight are lost, the gauges are unset and the preview and what the
backend received remain; calls not yet arrived go to the restarted process.

### Pagination

`listing` maps a position (the first page, or a cursor) to a page; the contents of a page are
an opaque block. `SendRequest`, then one of `LastPage`, `NextPage`, `RepeatedCursor`,
`ErrorStatus`, `InvalidBody`, `TransportFailure` and `Cancel`, are one turn of
`_retrieve_all_pages` with `_retrieve_page` and `_raise_for_error_status`. `Drift` changes
any page between two requests. The Retry-After header is one of four kinds, among them the
digits on which `str.isdigit` and `int` disagree.

### PreviewStore

Each step of `DevelopmentPreviewWriter.write` (mkstemp, write, flush, fsync, close,
`os.replace`, and the clean-up in `finally`) and each of `read_preview` (open, read) is an
action, and each can fail (`StepFails`, `UnlinkFails`, `ReadFails`). A write ends as `written`,
`failed` (a step raised and the clean-up did not) or `uncleaned`: `unlink(missing_ok=True)` keeps
back `FileNotFoundError` alone, so the clean-up may raise after `os.replace` too, and the caller
of such a write cannot tell whether its document is shown. Files have a content as
processes see it (`cached`) and one on disk; the operating system writes back contents
(`WriteBackFile`) and names (`WriteBackName`) when it likes, and `PowerLoss` leaves what had
been written back. A reader holds the file it opened, not the name.

### TelemetryLease

A section under the manager's lock is one action (`Initialize`, `FactoryFails`, `Release`);
`runtime.shutdown`, which runs after that lock was released, is `TakeLock`, three
`FlushOne`, three `ShutOne` and `Leave`, each SDK call raising or not. `Serve` and `Stop` are
the lifespan's; a service factory that raises goes to `Stop` at once. `Callers` stand for
other holders of a runtime that shut it down themselves: the method is public.

### Protection

One collection's synchronous tail with its data. An activity is a function from areas
(`chat`, `claude_code`, `excel`, ...) to counts. `Normalize`, `Aggregate` and the tables
`AnthropicTotals`, `MockTotals`, `AnthropicGauges` and `Instruments` translate the code's
field-by-field constructors; `CheckDates` .. `RejectCollection` are the validations in the
order the code makes them, `ProtectRecord` replaces the identifier by its pseudonym,
`SetGauges`, `EmitEvent` and `BuildPreview` publish. Around them, `Resume`, `MapRecords`,
`ReportPreview`, `Complete` and `Fail` are the workflow's `try` and `except`, with the local
`record_count`, the span and the lifecycle events, each of which `Report` passes through
`validate_checkpoint` as `_emit_lifecycle` does. A pseudonym is any function of the
identifier, collisions included: an HMAC is cut to 64 bits. Counts that no total is made of
are represented by a few that a total could be confused with.

### Gateway

A configuration is a record of the variables the code distinguishes (unset, blank or given;
true or false); headers are a list of items with a name and a validity. The applications
share one event loop. A lifespan does not await between its entry and its first request, and
no route but a collection with the Anthropic client awaits, so each is one action and such a
collection is two.

| Action | Code |
|---|---|
| `SettingsRejected`, `RuntimeRejected`, `ServiceRejected`, `Start`, `Stop` | `create_lifespan`: `get_settings`, `TelemetryManager.initialize`, the service factory, the `finally` |
| `Health`, `Readiness`, `Preview` | the `GET` routes, with `validate_readiness` and `read_preview` |
| `Misaddressed` | Starlette's own refusals, through `http_error_handler` and `request_validation_handler` |
| `Refuse`, `BeginAnthropic`, `CollectMock` | `GatewayService.collect` up to its await, or to the end |
| `Resume`, `ProviderFails`, `Cancel` | the end of the await, and the exception handlers |
| `Reconfigure`, `Tamper`, `ClearCache`, `Crash` | external: an edit of the environment, somebody else at the file, `clear_settings_cache`, the process |

`AppSettings`, `Validates`, `GetSettings`, `PreviewEnabled`, `HeaderRejected`, `RuntimeOf`,
`Ready`, `Pseudonymizer` and `ErrorAnswers` are the functions of those names in `config.py`,
`telemetry.py`, `service.py` and `app.py`. An answer is its code, its retryable flag and its
Retry-After; status numbers and messages, which the code alone determines, and the bodies of
successes are left out. So are the characters of header names and values (a name is one of
three, two of which differ in case alone) and the ranges of the result limit and the timeout.
All applications have the same preview path.

## The runs

| Run | Module | Shows | States |
|---|---|---|---|
| `Pagination` | `PaginationRefinement` | the loop ends, asks no position twice, returns a listing that stood still as a whole, and implements `Retrieval` | 26,880 |
| `Collection` | `MC_Collection` | three overlapping collections of a date: one story for each call, no mixed gauges, all-or-nothing publication, no older totals without an overlap | 928,230 (up to symmetry) |
| `CollectionDates` | `CollectionTransaction` | two collections over two dates and one the provider refuses: only protected data of the right date, preview and gauges agree, `Publication` implemented | 493,668 |
| `CollectionLive` | `MC_Collection` | under fairness every request that reached the event loop is answered, over faults of provider and disk and a crash | 57,488 |
| `PreviewStore` | `PreviewStore` | two processes, one crash, one power loss, every call failing: whole documents, truthful outcomes, no stray files, a register | 244,140 |
| `TelemetryLease` | `TelemetryLease` | two applications and an outsider: leases, live runtimes, truthful flag, every runtime shut down | 231,787 |
| `Protection` | `MC_Protection` | acceptance, nothing fails once published, every gauge and total, common or of one area, is the sum its name says, lifecycle events and span tell the right count, and every step is one of `Collection` | 30,564 |
| `Gateway` | `MC_Gateway` | two applications over eight configurations, edited, restarted, failing to start: readiness decides collections, telemetry under own settings, whole headers, safe retries, a preview once written is shown | 464,394 (up to symmetry) |
| `PaginationRetryAfter`, `CollectionStale`, `CollectionCancelled`, `TelemetryLeaseFlush` | | the four [disagreements](#disagreements) | |

### Bounds

- `Collection`: three calls give every order of two retrievals and a third that starts in
  between or later, which is what mixing, staleness and story need; the properties relate at
  most two calls. Two gauges are enough for a mixture, a mixture being two gauges that
  differ. One revision separates older from newer. One crash splits the calls into before and
  after. The proofs remove these bounds for the properties they cover.
- `CollectionDates`: two calls, two served dates and an early one; the preview is shared by
  dates, the gauges are not.
- `Pagination`: two cursors make a chain of three pages, a self-loop and a cycle of two; two
  blocks tell pages apart; one drift separates "stood still" from "changed".
- `PreviewStore`: two documents and two processes: a writer against a writer, or against a
  reader with the old file open. One power loss at any moment, one dying process.
- `TelemetryLease`: two lifespans, two runtimes (the old being shut down while the new is
  served), two further shutdowns by the outsider. When `MaxRuntimes` are made no lifespan can
  start, which ends the run, not a property.
- `Protection`: lists of up to three records with every combination of two users and a blank
  one, two dates and two pseudonyms cover every pair of records that a check compares, with a
  third record before, between or behind; a deed of each count of each area once, by either
  or both of two users, makes every total differ when it is made of another count.
  A retrieval that raised is one without records. Deadlock is not checked: a collection ends.
- `Gateway`: two applications are a first lifespan and one that finds its runtime; two
  requests are what the properties relate, and two overlapping collections. The eight
  configurations contain, for each condition of the code, one that meets it and one that
  does not: both providers, a local and a remote environment, a blank key, two header names
  that differ in case alone, a path without a name, a preview by default, forbidden and asked for.
  One edit separates before from after, one crash likewise. Deadlock is checked.

## Fairness

- `Collection`: weak fairness of the event loop's steps of each call (the loop's ready queue
  is first in, first out, and no step blocks) and of the end of each await (the client's
  request timeout ends it). None for the exporting thread, arrivals, cancellations, revisions or
  crashes. The timeout bounds each wait for data, so an upstream that delivers one byte at a
  time can outlast it; the assumption is that it does not do so for ever.
- `Pagination`: weak fairness of the client's steps, for the same reason; none for `Drift`.
- `TelemetryLease`: weak fairness of `Release` and of a shutdown under way: an SDK call
  returns or raises. None for anything that would make an application stop.

## Disagreements

Four runs check a sentence of the documentation and end in a counterexample.

- `PaginationRetryAfter` (`FailuresAreProviderErrors`): `src/README.md:146-147` says provider
  failures become application errors. `_raise_for_error_status` guards
  `int(retry_after)` by `str.isdigit`, which accepts digits `int` does not (a superscript
  two); the `ValueError` reaches the caller as `collection_failed` and not as a retryable rate limit.
- `CollectionStale` (`GaugesKeepLatestTotals`): `src/README.md:221-222` says gauges keep the
  latest totals of a date collected more than once. Of two overlapping collections, the one
  with the older answer may be resumed last. What does hold, and is proved, is
  `SequentialRecollectionIsFresh`: it takes an overlap.
- `CollectionCancelled` (`EndedSpansSayHow`): `src/README.md:254-255` and `264-265` say a
  failed collection is marked failed and emits `collection_failed`. A cancelled one ends its
  span as "started".
- `TelemetryLeaseFlush` (`ShutdownFlushesEach`): `src/docs/architecture.md:117-118` says
  shutdown force-flushes each provider. A flush that raises skips those behind it. The
  shutdowns themselves are nested in `finally`, and `EveryRuntimeIsShut` holds.

## The proofs

The theorems are of the form `Spec => []P`, or say that a module implements its abstract one
or never takes a forbidden step. They hold for all values of the
constants that satisfy the modules' named assumptions (bounds are naturals,
`None` is no member of the sets it stands beside, `Cursors`, `Lifespans` and `Apps` are finite,
the provider's responses and the configurations are typed records).

Every safety property of the passing runs is proved, the four refinements among them:
`Collection` implements `Publication`, `Protection` takes the steps of `Collection`,
`PreviewStore` implements `PreviewRegister`, and `Pagination` implements `Retrieval` up to the
liveness of its loop.

| Module | Theorems | Inductive invariant, and why the property alone is not inductive |
|---|---|---|
| `CollectionProofs` | `TypeCorrect`, `NeverMixed`, `FreshRecollection` | `LoopOwned`: a call between two awaits is the one that has the loop, without which two calls could set gauges in turns. `GaugesSplit`: the gauges a call has set hold it, the rest agree among themselves. `CountsInStep`, `GaugesAnswered`, `RevisionsGrow`: a call on a gauge has an answer, and answers are no newer than the upstream, so a floor taken before the answer is no higher than it |
| `CollectionTransactionProofs` | `OneStory`, `AllOrNothing`, `OnlyProtected`, `MockSerial`, `PreviewAgrees`, `Transactional` | `Stories`: at each place of the workflow, which lifecycle events a call has emitted, what its span says, how many gauges it has set, whether its usage events are out; and the five ways it can be over. The properties speak of answered calls only, and what a call says at its end depends on where it failed. `GaugesOwned`, `PreviewKept`: from its last gauge to its end a call owns its date's gauges, and its preview is not replaced. For `Publication`, `CommittedSince`: gauges and preview are what was committed last, overwritten by what the one running call has done so far; the history variable `committed` supplies the middle of a transaction with the state before it |
| `PaginationProofs` | `TypeCorrect`, `NeverTwice`, `CompleteOnStableListing`, `LoopIsFinite`, `WholeAnswer`, `Retrieves` | the positions sent are the first page and the cursors seen, in order, hence no more than one for each cursor and one (`BoundedRequests`, a lemma); while the listing stands still each is the successor of the one before, and its block was received. For `Retrieval`: a listing is read by one walk only (`WalkIsUnique`, from the least place where two walks differ), and the requests are that walk. `LoopIsFinite`: two steps for each cursor not seen and those of the turn are left, and each step of the client uses one up. `WholeAnswer` is the safety of `Retrieval`; `Retrieves` adds its liveness from `EveryCallEnds`, which the run checks |
| `PreviewStoreProofs` | `WholeDestination`, `TruthfulOutcome`, `TypeCorrect`, `NoStrays`, `Refinement` | `OneWriter`: a document has one writer. `Progress`: what its file holds, in memory and on disk, at each step. `InstalledIsSafe`: whatever was ever named by the destination is whole on disk, which is why a power loss can bring back an older name and not a partial document. `Readers`: who reads has opened what was once shown |
| `TelemetryLeaseProofs` | `TypeCorrect`, `CountedLeases`, `AliveWhileServed`, `TruthfulFlag` | `HeldAgree` and `Alive`: a lifespan's runtime is the manager's while it holds a lease, and runtimes are never reused. `Underway`, `Settled`: what a shutdown has done at each step, under the runtime's lock, and what it leaves to the next |
| `ProtectionProofs` | `RightVerdict`, `PublishedWhole`, `CountsTold`, `GaugesAgree`, `PreviewAgreesWithEvents`, `TypeCorrect` | `WhileChecking`, `WhileProtecting`: after the first `i - 1` records, one date, the users seen are theirs and differ, and the protected records are those records' with their pseudonyms. `OncePublishing`: what is published is acceptable and consistent. That the collection's validator (a set of pseudonyms as large as the list) refuses exactly a collision is `DistinctImage`. `Counting`: what `record_count` holds at each stage, without which a lifecycle event might be refused. `Telling`, `Showing`: the span and the lifecycle events so far, the gauge of users once it is set, the events as many as the loop went through. For the sums, `Carrying`, `Displaying`, `Logging`, `Previewing`: each record, gauge, event and document as the operators `Normalize`, `Aggregate` and `ValuesOf` make it of the client's records; the properties compare two of them at the end, each made at another time |
| `ProtectionRefinementProofs` | `Refines` | The invariants of `ProtectionProofs`, with `Setting` (while gauges are set, those set are the first of the emitter's order, without which the number of set gauges would not grow by one) and `LastTold` (before the last checkpoint the one before it was told). One lemma says when each step of `Collection` is taken, one which of them each step of `Protection` is |
| `GatewayProofs` | `TypeCorrect`, `LeasesOfTheServing`, `ReadinessDecides`, `OwnTelemetry`, `HeadersWhole`, `RetryIsSafe`, `LocalKeyStaysLocal`, `PreviewShown` | `LeasesCounted`, `RuntimeLeased`: the leases are the running applications, and they all have the manager's runtime. `SettingsConfigured`: what is cached or served was validated and has no blank secret, without which readiness and `_pseudonymizer` differ. `OneConfiguration`: until the cache is cleared, the runtime and all applications are of the cached settings, which an edit does not reach. `RequestsAnswered`: an answer is that of an admitted collection or was given at once, and what either can be. `DocumentKept` for the preview. `HeadersWhole` needs that the case-folded names of a list without rejected items are as many as its items, whatever its length |

Each `Invariance` theorem proves `Init => IInv` and that every action preserves `IInv`, one
lemma or step for each action; the named properties follow from `IInv`. Later invariants
(`SInv` and `HInv` of `CollectionTransactionProofs`, `JInv` and `KInv` of `ProtectionProofs`,
`LInv`) are proved on top of it. (`PaginationProofs`
proves its properties one on the other, each with the part of the invariant it needs.) TLC
checks the inductive invariants too, with an `INVARIANT IInv` on the proof module in the
bounds of the component's run.

`GaugesAgree` and `PreviewAgreesWithEvents` are about sums over lists of any length, and a sum
is a fold of the community modules, which takes the elements of the index set in whatever
order `CHOOSE` picks them. That such a sum is its first term and the sum of the rest, is a natural
number, and is zero when its terms are, is proved in `ProtectionProofs` (`SumUnfolds`,
`SumOfCounts`) by counting up through the sizes of its index sets: the library's
induction theorems, which take an operator, cannot be used, so `CountingUp` is an induction
over a set of numbers, from the library's theorem that a well-founded set has a minimal element.
The gauges and the events are then sums of equal terms over the same indices, and the tables of
fields (`AnthropicGauges`, `GaugeMeaning`, ...) are compared entry by entry. The common counts
(chat interactions, developer sessions, accepted, rejected) are compared twice, with the counts the
events carry and with those of the activity they report (`ShowsCommonSums`, `SummaryCommonSums`).

Only model-checked: liveness (`EveryCallEnds`, `EveryCallIsAnswered`, `EveryRuntimeIsShut`),
since TLAPS does not reason about fairness and `ENABLED`. For `EveryCallEnds` the measure is
proved (`LoopIsFinite`), its use under fairness is not. `ImplementsRetrieval` is proved up to
`EveryCallEnds`. What the four [disagreements](#disagreements) say of the code is a
counterexample each, not a theorem.

## What is not covered

- The OpenTelemetry SDK, httpx, Starlette, asyncio and the file system are external and
  modelled by what the code relies on. Queue limits and encodings inside the SDK are left out.
- The status numbers, messages and success bodies of the HTTP routes, the ranges of numeric
  settings and the characters of OTLP headers are data (see `Gateway`). A secret that is
  blank and not unset cannot come from the environment; a caller of `AppSettings` could make
  one, and `Pseudonymizer` and `Refusal` have that case, without a run that reaches it.
- The construction of telemetry providers and exporters beyond the resource's environment,
  the export mode and the headers; the local JSON mirrors of usage and lifecycle events;
  severities, dates and durations of lifecycle events; rendering: no control flow that a
  property depends on.
- What the SDK's own machinery loses: its log queue drops records when a collection emits more
  than it holds, and its metric reader, a thread that `emit` does not lock out, may export the
  gauges of a summary half set. Both are listed as hazards without a property: nothing in the
  code looks at the queue or repairs the export. `Collection` has the exporting thread all the
  same, and `OnlyProtectedDataPublished` covers what it exports.
- The response models' validation of a page is one outcome, `InvalidBody`. The extension
  fields of a record that no total is made of (artifacts, thinking messages, ...) are copied
  by the code and have no counterpart here.
- The synthetic values of the mock provider: constants.
- Checks whose outcome the types fix: a normalized record of the wrong provider, a `None`
  common count, a naive collection timestamp.

## The plan

Done: `Collection` and its abstract transaction; `Pagination` and `Retrieval`;
`PreviewStore` and `PreviewRegister`; `TelemetryLease`; `Protection` with the workflow's
reporting, and its composition with `Collection`; `Gateway`, which took in what was planned
as a module of the HTTP boundary, one of the configuration and the header parser; their
central theorems.

Every safety property the runs check is now a theorem. To do, all of it proof:

1. What liveness rests on, as safety: a number that every step of a call, or of a shutdown,
   makes smaller, and which only an external step can make larger. It is proved for
   `Pagination` (`LoopIsFinite`); for `TelemetryLease` it is the SDK calls not yet made, for
   `Collection` the gauges, events and checkpoints a call has left.
2. That a call of `Collection` which holds the event loop has exactly one step to take, so
   that weak fairness of that step is enough.
