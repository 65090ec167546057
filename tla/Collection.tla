------------------------------ MODULE Collection ------------------------------
(***************************************************************************)
(* Concurrent POST /collect requests of one gateway process: the service   *)
(* (service.py) and the provider workflows (workflow.py) on one asyncio    *)
(* event loop, with the organization gauges, the usage and lifecycle       *)
(* events, the span of each collection and the development preview that    *)
(* they share, and the metric reader's thread that exports the gauges.     *)
(*                                                                         *)
(* A collection's data is identified by the call that retrieved it: a      *)
(* gauge, the preview or the backend holds the call whose totals it shows, *)
(* and answer[c] is what that call retrieved.  The pages of a retrieval    *)
(* are the subject of Pagination, the preview's file that of PreviewStore. *)
(***************************************************************************)
EXTENDS Naturals, Sequences

CONSTANTS
  Calls,          \* the requests to POST /collect
  Dates,          \* the reporting dates asked for
  EarlyDates,     \* those before the provider's first supported date
  Providers,      \* the configured providers considered: "anthropic", "mock"
  GaugeCount,     \* gauges set by one organization summary, in this order
  MaxRevision,    \* bound: how often the upstream revises a date's data
  MaxCrashes,     \* bound: how often the process dies and is restarted
  None            \* no call, no answer, nobody on the event loop

ASSUME EarlyDatesAssumption == EarlyDates \subseteq Dates
ASSUME ProvidersAssumption == Providers \subseteq {"anthropic", "mock"}
ASSUME BoundsAssumption ==
  GaugeCount \in Nat \ {0} /\ MaxRevision \in Nat /\ MaxCrashes \in Nat

Gauges == 1 .. GaugeCount

(* What the provider holds for a date: how often it was revised, and       *)
(* whether it can be aggregated and protected.  "unusable" stands for no   *)
(* records, a user listed twice, a blank identifier or two equal           *)
(* pseudonyms: everything protect_anthropic_collection rejects.            *)
Contents == [rev : 0 .. MaxRevision, usable : BOOLEAN]

(* The exceptions of a collection: a ProviderError, or any other.          *)
Faults == {"ProviderError", "OtherError"}

(* How a request ends: the summary, the exceptions of service.py, or the   *)
(* task or its process gone.                                               *)
Replies == {"summary", "ProviderError", "CollectionFailed",
            "ServiceConfigurationError", "cancelled", "lost"}

ASSUME NoneAssumption == None \notin Calls \cup Contents \cup Faults \cup Replies

Checkpoints == <<"collection_started", "records_mapped", "aggregation_completed",
                 "preview_written", "collection_completed">>
EventNames == {Checkpoints[i] : i \in 1 .. Len(Checkpoints)} \cup {"collection_failed"}

VARIABLES
  settings,   \* the process's AppSettings, which never change
  upstream,   \* external: the provider's contents, by date
  call,       \* the coroutine of each request, and what it emitted
  loop,       \* the call that runs on the event loop, or None
  gauges,     \* for each gauge and date, the call whose total it holds
  preview,    \* the call whose preview document is on disk
  exported,   \* external: the backend's copy of the gauges
  scan,       \* external: the gauges the reader's current pass has copied
  crashes

reader == <<exported, scan>>
vars == <<settings, upstream, call, loop, gauges, preview, reader, crashes>>

PCs == {"idle", "queued", "awaiting", "mapping", "protecting", "metering",
        "logging", "previewing", "completing", "failing", "done"}

(* The steps a call takes on the event loop without an await between them. *)
RunningPCs == PCs \ {"idle", "queued", "awaiting", "done"}

(* analytics_provider, preview_generation_enabled, and whether the rest    *)
(* lets validate_readiness pass.  Settings that validate let the mock      *)
(* provider pass; Anthropic may lack a pseudonymization key.               *)
Settings == {s \in [provider : Providers, preview : BOOLEAN, ready : BOOLEAN] :
               s.provider = "mock" => s.ready}

CallStates ==
  [pc : PCs,
   date : Dates,
   answer : Contents \cup {None},    \* what the retrieval returned
   error : Faults \cup {None},       \* what was raised
   gaugesSet : 0 .. GaugeCount,      \* the gauges it has set
   usage : Nat,                      \* how often it emitted its usage events
   events : Seq(EventNames),         \* its lifecycle events
   span : {"none", "started", "success", "failed"},  \* status on its span
   reply : Replies \cup {None},
   floor : Nat]        \* history: the revision on the gauges when it began

TypeOK ==
  /\ settings \in Settings
  /\ upstream \in [Dates -> Contents]
  /\ call \in [Calls -> CallStates]
  /\ loop \in Calls \cup {None}
  /\ gauges \in [Gauges -> [Dates -> Calls \cup {None}]]
  /\ preview \in Calls \cup {None}
  /\ exported \in [Gauges -> [Dates -> Calls \cup {None}]]
  /\ scan \in 0 .. GaugeCount
  /\ crashes \in 0 .. MaxCrashes

NoGauges == [g \in Gauges |-> [d \in Dates |-> None]]

NewCall(d) ==
  [pc |-> "idle", date |-> d, answer |-> None, error |-> None, gaugesSet |-> 0,
   usage |-> 0, events |-> <<>>, span |-> "none", reply |-> None, floor |-> 0]

Init ==
  /\ settings \in Settings
  /\ upstream \in [Dates -> {x \in Contents : x.rev = 0
                                  /\ (settings.provider = "mock" => x.usable)}]
  /\ \E date \in [Calls -> Dates] : call = [c \in Calls |-> NewCall(date[c])]
  /\ loop = None
  /\ gauges = NoGauges
  /\ preview = None
  /\ exported = NoGauges
  /\ scan = 0
  /\ crashes = 0

-------------------------------------------------------------------------------
At(c, p) == call[c].pc = p
(* The event loop is free, and gives itself to a call that can run.        *)
Free(c, p) == loop = None /\ At(c, p)
(* Call c has the event loop and is at p.                                  *)
Runs(c, p) == loop = c /\ At(c, p)

(* The contents behind a total on a gauge; revision 0 when it is unset.    *)
RevisionOf(x) == IF x = None THEN 0 ELSE call[x].answer.rev

(* A request arrives: its coroutine is scheduled on the event loop.        *)
Arrive(c) ==
  /\ At(c, "idle")
  /\ call' = [call EXCEPT ![c].pc = "queued"]
  /\ UNCHANGED <<settings, upstream, loop, gauges, preview, reader, crashes>>

(* GatewayService.collect refuses before it opens a span.                  *)
RefuseUnready(c) ==
  /\ Free(c, "queued")
  /\ ~settings.ready
  /\ call' = [call EXCEPT ![c].pc = "done",
                          ![c].reply = "ServiceConfigurationError"]
  /\ UNCHANGED <<settings, upstream, loop, gauges, preview, reader, crashes>>

(* The span opens and collection_started is emitted; the call is then at p. *)
OpenSpan(c, p, answer, error) ==
  call' = [call EXCEPT ![c].pc = p,
                       ![c].span = "started",
                       ![c].events = Append(@, "collection_started"),
                       ![c].answer = answer,
                       ![c].error = error,
                       ![c].floor = RevisionOf(gauges[GaugeCount][call[c].date])]

(* The mock client answers without suspending: the call keeps the loop.    *)
BeginMock(c) ==
  /\ Free(c, "queued") /\ settings.ready /\ settings.provider = "mock"
  /\ OpenSpan(c, "mapping", upstream[call[c].date], None)
  /\ loop' = c
  /\ UNCHANGED <<settings, upstream, gauges, preview, reader, crashes>>

(* Mutant: the mock client suspends like the real one.                     *)
BeginEveryProvider(c) ==
  /\ Free(c, "queued") /\ settings.ready
  /\ OpenSpan(c, "awaiting", None, None)
  /\ UNCHANGED <<settings, upstream, loop, gauges, preview, reader, crashes>>

(* The Anthropic client waits for the upstream and gives the loop away,    *)
BeginAnthropic(c) ==
  /\ Free(c, "queued") /\ settings.ready /\ settings.provider = "anthropic"
  /\ call[c].date \notin EarlyDates
  /\ OpenSpan(c, "awaiting", None, None)
  /\ UNCHANGED <<settings, upstream, loop, gauges, preview, reader, crashes>>

(* unless it rejects the date before it sends anything.                    *)
BeginEarlyDate(c) ==
  /\ Free(c, "queued") /\ settings.ready /\ settings.provider = "anthropic"
  /\ call[c].date \in EarlyDates
  /\ OpenSpan(c, "failing", None, "ProviderError")
  /\ loop' = c
  /\ UNCHANGED <<settings, upstream, gauges, preview, reader, crashes>>

(* External: the provider revises a date's data (late activity arrives).   *)
Revise(d) ==
  /\ settings.provider = "anthropic"
  /\ upstream[d].rev < MaxRevision
  /\ \E u \in BOOLEAN :
       upstream' = [upstream EXCEPT ![d] = [rev |-> @.rev + 1, usable |-> u]]
  /\ UNCHANGED <<settings, call, loop, gauges, preview, reader, crashes>>

Unanswered(c) ==
  At(c, "awaiting") /\ call[c].answer = None /\ call[c].error = None

(* Mutant: a response cache answers with what an earlier call retrieved.   *)
AnsweredFromCache(c) ==
  /\ Unanswered(c)
  /\ \E x \in {upstream[call[c].date]} \cup
               {call[e].answer : e \in {e \in Calls : call[e].date = call[c].date
                                                     /\ call[e].answer # None}} :
       call' = [call EXCEPT ![c].answer = x]
  /\ UNCHANGED <<settings, upstream, loop, gauges, preview, reader, crashes>>

(* External: the awaited retrieval is answered with the contents of that   *)
(* moment; the answer has yet to arrive and the coroutine to be resumed.   *)
Answered(c) ==
  /\ Unanswered(c)
  /\ call' = [call EXCEPT ![c].answer = upstream[call[c].date]]
  /\ UNCHANGED <<settings, upstream, loop, gauges, preview, reader, crashes>>

(* The retrieval ends with one of its exceptions (Pagination's outcomes).  *)
Faulted(c) ==
  /\ Unanswered(c)
  /\ \E fault \in Faults : call' = [call EXCEPT ![c].error = fault]
  /\ UNCHANGED <<settings, upstream, loop, gauges, preview, reader, crashes>>

(* The event loop resumes the coroutine; from here to the end of the call  *)
(* nothing awaits, so no other call runs.                                  *)
Resume(c) ==
  /\ Free(c, "awaiting")
  /\ ~Unanswered(c)
  /\ loop' = c
  /\ call' = [call EXCEPT ![c].pc = IF call[c].error = None
                                      THEN "mapping" ELSE "failing"]
  /\ UNCHANGED <<settings, upstream, gauges, preview, reader, crashes>>

(* normalize_*_records maps what the models already validated.             *)
MapRecords(c) ==
  /\ Runs(c, "mapping")
  /\ call' = [call EXCEPT ![c].pc = "protecting",
                          ![c].events = Append(@, "records_mapped")]
  /\ UNCHANGED <<settings, upstream, loop, gauges, preview, reader, crashes>>

(* Mutant: the consistency checks of the protected collection are skipped. *)
ProtectUnchecked(c) ==
  /\ Runs(c, "protecting")
  /\ call' = [call EXCEPT ![c].pc = "metering",
                          ![c].events = Append(@, "aggregation_completed")]
  /\ UNCHANGED <<settings, upstream, loop, gauges, preview, reader, crashes>>

(* protect_*_collection aggregates and pseudonymizes, or raises.           *)
Protect(c) ==
  /\ Runs(c, "protecting")
  /\ call' = IF call[c].answer.usable
       THEN [call EXCEPT ![c].pc = "metering",
                         ![c].events = Append(@, "aggregation_completed")]
       ELSE [call EXCEPT ![c].pc = "failing", ![c].error = "OtherError"]
  /\ UNCHANGED <<settings, upstream, loop, gauges, preview, reader, crashes>>

(* Set the next gauge of call c; after the gauge `last` go on.             *)
RecordGauge(c, last) ==
  LET g == call[c].gaugesSet + 1 IN
    /\ gauges' = [gauges EXCEPT ![g][call[c].date] = c]
    /\ call' = [call EXCEPT ![c].gaugesSet = g,
                            ![c].pc = IF g = last THEN "logging" ELSE @]

(* Mutants: emit awaits between two gauges; its loop runs one too far.     *)
SetGaugeAndYield(c) ==
  /\ At(c, "metering") /\ loop \in {c, None}
  /\ RecordGauge(c, GaugeCount)
  /\ loop' = IF call'[c].pc = "metering" THEN None ELSE c
  /\ UNCHANGED <<settings, upstream, preview, reader, crashes>>
SetGaugePastEnd(c) ==
  /\ Runs(c, "metering")
  /\ RecordGauge(c, GaugeCount + 1)
  /\ UNCHANGED <<settings, upstream, loop, preview, reader, crashes>>

(* OrganizationMetricEmitter.emit sets one gauge after the other.          *)
SetGauge(c) ==
  /\ Runs(c, "metering")
  /\ RecordGauge(c, GaugeCount)
  /\ UNCHANGED <<settings, upstream, loop, preview, reader, crashes>>

(* UsageEventEmitter.emit_collection: one event per protected record.      *)
EmitUsage(c) ==
  /\ Runs(c, "logging")
  /\ call' = [call EXCEPT ![c].pc = "previewing", ![c].usage = @ + 1]
  /\ UNCHANGED <<settings, upstream, loop, gauges, preview, reader, crashes>>

(* Build the preview and, when a writer is configured, replace the file.   *)
WritePreview(c) ==
  /\ Runs(c, "previewing")
  /\ preview' = IF settings.preview THEN c ELSE preview
  /\ call' = [call EXCEPT ![c].pc = "completing"]
  /\ UNCHANGED <<settings, upstream, loop, gauges, reader, crashes>>

(* Mutants: an error of the write is swallowed; the failing write is       *)
(* retried together with the emission before it.                           *)
PreviewErrorSwallowed(c) ==
  /\ Runs(c, "previewing") /\ settings.preview
  /\ call' = [call EXCEPT ![c].pc = "completing"]
  /\ UNCHANGED <<settings, upstream, loop, gauges, preview, reader, crashes>>
PreviewErrorRetried(c) ==
  /\ Runs(c, "previewing") /\ settings.preview
  /\ call' = [call EXCEPT ![c].pc = "logging"]
  /\ UNCHANGED <<settings, upstream, loop, gauges, preview, reader, crashes>>

(* The file system refuses a step of the write: one up to the replacement, *)
(* or the removal of the temporary sibling when the document is in place   *)
(* (PreviewStore's outcomes "failed" and "uncleaned").                     *)
PreviewError(c) ==
  /\ Runs(c, "previewing") /\ settings.preview
  /\ preview' \in {preview, c}
  /\ call' = [call EXCEPT ![c].pc = "failing", ![c].error = "OtherError"]
  /\ UNCHANGED <<settings, upstream, loop, gauges, reader, crashes>>

(* The last two checkpoints, the span's outcome, and the caller's summary. *)
Complete(c) ==
  /\ Runs(c, "completing")
  /\ call' = [call EXCEPT
       ![c].pc = "done",
       ![c].events = @ \o <<"preview_written", "collection_completed">>,
       ![c].span = "success",
       ![c].reply = "summary"]
  /\ loop' = None
  /\ UNCHANGED <<settings, upstream, gauges, preview, reader, crashes>>

(* GatewayService.collect lets a ProviderError pass and turns every other  *)
(* exception into CollectionFailedError.                                   *)
ReplyTo(error) ==
  IF error = "ProviderError" THEN "ProviderError" ELSE "CollectionFailed"

(* Mutants: the handler does not mark the span; the call keeps the loop.   *)
FailWithoutSpan(c) ==
  /\ Runs(c, "failing")
  /\ call' = [call EXCEPT ![c].pc = "done",
                          ![c].events = Append(@, "collection_failed"),
                          ![c].reply = ReplyTo(call[c].error)]
  /\ loop' = None
  /\ UNCHANGED <<settings, upstream, gauges, preview, reader, crashes>>
FailKeepingLoop(c) ==
  /\ Runs(c, "failing")
  /\ call' = [call EXCEPT ![c].pc = "done", ![c].span = "failed",
                          ![c].events = Append(@, "collection_failed"),
                          ![c].reply = ReplyTo(call[c].error)]
  /\ UNCHANGED <<settings, upstream, loop, gauges, preview, reader, crashes>>

(* `except Exception`: collection_failed, the span marked failed, and the  *)
(* exception re-raised.                                                    *)
Fail(c) ==
  /\ Runs(c, "failing")
  /\ call' = [call EXCEPT ![c].pc = "done",
                          ![c].events = Append(@, "collection_failed"),
                          ![c].span = "failed",
                          ![c].reply = ReplyTo(call[c].error)]
  /\ loop' = None
  /\ UNCHANGED <<settings, upstream, gauges, preview, reader, crashes>>

(* The task is cancelled while it awaits (a forced server shutdown, or a   *)
(* caller's timeout): CancelledError is no Exception, so it passes the     *)
(* handler, and the span ends as it is.                                    *)
Cancel(c) ==
  /\ Free(c, "awaiting")
  /\ call' = [call EXCEPT ![c].pc = "done", ![c].reply = "cancelled"]
  /\ UNCHANGED <<settings, upstream, loop, gauges, preview, reader, crashes>>

-------------------------------------------------------------------------------
(* External: the reader's thread copies one gauge after the other to the   *)
(* backend, between any two steps of the event loop.                       *)
ExportGauge ==
  /\ exported' = [exported EXCEPT ![scan + 1] =
       [d \in Dates |-> IF gauges[scan + 1][d] = None
                          THEN @[d] ELSE gauges[scan + 1][d]]]
  /\ scan' = (scan + 1) % GaugeCount
  /\ UNCHANGED <<settings, upstream, call, loop, gauges, preview, crashes>>

(* The process dies at any point: what it held in memory is gone, what is  *)
(* on disk and at the backend stays, and a new process takes requests.     *)
Crash ==
  /\ crashes < MaxCrashes
  /\ crashes' = crashes + 1
  /\ call' = [c \in Calls |->
       IF call[c].pc \in {"idle", "done"} THEN call[c]
       ELSE [call[c] EXCEPT !.pc = "done", !.reply = "lost"]]
  /\ loop' = None
  /\ gauges' = NoGauges
  /\ scan' = 0
  /\ UNCHANGED <<settings, upstream, preview, exported>>

(* The steps the event loop takes for call c.                              *)
LoopStep(c) ==
  \/ RefuseUnready(c) \/ BeginMock(c) \/ BeginAnthropic(c) \/ BeginEarlyDate(c)
  \/ Resume(c) \/ MapRecords(c) \/ Protect(c) \/ SetGauge(c) \/ EmitUsage(c)
  \/ WritePreview(c) \/ PreviewError(c) \/ Complete(c) \/ Fail(c)

UpstreamStep(c) == Answered(c) \/ Faulted(c)

Next ==
  \/ \E c \in Calls : Arrive(c) \/ LoopStep(c) \/ UpstreamStep(c) \/ Cancel(c)
  \/ \E d \in Dates : Revise(d)
  \/ ExportGauge
  \/ Crash

Spec == Init /\ [][Next]_vars

(* The event loop runs every ready task (its queue is first in, first      *)
(* out), and the request timeout ends every await.                         *)
Fairness ==
  \A c \in Calls : WF_vars(LoopStep(c)) /\ WF_vars(UpstreamStep(c))

FairSpec == Spec /\ Fairness

-------------------------------------------------------------------------------
(* The events, the span and the reply of a call tell one story: the five   *)
(* checkpoints, "success" and a summary; or a proper prefix of them, then  *)
(* collection_failed, "failed" and an error; never parts of both (the try, *)
(* except and success tail of workflow.py against README "in order").      *)
OneStoryPerCall ==
  \A c \in Calls :
    /\ (call[c].span = "success") = (call[c].events = Checkpoints)
    /\ (call[c].span = "success") = (call[c].reply = "summary")
    /\ (call[c].span = "failed") = (\E n \in 1 .. 3 :
         call[c].events = Append(SubSeq(Checkpoints, 1, n), "collection_failed"))
    /\ (call[c].span = "failed")
         = (call[c].reply \in {"ProviderError", "CollectionFailed"})
    /\ call[c].span = "started" =>
         \E n \in 1 .. 3 : call[c].events = SubSeq(Checkpoints, 1, n)

(* Whenever the event loop is free, the gauges of a date all hold the same *)
(* collection's totals, however many collections overlap: emit sets them   *)
(* in one uninterrupted stretch.                                           *)
GaugesNeverMixCalls ==
  loop = None => \A g, h \in Gauges, d \in Dates : gauges[g][d] = gauges[h][d]

(* An answered call has published nothing, or the whole of its totals and  *)
(* its usage events once.  A provider failure publishes nothing; only a    *)
(* failing preview write leaves totals and events behind, with or without  *)
(* the preview (a retry then repeats the events, since emission precedes   *)
(* the write).                                                             *)
AllOrNothingPublished ==
  \A c \in Calls : At(c, "done") /\ call[c].reply # "lost" =>
    /\ call[c].gaugesSet = call[c].usage * GaugeCount
    /\ call[c].usage <= 1
    /\ call[c].reply = "summary" => call[c].usage = 1
    /\ call[c].usage = 1 /\ call[c].reply # "summary" =>
         settings.preview /\ call[c].reply = "CollectionFailed"

(* No gauge, backend series, usage event or preview shows data of another  *)
(* date or data that aggregation and privacy processing reject.            *)
OnlyProtectedDataPublished ==
  /\ \A g \in Gauges, d \in Dates : \A x \in {gauges[g][d], exported[g][d]} \ {None} :
       call[x].date = d /\ call[x].answer # None /\ call[x].answer.usable
  /\ \A c \in Calls : call[c].usage > 0 \/ preview = c =>
       call[c].answer # None /\ call[c].answer.usable

(* While no call runs, the preview on disk agrees with the gauges: if the  *)
(* last call to set a date's gauges succeeded, then there is a preview,    *)
(* and a preview of that date is that call's.                              *)
PreviewAgreesWithGauges ==
  loop = None /\ settings.preview =>
    \A d \in Dates : LET x == gauges[1][d] IN
      x # None => (call[x].reply = "summary" =>
                    preview # None /\ (call[preview].date = d => preview = x))

(* A collection never replaces a date's totals by older ones unless it     *)
(* overlapped the collection that set them: what a call records is at      *)
(* least as recent as what the gauges showed when it began.                *)
SequentialRecollectionIsFresh ==
  \A c \in Calls : call[c].gaugesSet > 0 => call[c].answer.rev >= call[c].floor

(* The mock client never suspends, so synthetic collections of one process *)
(* run one after the other: no second span is open while one is.           *)
MockCollectionsAreSerial ==
  settings.provider = "mock" =>
    \A b, c \in {x \in Calls : call[x].pc \in RunningPCs \cup {"awaiting"}} : b = c

(* Every request that reached the event loop is answered (or lost with its *)
(* process), whatever the provider, the other requests and the disk do.    *)
EveryCallIsAnswered ==
  \A c \in Calls : At(c, "queued") ~> At(c, "done")

(* README: "Gauges preserve the latest absolute daily totals when a        *)
(* reporting date is collected more than once".                            *)
GaugesKeepLatestTotals ==
  [][\A d \in Dates :
       gauges[GaugeCount][d] # None /\ gauges'[GaugeCount][d] # None =>
         RevisionOf(gauges[GaugeCount][d])' >= RevisionOf(gauges[GaugeCount][d])]_vars

(* README: failures "mark the collection `failed`", and a failed           *)
(* collection emits collection_failed: an ended span says how it ended.    *)
EndedSpansSayHow ==
  \A c \in Calls : At(c, "done") /\ call[c].span # "none" /\ call[c].reply # "lost"
                     => call[c].span \in {"success", "failed"}

===============================================================================
