------------------------------ MODULE Protection ------------------------------
(***************************************************************************)
(* From the records a client returned to what leaves the gateway: one      *)
(* collection's synchronous tail, with the data that Collection abstracts. *)
(* Records are normalized (normalization.py), validated and summed for the *)
(* organization (aggregation.py), stripped of identity (privacy.py), shown *)
(* on the gauges (organization_metrics.py), as usage events                *)
(* (usage_events.py) and in the preview document (preview.py), while the   *)
(* workflow reports its progress on the span and by lifecycle events       *)
(* (lifecycle_events.py), which have a validator of their own.             *)
(*                                                                         *)
(* An activity is a function from areas to counts.  The counts no total is *)
(* made of are represented by a few that could be mistaken for one.  The   *)
(* provider and the provider extension are given to every record by the    *)
(* normalization, so the code's comparisons of them have one outcome here; *)
(* so have those of counts with None.                                      *)
(***************************************************************************)
EXTENDS Naturals, Sequences, FiniteSets, Functions

CONSTANTS
  Users,       \* the identifiers a provider may give to its users
  Blank,       \* an identifier of white space only, which the models accept
  Pseudonyms,  \* the sixteen hexadecimal digits an HMAC is cut to
  Dates,       \* the dates of records
  Activities,  \* what a user may have done: counts, by area
  Responses,   \* what a client returns: a provider and its records, in order
  None         \* nothing yet

Providers == {"anthropic", "mock"}

(* What the client raises instead of an answer.                            *)
Faults == {"ProviderError", "OtherError"}

Errors == Faults \cup
  {"EmptyAggregation", "MixedReportingDates", "DuplicateProviderUser", "BlankIdentifier",
   "InconsistentCollection", "UnknownGauge", "InconsistentPreview", "InvalidCheckpoint"}

-------------------------------------------------------------------------------
(* The counts of a user's activity, by area.                               *)
Tools == {"edit_tool", "multi_edit_tool", "notebook_edit_tool", "write_tool"}
Products == {"excel", "outlook", "powerpoint", "word"}

AnthropicOfficeFields == {"connectors_used_count", "distinct_connectors_used_count",
  "distinct_session_count", "distinct_skills_used_count", "message_count",
  "skills_used_count"}

AnthropicFields ==
  [chat |-> {"message_count", "distinct_conversation_count"},
   claude_code |-> {"commit_count", "distinct_session_count", "added_count",
                    "removed_count", "pull_request_count"},
   accepted |-> Tools, rejected |-> Tools,
   cowork |-> AnthropicOfficeFields \cup {"action_count", "dispatch_turn_count"},
   design |-> {"distinct_projects_created_count", "distinct_projects_used_count",
               "distinct_session_count", "message_count"},
   excel |-> AnthropicOfficeFields, outlook |-> AnthropicOfficeFields,
   powerpoint |-> AnthropicOfficeFields, word |-> AnthropicOfficeFields,
   science |-> {"delegation_count", "distinct_session_count", "message_count",
                "remote_compute_job_count", "skills_used_count"},
   web |-> {"web_search_count"}]

MockOfficeFields == {"message_count", "distinct_session_count"}

MockFields ==
  [AnthropicFields EXCEPT
     !.cowork = MockOfficeFields \cup {"action_count"},
     !.design = MockOfficeFields \cup {"distinct_projects_used_count"},
     !.science = MockOfficeFields \cup {"delegation_count", "remote_compute_job_count"},
     !.excel = MockOfficeFields, !.outlook = MockOfficeFields,
     !.powerpoint = MockOfficeFields, !.word = MockOfficeFields]

FieldsOf(p) == IF p = "anthropic" THEN AnthropicFields ELSE MockFields

IsActivity(p, a) ==
  /\ DOMAIN a = DOMAIN FieldsOf(p)
  /\ \A area \in DOMAIN a : a[area] \in [FieldsOf(p)[area] -> Nat]

Records == [user : Users \cup {Blank}, date : Dates, activity : Activities]

ASSUME ResponsesAssumption ==
  \A x \in Responses :
    /\ x.provider \in Providers
    /\ x.records \in Seq(Records)
    /\ \A i \in DOMAIN x.records : IsActivity(x.provider, x.records[i].activity)
ASSUME NoneAssumption == None \notin Errors \cup Nat

(* The organization's totals, each with the count it is the sum of.        *)
CodeTotals ==
  [commit_count |-> "commit_count", pull_request_count |-> "pull_request_count",
   lines_added_count |-> "added_count", lines_removed_count |-> "removed_count"]

(* Mutant: the session total is made of the sessions' neighbour.           *)
SessionsOfMessages ==
  [connector_invocation_count |-> "connectors_used_count",
   message_count |-> "message_count", session_count |-> "message_count",
   skill_invocation_count |-> "skills_used_count"]

OfficeTotals ==
  [connector_invocation_count |-> "connectors_used_count",
   message_count |-> "message_count", session_count |-> "distinct_session_count",
   skill_invocation_count |-> "skills_used_count"]

AnthropicTotals ==
  [claude_code |-> CodeTotals,
   cowork |-> [action_count |-> "action_count",
               connector_invocation_count |-> "connectors_used_count",
               dispatch_turn_count |-> "dispatch_turn_count",
               message_count |-> "message_count",
               session_count |-> "distinct_session_count",
               skill_invocation_count |-> "skills_used_count"],
   design |-> [message_count |-> "message_count",
               project_created_count |-> "distinct_projects_created_count",
               session_count |-> "distinct_session_count"],
   excel |-> OfficeTotals, outlook |-> OfficeTotals,
   powerpoint |-> OfficeTotals, word |-> OfficeTotals,
   science |-> [delegation_count |-> "delegation_count",
                message_count |-> "message_count",
                remote_compute_job_count |-> "remote_compute_job_count",
                session_count |-> "distinct_session_count",
                skill_invocation_count |-> "skills_used_count"],
   web |-> [web_search_count |-> "web_search_count"]]

(* Mutant: sessions and messages change places.                            *)
MockSessionsSwapped ==
  [message_count |-> "distinct_session_count", session_count |-> "message_count"]

MockOfficeTotals ==
  [message_count |-> "message_count", session_count |-> "distinct_session_count"]

MockTotals ==
  [claude_code |-> CodeTotals,
   cowork |-> [action_count |-> "action_count", message_count |-> "message_count",
               session_count |-> "distinct_session_count"],
   design |-> [message_count |-> "message_count",
               project_used_count |-> "distinct_projects_used_count",
               session_count |-> "distinct_session_count"],
   excel |-> MockOfficeTotals, outlook |-> MockOfficeTotals,
   powerpoint |-> MockOfficeTotals, word |-> MockOfficeTotals,
   science |-> [delegation_count |-> "delegation_count",
                message_count |-> "message_count",
                remote_compute_job_count |-> "remote_compute_job_count",
                session_count |-> "distinct_session_count"],
   web |-> [web_search_count |-> "web_search_count"]]

(* The gauges of each area, with the total they show.                      *)
OfficeGauges ==
  [connector_invocation |-> "connector_invocation_count",
   message |-> "message_count", session |-> "session_count",
   skill_invocation |-> "skill_invocation_count"]

AnthropicGauges ==
  [claude_code |-> [commit |-> "commit_count", pull_request |-> "pull_request_count",
                    line_added |-> "lines_added_count",
                    line_removed |-> "lines_removed_count"],
   cowork |-> [action |-> "action_count",
               connector_invocation |-> "connector_invocation_count",
               dispatch_turn |-> "dispatch_turn_count",
               message |-> "message_count", session |-> "session_count",
               skill_invocation |-> "skill_invocation_count"],
   design |-> [message |-> "message_count",
               project_created |-> "project_created_count",
               session |-> "session_count"],
   science |-> [delegation |-> "delegation_count", message |-> "message_count",
                remote_compute_job |-> "remote_compute_job_count",
                session |-> "session_count",
                skill_invocation |-> "skill_invocation_count"],
   web |-> [web_search |-> "web_search_count"],
   excel |-> OfficeGauges, outlook |-> OfficeGauges,
   powerpoint |-> OfficeGauges, word |-> OfficeGauges]

(* The instruments created when the emitter is made, by area.              *)
OfficeInstruments == {"connector_invocation", "message", "session", "skill_invocation"}

Instruments ==
  [generic |-> {"user", "active_user", "chat_interaction", "developer_session",
                "accepted", "rejected", "acceptance_ratio"},
   claude_code |-> {"commit", "pull_request", "line_added", "line_removed"},
   cowork |-> OfficeInstruments \cup {"action", "dispatch_turn"},
   design |-> {"message", "project_created", "session"},
   science |-> {"delegation", "message", "remote_compute_job", "session",
                "skill_invocation"},
   web |-> {"web_search"},
   excel |-> OfficeInstruments, outlook |-> OfficeInstruments,
   powerpoint |-> OfficeInstruments, word |-> OfficeInstruments]

-------------------------------------------------------------------------------
(* The lifecycle events, each with the status that belongs to it and, but  *)
(* for the first and a failure, with the number of records.                *)
ExpectedStatus ==
  [collection_started |-> "started", records_mapped |-> "in_progress",
   aggregation_completed |-> "in_progress", preview_written |-> "in_progress",
   collection_completed |-> "success", collection_failed |-> "failed"]

RecordCountRequired == {"records_mapped", "aggregation_completed", "preview_written",
                        "collection_completed"}

Event(name, status, count) ==
  [event_name |-> name, collection_status |-> status, record_count |-> count]

(* validate_checkpoint.                                                    *)
ValidCheckpoint(e) ==
  /\ e.collection_status = ExpectedStatus[e.event_name]
  /\ e.event_name \in RecordCountRequired => e.record_count # None

-------------------------------------------------------------------------------
VARIABLES
  provider,
  records,    \* what the client returned
  pseudonym,  \* external: the HMAC of an identifier under the configured key
  pc,
  i,          \* the index of the loop under way
  seenUsers,  \* _validate_collection's user_ids
  summary,    \* the OrganizationUsageSummary
  protected,  \* the PrivacySafeUsageRecords so far
  gauges,     \* what the gauges of each area were set to
  events,     \* the usage events emitted so far
  preview,    \* the preview document
  error,      \* the exception that ended the retrieval or the collection
  record_count, \* the workflow's local variable
  lifecycle,  \* the lifecycle events emitted so far
  span        \* the status and the record count on the span

published == <<gauges, events, preview>>
reported == <<record_count, lifecycle, span>>
vars == <<provider, records, pseudonym, pc, i, seenUsers, summary, protected,
          published, error, reported>>

(* The collection was started, and its retrieval ended with an answer or,  *)
(* of Anthropic's client, with an exception and no records.                *)
Init ==
  /\ \E x \in Responses : provider = x.provider /\ records = x.records
  /\ pseudonym \in [Users -> Pseudonyms]
  /\ pc = IF provider = "anthropic" THEN "awaiting" ELSE "mapping"
  /\ error \in {None} \cup (IF pc = "awaiting" /\ records = <<>> THEN Faults ELSE {})
  /\ i = 1 /\ seenUsers = {} /\ summary = None /\ protected = <<>>
  /\ gauges = [a \in DOMAIN Instruments |-> None]
  /\ events = <<>> /\ preview = None
  /\ record_count = None
  /\ lifecycle = <<Event("collection_started", "started", None)>>
  /\ span = [status |-> "started", record_count |-> None]

-------------------------------------------------------------------------------
(* sum(): of a value of each element of a sequence.                        *)
SumOf(s, Value(_)) == SumFunction([k \in DOMAIN s |-> Value(s[k])])

(* Anthropic's daily active user, also of the mock provider.               *)
IsActive(a) ==
  \E n \in {a["chat"]["message_count"], a["claude_code"]["distinct_session_count"],
             a["cowork"]["message_count"], a["cowork"]["action_count"]} : n > 0

(* The common activity: what every provider's users do.                    *)
CommonActivity(a) ==
  [is_active |-> IsActive(a),
   chat_interaction |-> a["chat"]["message_count"],
   developer_session |-> a["claude_code"]["distinct_session_count"],
   accepted |-> SumFunctionOnSet(a["accepted"], Tools),
   rejected |-> SumFunctionOnSet(a["rejected"], Tools)]

(* normalize_anthropic_record and normalize_mock_record.                   *)
Normalize(r) ==
  [date |-> r.date, user |-> r.user,
   activity |-> CommonActivity(r.activity), extension |-> r.activity]

Normalized == [k \in DOMAIN records |-> Normalize(records[k])]

(* accepted / (accepted + rejected) as a fraction, 0 without any action.   *)
AcceptanceRate(accepted, rejected) ==
  IF accepted + rejected = 0 THEN <<0, 1>> ELSE <<accepted, accepted + rejected>>

TotalsOf(p) == IF p = "anthropic" THEN AnthropicTotals ELSE MockTotals

ProviderTotals(p, s) ==
  LET totals == TotalsOf(p) IN
    [a \in DOMAIN totals |->
       [t \in DOMAIN totals[a] |-> SumOf(s, LAMBDA r : r.extension[a][totals[a][t]])]]

(* _sum_available: the sum of a common count.                              *)
CommonTotal(s, count) == SumOf(s, LAMBDA r : r.activity[count])

(* aggregate_anthropic_usage and aggregate_mock_usage, once validated.     *)
Aggregate(p, s) ==
  [date |-> s[1].date,
   total_users |-> Len(s),
   active_users |-> Cardinality({k \in DOMAIN s : s[k].activity.is_active}),
   chat_interaction |-> CommonTotal(s, "chat_interaction"),
   developer_session |-> CommonTotal(s, "developer_session"),
   accepted |-> CommonTotal(s, "accepted"),
   rejected |-> CommonTotal(s, "rejected"),
   acceptance_rate |-> AcceptanceRate(CommonTotal(s, "accepted"),
                                      CommonTotal(s, "rejected")),
   provider_activity |-> ProviderTotals(p, s)]

(* To the workflow's handler.                                              *)
Raise(e) ==
  /\ pc' = "failing"
  /\ error' = e
  /\ UNCHANGED <<provider, records, pseudonym, i, seenUsers, summary, protected, published,
                 lifecycle, span>>

(* Go on to the loop at p, or with the one under way.                      *)
Proceed(p) == pc' = p /\ i' = 1 /\ UNCHANGED <<provider, records, pseudonym, error>>
Continue ==
  i' = i + 1 /\ UNCHANGED <<provider, records, pseudonym, pc, error, reported>>

(* _emit_lifecycle: the event and on to p, unless its validator raises.    *)
Report(name, status, count, p) ==
  LET e == Event(name, status, count) IN
    IF ValidCheckpoint(e)
      THEN /\ lifecycle' = Append(lifecycle, e)
           /\ Proceed(p)
           /\ UNCHANGED <<seenUsers, summary, protected, published, span>>
      ELSE Raise("InvalidCheckpoint")

(* The event loop resumes the collection.                                  *)
Resume ==
  /\ pc = "awaiting"
  /\ pc' = IF error = None THEN "mapping" ELSE "failing"
  /\ UNCHANGED <<provider, records, pseudonym, i, seenUsers, summary, protected, published,
                 error, reported>>

(* The records are normalized, and counted.                                *)
MapRecords ==
  /\ pc = "mapping"
  /\ record_count' = Len(records)
  /\ Report("records_mapped", "in_progress", record_count', "dates")

(* The records must be some, and of one date,                              *)
RejectEmpty ==
  /\ pc = "dates" /\ records = <<>>
  /\ Raise("EmptyAggregation")
  /\ UNCHANGED record_count

RejectMixedDates ==
  /\ pc = "dates"
  /\ \E k \in DOMAIN records : records[k].date # records[1].date
  /\ Raise("MixedReportingDates")
  /\ UNCHANGED record_count

CheckDates ==
  /\ pc = "dates" /\ records # <<>>
  /\ \A k \in DOMAIN records : records[k].date = records[1].date
  /\ Proceed("users")
  /\ UNCHANGED <<seenUsers, summary, protected, published, reported>>

(* and of users that differ.                                               *)
CheckUser ==
  /\ pc = "users" /\ i <= Len(records)
  /\ records[i].user \notin seenUsers
  /\ seenUsers' = seenUsers \cup {records[i].user}
  /\ Continue
  /\ UNCHANGED <<summary, protected, published>>

RejectDuplicateUser ==
  /\ pc = "users" /\ i <= Len(records)
  /\ records[i].user \in seenUsers
  /\ Raise("DuplicateProviderUser")
  /\ UNCHANGED record_count

Summarize ==
  /\ pc = "users" /\ i > Len(records)
  /\ summary' = Aggregate(provider, Normalized)
  /\ Proceed("protecting")
  /\ UNCHANGED <<seenUsers, protected, published, reported>>

(* Mutant: the record keeps the provider's identifier.                     *)
ProtectRecordWithIdentity ==
  /\ pc = "protecting" /\ i <= Len(records)
  /\ records[i].user # Blank
  /\ protected' = Append(protected,
       [date |-> Normalized[i].date,
        pseudonymous_user_id |-> Normalized[i].user,
        activity |-> Normalized[i].activity,
        extension |-> Normalized[i].extension])
  /\ Continue
  /\ UNCHANGED <<seenUsers, summary, published>>

(* protect_*_record: a pseudonym instead of the identity, which must not   *)
(* be blank, and the approved activity.                                    *)
ProtectRecord ==
  /\ pc = "protecting" /\ i <= Len(records)
  /\ records[i].user # Blank
  /\ protected' = Append(protected,
       [date |-> Normalized[i].date,
        pseudonymous_user_id |-> pseudonym[Normalized[i].user],
        activity |-> Normalized[i].activity,
        extension |-> Normalized[i].extension])
  /\ Continue
  /\ UNCHANGED <<seenUsers, summary, published>>

RejectBlankIdentifier ==
  /\ pc = "protecting" /\ i <= Len(records)
  /\ records[i].user = Blank
  /\ Raise("BlankIdentifier")
  /\ UNCHANGED record_count

(* Mutant: the pseudonyms are not compared.                                *)
ConsistentButForPseudonyms ==
  /\ Len(protected) = summary.total_users
  /\ \A k \in DOMAIN protected : protected[k].date = summary.date

(* validate_consistency of the privacy-safe collection, whose metadata is  *)
(* the summary's date and the number of protected records.                 *)
Consistent ==
  /\ Len(protected) = summary.total_users
  /\ \A k \in DOMAIN protected : protected[k].date = summary.date
  /\ Cardinality({protected[k].pseudonymous_user_id : k \in DOMAIN protected})
       = Len(protected)

(* Mutant: the usage events go out first.                                  *)
CheckCollectionThenEmit ==
  /\ pc = "protecting" /\ i > Len(records)
  /\ Consistent
  /\ Report("aggregation_completed", "in_progress", record_count, "events")
  /\ UNCHANGED record_count

CheckCollection ==
  /\ pc = "protecting" /\ i > Len(records)
  /\ Consistent
  /\ Report("aggregation_completed", "in_progress", record_count, "gauges")
  /\ UNCHANGED record_count

RejectCollection ==
  /\ pc = "protecting" /\ i > Len(records)
  /\ ~ Consistent
  /\ Raise("InconsistentCollection")
  /\ UNCHANGED record_count

-------------------------------------------------------------------------------
(* The order in which emit sets the gauges of the areas.                   *)
EmissionOrder ==
  IF provider = "mock" THEN <<"generic">>
  ELSE <<"generic", "claude_code", "cowork", "design", "science", "web",
         "excel", "outlook", "powerpoint", "word">>

(* Mutant: two gauges of neighbouring common counts change places.         *)
GenericValuesSwapped ==
  [user |-> summary.total_users, active_user |-> summary.active_users,
   chat_interaction |-> summary.developer_session,
   developer_session |-> summary.chat_interaction,
   accepted |-> summary.accepted, rejected |-> summary.rejected,
   acceptance_ratio |-> summary.acceptance_rate]

GenericValues ==
  [user |-> summary.total_users, active_user |-> summary.active_users,
   chat_interaction |-> summary.chat_interaction,
   developer_session |-> summary.developer_session,
   accepted |-> summary.accepted, rejected |-> summary.rejected,
   acceptance_ratio |-> summary.acceptance_rate]

ValuesOf(a) ==
  IF a = "generic" THEN GenericValues
  ELSE [g \in DOMAIN AnthropicGauges[a] |->
          summary.provider_activity[a][AnthropicGauges[a][g]]]

(* OrganizationMetricEmitter.emit, one area at a time; a value without an  *)
(* instrument of its name is a KeyError.                                   *)
SetGauges ==
  /\ pc = "gauges" /\ i <= Len(EmissionOrder)
  /\ LET a == EmissionOrder[i] IN
       IF DOMAIN ValuesOf(a) \subseteq Instruments[a]
         THEN /\ gauges' = [gauges EXCEPT ![a] = ValuesOf(a)]
              /\ Continue
              /\ UNCHANGED <<seenUsers, summary, protected, events, preview>>
         ELSE Raise("UnknownGauge") /\ UNCHANGED record_count

EndGauges ==
  /\ pc = "gauges" /\ i > Len(EmissionOrder)
  /\ Proceed("events")
  /\ UNCHANGED <<seenUsers, summary, protected, published, reported>>

(* emit_collection: one event for each protected record, of all its fields.*)
EmitEvent ==
  /\ pc = "events" /\ i <= Len(protected)
  /\ events' = Append(events, protected[i])
  /\ Continue
  /\ UNCHANGED <<seenUsers, summary, protected, gauges, preview>>

EndEvents ==
  /\ pc = "events" /\ i > Len(protected)
  /\ Proceed("preview")
  /\ UNCHANGED <<seenUsers, summary, protected, published, reported>>

(* Mutant: the preview is compared with the wrong count of users.          *)
PreviewOfActiveUsers ==
  /\ summary.active_users = Len(protected)
  /\ \A k \in DOMAIN protected : protected[k].date = summary.date

(* validate_consistency of the preview document.                           *)
PreviewConsistent ==
  /\ summary.total_users = Len(protected)
  /\ \A k \in DOMAIN protected : protected[k].date = summary.date

BuildPreview ==
  /\ pc = "preview"
  /\ IF PreviewConsistent
       THEN /\ preview' = [usage_records |-> protected, organization_snapshot |-> summary]
            /\ Proceed("written")
            /\ UNCHANGED <<seenUsers, summary, protected, gauges, events, reported>>
       ELSE Raise("InconsistentPreview") /\ UNCHANGED record_count

(* Written or not configured to be, the preview is reported.               *)
ReportPreview ==
  /\ pc = "written"
  /\ Report("preview_written", "in_progress", record_count, "completing")
  /\ UNCHANGED record_count

Complete ==
  /\ pc = "completing"
  /\ LET e == Event("collection_completed", "success", record_count) IN
       IF ValidCheckpoint(e)
         THEN /\ lifecycle' = Append(lifecycle, e)
              /\ span' = [status |-> "success", record_count |-> record_count]
              /\ Proceed("done")
              /\ UNCHANGED <<seenUsers, summary, protected, published>>
         ELSE Raise("InvalidCheckpoint")
  /\ UNCHANGED record_count

(* Mutant: the handler does not know what the body counted.                *)
FailWithoutCount ==
  /\ pc = "failing"
  /\ lifecycle' = Append(lifecycle, Event("collection_failed", "failed", None))
  /\ span' = [span EXCEPT !.status = "failed"]
  /\ pc' = "done"
  /\ UNCHANGED <<provider, records, pseudonym, i, seenUsers, summary, protected, published,
                 error, record_count>>

(* `except Exception`: if the handler's own event were refused, that       *)
(* exception would take the place of the collection's, and the span would  *)
(* stay as it was.                                                         *)
Fail ==
  /\ pc = "failing"
  /\ pc' = "done"
  /\ LET e == Event("collection_failed", "failed", record_count) IN
       IF ValidCheckpoint(e)
         THEN /\ lifecycle' = Append(lifecycle, e)
              /\ span' = [span EXCEPT !.status = "failed"]
              /\ UNCHANGED error
         ELSE error' = "InvalidCheckpoint" /\ UNCHANGED <<lifecycle, span>>
  /\ UNCHANGED <<provider, records, pseudonym, i, seenUsers, summary, protected, published,
                 record_count>>

Next ==
  \/ Resume \/ MapRecords
  \/ RejectEmpty \/ RejectMixedDates \/ CheckDates
  \/ CheckUser \/ RejectDuplicateUser \/ Summarize
  \/ ProtectRecord \/ RejectBlankIdentifier \/ CheckCollection \/ RejectCollection
  \/ SetGauges \/ EndGauges \/ EmitEvent \/ EndEvents \/ BuildPreview
  \/ ReportPreview \/ Complete \/ Fail

Spec == Init /\ [][Next]_vars

-------------------------------------------------------------------------------
Counts == [user : Nat, active_user : Nat, chat_interaction : Nat,
           developer_session : Nat, accepted : Nat, rejected : Nat,
           acceptance_ratio : Nat \X (Nat \ {0})]

TypeOK ==
  /\ provider \in Providers /\ records \in Seq(Records)
  /\ pseudonym \in [Users -> Pseudonyms]
  /\ pc \in {"awaiting", "mapping", "dates", "users", "protecting", "gauges", "events",
             "preview", "written", "completing", "failing", "done"}
  /\ i \in 1 .. 1 + (IF pc = "gauges" THEN Len(EmissionOrder) ELSE Len(records))
  /\ seenUsers \subseteq Users \cup {Blank}
  /\ \A k \in DOMAIN protected :
       /\ protected[k].pseudonymous_user_id \in Pseudonyms
       /\ protected[k].date \in Dates
  /\ gauges["generic"] \in Counts \cup {None}
  /\ events \in Seq({protected[k] : k \in DOMAIN protected})
  /\ error \in Errors \cup {None}
  /\ record_count \in Nat \cup {None}
  /\ \A k \in DOMAIN lifecycle : ValidCheckpoint(lifecycle[k])
  /\ span.status \in {"started", "success", "failed"}
  /\ span.record_count \in Nat \cup {None}

(* The records that may be published: some, of one date, of different      *)
(* users, none of them blank, who also differ by their pseudonyms.         *)
Acceptable ==
  /\ records # <<>>
  /\ \A j, k \in DOMAIN records : records[j].date = records[k].date
  /\ \A k \in DOMAIN records : records[k].user # Blank
  /\ \A j, k \in DOMAIN records : j # k =>
       /\ records[j].user # records[k].user
       /\ pseudonym[records[j].user] # pseudonym[records[k].user]

(* A collection succeeds exactly when its records may be published, by the *)
(* checks of three modules one after the other.                            *)
AcceptedWhenAcceptable == pc = "done" => (error = None <=> Acceptable)

(* Every check of the data comes before the first gauge is set: none of    *)
(* the later ones (the instruments by name, the preview's validator) ever  *)
(* finds fault with what the earlier ones let pass.                        *)
NothingFailsOncePublished ==
  error # None => /\ \A a \in DOMAIN gauges : gauges[a] = None
                  /\ events = <<>> /\ preview = None

(* However a collection ends, its last lifecycle event says so, with the   *)
(* number of its records unless it never saw them; on success that is the  *)
(* number of usage events, of users on the gauge, and on the span.  No     *)
(* event is refused by its validator, the handler's included, which would  *)
(* hide the exception that the answer depends on.                          *)
CheckpointsCountTheUsers ==
  pc = "done" =>
    LET last == lifecycle[Len(lifecycle)] IN
      /\ error = None =>
           /\ last.event_name = "collection_completed"
           /\ last.record_count = Len(events)
           /\ last.record_count = gauges["generic"].user
           /\ span = [status |-> "success", record_count |-> last.record_count]
      /\ error # None =>
           /\ last.event_name = "collection_failed"
           /\ last.record_count = IF error \in Faults THEN None ELSE Len(records)
           /\ span = [status |-> "failed", record_count |-> None]

(* What the name of a total and the name of a gauge say they count, of     *)
(* whatever area and provider they are.                                    *)
TotalMeaning ==
  [commit_count |-> "commit_count", pull_request_count |-> "pull_request_count",
   lines_added_count |-> "added_count", lines_removed_count |-> "removed_count",
   action_count |-> "action_count", message_count |-> "message_count",
   connector_invocation_count |-> "connectors_used_count",
   skill_invocation_count |-> "skills_used_count",
   dispatch_turn_count |-> "dispatch_turn_count",
   session_count |-> "distinct_session_count",
   project_created_count |-> "distinct_projects_created_count",
   project_used_count |-> "distinct_projects_used_count",
   delegation_count |-> "delegation_count", web_search_count |-> "web_search_count",
   remote_compute_job_count |-> "remote_compute_job_count"]

GaugeMeaning ==
  [commit |-> "commit_count", pull_request |-> "pull_request_count",
   line_added |-> "added_count", line_removed |-> "removed_count",
   action |-> "action_count", connector_invocation |-> "connectors_used_count",
   dispatch_turn |-> "dispatch_turn_count", message |-> "message_count",
   session |-> "distinct_session_count", skill_invocation |-> "skills_used_count",
   project_created |-> "distinct_projects_created_count",
   delegation |-> "delegation_count", web_search |-> "web_search_count",
   remote_compute_job |-> "remote_compute_job_count"]

(* What the names of the common counts say of one user's activity, and     *)
(* that x shows their sums over the events: those of the counts each event *)
(* carries itself, and those of the activity that the event reports.       *)
CommonMeaning(a) ==
  [chat_interaction |-> a["chat"]["message_count"],
   developer_session |-> a["claude_code"]["distinct_session_count"],
   accepted |-> SumFunctionOnSet(a["accepted"], Tools),
   rejected |-> SumFunctionOnSet(a["rejected"], Tools)]

CommonCountNames == {"chat_interaction", "developer_session", "accepted", "rejected"}

ShowsCommonSums(x) ==
  \A c \in CommonCountNames :
    /\ x[c] = CommonTotal(events, c)
    /\ x[c] = SumOf(events, LAMBDA e : CommonMeaning(e.extension)[c])

(* The organization's gauges agree with the usage events of its users,     *)
(* although the totals are made before privacy processing and the events   *)
(* after it: the same users, and every gauge of a count, common or of one  *)
(* area, the sum of what its name says over the events, in whatever order  *)
(* the pages listed the users; if none was active there were no            *)
(* interactions, and the ratio is that of the gauges beside it.            *)
GaugesSumTheEvents ==
  pc = "done" /\ error = None =>
    LET generic == gauges["generic"] IN
      /\ generic.user = Cardinality({events[k].pseudonymous_user_id : k \in DOMAIN events})
      /\ generic.active_user = Cardinality({k \in DOMAIN events : IsActive(events[k].extension)})
      /\ generic.active_user <= generic.user
      /\ generic.active_user = 0 =>
           generic.chat_interaction = 0 /\ generic.developer_session = 0
      /\ ShowsCommonSums(generic)
      /\ generic.acceptance_ratio[1] * (generic.accepted + generic.rejected)
           = generic.acceptance_ratio[2] * generic.accepted
      /\ generic.acceptance_ratio[1] <= generic.acceptance_ratio[2]
      /\ \A a \in DOMAIN gauges \ {"generic"} : gauges[a] # None =>
           \A g \in DOMAIN gauges[a] :
             gauges[a][g] = SumOf(events, LAMBDA e : e.extension[a][GaugeMeaning[g]])

(* So does the preview, whose snapshot is also what the caller of /collect *)
(* is answered: its records are those of the events, and its common counts *)
(* and the totals of its provider activity are the sums of what their      *)
(* names say, of the mock provider too.                                    *)
PreviewSumsTheEvents ==
  preview # None =>
    LET snapshot == preview.organization_snapshot
        totals == snapshot.provider_activity IN
      /\ preview.usage_records = events
      /\ snapshot.total_users = Len(events)
      /\ ShowsCommonSums(snapshot)
      /\ \A a \in DOMAIN totals : \A t \in DOMAIN totals[a] :
           totals[a][t] = SumOf(events, LAMBDA e : e.extension[a][TotalMeaning[t]])

===============================================================================
