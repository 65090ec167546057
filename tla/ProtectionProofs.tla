--------------------------- MODULE ProtectionProofs ----------------------------
(***************************************************************************)
(* Proofs about Protection, for every list of records, every assignment of *)
(* pseudonyms and every set of users, activities and dates.                *)
(***************************************************************************)
EXTENDS Protection, FiniteSetTheorems, TLAPS

Untouched ==
  gauges = [a \in DOMAIN Instruments |-> None] /\ events = <<>> /\ preview = None

OneDate ==
  records # <<>> /\ \A k \in DOMAIN records : records[k].date = records[1].date

DistinctUpTo(n) ==
  \A j, k \in 1 .. n : j # k => records[j].user # records[k].user

NoBlankUpTo(n) == \A k \in 1 .. n : records[k].user # Blank

(* A protected record for each of the first n records.                     *)
ProtectedRecords ==
  [date : Dates, pseudonymous_user_id : Pseudonyms,
   activity : {CommonActivity(a) : a \in Activities}, extension : Activities]

ProtectedUpTo(n) ==
  /\ protected \in Seq(ProtectedRecords) /\ Len(protected) = n
  /\ \A k \in 1 .. n :
       /\ protected[k].date = records[k].date
       /\ protected[k].pseudonymous_user_id = pseudonym[records[k].user]

(* The stages before the first gauge is set, and those after it.           *)
Unpublished == {"awaiting", "mapping", "dates", "users", "protecting"}
Publishing == {"gauges", "events", "preview", "written", "completing"}

Typed ==
  /\ provider \in Providers /\ records \in Seq(Records)
  /\ pseudonym \in [Users -> Pseudonyms]
  /\ i \in Nat \ {0}
  /\ pc \in Unpublished \cup Publishing \cup {"failing", "done"}
  /\ error \in Errors \cup {None}

(* What each stage has established of the records.                         *)
WhileChecking ==
  /\ pc \in Unpublished \ {"protecting"} => protected = <<>>
  /\ pc \in {"awaiting", "mapping", "dates"} => seenUsers = {}
  /\ pc = "users" =>
       /\ OneDate /\ i <= Len(records) + 1
       /\ seenUsers = {records[k].user : k \in 1 .. i - 1}
       /\ DistinctUpTo(i - 1)

WhileProtecting ==
  pc = "protecting" =>
    /\ OneDate /\ i <= Len(records) + 1
    /\ DistinctUpTo(Len(records)) /\ NoBlankUpTo(i - 1) /\ ProtectedUpTo(i - 1)
    /\ summary.total_users = Len(records) /\ summary.date = records[1].date

OncePublishing ==
  pc \in Publishing =>
    /\ Acceptable /\ PreviewConsistent
    /\ protected \in Seq(ProtectedRecords) /\ Len(protected) = Len(records)

(* What the workflow's handler would find of the count.                    *)
Counting ==
  /\ pc \in {"awaiting", "mapping"} => record_count = None
  /\ pc \in (Unpublished \cup Publishing) \ {"awaiting", "mapping"} =>
       record_count = Len(records)
  /\ pc = "failing" =>
       record_count = IF error \in Faults THEN None ELSE Len(records)

Verdict ==
  /\ pc \in Unpublished => Untouched
  /\ pc \in (Unpublished \cup Publishing) \ {"awaiting"} => error = None
  /\ pc = "awaiting" => error \in Faults \cup {None}
  /\ pc = "failing" => error # None
  /\ pc = "done" /\ error = None => Acceptable
  /\ error # None => Untouched /\ ~ Acceptable

IInv == Typed /\ WhileChecking /\ WhileProtecting /\ OncePublishing /\ Counting /\ Verdict

-------------------------------------------------------------------------------
(* The pseudonyms of a list are as many as its records just when no two    *)
(* are the same.                                                           *)
LEMMA DistinctImage ==
  ASSUME NEW n \in Nat, NEW f
  PROVE  Cardinality({f[k] : k \in 1 .. n}) = n
           <=> \A j, k \in 1 .. n : j # k => f[j] # f[k]
  <1> DEFINE S == 1 .. n
             Image == {f[k] : k \in S}
             F == [k \in S |-> f[k]]
  <1>1. IsFiniteSet(S) /\ Cardinality(S) = n
    BY FS_Interval
  <1>2. F \in Surjection(S, Image)
    BY DEF Surjection
  <1>3. Cardinality(Image) = n <=> F \in Injection(S, Image)
    BY <1>1, <1>2, FS_Surjection
  <1>4. F \in Injection(S, Image) <=> \A j, k \in S : j # k => f[j] # f[k]
    BY DEF Injection, IsInjective
  <1>5. QED
    BY <1>3, <1>4

(* Whatever the sums are, a summary counts the records and has their date. *)
LEMMA AggregateFields ==
  ASSUME NEW p, NEW s
  PROVE  Aggregate(p, s).total_users = Len(s) /\ Aggregate(p, s).date = s[1].date
  BY DEF Aggregate

LEMMA NormalizedRecords ==
  ASSUME records \in Seq(Records)
  PROVE  /\ DOMAIN Normalized = DOMAIN records
         /\ Len(Normalized) = Len(records)
         /\ \A k \in DOMAIN records :
              /\ Normalized[k].date = records[k].date
              /\ Normalized[k].user = records[k].user
              /\ Normalized[k].activity = CommonActivity(records[k].activity)
              /\ Normalized[k].extension = records[k].activity
  <1> DEFINE T == {Normalize(r) : r \in Records}
  <1>1. DOMAIN records = 1 .. Len(records) /\ Len(records) \in Nat
    OBVIOUS
  <1>2. \A k \in DOMAIN records : records[k] \in Records
    OBVIOUS
  <1>3. Normalized \in [1 .. Len(records) -> T]
    BY <1>1, <1>2 DEF Normalized
  <1>4. Len(Normalized) = Len(records)
    BY <1>1, <1>3
  <1>5. \A k \in DOMAIN records : Normalized[k] = Normalize(records[k])
    BY DEF Normalized
  <1>6. QED
    BY <1>1, <1>3, <1>4, <1>5 DEF Normalize

(* The values of an area have an instrument each.                          *)
LEMMA EveryValueHasAGauge ==
  ASSUME provider \in Providers, NEW k \in 1 .. Len(EmissionOrder)
  PROVE  DOMAIN ValuesOf(EmissionOrder[k]) \subseteq Instruments[EmissionOrder[k]]
  <1> DEFINE a == EmissionOrder[k]
  <1>1. a \in {"generic", "claude_code", "cowork", "design", "science", "web",
               "excel", "outlook", "powerpoint", "word"}
    BY DEF EmissionOrder, Providers
  <1>2. CASE a = "generic"
    BY <1>2 DEF ValuesOf, GenericValues, Instruments
  <1>3. CASE a \in {"claude_code", "cowork", "design", "science", "web"}
    <2>1. DOMAIN ValuesOf(a) = DOMAIN AnthropicGauges[a]
      BY <1>3 DEF ValuesOf
    <2>2. DOMAIN AnthropicGauges[a] \subseteq Instruments[a]
      BY <1>3 DEF AnthropicGauges, Instruments, OfficeInstruments
    <2>3. QED
      BY <2>1, <2>2
  <1>4. CASE a \in {"excel", "outlook", "powerpoint", "word"}
    <2>1. DOMAIN ValuesOf(a) = DOMAIN AnthropicGauges[a]
      BY <1>4 DEF ValuesOf
    <2>2. AnthropicGauges[a] = OfficeGauges /\ Instruments[a] = OfficeInstruments
      BY <1>4 DEF AnthropicGauges, Instruments
    <2>3. DOMAIN OfficeGauges \subseteq OfficeInstruments
      BY DEF OfficeGauges, OfficeInstruments
    <2>4. QED
      BY <2>1, <2>2, <2>3
  <1>5. QED
    BY <1>1, <1>2, <1>3, <1>4

-------------------------------------------------------------------------------
(* No event of the workflow is refused once there is a count.              *)
LEMMA CheckpointsAreValid ==
  ASSUME NEW n \in Nat
  PROVE  /\ ValidCheckpoint(Event("records_mapped", "in_progress", n))
         /\ ValidCheckpoint(Event("aggregation_completed", "in_progress", n))
         /\ ValidCheckpoint(Event("preview_written", "in_progress", n))
         /\ ValidCheckpoint(Event("collection_completed", "success", n))
         /\ \A c : ValidCheckpoint(Event("collection_failed", "failed", c))
  BY NoneAssumption DEF ValidCheckpoint, Event, ExpectedStatus, RecordCountRequired

LEMMA InitInvariant == ASSUME Init PROVE IInv
  <1>1. provider \in Providers /\ records \in Seq(Records)
    BY ResponsesAssumption DEF Init
  <1>2. pc \in {"awaiting", "mapping"} /\ error \in Faults \cup {None}
    BY DEF Init
  <1>3. error # None => pc = "awaiting" /\ ~ Acceptable
    BY DEF Init, Acceptable
  <1>4. QED
    BY <1>1, <1>2, <1>3
    DEF Init, IInv, Typed, WhileChecking, WhileProtecting, OncePublishing, Counting,
        Verdict, Untouched, Unpublished, Publishing, Errors

(* Up to the records: nothing is refused but what the client failed at.    *)
LEMMA RetrievedInvariant ==
  ASSUME IInv, Resume \/ MapRecords
  PROVE  IInv'
  <1>1. CASE Resume
    <2>1. /\ pc' = IF error = None THEN "mapping" ELSE "failing"
          /\ UNCHANGED <<provider, records, pseudonym, i, seenUsers, summary, protected,
                         gauges, events, preview, error, record_count>>
      BY <1>1 DEF Resume, published, reported
    <2>2. pc = "awaiting"
      BY <1>1 DEF Resume
    <2>3. Untouched' /\ (Acceptable' <=> Acceptable)
      BY <2>1, <2>2 DEF IInv, Verdict, Untouched, Acceptable, Unpublished
    <2>4. QED
      BY <2>1, <2>2, <2>3
      DEF IInv, Typed, WhileChecking, WhileProtecting, OncePublishing, Counting, Verdict,
          Unpublished, Publishing
  <1>2. CASE MapRecords
    <2>1. Len(records) \in Nat
      BY DEF IInv, Typed
    <2>2. Proceed("dates") /\ UNCHANGED <<seenUsers, summary, protected, published>>
      BY <1>2, <2>1, CheckpointsAreValid DEF MapRecords, Report
    <2>3. pc = "mapping" /\ record_count' = Len(records)
      BY <1>2 DEF MapRecords
    <2>4. /\ pc' = "dates" /\ i' = 1 /\ error' = None /\ records' = records
          /\ Untouched'
      BY <2>2, <2>3
      DEF IInv, Verdict, Untouched, Proceed, published, Unpublished, Publishing
    <2>5. QED
      BY <2>2, <2>3, <2>4
      DEF IInv, Typed, WhileChecking, WhileProtecting, OncePublishing, Counting, Verdict,
          Proceed, Unpublished, Publishing
  <1>3. QED
    BY <1>1, <1>2

(* A collection that is refused before it publishes, for a good reason.    *)
LEMMA Refusal ==
  ASSUME IInv, NEW e \in Errors \ Faults, pc \in {"dates", "users", "protecting"},
         Raise(e), UNCHANGED record_count, ~ Acceptable
  PROVE  IInv'
  <1>1. Typed'
    BY DEF IInv, Typed, Raise, Unpublished, Publishing
  <1>2. e # None
    BY NoneAssumption
  <1>3. Untouched' /\ ~ Acceptable'
    BY DEF IInv, Verdict, Untouched, Raise, Acceptable, published, Unpublished
  <1>4. Counting'
    BY DEF IInv, Counting, Raise, Unpublished, Publishing
  <1>5. QED
    BY <1>1, <1>2, <1>3, <1>4
    DEF IInv, Raise, WhileChecking, WhileProtecting, OncePublishing, Verdict, Unpublished,
        Publishing

LEMMA DatesInvariant ==
  ASSUME IInv, RejectEmpty \/ RejectMixedDates \/ CheckDates
  PROVE  IInv'
  <1>1. CASE RejectEmpty
    BY <1>1, Refusal DEF RejectEmpty, Errors, Faults, Acceptable
  <1>2. CASE RejectMixedDates
    <2>1. records \in Seq(Records)
      BY DEF IInv, Typed
    <2>2. ~ Acceptable
      BY <1>2, <2>1 DEF RejectMixedDates, Acceptable
    <2>3. QED
      BY <1>2, <2>2, Refusal DEF RejectMixedDates, Errors, Faults
  <1>3. CASE CheckDates
    <2>1. Typed' /\ Untouched' /\ error' = None
      BY <1>3
      DEF IInv, Typed, Verdict, Unpublished, Publishing, Untouched, CheckDates, Proceed,
          published, reported
    <2>2. seenUsers' = {} /\ protected' = <<>> /\ i' = 1 /\ records' = records
      BY <1>3 DEF IInv, WhileChecking, CheckDates, Proceed, Unpublished
    <2>3. seenUsers' = {records'[k].user : k \in 1 .. i' - 1}
      <3>1. 1 .. i' - 1 = {}
        BY <2>2
      <3>2. QED
        BY <2>2, <3>1
    <2>4. OneDate'
      BY <1>3, <2>2 DEF OneDate, CheckDates
    <2>5. i' <= Len(records') + 1 /\ DistinctUpTo(i - 1)'
      BY <2>2 DEF DistinctUpTo, IInv, Typed
    <2>6. WhileChecking'
      BY <2>2, <2>3, <2>4, <2>5 DEF WhileChecking
    <2>7. QED
      BY <1>3, <2>1, <2>6
      DEF IInv, WhileProtecting, OncePublishing, Counting, Verdict, Unpublished,
          Publishing, CheckDates, Proceed, reported
  <1>4. QED
    BY <1>1, <1>2, <1>3

LEMMA UsersInvariant ==
  ASSUME IInv, CheckUser \/ RejectDuplicateUser \/ Summarize
  PROVE  IInv'
  <1>1. records \in Seq(Records) /\ i \in Nat \ {0}
    BY DEF IInv, Typed
  <1>2. CASE CheckUser
    <2>1. Typed' /\ Untouched' /\ error' = None
      BY <1>2
      DEF IInv, Typed, Verdict, Unpublished, Publishing, Untouched, CheckUser, Continue,
          published, reported
    <2>2. seenUsers' = {records'[k].user : k \in 1 .. i' - 1}
      <3>1. seenUsers = {records[k].user : k \in 1 .. i - 1}
        BY <1>2 DEF IInv, WhileChecking, CheckUser
      <3>2. 1 .. i' - 1 = (1 .. i - 1) \cup {i} /\ records' = records
        BY <1>1, <1>2 DEF CheckUser, Continue
      <3>3. seenUsers' = seenUsers \cup {records[i].user}
        BY <1>2 DEF CheckUser
      <3>4. QED
        BY <3>1, <3>2, <3>3
    <2>3. DistinctUpTo(i - 1)'
      <3>1. \A k \in 1 .. i - 1 : records[k].user # records[i].user
        BY <1>2 DEF IInv, WhileChecking, CheckUser
      <3>2. DistinctUpTo(i - 1)
        BY <1>2 DEF IInv, WhileChecking, CheckUser
      <3>3. DistinctUpTo(i)
        BY <1>1, <3>1, <3>2 DEF DistinctUpTo
      <3>4. i' - 1 = i /\ records' = records
        BY <1>1, <1>2 DEF CheckUser, Continue
      <3>5. QED
        BY <3>3, <3>4 DEF DistinctUpTo
    <2>4. OneDate'
      BY <1>2 DEF IInv, WhileChecking, CheckUser, Continue, OneDate
    <2>5. QED
      BY <1>1, <1>2, <2>1, <2>2, <2>3, <2>4
      DEF IInv, WhileChecking, WhileProtecting, OncePublishing, Counting, Verdict,
          CheckUser, Continue, reported, Unpublished, Publishing
  <1>3. CASE RejectDuplicateUser
    <2>1. PICK k \in 1 .. i - 1 : records[k].user = records[i].user
      BY <1>3 DEF IInv, WhileChecking, RejectDuplicateUser
    <2>2. ~ Acceptable
      BY <1>1, <1>3, <2>1 DEF RejectDuplicateUser, Acceptable
    <2>3. QED
      BY <1>3, <2>2, Refusal DEF RejectDuplicateUser, Errors, Faults
  <1>4. CASE Summarize
    <2>1. Typed' /\ Untouched' /\ error' = None
      BY <1>4
      DEF IInv, Typed, Verdict, Unpublished, Publishing, Untouched, Summarize, Proceed,
          published, reported
    <2>2. OneDate /\ DistinctUpTo(Len(records))
      BY <1>1, <1>4 DEF IInv, WhileChecking, Summarize
    <2>3. summary'.total_users = Len(records) /\ summary'.date = records[1].date
      BY <1>1, <1>4, <2>2, NormalizedRecords, AggregateFields DEF Summarize, OneDate
    <2>4. WhileProtecting'
      <3>1. protected' = <<>> /\ i' = 1
        BY <1>4 DEF IInv, WhileChecking, Summarize, Proceed, Unpublished
      <3>2. protected' \in Seq(ProtectedRecords) /\ Len(protected') = 0
        BY <3>1
      <3>3. QED
        BY <1>1, <1>4, <2>2, <2>3, <3>1, <3>2
        DEF WhileProtecting, Summarize, Proceed, OneDate, DistinctUpTo, NoBlankUpTo,
            ProtectedUpTo
    <2>5. QED
      BY <1>4, <2>1, <2>4
      DEF IInv, WhileChecking, OncePublishing, Counting, Verdict, Unpublished, Publishing,
          Summarize, Proceed, reported
  <1>5. QED
    BY <1>2, <1>3, <1>4

(* With a protected record for every record, the collection is consistent  *)
(* just when the records are acceptable.                                   *)
LEMMA ConsistentIsAcceptable ==
  ASSUME IInv, pc = "protecting", i > Len(records)
  PROVE  (Consistent <=> Acceptable) /\ PreviewConsistent
  <1> DEFINE n == Len(records)
  <1>1. records \in Seq(Records) /\ i = n + 1 /\ n \in Nat
    BY DEF IInv, Typed, WhileProtecting
  <1>2. OneDate /\ DistinctUpTo(n) /\ NoBlankUpTo(n) /\ ProtectedUpTo(n)
    BY <1>1 DEF IInv, WhileProtecting
  <1>3. summary.total_users = n /\ summary.date = records[1].date
    BY DEF IInv, WhileProtecting
  <1>4. Len(protected) = n /\ DOMAIN protected = 1 .. n
    BY <1>2 DEF ProtectedUpTo
  <1>5. PreviewConsistent
    BY <1>1, <1>2, <1>3, <1>4 DEF PreviewConsistent, ProtectedUpTo, OneDate
  <1>6. Consistent <=> Cardinality({protected[k].pseudonymous_user_id : k \in 1 .. n}) = n
    BY <1>4, <1>5 DEF Consistent, PreviewConsistent
  <1>7. {protected[k].pseudonymous_user_id : k \in 1 .. n}
          = {pseudonym[records[k].user] : k \in 1 .. n}
    BY <1>2 DEF ProtectedUpTo
  <1> DEFINE f == [k \in 1 .. n |-> pseudonym[records[k].user]]
  <1>8. {f[k] : k \in 1 .. n} = {pseudonym[records[k].user] : k \in 1 .. n}
    OBVIOUS
  <1>9. Cardinality({f[k] : k \in 1 .. n}) = n
          <=> \A j, k \in 1 .. n : j # k => f[j] # f[k]
    <2> HIDE DEF f
    <2>1. QED
      BY <1>1, DistinctImage
  <1>10. Acceptable <=> \A j, k \in 1 .. n : j # k => f[j] # f[k]
    BY <1>1, <1>2 DEF Acceptable, OneDate, DistinctUpTo, NoBlankUpTo
  <1>11. QED
    BY <1>5, <1>6, <1>7, <1>8, <1>9, <1>10

LEMMA ProtectingInvariant ==
  ASSUME IInv,
         ProtectRecord \/ RejectBlankIdentifier \/ CheckCollection \/ RejectCollection
  PROVE  IInv'
  <1>1. /\ records \in Seq(Records) /\ i \in Nat \ {0}
        /\ pseudonym \in [Users -> Pseudonyms]
    BY DEF IInv, Typed
  <1>2. CASE ProtectRecord
    <2>1. Typed' /\ Untouched' /\ error' = None
      BY <1>2
      DEF IInv, Typed, Verdict, Unpublished, Publishing, Untouched, ProtectRecord, Continue,
          published, reported
    <2>2. i \in DOMAIN records /\ records[i] \in Records /\ records[i].user \in Users
      <3>1. i \in DOMAIN records /\ records[i] \in Records
        BY <1>1, <1>2 DEF ProtectRecord
      <3>2. records[i].user \in Users \cup {Blank}
        BY <3>1 DEF Records
      <3>3. records[i].user # Blank
        BY <1>2 DEF ProtectRecord
      <3>4. QED
        BY <3>1, <3>2, <3>3
    <2>3. ProtectedUpTo(i - 1) /\ NoBlankUpTo(i - 1)
      BY <1>2 DEF IInv, WhileProtecting, ProtectRecord
    <2> DEFINE new == [date |-> Normalized[i].date,
                       pseudonymous_user_id |-> pseudonym[Normalized[i].user],
                       activity |-> Normalized[i].activity,
                       extension |-> Normalized[i].extension]
    <2>4. /\ new \in ProtectedRecords
          /\ new.date = records[i].date
          /\ new.pseudonymous_user_id = pseudonym[records[i].user]
      BY <1>1, <2>2, NormalizedRecords DEF ProtectedRecords, Records
    <2>5. ProtectedUpTo(i - 1)'
      <3>1. protected' = Append(protected, new)
        BY <1>2 DEF ProtectRecord
      <3>2. i' - 1 = i /\ records' = records /\ pseudonym' = pseudonym
        BY <1>1, <1>2 DEF ProtectRecord, Continue
      <3>3. protected \in Seq(ProtectedRecords) /\ Len(protected) = i - 1
        BY <2>3 DEF ProtectedUpTo
      <3> HIDE DEF new
      <3>4. /\ protected' \in Seq(ProtectedRecords) /\ Len(protected') = i
            /\ \A k \in 1 .. i : protected'[k] = IF k = i THEN new ELSE protected[k]
        BY <1>1, <2>4, <3>1, <3>3
      <3>5. QED
        BY <1>1, <2>3, <2>4, <3>2, <3>4 DEF ProtectedUpTo
    <2>6. NoBlankUpTo(i - 1)'
      BY <1>1, <1>2, <2>3 DEF NoBlankUpTo, ProtectRecord, Continue
    <2>7. WhileProtecting'
      BY <1>1, <1>2, <2>2, <2>5, <2>6
      DEF IInv, WhileProtecting, ProtectRecord, Continue, OneDate, DistinctUpTo
    <2>8. QED
      BY <1>2, <2>1, <2>7
      DEF IInv, WhileChecking, OncePublishing, Counting, Verdict, Unpublished, Publishing,
          ProtectRecord, Continue, reported
  <1>3. CASE RejectBlankIdentifier
    BY <1>1, <1>3, Refusal DEF RejectBlankIdentifier, Errors, Faults, Acceptable
  <1>4. CASE CheckCollection
    <2>1. record_count = Len(records) /\ Len(records) \in Nat
      BY <1>1, <1>4 DEF CheckCollection, IInv, Counting, Unpublished, Publishing
    <2>2. /\ Proceed("gauges")
          /\ UNCHANGED <<seenUsers, summary, protected, published, record_count>>
      BY <1>4, <2>1, CheckpointsAreValid DEF CheckCollection, Report
    <2>3. /\ pc = "protecting" /\ pc' = "gauges" /\ i' = 1
          /\ UNCHANGED <<provider, records, pseudonym, summary, protected, error,
                         record_count>>
      BY <1>4, <2>2 DEF CheckCollection, Proceed
    <2>4. Acceptable' /\ PreviewConsistent'
      BY <1>4, <2>3, ConsistentIsAcceptable
      DEF CheckCollection, Acceptable, PreviewConsistent
    <2>5. protected' \in Seq(ProtectedRecords) /\ Len(protected') = Len(records')
      <3>1. i = Len(records) + 1 /\ ProtectedUpTo(i - 1)
        BY <1>1, <1>4, <2>3 DEF IInv, WhileProtecting, CheckCollection
      <3>2. QED
        BY <1>1, <2>3, <3>1 DEF ProtectedUpTo
    <2>6. QED
      BY <2>3, <2>4, <2>5
      DEF IInv, Typed, WhileChecking, WhileProtecting, OncePublishing, Counting, Verdict,
          Unpublished, Publishing
  <1>5. CASE RejectCollection
    BY <1>5, Refusal, ConsistentIsAcceptable DEF RejectCollection, Errors, Faults
  <1>6. QED
    BY <1>2, <1>3, <1>4, <1>5

(* Publishing never fails, and changes nothing a stage has established.    *)
LEMMA PublishingInvariant ==
  ASSUME IInv,
         \/ SetGauges \/ EndGauges \/ EmitEvent \/ EndEvents \/ BuildPreview
         \/ ReportPreview \/ Complete
  PROVE  IInv'
  <1>1. pc \in Publishing
    BY DEF SetGauges, EndGauges, EmitEvent, EndEvents, BuildPreview, ReportPreview,
           Complete, Publishing
  <1>2. Acceptable /\ PreviewConsistent /\ error = None /\ record_count = Len(records)
    BY <1>1 DEF IInv, OncePublishing, Counting, Verdict, Unpublished, Publishing
  <1>3. i \in Nat \ {0} /\ provider \in Providers /\ Len(records) \in Nat
    BY DEF IInv, Typed
  <1>4. /\ UNCHANGED <<provider, records, pseudonym, summary, protected, error,
                       record_count>>
        /\ pc' \in Publishing \cup {"done"} /\ i' \in Nat \ {0}
    <2>1. CASE SetGauges
      <3>1. Len(EmissionOrder) \in Nat
        BY DEF EmissionOrder
      <3>2. DOMAIN ValuesOf(EmissionOrder[i]) \subseteq Instruments[EmissionOrder[i]]
        BY <1>3, <2>1, <3>1, EveryValueHasAGauge DEF SetGauges
      <3>3. QED
        BY <1>1, <1>3, <2>1, <3>2 DEF SetGauges, Continue, reported
    <2>2. CASE EndGauges \/ EmitEvent \/ EndEvents
      BY <1>1, <1>3, <2>2
      DEF EndGauges, EmitEvent, EndEvents, Proceed, Continue, reported, Publishing
    <2>3. CASE BuildPreview
      BY <1>2, <2>3 DEF BuildPreview, Proceed, reported, Publishing
    <2>4. CASE ReportPreview
      BY <1>2, <1>3, <2>4, CheckpointsAreValid
      DEF ReportPreview, Report, Proceed, Publishing
    <2>5. CASE Complete
      BY <1>2, <1>3, <2>5, CheckpointsAreValid DEF Complete, Proceed
    <2>6. QED
      BY <2>1, <2>2, <2>3, <2>4, <2>5
  <1>5. Acceptable' /\ PreviewConsistent'
    BY <1>2, <1>4 DEF Acceptable, PreviewConsistent
  <1>6. QED
    BY <1>1, <1>2, <1>4, <1>5
    DEF IInv, Typed, WhileChecking, WhileProtecting, OncePublishing, Counting, Verdict,
        Unpublished, Publishing

(* The handler reports the failure that brought the collection to it.      *)
LEMMA FailInvariant == ASSUME IInv, Fail PROVE IInv'
  <1>1. /\ pc = "failing" /\ pc' = "done"
        /\ UNCHANGED <<provider, records, pseudonym, i, seenUsers, summary, protected,
                       gauges, events, preview, error, record_count>>
    BY CheckpointsAreValid DEF Fail, published
  <1>2. Untouched' /\ error' # None /\ ~ Acceptable'
    BY <1>1 DEF IInv, Verdict, Untouched, Acceptable
  <1>3. QED
    BY <1>1, <1>2
    DEF IInv, Typed, WhileChecking, WhileProtecting, OncePublishing, Counting, Verdict,
        Unpublished, Publishing

LEMMA StepInvariant == ASSUME IInv, [Next]_vars PROVE IInv'
  <1>1. CASE UNCHANGED vars
    BY <1>1
    DEF vars, published, reported, IInv, Typed, WhileChecking, WhileProtecting,
        OncePublishing, Counting, Verdict, Unpublished, Publishing, Untouched, OneDate,
        DistinctUpTo, NoBlankUpTo, ProtectedUpTo, Acceptable, PreviewConsistent
  <1>2. QED
    BY <1>1, RetrievedInvariant, DatesInvariant, UsersInvariant, ProtectingInvariant,
       PublishingInvariant, FailInvariant
    DEF Next

-------------------------------------------------------------------------------
(* Each stage of the tail of a collection has established of its records   *)
(* what the stages before it checked (protect_anthropic_collection and     *)
(* what aggregation, privacy and preview check).                           *)
THEOREM Invariance == Spec => []IInv
  BY InitInvariant, StepInvariant, PTL DEF Spec

(* Collections are accepted exactly when their records may be published:   *)
(* the checks of _validate_collection, pseudonymize and                    *)
(* validate_consistency together decide that, for lists of any length and  *)
(* any assignment of pseudonyms.                                           *)
THEOREM RightVerdict == Spec => []AcceptedWhenAcceptable
  <1>1. IInv => AcceptedWhenAcceptable
    BY DEF IInv, Verdict, AcceptedWhenAcceptable
  <1>2. QED
    BY <1>1, Invariance, PTL

(* Neither emit nor the preview's validator can fail on what the privacy   *)
(* processing let pass, so a collection is refused before its first gauge  *)
(* is set, or published.                                                   *)
THEOREM PublishedWhole == Spec => []NothingFailsOncePublished
  <1>1. IInv => NothingFailsOncePublished
    BY DEF IInv, Verdict, Untouched, NothingFailsOncePublished
  <1>2. QED
    BY <1>1, Invariance, PTL

-------------------------------------------------------------------------------
(* What the collection has told of itself, and shown of its records.       *)
EventRecords ==
  [event_name : {"collection_started", "records_mapped", "aggregation_completed",
                 "preview_written", "collection_completed", "collection_failed"},
   collection_status : {"started", "in_progress", "success", "failed"},
   record_count : Nat \cup {None}]

Telling ==
  /\ lifecycle \in Seq(EventRecords)
  /\ pc # "done" => span = [status |-> "started", record_count |-> None]

Showing ==
  /\ pc \in Publishing => DOMAIN gauges = DOMAIN Instruments
  /\ pc \in Publishing /\ (pc = "gauges" => i > 1) => gauges["generic"].user = Len(records)
  /\ pc = "gauges" => events = <<>>
  /\ pc = "events" =>
       /\ events \in Seq(ProtectedRecords) /\ Len(events) = i - 1
       /\ i <= Len(protected) + 1
  /\ pc \in {"preview", "written", "completing"} => Len(events) = Len(records)

JInv == Telling /\ Showing /\ CheckpointsCountTheUsers

LEMMA InitReports == ASSUME Init PROVE JInv
  <1>1. Event("collection_started", "started", None) \in EventRecords
    BY DEF Event, EventRecords
  <1>2. QED
    BY <1>1
    DEF Init, JInv, Telling, Showing, CheckpointsCountTheUsers, Publishing

(* A step that adds an event, or none, to those before it.                 *)
LEMMA Tells ==
  ASSUME JInv, NEW e \in EventRecords,
         lifecycle' = lifecycle \/ lifecycle' = Append(lifecycle, e),
         span' = span, pc # "done"
  PROVE  Telling'
  BY DEF JInv, Telling

LEMMA UnpublishedReports ==
  ASSUME IInv, JInv, IInv',
         \/ Resume \/ MapRecords \/ RejectEmpty \/ RejectMixedDates \/ CheckDates
         \/ CheckUser \/ RejectDuplicateUser \/ Summarize
         \/ ProtectRecord \/ RejectBlankIdentifier \/ CheckCollection \/ RejectCollection
  PROVE  JInv'
  <1> DEFINE mapped == Event("records_mapped", "in_progress", Len(records))
             aggregated == Event("aggregation_completed", "in_progress", Len(records))
  <1>1. mapped \in EventRecords /\ aggregated \in EventRecords
    BY DEF IInv, Typed, Event, EventRecords
  <1>2. Untouched /\ pc # "done"
    BY DEF IInv, Verdict, Unpublished, Resume, MapRecords, RejectEmpty, RejectMixedDates,
           CheckDates, CheckUser, RejectDuplicateUser, Summarize, ProtectRecord,
           RejectBlankIdentifier, CheckCollection, RejectCollection
  <1>3. CASE MapRecords
    BY <1>1, <1>2, <1>3, Tells
    DEF MapRecords, Report, Proceed, Raise, JInv, Showing, CheckpointsCountTheUsers,
        Publishing
  <1>4. CASE CheckCollection
    <2>1. record_count = Len(records) /\ Len(records) \in Nat
      BY <1>4 DEF CheckCollection, IInv, Typed, Counting, Unpublished, Publishing
    <2>2. /\ lifecycle' = Append(lifecycle, aggregated) /\ span' = span
          /\ pc' = "gauges" /\ i' = 1 /\ UNCHANGED published
      BY <1>4, <2>1, CheckpointsAreValid DEF CheckCollection, Report, Proceed
    <2>3. QED
      BY <1>1, <1>2, <2>2, Tells
      DEF JInv, Showing, CheckpointsCountTheUsers, Publishing, Untouched, published
  <1>5. CASE Resume \/ RejectEmpty \/ RejectMixedDates \/ RejectDuplicateUser
               \/ RejectBlankIdentifier \/ RejectCollection
    <2>1. lifecycle' = lifecycle /\ span' = span /\ pc' \in {"mapping", "failing"}
      BY <1>5
      DEF Resume, RejectEmpty, RejectMixedDates, RejectDuplicateUser,
          RejectBlankIdentifier, RejectCollection, Raise, reported
    <2>2. QED
      BY <1>1, <1>2, <2>1, Tells DEF JInv, Showing, CheckpointsCountTheUsers, Publishing
  <1>6. CASE CheckDates \/ CheckUser \/ Summarize \/ ProtectRecord
    <2>1. lifecycle' = lifecycle /\ span' = span /\ pc' \in {"users", "protecting"}
      BY <1>6
      DEF CheckDates, CheckUser, Summarize, ProtectRecord, Proceed, Continue, reported
    <2>2. QED
      BY <1>1, <1>2, <2>1, Tells DEF JInv, Showing, CheckpointsCountTheUsers, Publishing
  <1>7. QED
    BY <1>3, <1>4, <1>5, <1>6

(* The gauge of users is set first and once.                               *)
LEMMA GaugesReport ==
  ASSUME IInv, JInv, SetGauges
  PROVE  JInv'
  <1>1. /\ pc = "gauges" /\ i \in Nat \ {0} /\ i <= Len(EmissionOrder)
        /\ provider \in Providers
    BY DEF SetGauges, IInv, Typed
  <1>2. /\ gauges' = [gauges EXCEPT ![EmissionOrder[i]] = ValuesOf(EmissionOrder[i])]
        /\ i' = i + 1
        /\ UNCHANGED <<pc, records, events, lifecycle, span>>
    <2>1. Len(EmissionOrder) \in Nat
      BY DEF EmissionOrder
    <2>2. DOMAIN ValuesOf(EmissionOrder[i]) \subseteq Instruments[EmissionOrder[i]]
      BY <1>1, <2>1, EveryValueHasAGauge
    <2>3. QED
      BY <2>2 DEF SetGauges, Continue, reported
  <1>3. DOMAIN gauges = DOMAIN Instruments /\ "generic" \in DOMAIN Instruments
    BY <1>1 DEF JInv, Showing, Publishing, Instruments
  <1>4. gauges'["generic"].user = Len(records)
    <2>1. CASE i = 1
      <3>1. EmissionOrder[i] = "generic"
        BY <2>1 DEF EmissionOrder
      <3>2. summary.total_users = Len(records)
        BY <1>1 DEF IInv, OncePublishing, PreviewConsistent, Publishing
      <3>3. ValuesOf("generic").user = Len(records)
        BY <3>2 DEF ValuesOf, GenericValues
      <3>4. QED
        BY <1>2, <1>3, <3>1, <3>3
    <2>2. CASE i # 1
      <3>1. EmissionOrder[i] # "generic"
        BY <1>1, <2>2 DEF EmissionOrder, Providers
      <3>2. gauges["generic"].user = Len(records)
        BY <1>1, <2>2 DEF JInv, Showing, Publishing
      <3>3. QED
        BY <1>2, <1>3, <3>1, <3>2
    <2>3. QED
      BY <2>1, <2>2
  <1>5. QED
    BY <1>1, <1>2, <1>3, <1>4
    DEF JInv, Telling, Showing, CheckpointsCountTheUsers, Publishing

LEMMA EventsReport ==
  ASSUME IInv, JInv, EndGauges \/ EmitEvent \/ EndEvents \/ BuildPreview \/ ReportPreview
  PROVE  JInv'
  <1>1. /\ protected \in Seq(ProtectedRecords) /\ Len(protected) = Len(records)
        /\ record_count = Len(records) /\ PreviewConsistent
    BY DEF IInv, OncePublishing, Counting, EndGauges, EmitEvent, EndEvents, BuildPreview,
           ReportPreview, Publishing
  <1>2. i \in Nat \ {0} /\ Len(records) \in Nat /\ Len(EmissionOrder) \in Nat \ {0}
    BY DEF IInv, Typed, EmissionOrder
  <1>3. CASE EndGauges
    BY <1>1, <1>2, <1>3
    DEF EndGauges, Proceed, reported, published, JInv, Telling, Showing,
        CheckpointsCountTheUsers, Publishing
  <1>4. CASE EmitEvent
    <2>1. events \in Seq(ProtectedRecords) /\ Len(events) = i - 1 /\ i <= Len(protected)
      BY <1>4 DEF EmitEvent, JInv, Showing
    <2>2. protected[i] \in ProtectedRecords
      BY <1>1, <1>2, <2>1
    <2>3. events' \in Seq(ProtectedRecords) /\ Len(events') = i
      BY <1>2, <1>4, <2>1, <2>2 DEF EmitEvent
    <2>4. QED
      BY <1>2, <1>4, <2>1, <2>3
      DEF EmitEvent, Continue, reported, JInv, Telling, Showing,
          CheckpointsCountTheUsers, Publishing
  <1>5. CASE EndEvents
    BY <1>1, <1>2, <1>5
    DEF EndEvents, Proceed, reported, published, JInv, Telling, Showing,
        CheckpointsCountTheUsers, Publishing
  <1>6. CASE BuildPreview
    BY <1>1, <1>6
    DEF BuildPreview, Proceed, reported, JInv, Telling, Showing,
        CheckpointsCountTheUsers, Publishing
  <1>7. CASE ReportPreview
    <2> DEFINE e == Event("preview_written", "in_progress", Len(records))
    <2>1. e \in EventRecords
      BY <1>2 DEF Event, EventRecords
    <2>2. /\ pc = "written" /\ pc' = "completing" /\ lifecycle' = Append(lifecycle, e)
          /\ UNCHANGED <<records, gauges, events, span>>
      BY <1>1, <1>2, <1>7, CheckpointsAreValid
      DEF ReportPreview, Report, Proceed, published
    <2> HIDE DEF e
    <2>3. Telling'
      BY <2>1, <2>2, Tells
    <2>4. QED
      BY <2>2, <2>3 DEF JInv, Showing, CheckpointsCountTheUsers, Publishing
  <1>8. QED
    BY <1>3, <1>4, <1>5, <1>6, <1>7

LEMMA LastEvent ==
  ASSUME JInv, NEW e \in EventRecords, lifecycle' = Append(lifecycle, e)
  PROVE  lifecycle' \in Seq(EventRecords) /\ lifecycle'[Len(lifecycle')] = e
  BY DEF JInv, Telling

LEMMA EndReports ==
  ASSUME IInv, JInv, Complete \/ Fail
  PROVE  JInv'
  <1>1. Len(records) \in Nat
    BY DEF IInv, Typed
  <1>2. CASE Complete
    <2> DEFINE e == Event("collection_completed", "success", Len(records))
    <2>1. record_count = Len(records) /\ error = None
      BY <1>2 DEF Complete, IInv, Counting, Verdict, Publishing, Unpublished
    <2>2. /\ pc = "completing" /\ pc' = "done" /\ lifecycle' = Append(lifecycle, e)
          /\ span' = [status |-> "success", record_count |-> Len(records)]
          /\ UNCHANGED <<records, gauges, events, error>>
      BY <1>1, <1>2, <2>1, CheckpointsAreValid DEF Complete, Proceed, published
    <2>3. /\ e \in EventRecords /\ e.event_name = "collection_completed"
          /\ e.record_count = Len(records)
      BY <1>1 DEF Event, EventRecords
    <2>4. gauges["generic"].user = Len(records) /\ Len(events) = Len(records)
      BY <2>2 DEF JInv, Showing, Publishing
    <2> HIDE DEF e
    <2>5. lifecycle' \in Seq(EventRecords) /\ lifecycle'[Len(lifecycle')] = e
      BY <2>2, <2>3, LastEvent
    <2>6. QED
      BY <2>1, <2>2, <2>3, <2>4, <2>5
      DEF JInv, Telling, Showing, CheckpointsCountTheUsers, Publishing
  <1>3. CASE Fail
    <2> DEFINE e == Event("collection_failed", "failed", record_count)
    <2>1. /\ record_count = (IF error \in Faults THEN None ELSE Len(records))
          /\ error # None /\ span = [status |-> "started", record_count |-> None]
      BY <1>3 DEF Fail, IInv, Counting, Verdict, JInv, Telling
    <2>2. /\ pc' = "done" /\ lifecycle' = Append(lifecycle, e)
          /\ span' = [span EXCEPT !.status = "failed"]
          /\ UNCHANGED <<records, error>>
      BY <1>3, CheckpointsAreValid DEF Fail
    <2>3. /\ e \in EventRecords /\ e.event_name = "collection_failed"
          /\ e.record_count = record_count
      BY <1>1, <2>1 DEF Event, EventRecords
    <2> HIDE DEF e
    <2>4. lifecycle' \in Seq(EventRecords) /\ lifecycle'[Len(lifecycle')] = e
      BY <2>2, <2>3, LastEvent
    <2>5. span' = [status |-> "failed", record_count |-> None]
      BY <2>1, <2>2
    <2>6. QED
      BY <2>1, <2>2, <2>3, <2>4, <2>5
      DEF JInv, Telling, Showing, CheckpointsCountTheUsers, Publishing
  <1>4. QED
    BY <1>2, <1>3

LEMMA StepReports == ASSUME IInv, JInv, IInv', [Next]_vars PROVE JInv'
  <1>1. CASE UNCHANGED vars
    BY <1>1
    DEF vars, published, reported, JInv, Telling, Showing, CheckpointsCountTheUsers
  <1>2. QED
    BY <1>1, UnpublishedReports, GaugesReport, EventsReport, EndReports DEF Next

(* At every stage the lifecycle events, the span and the gauge of users    *)
(* tell the same of the collection (_emit_lifecycle and the handler).      *)
THEOREM Reporting == Spec => []JInv
  BY InitReports, StepReports, Invariance, PTL DEF Spec

(* The last event, the span, the gauge of users and the usage events agree *)
(* on how a collection ended and of how many users it was, and no event of *)
(* the workflow is refused by validate_checkpoint, the handler's included. *)
THEOREM CountsTold == Spec => []CheckpointsCountTheUsers
  <1>1. JInv => CheckpointsCountTheUsers
    BY DEF JInv
  <1>2. QED
    BY <1>1, Reporting, PTL

-------------------------------------------------------------------------------
(* Sums.  The library's induction principles are about operators; this one *)
(* is about a set of numbers and follows from its theorem on minimal       *)
(* elements.                                                               *)
LEMMA CountingUp ==
  ASSUME NEW T \in SUBSET Nat, 0 \in T, \A n \in T : n + 1 \in T
  PROVE  T = Nat
  <1>1. SUFFICES ASSUME Nat \ T # {} PROVE FALSE
    OBVIOUS
  <1> DEFINE Less == {p \in Nat \X Nat : p[1] < p[2]}
  <1>2. IsWellFoundedOn(Less, Nat)
    BY NatLessThanWellFounded DEF OpToRel
  <1>3. \A y, x \in Nat : y < x => <<y, x>> \in Less
    OBVIOUS
  <1> HIDE DEF Less
  <1>4. PICK x \in Nat \ T : \A y \in Nat \ T : ~ (<<y, x>> \in Less)
    BY <1>1, <1>2, WFMin
  <1>5. x # 0 /\ x - 1 \in Nat /\ x - 1 < x
    BY <1>4
  <1>6. x - 1 \in T
    BY <1>3, <1>4, <1>5
  <1>7. QED
    BY <1>4, <1>5, <1>6

(* The element a fold takes next, and what it makes of a set.              *)
Any(s) == CHOOSE x \in s : TRUE
Added(f, g, s) == IF s = {} THEN 0 ELSE f[Any(s)] + g[s \ {Any(s)}]

LEMMA OneLess ==
  ASSUME NEW s, IsFiniteSet(s), s # {}
  PROVE  /\ Any(s) \in s
         /\ Cardinality(s \ {Any(s)}) = Cardinality(s) - 1
         /\ Cardinality(s) \in Nat \ {0}
  <1>1. Any(s) \in s
    BY DEF Any
  <1>2. QED
    BY <1>1, FS_RemoveElement, FS_CardinalityType, FS_EmptySet

LEMMA SumUnfolds ==
  ASSUME NEW f, NEW S
  PROVE  SumFunctionOnSet(f, S)
           = (CHOOSE g : g = [s \in SUBSET S |-> Added(f, g, s)])[S]
  BY DEF SumFunctionOnSet, FoldFunctionOnSet, MapThenFoldSet, Added, Any

(* The function a fold recurs by exists: it can be defined for the sets of *)
(* at most n elements, whatever n is.                                      *)
LEMMA FoldExists ==
  ASSUME NEW f, NEW S, IsFiniteSet(S)
  PROVE  \E g : g = [s \in SUBSET S |-> Added(f, g, s)]
  <1> DEFINE Small(n) == {s \in SUBSET S : Cardinality(s) <= n}
             UpTo(n, g) == g = [s \in Small(n) |-> Added(f, g, s)]
             T == {n \in Nat : \E g : UpTo(n, g)}
  <1>1. \A s \in SUBSET S : IsFiniteSet(s) /\ Cardinality(s) \in Nat
    BY FS_Subset, FS_CardinalityType
  <1>2. 0 \in T
    <2> DEFINE g == [s \in Small(0) |-> 0]
    <2>1. \A s \in Small(0) : s = {}
      BY <1>1, FS_EmptySet
    <2>2. \A s \in Small(0) : Added(f, g, s) = 0
      BY <2>1 DEF Added
    <2>3. UpTo(0, g)
      BY <2>2
    <2>4. QED
      BY <2>3
  <1>3. ASSUME NEW n \in T PROVE n + 1 \in T
    <2>1. PICK g : UpTo(n, g)
      OBVIOUS
    <2> DEFINE h == [s \in Small(n + 1) |-> Added(f, g, s)]
    <2>2. \A s \in Small(n) : s \in Small(n + 1) /\ h[s] = g[s]
      BY <1>1, <2>1
    <2>3. \A s \in Small(n + 1) : s # {} => s \ {Any(s)} \in Small(n)
      BY <1>1, OneLess
    <2>4. \A s \in Small(n + 1) : Added(f, g, s) = Added(f, h, s)
      BY <2>2, <2>3 DEF Added
    <2>5. UpTo(n + 1, h)
      BY <2>4
    <2> HIDE DEF h, UpTo
    <2>6. QED
      BY <2>5
  <1>4. T = Nat
    <2>1. T \in SUBSET Nat
      OBVIOUS
    <2> HIDE DEF T
    <2>2. QED
      BY <1>2, <1>3, <2>1, CountingUp
  <1>5. PICK g : UpTo(Cardinality(S), g)
    BY <1>1, <1>4
  <1>6. Small(Cardinality(S)) = SUBSET S
    BY <1>1, FS_Subset
  <1>7. QED
    BY <1>5, <1>6

(* A sum of counts is a count, and nothing if they are all nothing.        *)
LEMMA SumOfCounts ==
  ASSUME NEW S, IsFiniteSet(S), NEW f \in [S -> Nat]
  PROVE  /\ SumFunctionOnSet(f, S) \in Nat
         /\ (\A x \in S : f[x] = 0) => SumFunctionOnSet(f, S) = 0
  <1> DEFINE Folds(g) == g = [s \in SUBSET S |-> Added(f, g, s)]
             g == CHOOSE g : Folds(g)
             Right(s) == g[s] \in Nat /\ ((\A x \in S : f[x] = 0) => g[s] = 0)
             T == {n \in Nat : \A s \in SUBSET S : Cardinality(s) = n => Right(s)}
  <1>1. Folds(g)
    BY FoldExists
  <1>2. \A s \in SUBSET S : g[s] = Added(f, g, s)
    BY <1>1
  <1>3. SumFunctionOnSet(f, S) = g[S]
    BY SumUnfolds
  <1> HIDE DEF g
  <1>4. \A s \in SUBSET S : IsFiniteSet(s) /\ Cardinality(s) \in Nat
    BY FS_Subset, FS_CardinalityType
  <1>5. 0 \in T
    <2>1. \A s \in SUBSET S : Cardinality(s) = 0 => s = {}
      BY <1>4, FS_EmptySet
    <2>2. QED
      BY <1>2, <2>1 DEF Added
  <1>6. ASSUME NEW n \in T PROVE n + 1 \in T
    <2>1. SUFFICES ASSUME NEW s \in SUBSET S, Cardinality(s) = n + 1
                   PROVE  Right(s)
      OBVIOUS
    <2> DEFINE x == Any(s)
               r == s \ {x}
    <2>2. s # {}
      BY <2>1, FS_EmptySet
    <2>3. x \in S /\ r \in SUBSET S /\ Cardinality(r) = n
      BY <1>4, <2>1, <2>2, OneLess
    <2>4. Right(r)
      BY <2>3
    <2>5. g[s] = f[x] + g[r]
      BY <1>2, <2>2 DEF Added
    <2> HIDE DEF x, r
    <2>6. QED
      BY <2>3, <2>4, <2>5
  <1>7. T = Nat
    <2>1. T \in SUBSET Nat
      OBVIOUS
    <2> HIDE DEF T
    <2>2. QED
      BY <1>5, <1>6, <2>1, CountingUp
  <1>8. Right(S)
    BY <1>4, <1>7
  <1>9. QED
    BY <1>3, <1>8

-------------------------------------------------------------------------------
(* What the totals and the gauges of every area are made of is what their  *)
(* names say.                                                              *)
LEMMA TotalsMean ==
  ASSUME NEW p \in Providers, NEW a \in DOMAIN TotalsOf(p), NEW t \in DOMAIN TotalsOf(p)[a]
  PROVE  TotalsOf(p)[a][t] = TotalMeaning[t]
  <1>1. CASE p = "anthropic"
    <2>1. a \in {"claude_code", "cowork", "design", "excel", "outlook", "powerpoint",
                 "word", "science", "web"}
      BY <1>1 DEF TotalsOf, AnthropicTotals
    <2>2. CASE a = "claude_code"
      BY <1>1, <2>2 DEF TotalsOf, AnthropicTotals, CodeTotals, TotalMeaning
    <2>3. CASE a = "cowork"
      BY <1>1, <2>3 DEF TotalsOf, AnthropicTotals, TotalMeaning
    <2>4. CASE a = "design"
      BY <1>1, <2>4 DEF TotalsOf, AnthropicTotals, TotalMeaning
    <2>5. CASE a \in {"excel", "outlook", "powerpoint", "word"}
      <3>1. TotalsOf(p)[a] = OfficeTotals
        BY <1>1, <2>5 DEF TotalsOf, AnthropicTotals
      <3>2. QED
        BY <3>1 DEF OfficeTotals, TotalMeaning
    <2>6. CASE a = "science"
      BY <1>1, <2>6 DEF TotalsOf, AnthropicTotals, TotalMeaning
    <2>7. CASE a = "web"
      BY <1>1, <2>7 DEF TotalsOf, AnthropicTotals, TotalMeaning
    <2>8. QED
      BY <2>1, <2>2, <2>3, <2>4, <2>5, <2>6, <2>7
  <1>2. CASE p = "mock"
    <2>1. a \in {"claude_code", "cowork", "design", "excel", "outlook", "powerpoint",
                 "word", "science", "web"}
      BY <1>2 DEF TotalsOf, MockTotals
    <2>2. CASE a = "claude_code"
      BY <1>2, <2>2 DEF TotalsOf, MockTotals, CodeTotals, TotalMeaning
    <2>3. CASE a = "cowork"
      BY <1>2, <2>3 DEF TotalsOf, MockTotals, TotalMeaning
    <2>4. CASE a = "design"
      BY <1>2, <2>4 DEF TotalsOf, MockTotals, TotalMeaning
    <2>5. CASE a \in {"excel", "outlook", "powerpoint", "word"}
      <3>1. TotalsOf(p)[a] = MockOfficeTotals
        BY <1>2, <2>5 DEF TotalsOf, MockTotals
      <3>2. QED
        BY <3>1 DEF MockOfficeTotals, TotalMeaning
    <2>6. CASE a = "science"
      BY <1>2, <2>6 DEF TotalsOf, MockTotals, TotalMeaning
    <2>7. CASE a = "web"
      BY <1>2, <2>7 DEF TotalsOf, MockTotals, TotalMeaning
    <2>8. QED
      BY <2>1, <2>2, <2>3, <2>4, <2>5, <2>6, <2>7
  <1>3. QED
    BY <1>1, <1>2 DEF Providers

LEMMA GaugesMean ==
  ASSUME NEW a \in DOMAIN Instruments \ {"generic"}, NEW g \in DOMAIN AnthropicGauges[a]
  PROVE  /\ a \in DOMAIN AnthropicTotals
         /\ AnthropicGauges[a][g] \in DOMAIN AnthropicTotals[a]
         /\ AnthropicTotals[a][AnthropicGauges[a][g]] = GaugeMeaning[g]
  <1>1. a \in {"claude_code", "cowork", "design", "excel", "outlook", "powerpoint", "word",
               "science", "web"}
    BY DEF Instruments
  <1>2. CASE a = "claude_code"
    BY <1>2 DEF AnthropicTotals, AnthropicGauges, CodeTotals, GaugeMeaning
  <1>3. CASE a = "cowork"
    BY <1>3 DEF AnthropicTotals, AnthropicGauges, GaugeMeaning
  <1>4. CASE a = "design"
    BY <1>4 DEF AnthropicTotals, AnthropicGauges, GaugeMeaning
  <1>5. CASE a \in {"excel", "outlook", "powerpoint", "word"}
    <2>1. /\ a \in DOMAIN AnthropicTotals /\ AnthropicTotals[a] = OfficeTotals
          /\ AnthropicGauges[a] = OfficeGauges
      BY <1>5 DEF AnthropicTotals, AnthropicGauges
    <2>2. QED
      BY <2>1 DEF OfficeTotals, OfficeGauges, GaugeMeaning
  <1>6. CASE a = "science"
    BY <1>6 DEF AnthropicTotals, AnthropicGauges, GaugeMeaning
  <1>7. CASE a = "web"
    BY <1>7 DEF AnthropicTotals, AnthropicGauges, GaugeMeaning
  <1>8. QED
    BY <1>1, <1>2, <1>3, <1>4, <1>5, <1>6, <1>7

(* What the sums need to know of an activity.                              *)
LEMMA ActivityCounts ==
  ASSUME NEW p \in Providers, NEW a, IsActivity(p, a)
  PROVE  /\ a["chat"]["message_count"] \in Nat
         /\ a["claude_code"]["distinct_session_count"] \in Nat
         /\ a["accepted"] \in [Tools -> Nat] /\ a["rejected"] \in [Tools -> Nat]
  <1> DEFINE areas == {"chat", "claude_code", "accepted", "rejected"}
  <1>1. /\ areas \subseteq DOMAIN FieldsOf(p)
        /\ \A x \in areas : FieldsOf(p)[x] = AnthropicFields[x]
    BY DEF FieldsOf, MockFields, AnthropicFields
  <1>2. \A x \in areas : a[x] \in [AnthropicFields[x] -> Nat]
    BY <1>1 DEF IsActivity
  <1>3. /\ "message_count" \in AnthropicFields["chat"]
        /\ "distinct_session_count" \in AnthropicFields["claude_code"]
        /\ AnthropicFields["accepted"] = Tools /\ AnthropicFields["rejected"] = Tools
    BY DEF AnthropicFields
  <1> HIDE DEF areas
  <1>4. QED
    BY <1>2, <1>3 DEF areas

LEMMA CommonCounts ==
  ASSUME NEW p \in Providers, NEW a, IsActivity(p, a)
  PROVE  /\ CommonActivity(a).chat_interaction \in Nat
         /\ CommonActivity(a).developer_session \in Nat
         /\ CommonActivity(a).accepted \in Nat /\ CommonActivity(a).rejected \in Nat
         /\ ~ IsActive(a) => /\ CommonActivity(a).chat_interaction = 0
                             /\ CommonActivity(a).developer_session = 0
  <1>1. IsFiniteSet(Tools)
    <2>1. IsFiniteSet({})
      BY FS_EmptySet
    <2>2. IsFiniteSet(({} \cup {"edit_tool"}) \cup {"multi_edit_tool"})
      BY <2>1, FS_AddElement
    <2>3. IsFiniteSet(((({} \cup {"edit_tool"}) \cup {"multi_edit_tool"})
                         \cup {"notebook_edit_tool"}) \cup {"write_tool"})
      BY <2>2, FS_AddElement
    <2>4. QED
      BY <2>3 DEF Tools
  <1>2. /\ SumFunctionOnSet(a["accepted"], Tools) \in Nat
        /\ SumFunctionOnSet(a["rejected"], Tools) \in Nat
    BY <1>1, ActivityCounts, SumOfCounts
  <1>3. QED
    BY <1>2, ActivityCounts DEF CommonActivity, IsActive

(* The records with their counts, as each client returns them.             *)
ActivitiesTyped == \A k \in DOMAIN records : IsActivity(provider, records[k].activity)

(* The protected records, or events, s of the records that were summed.    *)
SameActivities(s) ==
  /\ DOMAIN s = DOMAIN records
  /\ \A k \in DOMAIN records : /\ s[k].activity = Normalized[k].activity
                               /\ s[k].extension = Normalized[k].extension

LEMMA CommonSums ==
  ASSUME IInv, NEW s, SameActivities(s), NEW c
  PROVE  CommonTotal(Normalized, c) = CommonTotal(s, c)
  <1>1. DOMAIN Normalized = DOMAIN s
    BY NormalizedRecords DEF IInv, Typed, SameActivities
  <1>2. \A k \in DOMAIN s : Normalized[k].activity = s[k].activity
    BY DEF SameActivities
  <1>3. QED
    BY <1>1, <1>2 DEF CommonTotal, SumOf

LEMMA ProviderSums ==
  ASSUME IInv, NEW s, SameActivities(s),
         NEW a \in DOMAIN ProviderTotals(provider, Normalized),
         NEW t \in DOMAIN ProviderTotals(provider, Normalized)[a]
  PROVE  ProviderTotals(provider, Normalized)[a][t]
           = SumOf(s, LAMBDA e : e.extension[a][TotalMeaning[t]])
  <1>1. /\ a \in DOMAIN TotalsOf(provider) /\ t \in DOMAIN TotalsOf(provider)[a]
        /\ ProviderTotals(provider, Normalized)[a][t]
             = SumOf(Normalized, LAMBDA r : r.extension[a][TotalsOf(provider)[a][t]])
    BY DEF ProviderTotals
  <1>2. TotalsOf(provider)[a][t] = TotalMeaning[t]
    BY <1>1, TotalsMean DEF IInv, Typed
  <1>3. DOMAIN Normalized = DOMAIN s
    BY NormalizedRecords DEF IInv, Typed, SameActivities
  <1>4. \A k \in DOMAIN s : Normalized[k].extension = s[k].extension
    BY DEF SameActivities
  <1>5. QED
    BY <1>1, <1>2, <1>3, <1>4 DEF SumOf

(* The counts of a summary are counts, and of nothing if no one is active. *)
LEMMA SumOfNormalized ==
  ASSUME IInv, NEW c, \A k \in DOMAIN records : Normalized[k].activity[c] \in Nat
  PROVE  /\ CommonTotal(Normalized, c) \in Nat
         /\ (\A k \in DOMAIN records : Normalized[k].activity[c] = 0)
              => CommonTotal(Normalized, c) = 0
  <1> DEFINE f == [k \in DOMAIN Normalized |-> Normalized[k].activity[c]]
  <1>1. DOMAIN Normalized = DOMAIN records /\ DOMAIN records = 1 .. Len(records)
        /\ Len(records) \in Nat
    BY NormalizedRecords DEF IInv, Typed
  <1>2. CommonTotal(Normalized, c) = SumFunctionOnSet(f, DOMAIN records)
    BY <1>1 DEF CommonTotal, SumOf, SumFunction
  <1>3. IsFiniteSet(DOMAIN records) /\ f \in [DOMAIN records -> Nat]
    BY <1>1, FS_Interval
  <1>4. \A k \in DOMAIN records : f[k] = Normalized[k].activity[c]
    BY <1>1
  <1> HIDE DEF f
  <1>5. QED
    BY <1>2, <1>3, <1>4, SumOfCounts

LEMMA AggregateCounts ==
  ASSUME IInv, ActivitiesTyped
  PROVE  LET sums == Aggregate(provider, Normalized) IN
           /\ sums.total_users = Len(records)
           /\ sums.active_users \in 0 .. Len(records)
           /\ sums.chat_interaction \in Nat /\ sums.developer_session \in Nat
           /\ sums.accepted \in Nat /\ sums.rejected \in Nat
           /\ sums.active_users = 0 => /\ sums.chat_interaction = 0
                                       /\ sums.developer_session = 0
  <1> DEFINE active == {k \in DOMAIN Normalized : Normalized[k].activity.is_active}
  <1>1. /\ DOMAIN Normalized = DOMAIN records /\ DOMAIN records = 1 .. Len(records)
        /\ Len(records) \in Nat /\ Len(Normalized) = Len(records)
        /\ \A k \in DOMAIN records : Normalized[k].activity = CommonActivity(records[k].activity)
    BY NormalizedRecords DEF IInv, Typed
  <1>2. \A k \in DOMAIN records :
          /\ Normalized[k].activity.chat_interaction \in Nat
          /\ Normalized[k].activity.developer_session \in Nat
          /\ Normalized[k].activity.accepted \in Nat
          /\ Normalized[k].activity.rejected \in Nat
          /\ ~ Normalized[k].activity.is_active =>
               /\ Normalized[k].activity.chat_interaction = 0
               /\ Normalized[k].activity.developer_session = 0
    <2>1. TAKE k \in DOMAIN records
    <2> DEFINE x == records[k].activity
    <2>2. IsActivity(provider, x) /\ provider \in Providers
      BY DEF ActivitiesTyped, IInv, Typed
    <2>3. Normalized[k].activity = CommonActivity(x)
      BY <1>1
    <2>4. CommonActivity(x).is_active <=> IsActive(x)
      BY DEF CommonActivity
    <2> HIDE DEF x
    <2>5. QED
      BY <2>2, <2>3, <2>4, CommonCounts
  <1>3. /\ IsFiniteSet(active) /\ Cardinality(active) \in 0 .. Len(records)
        /\ Cardinality(active) = 0 => active = {}
    <2>1. IsFiniteSet(DOMAIN records) /\ Cardinality(DOMAIN records) = Len(records)
      <3> DEFINE n == Len(records)
      <3>1. n \in Nat /\ DOMAIN records = 1 .. n
        BY <1>1
      <3> HIDE DEF n
      <3>2. IsFiniteSet(1 .. n) /\ Cardinality(1 .. n) = n
        BY <3>1, FS_Interval
      <3>3. QED
        BY <3>1, <3>2 DEF n
    <2>2. active \subseteq DOMAIN records
      BY <1>1
    <2> HIDE DEF active
    <2>3. QED
      BY <2>1, <2>2, FS_Subset, FS_CardinalityType, FS_EmptySet
  <1>4. /\ CommonTotal(Normalized, "chat_interaction") \in Nat
        /\ CommonTotal(Normalized, "developer_session") \in Nat
        /\ CommonTotal(Normalized, "accepted") \in Nat
        /\ CommonTotal(Normalized, "rejected") \in Nat
    BY <1>2, SumOfNormalized
  <1>5. active = {} => /\ CommonTotal(Normalized, "chat_interaction") = 0
                       /\ CommonTotal(Normalized, "developer_session") = 0
    <2>1. active = {} => \A k \in DOMAIN records :
            /\ Normalized[k].activity.chat_interaction = 0
            /\ Normalized[k].activity.developer_session = 0
      BY <1>1, <1>2
    <2>2. QED
      BY <1>2, <2>1, SumOfNormalized
  <1>6. QED
    BY <1>1, <1>3, <1>4, <1>5 DEF Aggregate

-------------------------------------------------------------------------------
(* What the data is, from the records to the gauges, events and preview.   *)
Accepted == pc = "done" /\ error = None
Summed == pc \in {"protecting"} \cup Publishing \/ Accepted
Logged == pc \in {"preview", "written", "completing"} \/ Accepted
Drawn == pc \in {"written", "completing"} \/ Accepted

ProtectedOf(k) ==
  [date |-> Normalized[k].date, pseudonymous_user_id |-> pseudonym[Normalized[k].user],
   activity |-> Normalized[k].activity, extension |-> Normalized[k].extension]

Carrying ==
  /\ ActivitiesTyped
  /\ protected \in Seq(ProtectedRecords)
  /\ Summed =>
       /\ summary = Aggregate(provider, Normalized)
       /\ Len(protected) <= Len(records)
       /\ \A k \in 1 .. Len(protected) : protected[k] = ProtectedOf(k)
  /\ Accepted => Len(protected) = Len(records)

ShownOn(a) == gauges[a] = ValuesOf(a) /\ Summed /\ (a = "generic" \/ provider = "anthropic")

Displaying ==
  /\ DOMAIN gauges = DOMAIN Instruments
  /\ \A a \in DOMAIN gauges : gauges[a] = None \/ ShownOn(a)
  /\ pc = "events" \/ Logged \/ (pc = "gauges" /\ i > 1) => ShownOn("generic")

Logging ==
  /\ events \in Seq(ProtectedRecords)
  /\ Len(events) <= Len(protected)
  /\ \A k \in 1 .. Len(events) : events[k] = protected[k]
  /\ pc = "events" => Len(events) = i - 1
  /\ Logged => Len(events) = Len(protected)

Previewing ==
  IF Drawn THEN preview = [usage_records |-> protected, organization_snapshot |-> summary]
           ELSE preview = None

Bounded ==
  /\ i <= 1 + (IF pc = "gauges" THEN Len(EmissionOrder) ELSE Len(records))
  /\ seenUsers \subseteq Users \cup {Blank}
  /\ record_count \in Nat \cup {None}
  /\ \A k \in 1 .. Len(lifecycle) : ValidCheckpoint(lifecycle[k])
  /\ span.status \in {"started", "success", "failed"}
  /\ span.record_count \in Nat \cup {None}

KInv == Carrying /\ Displaying /\ Logging /\ Previewing /\ Bounded

(* The inputs of a collection do not change, nor what is made of them.     *)
LEMMA SameInputs ==
  ASSUME [Next]_vars
  PROVE  UNCHANGED <<provider, records, pseudonym>>
  BY DEF Next, vars, Resume, MapRecords, RejectEmpty, RejectMixedDates, CheckDates,
         CheckUser, RejectDuplicateUser, Summarize, ProtectRecord, RejectBlankIdentifier,
         CheckCollection, RejectCollection, SetGauges, EndGauges, EmitEvent, EndEvents,
         BuildPreview, ReportPreview, Complete, Fail, Report, Raise, Proceed, Continue

LEMMA SameData ==
  ASSUME UNCHANGED <<provider, records, pseudonym>>
  PROVE  /\ Normalized' = Normalized
         /\ Aggregate(provider, Normalized)' = Aggregate(provider, Normalized)
         /\ \A k : ProtectedOf(k)' = ProtectedOf(k)
         /\ ActivitiesTyped' <=> ActivitiesTyped
         /\ EmissionOrder' = EmissionOrder
         /\ summary' = summary => \A a : ValuesOf(a)' = ValuesOf(a)
  <1>1. Normalized' = Normalized
    BY DEF Normalized
  <1>2. Aggregate(provider, Normalized)' = Aggregate(provider, Normalized)
    BY <1>1
  <1>3. \A k : ProtectedOf(k)' = ProtectedOf(k)
    BY <1>1 DEF ProtectedOf
  <1>4. summary' = summary => \A a : ValuesOf(a)' = ValuesOf(a)
    BY DEF ValuesOf, GenericValues
  <1>5. QED
    BY <1>1, <1>2, <1>3, <1>4 DEF ActivitiesTyped, EmissionOrder

LEMMA InitData == ASSUME Init PROVE KInv
  <1>1. PICK x \in Responses : provider = x.provider /\ records = x.records
    BY DEF Init
  <1>2. ActivitiesTyped
    BY <1>1, ResponsesAssumption DEF ActivitiesTyped
  <1>3. pc \in {"awaiting", "mapping"} /\ Len(records) \in Nat
    BY <1>1, ResponsesAssumption DEF Init
  <1>4. ValidCheckpoint(Event("collection_started", "started", None))
    BY DEF ValidCheckpoint, Event, ExpectedStatus, RecordCountRequired
  <1>5. Carrying
    BY <1>2, <1>3 DEF Init, Carrying, Summed, Accepted, Publishing
  <1>6. Displaying /\ Logging /\ Previewing
    BY <1>3 DEF Init, Displaying, Logging, Previewing, Logged, Drawn, Accepted
  <1>7. Bounded
    BY <1>3, <1>4 DEF Init, Bounded
  <1>8. QED
    BY <1>5, <1>6, <1>7 DEF KInv

(* Nothing is shown yet, or will ever be.                                  *)
LEMMA StillUntouched ==
  ASSUME Untouched', ~ Logged', pc' # "events", pc' = "gauges" => i' = 1,
         protected' \in Seq(ProtectedRecords)
  PROVE  Displaying' /\ Logging' /\ Previewing'
  <1>1. ~ Drawn'
    BY DEF Logged, Drawn
  <1>2. QED
    BY <1>1 DEF Untouched, Displaying, Logging, Previewing

LEMMA StillCarrying ==
  ASSUME Carrying, UNCHANGED <<provider, records, pseudonym, protected>>,
         Summed' => Summed /\ summary' = summary,
         Accepted' => Len(protected) = Len(records)
  PROVE  Carrying'
  BY SameData DEF Carrying

LEMMA UnpublishedData ==
  ASSUME IInv, IInv', KInv,
         \/ Resume \/ MapRecords \/ RejectEmpty \/ RejectMixedDates \/ CheckDates
         \/ CheckUser \/ RejectDuplicateUser \/ Summarize
         \/ ProtectRecord \/ RejectBlankIdentifier \/ CheckCollection \/ RejectCollection
  PROVE  Carrying' /\ Displaying' /\ Logging' /\ Previewing'
  <1>1. UNCHANGED <<provider, records, pseudonym>>
    BY SameInputs DEF Next
  <1>2. records \in Seq(Records) /\ Len(records) \in Nat /\ i \in Nat \ {0}
    BY DEF IInv, Typed
  <1>3. CASE \/ Resume \/ MapRecords \/ RejectEmpty \/ RejectMixedDates \/ CheckDates
             \/ CheckUser \/ RejectDuplicateUser \/ RejectBlankIdentifier
             \/ RejectCollection
    <2>1. /\ pc' \in {"mapping", "dates", "users", "failing"}
          /\ UNCHANGED protected
      BY <1>3, <1>2, CheckpointsAreValid
      DEF Resume, MapRecords, RejectEmpty, RejectMixedDates, CheckDates, CheckUser,
          RejectDuplicateUser, RejectBlankIdentifier, RejectCollection, Raise, Proceed,
          Continue, Report
    <2>2. Untouched'
      BY <1>3, <2>1
      DEF IInv, Verdict, Unpublished, Untouched, published, Resume, MapRecords, RejectEmpty,
          RejectMixedDates, CheckDates, CheckUser, RejectDuplicateUser,
          RejectBlankIdentifier, RejectCollection, Raise, Report
    <2>3. ~ Summed' /\ ~ Logged' /\ ~ Accepted'
      BY <2>1 DEF Summed, Logged, Accepted, Publishing
    <2>4. Carrying'
      BY <1>1, <2>1, <2>3, StillCarrying DEF KInv
    <2>5. QED
      BY <2>1, <2>2, <2>3, <2>4, StillUntouched DEF Carrying
  <1>4. CASE Summarize
    <2>1. pc' = "protecting" /\ protected' = <<>> /\ summary' = Aggregate(provider, Normalized)
      BY <1>4 DEF Summarize, Proceed, IInv, WhileChecking, Unpublished
    <2>2. Untouched'
      BY <1>4 DEF IInv, Verdict, Unpublished, Untouched, published, Summarize
    <2>3. ~ Logged' /\ ~ Accepted'
      BY <2>1 DEF Logged, Accepted
    <2>4. Carrying'
      <3>1. protected' \in Seq(ProtectedRecords) /\ Len(protected') = 0
        BY <2>1
      <3>2. summary' = Aggregate(provider, Normalized)' /\ ActivitiesTyped'
        BY <1>1, <2>1, SameData DEF KInv, Carrying
      <3>3. QED
        BY <1>1, <1>2, <2>3, <3>1, <3>2 DEF Carrying
    <2>5. QED
      BY <2>1, <2>2, <2>3, <2>4, StillUntouched DEF Carrying
  <1>5. CASE ProtectRecord
    <2>1. /\ pc = "protecting" /\ pc' = "protecting" /\ i <= Len(records)
          /\ protected' = Append(protected, ProtectedOf(i))
          /\ summary' = summary
      BY <1>5 DEF ProtectRecord, Continue, ProtectedOf
    <2>2. Untouched'
      BY <1>5 DEF IInv, Verdict, Unpublished, Untouched, published, ProtectRecord
    <2>3. ~ Logged' /\ ~ Accepted' /\ Summed
      BY <2>1 DEF Logged, Accepted, Summed
    <2>4. /\ protected \in Seq(ProtectedRecords) /\ Len(protected) = i - 1
          /\ summary = Aggregate(provider, Normalized)
          /\ \A k \in 1 .. i - 1 : protected[k] = ProtectedOf(k)
      BY <1>2, <2>1, <2>3
      DEF KInv, Carrying, IInv, WhileProtecting, ProtectedUpTo
    <2>5. /\ protected' \in Seq(ProtectedRecords) /\ Len(protected') = i
          /\ \A k \in 1 .. i : protected'[k] = ProtectedOf(k)
      <3>1. i' = i + 1 /\ pc' = "protecting"
        BY <1>5, <2>1 DEF ProtectRecord, Continue
      <3>2. protected' \in Seq(ProtectedRecords)
        BY <1>2, <3>1 DEF IInv, WhileProtecting, ProtectedUpTo
      <3>3. QED
        BY <1>2, <2>1, <2>4, <3>2
    <2>6. Carrying'
      <3>1. \A k \in 1 .. i : protected'[k] = ProtectedOf(k)'
        BY <1>1, <2>5, SameData
      <3>2. summary' = Aggregate(provider, Normalized)' /\ ActivitiesTyped'
        BY <1>1, <2>1, <2>4, SameData DEF KInv, Carrying
      <3>3. QED
        BY <1>1, <1>2, <2>1, <2>3, <2>5, <3>1, <3>2 DEF Carrying
    <2>7. QED
      BY <2>1, <2>2, <2>3, <2>6, StillUntouched DEF Carrying
  <1>6. CASE CheckCollection
    <2>1. record_count = Len(records)
      BY <1>6 DEF CheckCollection, IInv, Counting, Unpublished, Publishing
    <2>2. /\ pc = "protecting" /\ pc' = "gauges" /\ i' = 1
          /\ UNCHANGED <<summary, protected, published>>
      BY <1>2, <1>6, <2>1, CheckpointsAreValid DEF CheckCollection, Report, Proceed
    <2>3. Untouched'
      BY <2>2 DEF IInv, Verdict, Unpublished, Untouched, published
    <2>4. ~ Logged' /\ ~ Accepted' /\ Summed
      BY <2>2 DEF Logged, Accepted, Summed
    <2>5. Carrying'
      BY <1>1, <2>2, <2>4, StillCarrying DEF KInv
    <2>6. QED
      BY <2>2, <2>3, <2>4, <2>5, StillUntouched DEF Carrying
  <1>7. QED
    BY <1>3, <1>4, <1>5, <1>6

LEMMA GaugesData ==
  ASSUME IInv, IInv', JInv, KInv, SetGauges \/ EndGauges
  PROVE  Carrying' /\ Displaying' /\ Logging' /\ Previewing'
  <1>1. UNCHANGED <<provider, records, pseudonym>> /\ provider \in Providers
    BY SameInputs DEF Next, IInv, Typed
  <1>2. i \in Nat \ {0} /\ Len(EmissionOrder) \in Nat \ {0} /\ pc = "gauges"
    BY DEF IInv, Typed, SetGauges, EndGauges, EmissionOrder
  <1>3. Summed /\ Len(protected) = Len(records) /\ ~ Drawn /\ ~ Logged
    BY <1>2 DEF Summed, Drawn, Logged, Accepted, Publishing, IInv, OncePublishing
  <1>4. pc' \in {"gauges", "events"} /\ UNCHANGED <<summary, protected, events, preview, error>>
    <2>1. CASE SetGauges
      <3>1. DOMAIN ValuesOf(EmissionOrder[i]) \subseteq Instruments[EmissionOrder[i]]
        BY <1>1, <1>2, <2>1, EveryValueHasAGauge DEF SetGauges
      <3>2. QED
        BY <1>2, <2>1, <3>1 DEF SetGauges, Continue
    <2>2. CASE EndGauges
      BY <2>2 DEF EndGauges, Proceed, published
    <2>3. QED
      BY <2>1, <2>2
  <1>5. Summed' /\ ~ Drawn' /\ ~ Logged'
    BY <1>4 DEF Summed, Drawn, Logged, Accepted, Publishing
  <1>6. Carrying'
    BY <1>1, <1>3, <1>4, StillCarrying DEF KInv
  <1>7. events = <<>> /\ preview = None
    <2>1. preview = None
      BY <1>3 DEF KInv, Previewing
    <2>2. QED
      BY <1>2, <2>1 DEF JInv, Showing
  <1>8. Logging' /\ Previewing'
    <2>1. events' \in Seq(ProtectedRecords) /\ Len(events') = 0 /\ Len(protected') \in Nat
      BY <1>4, <1>7 DEF KInv, Carrying
    <2>2. pc' = "events" => i' = 1
      <3>1. SetGauges => pc' \in {"gauges", "failing"}
        BY <1>2 DEF SetGauges, Continue, Raise
      <3>2. QED
        BY <3>1 DEF EndGauges, Proceed
    <2>3. QED
      BY <1>4, <1>5, <1>7, <2>1, <2>2 DEF Logging, Previewing
  <1>9. \A a : ValuesOf(a)' = ValuesOf(a)
    BY <1>1, <1>4, SameData
  <1>10. Displaying'
    <2>1. CASE SetGauges
      <3>0. PICK b : b = EmissionOrder[i]
        OBVIOUS
      <3>1. DOMAIN ValuesOf(b) \subseteq Instruments[b]
        BY <1>1, <1>2, <2>1, <3>0, EveryValueHasAGauge DEF SetGauges
      <3>2. gauges' = [gauges EXCEPT ![b] = ValuesOf(b)] /\ i' = i + 1
        BY <2>1, <3>0, <3>1 DEF SetGauges, Continue
      <3>3. /\ b \in DOMAIN Instruments /\ (b = "generic" \/ provider = "anthropic")
            /\ i = 1 => b = "generic"
        BY <1>1, <1>2, <2>1, <3>0 DEF SetGauges, EmissionOrder, Instruments, Providers
      <3>4. /\ DOMAIN gauges = DOMAIN Instruments /\ DOMAIN gauges' = DOMAIN gauges
            /\ \A a \in DOMAIN gauges :
                 gauges'[a] = IF a = b THEN ValuesOf(b) ELSE gauges[a]
        BY <3>2 DEF KInv, Displaying
      <3>5. \A a \in DOMAIN gauges : ShownOn(a) => ShownOn(a)'
        BY <1>1, <1>5, <1>9, <3>4 DEF ShownOn
      <3>6. ShownOn(b)'
        BY <1>1, <1>5, <1>9, <3>3, <3>4 DEF ShownOn
      <3>7. ShownOn("generic")'
        <4>1. "generic" \in DOMAIN Instruments
          BY DEF Instruments
        <4>2. i > 1 => ShownOn("generic")
          BY <1>2 DEF KInv, Displaying
        <4>3. QED
          BY <1>2, <3>3, <3>4, <3>5, <3>6, <4>1, <4>2
      <3>8. QED
        <4>1. \A a \in DOMAIN gauges : gauges[a] = None \/ ShownOn(a)
          BY DEF KInv, Displaying
        <4>2. \A a \in DOMAIN gauges : gauges'[a] = None \/ ShownOn(a)'
          BY <3>4, <3>5, <3>6, <4>1
        <4>3. QED
          BY <3>4, <3>7, <4>2 DEF Displaying
    <2>2. CASE EndGauges
      <3>1. gauges' = gauges /\ i > 1
        BY <1>2, <2>2 DEF EndGauges, published
      <3>2. \A a : ShownOn(a) => ShownOn(a)'
        BY <1>1, <1>5, <1>9, <3>1 DEF ShownOn
      <3>3. QED
        BY <1>2, <3>1, <3>2 DEF KInv, Displaying
    <2>3. QED
      BY <2>1, <2>2
  <1>11. QED
    BY <1>6, <1>8, <1>10

(* The usage events repeat the protected records, and so does the preview. *)
LEMMA EventsData ==
  ASSUME IInv, JInv, KInv, EmitEvent \/ EndEvents \/ BuildPreview \/ ReportPreview \/ Complete
  PROVE  Carrying' /\ Displaying' /\ Logging' /\ Previewing'
  <1>1. UNCHANGED <<provider, records, pseudonym>>
    BY SameInputs DEF Next
  <1>2. /\ pc \in Publishing \ {"gauges"} /\ error = None /\ Summed
        /\ i \in Nat \ {0} /\ Len(records) \in Nat /\ record_count = Len(records)
    BY DEF EmitEvent, EndEvents, BuildPreview, ReportPreview, Complete, Publishing, IInv,
           Verdict, Summed, Typed, Counting
  <1>3. /\ protected \in Seq(ProtectedRecords) /\ Len(protected) = Len(records)
        /\ Len(protected) \in Nat
    BY <1>2 DEF IInv, OncePublishing
  <1>4. /\ UNCHANGED <<summary, protected, gauges, error>>
        /\ \/ EmitEvent /\ pc' = "events"
           \/ EndEvents /\ pc' = "preview" /\ UNCHANGED <<events, preview>>
           \/ BuildPreview /\ pc' = "written" /\ UNCHANGED events
           \/ ReportPreview /\ pc' = "completing" /\ UNCHANGED <<events, preview>>
           \/ Complete /\ pc' = "done" /\ UNCHANGED <<events, preview>>
    <2>1. CASE EmitEvent
      BY <2>1 DEF EmitEvent, Continue
    <2>2. CASE EndEvents
      BY <2>2 DEF EndEvents, Proceed, published
    <2>3. CASE BuildPreview
      BY <1>2, <2>3 DEF BuildPreview, Proceed, IInv, OncePublishing
    <2>4. CASE ReportPreview
      BY <1>2, <2>4, CheckpointsAreValid DEF ReportPreview, Report, Proceed, published
    <2>5. CASE Complete
      BY <1>2, <2>5, CheckpointsAreValid DEF Complete, Proceed, published
    <2>6. QED
      BY <2>1, <2>2, <2>3, <2>4, <2>5
  <1>5. Summed'
    BY <1>2, <1>4 DEF Summed, Accepted, Publishing
  <1>6. Carrying'
    BY <1>1, <1>2, <1>3, <1>4, StillCarrying DEF KInv
  <1>7. Displaying'
    <2>1. \A a : ValuesOf(a)' = ValuesOf(a)
      BY <1>1, <1>4, SameData
    <2>2. \A a : ShownOn(a) => ShownOn(a)'
      BY <1>1, <1>4, <1>5, <2>1 DEF ShownOn
    <2>3. ShownOn("generic")
      BY <1>2 DEF KInv, Displaying, Logged, Publishing
    <2>4. QED
      BY <1>4, <2>2, <2>3 DEF KInv, Displaying
  <1>8. Logging'
    <2>1. CASE EmitEvent
      <3>1. /\ pc = "events" /\ i <= Len(protected) /\ i' = i + 1 /\ pc' = "events"
            /\ events' = Append(events, protected[i])
        BY <2>1 DEF EmitEvent, Continue
      <3>2. /\ events \in Seq(ProtectedRecords) /\ Len(events) = i - 1
            /\ \A k \in 1 .. i - 1 : events[k] = protected[k]
        BY <1>2, <3>1 DEF KInv, Logging
      <3>3. protected[i] \in ProtectedRecords
        BY <1>2, <1>3, <3>1
      <3>4. /\ events' \in Seq(ProtectedRecords) /\ Len(events') = i
            /\ \A k \in 1 .. i : events'[k] = protected[k]
        BY <1>2, <3>1, <3>2, <3>3
      <3>5. QED
        BY <1>2, <1>4, <3>1, <3>4 DEF Logging, Logged, Accepted
    <2>2. CASE EndEvents
      <3>1. pc = "events" /\ i > Len(protected)
        BY <2>2 DEF EndEvents
      <3>2. Len(events) = Len(protected) /\ pc' = "preview"
        BY <1>2, <1>3, <1>4, <2>2, <3>1 DEF KInv, Logging, EndEvents, Proceed
      <3>3. events' = events
        BY <2>2 DEF EndEvents, published
      <3>4. QED
        BY <1>4, <3>2, <3>3 DEF KInv, Logging
    <2>3. CASE BuildPreview \/ ReportPreview \/ Complete
      <3>1. events' = events /\ Logged /\ pc' # "events"
        BY <1>4, <2>3
        DEF Logged, BuildPreview, ReportPreview, Complete, EmitEvent, EndEvents
      <3>2. QED
        BY <1>4, <3>1 DEF KInv, Logging
    <2>4. QED
      BY <2>1, <2>2, <2>3
  <1>9. Previewing'
    <2>1. CASE EmitEvent \/ EndEvents
      <3>1. preview' = preview /\ ~ Drawn /\ ~ Drawn'
        BY <2>1
        DEF EmitEvent, EndEvents, Continue, Proceed, published, Drawn, Accepted
      <3>2. QED
        BY <3>1 DEF KInv, Previewing
    <2>2. CASE BuildPreview
      <3>1. /\ preview' = [usage_records |-> protected, organization_snapshot |-> summary]
            /\ pc' = "written"
        BY <1>2, <2>2 DEF BuildPreview, Proceed, IInv, OncePublishing
      <3>2. QED
        BY <1>4, <3>1 DEF Previewing, Drawn
    <2>3. CASE ReportPreview \/ Complete
      <3>1. preview' = preview /\ Drawn /\ Drawn'
        BY <1>2, <1>4, <2>3
        DEF Drawn, Accepted, ReportPreview, Complete, EmitEvent, EndEvents, BuildPreview
      <3>2. QED
        BY <1>4, <3>1 DEF KInv, Previewing
    <2>4. QED
      BY <2>1, <2>2, <2>3
  <1>10. QED
    BY <1>6, <1>7, <1>8, <1>9

LEMMA FailData ==
  ASSUME IInv, IInv', KInv, Fail
  PROVE  Carrying' /\ Displaying' /\ Logging' /\ Previewing'
  <1>1. /\ pc' = "done"
        /\ UNCHANGED <<provider, records, pseudonym, protected, gauges, events, preview, error>>
    BY CheckpointsAreValid DEF Fail, published
  <1>2. error # None /\ Untouched
    BY DEF Fail, IInv, Verdict
  <1>3. ~ Summed' /\ ~ Logged' /\ ~ Accepted'
    BY <1>1, <1>2 DEF Summed, Logged, Accepted, Publishing
  <1>4. Carrying'
    BY <1>1, <1>3, StillCarrying DEF KInv
  <1>5. QED
    BY <1>1, <1>2, <1>3, <1>4, StillUntouched DEF Carrying, Untouched

-------------------------------------------------------------------------------
(* A step appends an event that its validator let pass, or none.           *)
LEMMA ToldValid ==
  ASSUME JInv, KInv, NEW e \in EventRecords, ValidCheckpoint(e),
         lifecycle' = lifecycle \/ lifecycle' = Append(lifecycle, e)
  PROVE  \A k \in 1 .. Len(lifecycle') : ValidCheckpoint(lifecycle'[k])
  <1>1. /\ lifecycle \in Seq(EventRecords)
        /\ \A k \in 1 .. Len(lifecycle) : ValidCheckpoint(lifecycle[k])
    BY DEF JInv, Telling, KInv, Bounded
  <1>2. CASE lifecycle' = Append(lifecycle, e)
    <2>1. \A k \in 1 .. Len(lifecycle') : lifecycle'[k] = e \/
            (k \in 1 .. Len(lifecycle) /\ lifecycle'[k] = lifecycle[k])
      BY <1>1, <1>2
    <2>2. QED
      BY <1>1, <2>1
  <1>3. QED
    BY <1>1, <1>2

LEMMA StillBounded ==
  ASSUME JInv, KInv, UNCHANGED <<seenUsers, span>>,
         record_count' \in Nat \cup {None},
         NEW e \in EventRecords, ValidCheckpoint(e),
         lifecycle' = lifecycle \/ lifecycle' = Append(lifecycle, e),
         i' <= 1 + (IF pc' = "gauges" THEN Len(EmissionOrder') ELSE Len(records'))
  PROVE  Bounded'
  BY ToldValid DEF KInv, Bounded

LEMMA BoundedStep ==
  ASSUME IInv, IInv', JInv, KInv, Next
  PROVE  Bounded'
  <1> DEFINE n == Len(records)
             told == {Event("records_mapped", "in_progress", n),
                      Event("aggregation_completed", "in_progress", n),
                      Event("preview_written", "in_progress", n),
                      Event("collection_completed", "success", n),
                      Event("collection_failed", "failed", record_count)}
  <1>1. /\ UNCHANGED <<provider, records, pseudonym>> /\ EmissionOrder' = EmissionOrder
        /\ n \in Nat /\ i \in Nat \ {0} /\ Len(EmissionOrder) \in Nat \ {0}
        /\ record_count \in Nat \cup {None} /\ seenUsers \subseteq Users \cup {Blank}
        /\ i <= 1 + (IF pc = "gauges" THEN Len(EmissionOrder) ELSE n)
    BY SameInputs, SameData DEF IInv, Typed, EmissionOrder, KInv, Bounded
  <1>2. \A e \in told : e \in EventRecords /\ ValidCheckpoint(e)
    <2>1. \A c \in Nat \cup {None} :
            /\ Event("records_mapped", "in_progress", c) \in EventRecords
            /\ Event("aggregation_completed", "in_progress", c) \in EventRecords
            /\ Event("preview_written", "in_progress", c) \in EventRecords
            /\ Event("collection_completed", "success", c) \in EventRecords
            /\ Event("collection_failed", "failed", c) \in EventRecords
      BY DEF Event, EventRecords
    <2> HIDE DEF n
    <2>2. QED
      BY <1>1, <2>1, CheckpointsAreValid
  <1> HIDE DEF told
  <1>3. CASE Resume \/ RejectEmpty \/ RejectMixedDates \/ RejectDuplicateUser
             \/ RejectBlankIdentifier \/ RejectCollection
    <2>1. /\ UNCHANGED <<i, seenUsers, record_count, lifecycle, span>>
          /\ pc # "gauges" /\ pc' # "gauges"
      BY <1>3
      DEF Resume, RejectEmpty, RejectMixedDates, RejectDuplicateUser,
          RejectBlankIdentifier, RejectCollection, Raise, reported
    <2>2. QED
      BY <1>1, <2>1 DEF KInv, Bounded
  <1>4. CASE MapRecords \/ CheckCollection \/ ReportPreview
    <2>1. record_count' = n
      BY <1>4
      DEF MapRecords, CheckCollection, ReportPreview, IInv, Counting, Unpublished, Publishing
    <2>2. PICK e \in told : /\ lifecycle' = Append(lifecycle, e) /\ i' = 1
                            /\ UNCHANGED <<seenUsers, span>>
      <3>1. CASE MapRecords
        BY <1>1, <2>1, <3>1, CheckpointsAreValid DEF MapRecords, Report, Proceed, told
      <3>2. CASE CheckCollection
        BY <1>1, <2>1, <3>2, CheckpointsAreValid DEF CheckCollection, Report, Proceed, told
      <3>3. CASE ReportPreview
        BY <1>1, <2>1, <3>3, CheckpointsAreValid DEF ReportPreview, Report, Proceed, told
      <3>4. QED
        BY <1>4, <3>1, <3>2, <3>3
    <2>3. QED
      BY <1>1, <1>2, <2>1, <2>2, StillBounded
  <1>5. CASE CheckDates \/ Summarize \/ EndGauges \/ EndEvents
    <2>1. i' = 1 /\ UNCHANGED <<seenUsers, record_count, lifecycle, span>>
      BY <1>5 DEF CheckDates, Summarize, EndGauges, EndEvents, Proceed, reported
    <2>2. QED
      BY <1>1, <2>1 DEF KInv, Bounded
  <1>6. CASE CheckUser
    <2>1. records[i].user \in Users \cup {Blank}
      <3>1. records[i] \in Records
        BY <1>1, <1>6 DEF CheckUser, IInv, Typed
      <3>2. QED
        BY <3>1 DEF Records
    <2>2. /\ seenUsers' = seenUsers \cup {records[i].user} /\ i' = i + 1 /\ i <= n
          /\ pc = "users" /\ UNCHANGED <<pc, record_count, lifecycle, span>>
      BY <1>6 DEF CheckUser, Continue, reported
    <2>3. QED
      BY <1>1, <2>1, <2>2 DEF KInv, Bounded
  <1>7. CASE ProtectRecord \/ EmitEvent
    <2>1. /\ i' = i + 1 /\ pc # "gauges"
          /\ UNCHANGED <<pc, seenUsers, record_count, lifecycle, span>>
      BY <1>7 DEF ProtectRecord, EmitEvent, Continue, reported
    <2>2. i <= n
      BY <1>7 DEF ProtectRecord, EmitEvent, IInv, OncePublishing, Publishing
    <2>3. QED
      BY <1>1, <2>1, <2>2 DEF KInv, Bounded
  <1>8. CASE SetGauges
    <2>1. DOMAIN ValuesOf(EmissionOrder[i]) \subseteq Instruments[EmissionOrder[i]]
      BY <1>1, <1>8, EveryValueHasAGauge DEF SetGauges, IInv, Typed
    <2>2. /\ i' = i + 1 /\ i <= Len(EmissionOrder) /\ pc = "gauges"
          /\ UNCHANGED <<pc, seenUsers, record_count, lifecycle, span>>
      BY <1>8, <2>1 DEF SetGauges, Continue, reported
    <2>3. QED
      BY <1>1, <2>2 DEF KInv, Bounded
  <1>9. CASE BuildPreview
    <2>1. i' = 1 /\ UNCHANGED <<seenUsers, record_count, lifecycle, span>>
      BY <1>9 DEF BuildPreview, Proceed, reported, IInv, OncePublishing, Publishing
    <2>2. QED
      BY <1>1, <2>1 DEF KInv, Bounded
  <1>10. CASE Complete
    <2>1. record_count = n
      BY <1>10 DEF Complete, IInv, Counting, Publishing
    <2>2. PICK e \in told : lifecycle' = Append(lifecycle, e)
      BY <1>1, <1>10, <2>1, CheckpointsAreValid DEF Complete, told
    <2>3. /\ i' = 1 /\ UNCHANGED <<seenUsers, record_count>>
          /\ span' = [status |-> "success", record_count |-> record_count]
      BY <1>1, <1>10, <2>1, CheckpointsAreValid DEF Complete, Proceed
    <2>4. \A k \in 1 .. Len(lifecycle') : ValidCheckpoint(lifecycle'[k])
      BY <1>2, <2>2, ToldValid
    <2>5. QED
      BY <1>1, <2>3, <2>4 DEF Bounded
  <1>11. CASE Fail
    <2>1. /\ pc = "failing" /\ pc' = "done" /\ UNCHANGED <<i, seenUsers, record_count>>
          /\ lifecycle' = Append(lifecycle, Event("collection_failed", "failed", record_count))
          /\ span' = [span EXCEPT !.status = "failed"]
      BY <1>11, CheckpointsAreValid DEF Fail
    <2>2. span' = [status |-> "failed", record_count |-> None]
      BY <2>1 DEF JInv, Telling
    <2>3. PICK e \in told : lifecycle' = Append(lifecycle, e)
      BY <2>1 DEF told
    <2>4. \A k \in 1 .. Len(lifecycle') : ValidCheckpoint(lifecycle'[k])
      BY <1>2, <2>3, ToldValid
    <2>5. QED
      BY <1>1, <2>1, <2>2, <2>4 DEF Bounded
  <1>12. QED
    BY <1>3, <1>4, <1>5, <1>6, <1>7, <1>8, <1>9, <1>10, <1>11 DEF Next

LEMMA StepData == ASSUME IInv, IInv', JInv, KInv, [Next]_vars PROVE KInv'
  <1>1. CASE UNCHANGED vars
    <2>1. UNCHANGED <<provider, records, pseudonym, pc, i, seenUsers, summary, protected,
                      gauges, events, preview, error, record_count, lifecycle, span>>
      BY <1>1 DEF vars, published, reported
    <2>2. /\ (Summed' <=> Summed) /\ (Accepted' <=> Accepted)
          /\ (Logged' <=> Logged) /\ (Drawn' <=> Drawn)
      BY <2>1 DEF Summed, Accepted, Logged, Drawn
    <2>3. Carrying'
      BY <2>1, <2>2, StillCarrying DEF KInv, Carrying
    <2>4. \A a : ShownOn(a) <=> ShownOn(a)'
      BY <2>1, <2>2, SameData DEF ShownOn
    <2>5. Displaying'
      BY <2>1, <2>2, <2>4 DEF KInv, Displaying
    <2>6. Logging' /\ Previewing' /\ Bounded'
      BY <2>1, <2>2, SameData DEF KInv, Logging, Previewing, Bounded
    <2>7. QED
      BY <2>3, <2>5, <2>6 DEF KInv
  <1>2. CASE Next
    <2>1. Carrying' /\ Displaying' /\ Logging' /\ Previewing'
      BY <1>2, UnpublishedData, GaugesData, EventsData, FailData DEF Next
    <2>2. QED
      BY <1>2, <2>1, BoundedStep DEF KInv
  <1>3. QED
    BY <1>1, <1>2

-------------------------------------------------------------------------------
(* At every stage the summary is the sum of the records, the protected     *)
(* records and the events are theirs in their order, and every gauge set   *)
(* shows the summary (aggregate_*, protect_*, emit, emit_collection).      *)
THEOREM DataInvariance == Spec => []KInv
  BY InitData, StepData, Invariance, Reporting, PTL DEF Spec

LEMMA PublishedData ==
  ASSUME IInv, KInv, Logged
  PROVE  /\ events = protected /\ SameActivities(events)
         /\ summary = Aggregate(provider, Normalized)
         /\ Len(events) = Len(records) /\ DOMAIN events = 1 .. Len(records)
         /\ \A k \in 1 .. Len(records) :
              events[k].pseudonymous_user_id = pseudonym[records[k].user]
  <1>1. /\ Summed /\ Len(protected) = Len(records) /\ protected \in Seq(ProtectedRecords)
        /\ Len(records) \in Nat /\ records \in Seq(Records)
    BY DEF Logged, Summed, Publishing, IInv, OncePublishing, KInv, Carrying, Typed
  <1>2. /\ events \in Seq(ProtectedRecords) /\ Len(events) = Len(records)
        /\ \A k \in 1 .. Len(events) : events[k] = protected[k]
    BY <1>1 DEF KInv, Logging
  <1>3. events = protected
    BY <1>1, <1>2
  <1>4. \A k \in 1 .. Len(records) : events[k] = ProtectedOf(k)
    BY <1>1, <1>3 DEF KInv, Carrying
  <1>5. DOMAIN records = 1 .. Len(records) /\ DOMAIN events = 1 .. Len(records)
    BY <1>1, <1>2
  <1>6. \A k \in DOMAIN records : /\ events[k].activity = Normalized[k].activity
                                  /\ events[k].extension = Normalized[k].extension
    BY <1>4, <1>5 DEF ProtectedOf
  <1>7. \A k \in 1 .. Len(records) :
          events[k].pseudonymous_user_id = pseudonym[records[k].user]
    BY <1>1, <1>4, <1>5, NormalizedRecords DEF ProtectedOf
  <1>8. QED
    BY <1>1, <1>2, <1>3, <1>5, <1>6, <1>7 DEF SameActivities, KInv, Carrying

(* A ratio of counts is a ratio.                                           *)
LEMMA RatioOfCounts ==
  ASSUME NEW a \in Nat, NEW b \in Nat
  PROVE  /\ AcceptanceRate(a, b) \in Nat \X (Nat \ {0})
         /\ AcceptanceRate(a, b)[1] * (a + b) = AcceptanceRate(a, b)[2] * a
         /\ AcceptanceRate(a, b)[1] <= AcceptanceRate(a, b)[2]
  <1>1. CASE a + b = 0
    BY <1>1 DEF AcceptanceRate
  <1>2. CASE a + b # 0
    <2>1. AcceptanceRate(a, b) = <<a, a + b>>
      BY <1>2 DEF AcceptanceRate
    <2>2. a * (a + b) = (a + b) * a
      OBVIOUS
    <2>3. QED
      BY <1>2, <2>1, <2>2
  <1>3. QED
    BY <1>1, <1>2

(* The summary's common counts are the sums of what their names say.       *)
LEMMA SummaryCommonSums ==
  ASSUME IInv, KInv, Logged
  PROVE  ShowsCommonSums(summary)
  <1>1. /\ SameActivities(events) /\ summary = Aggregate(provider, Normalized)
        /\ DOMAIN events = DOMAIN records
    BY PublishedData DEF SameActivities
  <1>2. \A k \in DOMAIN records :
          /\ Normalized[k].activity = CommonActivity(records[k].activity)
          /\ Normalized[k].extension = records[k].activity
    BY NormalizedRecords DEF IInv, Typed
  <1>3. ASSUME NEW c \in CommonCountNames
        PROVE  /\ summary[c] = CommonTotal(events, c)
               /\ summary[c] = SumOf(events, LAMBDA e : CommonMeaning(e.extension)[c])
    <2>1. summary[c] = CommonTotal(Normalized, c)
      BY <1>1, <1>3 DEF Aggregate, CommonCountNames
    <2>2. CommonTotal(Normalized, c) = CommonTotal(events, c)
      BY <1>1, CommonSums
    <2>3. \A k \in DOMAIN events :
            CommonMeaning(events[k].extension)[c] = events[k].activity[c]
      <3>1. \A a : CommonMeaning(a)[c] = CommonActivity(a)[c]
        BY <1>3 DEF CommonMeaning, CommonActivity, CommonCountNames
      <3>2. QED
        BY <1>1, <1>2, <3>1 DEF SameActivities
    <2>4. SumOf(events, LAMBDA e : CommonMeaning(e.extension)[c]) = CommonTotal(events, c)
      BY <2>3 DEF CommonTotal, SumOf
    <2>5. QED
      BY <2>1, <2>2, <2>4
  <1>4. QED
    BY <1>3 DEF ShowsCommonSums

LEMMA GenericSums ==
  ASSUME IInv, KInv, Accepted
  PROVE  LET generic == gauges["generic"] IN
           /\ generic.user = Cardinality({events[k].pseudonymous_user_id : k \in DOMAIN events})
           /\ generic.active_user = Cardinality({k \in DOMAIN events : IsActive(events[k].extension)})
           /\ generic.active_user <= generic.user
           /\ generic.active_user = 0 =>
                generic.chat_interaction = 0 /\ generic.developer_session = 0
           /\ ShowsCommonSums(generic)
           /\ generic.acceptance_ratio[1] * (generic.accepted + generic.rejected)
                = generic.acceptance_ratio[2] * generic.accepted
           /\ generic.acceptance_ratio[1] <= generic.acceptance_ratio[2]
  <1> DEFINE n == Len(records)
             sums == Aggregate(provider, Normalized)
  <1>1. /\ SameActivities(events) /\ summary = sums
        /\ Len(events) = n /\ DOMAIN events = 1 .. n
        /\ \A k \in 1 .. n : events[k].pseudonymous_user_id = pseudonym[records[k].user]
        /\ n \in Nat /\ DOMAIN records = 1 .. n
    BY PublishedData DEF Logged, IInv, Typed
  <1>2. gauges["generic"] = GenericValues
    BY DEF KInv, Displaying, Logged, ShownOn, ValuesOf
  <1>3. /\ GenericValues.user = sums.total_users
        /\ GenericValues.active_user = sums.active_users
        /\ GenericValues.chat_interaction = sums.chat_interaction
        /\ GenericValues.developer_session = sums.developer_session
        /\ GenericValues.accepted = sums.accepted
        /\ GenericValues.rejected = sums.rejected
        /\ GenericValues.acceptance_ratio = sums.acceptance_rate
    BY <1>1 DEF GenericValues
  <1>4. /\ sums.total_users = n /\ sums.active_users \in 0 .. n
        /\ sums.accepted \in Nat /\ sums.rejected \in Nat
        /\ sums.active_users = 0 => sums.chat_interaction = 0 /\ sums.developer_session = 0
    BY AggregateCounts DEF KInv, Carrying
  <1>5. sums.acceptance_rate = AcceptanceRate(sums.accepted, sums.rejected)
    BY DEF Aggregate
  <1>6. Cardinality({events[k].pseudonymous_user_id : k \in DOMAIN events}) = n
    <2> DEFINE f == [k \in 1 .. n |-> pseudonym[records[k].user]]
    <2>1. {events[k].pseudonymous_user_id : k \in DOMAIN events} = {f[k] : k \in 1 .. n}
      BY <1>1
    <2>2. \A j, k \in 1 .. n : j # k => f[j] # f[k]
      BY <1>1 DEF Accepted, IInv, Verdict, Acceptable
    <2>3. n \in Nat
      BY <1>1
    <2> HIDE DEF f, n
    <2>4. Cardinality({f[k] : k \in 1 .. n}) = n
      BY <2>2, <2>3, DistinctImage
    <2>5. QED
      BY <2>1, <2>4
  <1>7. sums.active_users = Cardinality({k \in DOMAIN events : IsActive(events[k].extension)})
    <2>1. sums.active_users = Cardinality({k \in DOMAIN Normalized : Normalized[k].activity.is_active})
      BY DEF Aggregate
    <2>2. /\ DOMAIN Normalized = DOMAIN records
          /\ \A k \in DOMAIN records :
               /\ Normalized[k].activity = CommonActivity(records[k].activity)
               /\ Normalized[k].extension = records[k].activity
      BY NormalizedRecords DEF IInv, Typed
    <2>3. \A k \in DOMAIN records : Normalized[k].activity.is_active <=> IsActive(events[k].extension)
      <3>1. \A a : CommonActivity(a).is_active <=> IsActive(a)
        BY DEF CommonActivity
      <3>2. \A k \in DOMAIN records : events[k].extension = records[k].activity
        BY <1>1, <2>2 DEF SameActivities
      <3>3. QED
        BY <2>2, <3>1, <3>2
    <2>4. {k \in DOMAIN Normalized : Normalized[k].activity.is_active}
            = {k \in DOMAIN events : IsActive(events[k].extension)}
      BY <1>1, <2>2, <2>3
    <2>5. QED
      BY <2>1, <2>4
  <1>8. ShowsCommonSums(gauges["generic"])
    <2>1. ShowsCommonSums(summary)
      BY SummaryCommonSums DEF Logged
    <2>2. \A c \in CommonCountNames : gauges["generic"][c] = summary[c]
      BY <1>2 DEF GenericValues, CommonCountNames
    <2>3. QED
      BY <2>1, <2>2 DEF ShowsCommonSums
  <1> HIDE DEF sums, n
  <1>9. /\ sums.active_users <= n
        /\ sums.acceptance_rate[1] * (sums.accepted + sums.rejected)
             = sums.acceptance_rate[2] * sums.accepted
        /\ sums.acceptance_rate[1] <= sums.acceptance_rate[2]
    <2>1. sums.active_users <= n
      BY <1>1, <1>4
    <2> DEFINE a == sums.accepted
               b == sums.rejected
    <2>2. a \in Nat /\ b \in Nat /\ sums.acceptance_rate = AcceptanceRate(a, b)
      BY <1>4, <1>5
    <2> HIDE DEF a, b
    <2>3. /\ sums.acceptance_rate[1] * (a + b) = sums.acceptance_rate[2] * a
          /\ sums.acceptance_rate[1] <= sums.acceptance_rate[2]
      BY <2>2, RatioOfCounts
    <2>4. QED
      BY <2>1, <2>3 DEF a, b
  <1>10. QED
    BY <1>2, <1>3, <1>4, <1>6, <1>7, <1>8, <1>9

(* The summary's totals of an area are the sums of what their names say.   *)
LEMMA SummarySums ==
  ASSUME IInv, KInv, Logged, NEW a \in DOMAIN summary.provider_activity,
         NEW t \in DOMAIN summary.provider_activity[a]
  PROVE  summary.provider_activity[a][t]
           = SumOf(events, LAMBDA e : e.extension[a][TotalMeaning[t]])
  <1>1. SameActivities(events) /\ summary = Aggregate(provider, Normalized)
    BY PublishedData
  <1>2. summary.provider_activity = ProviderTotals(provider, Normalized)
    BY <1>1 DEF Aggregate
  <1>3. QED
    BY <1>1, <1>2, ProviderSums DEF SumOf

(* The gauges of an area, of which only Anthropic's are set, are the sums  *)
(* of what their names say.                                                *)
LEMMA AreaSums ==
  ASSUME IInv, KInv, Accepted, NEW a \in DOMAIN gauges \ {"generic"}, gauges[a] # None,
         NEW g \in DOMAIN gauges[a]
  PROVE  gauges[a][g] = SumOf(events, LAMBDA e : e.extension[a][GaugeMeaning[g]])
  <1>1. /\ provider = "anthropic" /\ gauges[a] = ValuesOf(a)
        /\ a \in DOMAIN Instruments \ {"generic"}
    BY DEF KInv, Displaying, ShownOn
  <1>2. /\ g \in DOMAIN AnthropicGauges[a]
        /\ gauges[a][g] = summary.provider_activity[a][AnthropicGauges[a][g]]
    BY <1>1 DEF ValuesOf
  <1> DEFINE t == AnthropicGauges[a][g]
  <1>3. /\ a \in DOMAIN AnthropicTotals /\ t \in DOMAIN AnthropicTotals[a]
        /\ AnthropicTotals[a][t] = GaugeMeaning[g]
    BY <1>1, <1>2, GaugesMean
  <1> HIDE DEF t
  <1>4. SameActivities(events) /\ summary = Aggregate(provider, Normalized)
    BY PublishedData DEF Logged
  <1>5. /\ summary.provider_activity = ProviderTotals(provider, Normalized)
        /\ TotalsOf(provider) = AnthropicTotals
    BY <1>1, <1>4 DEF Aggregate, TotalsOf
  <1>6. a \in DOMAIN summary.provider_activity /\ t \in DOMAIN summary.provider_activity[a]
    BY <1>3, <1>5 DEF ProviderTotals
  <1>7. summary.provider_activity[a][t]
          = SumOf(events, LAMBDA e : e.extension[a][TotalMeaning[t]])
    BY <1>6, SummarySums DEF Logged
  <1>8. TotalMeaning[t] = GaugeMeaning[g]
    BY <1>3, <1>5, TotalsMean DEF IInv, Typed
  <1>9. QED
    BY <1>2, <1>7, <1>8 DEF t

(* Every gauge of a count, chats, sessions and tool actions included, is   *)
(* the sum of what its name says over the usage events, for any number of  *)
(* users and any counts: what aggregation.py adds up before privacy        *)
(* processing is what usage_events.py emits after it.                      *)
THEOREM GaugesAgree == Spec => []GaugesSumTheEvents
  <1>1. ASSUME IInv, KInv PROVE GaugesSumTheEvents
    <2>1. SUFFICES ASSUME Accepted PROVE GaugesSumTheEvents
      BY DEF Accepted, GaugesSumTheEvents
    <2>2. QED
      BY <1>1, <2>1, GenericSums, AreaSums DEF GaugesSumTheEvents
  <1>2. QED
    BY <1>1, Invariance, DataInvariance, PTL

(* The preview document, and with it the answer to /collect, has the       *)
(* records of the usage events, and common counts and provider totals that *)
(* are their sums.                                                         *)
THEOREM PreviewAgreesWithEvents == Spec => []PreviewSumsTheEvents
  <1>1. ASSUME IInv, KInv PROVE PreviewSumsTheEvents
    <2>1. SUFFICES ASSUME preview # None PROVE PreviewSumsTheEvents
      BY DEF PreviewSumsTheEvents
    <2>2. Drawn /\ Logged
      BY <1>1, <2>1 DEF KInv, Previewing, Drawn, Logged
    <2>3. preview = [usage_records |-> protected, organization_snapshot |-> summary]
      BY <1>1, <2>2 DEF KInv, Previewing
    <2>4. events = protected /\ Len(events) = Len(records)
      BY <1>1, <2>2, PublishedData
    <2>5. summary.total_users = Len(events)
      <3>1. summary = Aggregate(provider, Normalized) /\ records \in Seq(Records)
        BY <1>1, <2>2, PublishedData DEF IInv, Typed
      <3>2. QED
        BY <2>4, <3>1, AggregateFields, NormalizedRecords
    <2>6. QED
      BY <1>1, <2>2, <2>3, <2>4, <2>5, SummarySums, SummaryCommonSums
      DEF PreviewSumsTheEvents
  <1>2. QED
    BY <1>1, Invariance, DataInvariance, PTL

(* What the gauges of the users show is counts.                            *)
LEMMA GenericCounts == ASSUME IInv, KInv, Summed PROVE GenericValues \in Counts
  <1> DEFINE sums == Aggregate(provider, Normalized)
  <1>1. summary = sums /\ Len(records) \in Nat
    BY DEF KInv, Carrying, IInv, Typed
  <1>2. /\ sums.total_users \in Nat /\ sums.active_users \in Nat
        /\ sums.chat_interaction \in Nat /\ sums.developer_session \in Nat
        /\ sums.accepted \in Nat /\ sums.rejected \in Nat
    BY <1>1, AggregateCounts DEF KInv, Carrying
  <1>3. sums.acceptance_rate = AcceptanceRate(sums.accepted, sums.rejected)
    BY DEF Aggregate
  <1> HIDE DEF sums
  <1>4. sums.acceptance_rate \in Nat \X (Nat \ {0})
    BY <1>2, <1>3, RatioOfCounts
  <1>5. QED
    BY <1>1, <1>2, <1>4 DEF GenericValues, Counts

(* The state has its type; of a gauge, that it shows counts.               *)
THEOREM TypeCorrect == Spec => []TypeOK
  <1>1. ASSUME IInv, JInv, KInv PROVE TypeOK
    <2>1. /\ provider \in Providers /\ records \in Seq(Records)
          /\ pseudonym \in [Users -> Pseudonyms] /\ error \in Errors \cup {None}
          /\ pc \in Unpublished \cup Publishing \cup {"failing", "done"}
          /\ i \in Nat \ {0} /\ Len(records) \in Nat /\ Len(EmissionOrder) \in Nat
      BY <1>1 DEF IInv, Typed, EmissionOrder
    <2>2. i \in 1 .. 1 + (IF pc = "gauges" THEN Len(EmissionOrder) ELSE Len(records))
      BY <1>1, <2>1 DEF KInv, Bounded
    <2>3. /\ protected \in Seq(ProtectedRecords)
          /\ \A k \in DOMAIN protected : /\ protected[k].pseudonymous_user_id \in Pseudonyms
                                         /\ protected[k].date \in Dates
      <3>1. protected \in Seq(ProtectedRecords)
        BY <1>1 DEF KInv, Carrying
      <3>2. \A k \in DOMAIN protected : protected[k] \in ProtectedRecords
        BY <3>1
      <3>3. QED
        BY <3>1, <3>2 DEF ProtectedRecords
    <2>4. gauges["generic"] \in Counts \cup {None}
      <3>1. SUFFICES ASSUME gauges["generic"] # None PROVE gauges["generic"] \in Counts
        OBVIOUS
      <3>2. gauges["generic"] = GenericValues /\ Summed
        BY <1>1, <3>1 DEF KInv, Displaying, ShownOn, ValuesOf, Instruments
      <3>3. QED
        BY <1>1, <3>2, GenericCounts
    <2>5. events \in Seq({protected[k] : k \in DOMAIN protected})
      <3> DEFINE T == {protected[k] : k \in DOMAIN protected}
      <3>1. /\ events \in Seq(ProtectedRecords) /\ Len(events) <= Len(protected)
            /\ \A k \in 1 .. Len(events) : events[k] = protected[k]
        BY <1>1 DEF KInv, Logging
      <3>2. \A k \in 1 .. Len(events) : events[k] \in T
        BY <2>3, <3>1
      <3> HIDE DEF T
      <3>3. events \in Seq(T)
        BY <3>1, <3>2
      <3>4. QED
        BY <3>3 DEF T
    <2>6. \A k \in DOMAIN lifecycle : ValidCheckpoint(lifecycle[k])
      <3>1. lifecycle \in Seq(EventRecords)
        BY <1>1 DEF JInv, Telling
      <3>2. QED
        BY <1>1, <3>1 DEF KInv, Bounded
    <2>7. QED
      BY <1>1, <2>1, <2>2, <2>3, <2>4, <2>5, <2>6
      DEF TypeOK, KInv, Bounded, Unpublished, Publishing
  <1>2. QED
    BY <1>1, Invariance, Reporting, DataInvariance, PTL

===============================================================================
