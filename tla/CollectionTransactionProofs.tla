---------------------- MODULE CollectionTransactionProofs ----------------------
(***************************************************************************)
(* Proofs of what a collection tells, publishes and leaves behind, and     *)
(* that Collection implements Publication, for every number of requests,   *)
(* dates, gauges, revisions and crashes.  They build on the invariant of   *)
(* CollectionProofs.                                                       *)
(***************************************************************************)
EXTENDS CollectionTransaction, CollectionProofs, SequenceTheorems

(* The first n checkpoints.                                                *)
Told(n) == SubSeq(Checkpoints, 1, n)

Usable(r) == r.answer # None /\ r.answer.usable
Silent(r) == r.usage = 0 /\ r.gaugesSet = 0
Emitted(r) == r.usage = 1 /\ r.gaugesSet = GaugeCount /\ Usable(r)
Telling(r, n) == r.span = "started" /\ r.events = Told(n)
Unopened(r) == r.span = "none" /\ r.events = <<>> /\ Silent(r)

(* What a call under way, with settings s, has told and published at each  *)
(* point of the workflow.                                                  *)
Underway(s, r) ==
  /\ r.reply = None
  /\ r.pc \in {"idle", "queued"} => Unopened(r)
  /\ r.pc = "awaiting" => s.provider = "anthropic"
  /\ r.pc \in {"awaiting", "mapping"} => Telling(r, 1) /\ Silent(r)
  /\ r.pc = "protecting" => Telling(r, 2) /\ Silent(r)
  /\ r.pc = "metering" => Telling(r, 3) /\ Usable(r) /\ r.usage = 0
  /\ r.pc = "logging" =>
       Telling(r, 3) /\ Usable(r) /\ r.usage = 0 /\ r.gaugesSet = GaugeCount
  /\ r.pc \in {"previewing", "completing"} => Telling(r, 3) /\ Emitted(r)
  /\ r.pc = "failing" =>
       /\ \E n \in 1 .. 3 : Telling(r, n)
       /\ Silent(r) \/ (Emitted(r) /\ s.preview /\ r.error = "OtherError")

(* The five ways a call can be over.                                       *)
Succeeded(r) ==
  r.reply = "summary" /\ r.span = "success" /\ r.events = Checkpoints /\ Emitted(r)
Failed(s, r) ==
  /\ r.span = "failed"
  /\ \E n \in 1 .. 3 : r.events = Append(Told(n), "collection_failed")
  /\ \/ r.reply \in {"ProviderError", "CollectionFailed"} /\ Silent(r)
     \/ r.reply = "CollectionFailed" /\ Emitted(r) /\ s.preview
Refused(r) == r.reply = "ServiceConfigurationError" /\ Unopened(r)
Cancelled(r) == r.reply = "cancelled" /\ Telling(r, 1) /\ Silent(r)
Lost(r) ==
  /\ r.reply = "lost"
  /\ Unopened(r) \/ (\E n \in 1 .. 3 : Telling(r, n))
  /\ r.usage > 0 => Usable(r)
Over(s, r) == Succeeded(r) \/ Failed(s, r) \/ Refused(r) \/ Cancelled(r) \/ Lost(r)

Story(s, r) == IF r.pc = "done" THEN Over(s, r) ELSE Underway(s, r)

Stories == \A c \in Calls : Story(settings, call[c])

(* What anybody is shown belongs to its date and passed the protection.    *)
ShownProtected ==
  /\ \A g \in Gauges, d \in Dates : \A x \in {gauges[g][d], exported[g][d]} \ {None} :
       call[x].date = d /\ Usable(call[x])
  /\ preview # None => Usable(call[preview])

(* From its last gauge to its end a call owns all gauges of its date.      *)
GaugesOwned ==
  \A c \in Calls : call[c].pc \in {"logging", "previewing", "completing"} =>
    \A g \in Gauges : gauges[g][call[c].date] = c

(* As PreviewAgreesWithGauges, but at every moment, and already of a call  *)
(* that has only to return.                                                *)
Succeeding(c) == call[c].pc = "completing" \/ call[c].reply = "summary"
PreviewKept ==
  settings.preview => \A d \in Dates : LET x == gauges[1][d] IN
    x # None /\ Succeeding(x) =>
      preview # None /\ (call[preview].date = d => preview = x)

(* What OneStoryPerCall says of a call, and that only what was protected   *)
(* is emitted as usage events.                                             *)
Agreement(r) ==
  /\ (r.span = "success") <=> (r.events = Checkpoints)
  /\ (r.span = "success") <=> (r.reply = "summary")
  /\ (r.span = "failed") <=> (\E n \in 1 .. 3 :
       r.events = Append(Told(n), "collection_failed"))
  /\ (r.span = "failed") <=> (r.reply \in {"ProviderError", "CollectionFailed"})
  /\ r.span = "started" => \E n \in 1 .. 3 : r.events = Told(n)
  /\ r.usage > 0 => Usable(r)

SInv == Stories /\ ShownProtected /\ GaugesOwned /\ PreviewKept

-------------------------------------------------------------------------------
(* The lifecycle events along the workflow, and that none of the sequences *)
(* a call can have emitted is taken for another one.                       *)
LEMMA Tellings ==
  /\ Append(<<>>, "collection_started") = Told(1)
  /\ Append(Told(1), "records_mapped") = Told(2)
  /\ Append(Told(2), "aggregation_completed") = Told(3)
  /\ Told(3) \o <<"preview_written", "collection_completed">> = Checkpoints
  /\ Checkpoints # <<>>
  /\ \A n \in 1 .. 3 :
       /\ Told(n) # <<>> /\ Told(n) # Checkpoints
       /\ Append(Told(n), "collection_failed") # <<>>
       /\ Append(Told(n), "collection_failed") # Checkpoints
       /\ \A m \in 1 .. 3 : Append(Told(n), "collection_failed") # Told(m)
  <1>1. /\ Len(Checkpoints) = 5
        /\ Checkpoints[1] = "collection_started" /\ Checkpoints[2] = "records_mapped"
        /\ Checkpoints[3] = "aggregation_completed"
        /\ Checkpoints[4] = "preview_written"
        /\ Checkpoints[5] = "collection_completed"
    BY DEF Checkpoints
  <1>2. \A i \in 1 .. 5 : Checkpoints[i] \in EventNames
    BY <1>1 DEF EventNames
  <1>3. Checkpoints \in Seq(EventNames)
    BY <1>1, <1>2 DEF Checkpoints
  <1>4. \A i \in 1 .. 5 : Checkpoints[i] # "collection_failed"
    <2>1. \A i \in 1 .. 5 : i = 1 \/ i = 2 \/ i = 3 \/ i = 4 \/ i = 5
      OBVIOUS
    <2>. QED BY <1>1, <2>1
  <1>5. ASSUME NEW n \in 1 .. 3
        PROVE  /\ Told(n) \in Seq(EventNames) /\ Len(Told(n)) = n
               /\ \A i \in 1 .. n : Told(n)[i] = Checkpoints[i]
    <2>1. \A i \in 1 .. n : Checkpoints[i] \in EventNames
      BY <1>2
    <2>2. /\ SubSeq(Checkpoints, 1, n) \in Seq(EventNames)
          /\ Len(SubSeq(Checkpoints, 1, n)) = IF 1 <= n THEN n - 1 + 1 ELSE 0
          /\ \A i \in 1 .. n - 1 + 1 :
               SubSeq(Checkpoints, 1, n)[i] = Checkpoints[1 + i - 1]
      BY <2>1, SubSeqProperties
    <2>. QED BY <2>2 DEF Told
  <1>. HIDE DEF Checkpoints, Told
  <1>6. ASSUME NEW n \in 1 .. 3
        PROVE  /\ Append(Told(n), "collection_failed") \in Seq(EventNames)
               /\ Len(Append(Told(n), "collection_failed")) = n + 1
               /\ Append(Told(n), "collection_failed")[n + 1] = "collection_failed"
    <2>1. "collection_failed" \in EventNames
      BY DEF EventNames
    <2>. QED BY <1>5, <2>1, AppendProperties
  <1>7. Append(<<>>, "collection_started") = Told(1)
    <2>. DEFINE s == Append(<<>>, "collection_started")
    <2>1. s \in Seq(EventNames) /\ Len(s) = 1 /\ s[1] = "collection_started"
      BY <1>1, <1>2
    <2>. HIDE DEF s
    <2>. QED BY <1>1, <1>5, <2>1, SeqEqual DEF s
  <1>8. ASSUME NEW n \in 1 .. 2
        PROVE  Append(Told(n), Checkpoints[n + 1]) = Told(n + 1)
    <2>. DEFINE s == Append(Told(n), Checkpoints[n + 1])
    <2>1. /\ Told(n) \in Seq(EventNames) /\ Len(Told(n)) = n
          /\ \A i \in 1 .. n : Told(n)[i] = Checkpoints[i]
      BY <1>5
    <2>2. /\ s \in Seq(EventNames) /\ Len(s) = n + 1
          /\ \A i \in 1 .. n + 1 : s[i] = Checkpoints[i]
      BY <1>2, <2>1
    <2>3. /\ Told(n + 1) \in Seq(EventNames) /\ Len(Told(n + 1)) = n + 1
          /\ \A i \in 1 .. n + 1 : Told(n + 1)[i] = Checkpoints[i]
      <3>1. n + 1 \in 1 .. 3
        OBVIOUS
      <3>. QED BY <1>5, <3>1
    <2>. HIDE DEF s
    <2>. QED BY <2>2, <2>3, SeqEqual DEF s
  <1>9. Told(3) \o <<"preview_written", "collection_completed">> = Checkpoints
    <2>. DEFINE t == <<"preview_written", "collection_completed">>
                s == Told(3) \o t
    <2>1. t \in Seq(EventNames) /\ Len(t) = 2 /\ t[1] = Checkpoints[4] /\ t[2] = Checkpoints[5]
      BY <1>1, <1>2
    <2>. HIDE DEF t
    <2>2. /\ Told(3) \in Seq(EventNames) /\ Len(Told(3)) = 3
          /\ \A i \in 1 .. 3 : Told(3)[i] = Checkpoints[i]
      BY <1>5
    <2>3. /\ s \in Seq(EventNames) /\ Len(s) = 5
          /\ \A i \in 1 .. 5 : s[i] = IF i <= 3 THEN Told(3)[i] ELSE t[i - 3]
      <3>1. /\ Told(3) \o t \in Seq(EventNames)
            /\ Len(Told(3) \o t) = Len(Told(3)) + Len(t)
            /\ \A i \in 1 .. Len(Told(3)) + Len(t) : (Told(3) \o t)[i] =
                 IF i <= Len(Told(3)) THEN Told(3)[i] ELSE t[i - Len(Told(3))]
        BY <2>1, <2>2, ConcatProperties
      <3>2. Len(Told(3)) = 3 /\ Len(t) = 2 /\ 3 + 2 = 5
        BY <2>1, <2>2
      <3>. QED BY <3>1, <3>2
    <2>4. \A i \in 1 .. 5 : s[i] = Checkpoints[i]
      <3>1. \A i \in 1 .. 5 : i \in 1 .. 3 \/ i = 4 \/ i = 5
        OBVIOUS
      <3>. QED BY <2>1, <2>2, <2>3, <3>1
    <2>. HIDE DEF s
    <2>. QED BY <1>1, <1>3, <2>3, <2>4, SeqEqual DEF s, t
  <1>10. ASSUME NEW n \in 1 .. 3, NEW m \in 1 .. 3
         PROVE  Append(Told(n), "collection_failed") # Told(m)
    <2>1. CASE m = n + 1
      <3>1. Told(m)[n + 1] # "collection_failed"
        BY <1>4, <1>5, <2>1
      <3>. QED BY <1>6, <3>1
    <2>2. CASE m # n + 1
      BY <1>5, <1>6, <2>2
    <2>. QED BY <2>1, <2>2
  <1>11. ASSUME NEW n \in 1 .. 3
         PROVE  /\ Told(n) # <<>> /\ Told(n) # Checkpoints
                /\ Append(Told(n), "collection_failed") # <<>>
                /\ Append(Told(n), "collection_failed") # Checkpoints
    <2>1. /\ Len(Told(n)) \in 1 .. 3
          /\ Len(Append(Told(n), "collection_failed")) \in 2 .. 4
      BY <1>5, <1>6
    <2>. QED BY <1>1, <2>1
  <1>12. Append(Told(1), "records_mapped") = Told(2)
         /\ Append(Told(2), "aggregation_completed") = Told(3)
    BY <1>1, <1>8
  <1>13. Checkpoints # <<>>
    BY <1>1
  <1>. QED BY <1>7, <1>9, <1>10, <1>11, <1>12, <1>13

(* The events, the span, the reply and the publications of a finished call *)
(* tell one story.                                                         *)
LEMMA StoriesAgree ==
  ASSUME NEW s, NEW r \in CallStates, Story(s, r)
  PROVE  Agreement(r)
  <1>. HIDE DEF Told, Checkpoints
  <1>1. None \notin Replies
    BY NoneAssumption
  <1>2. /\ Checkpoints # <<>>
        /\ \A n \in 1 .. 3 :
             /\ Told(n) # <<>> /\ Told(n) # Checkpoints
             /\ Append(Told(n), "collection_failed") # <<>>
             /\ Append(Told(n), "collection_failed") # Checkpoints
             /\ \A m \in 1 .. 3 : Append(Told(n), "collection_failed") # Told(m)
    BY Tellings
  <1>. DEFINE failed(n) == Append(Told(n), "collection_failed")
  <1>3. ASSUME Unopened(r) \/ (\E n \in 1 .. 3 : Telling(r, n))
        PROVE  /\ r.span # "success" /\ r.events # Checkpoints /\ r.span # "failed"
               /\ ~ \E n \in 1 .. 3 : r.events = failed(n)
               /\ r.span = "started" => \E n \in 1 .. 3 : r.events = Told(n)
    <2>1. CASE Unopened(r)
      BY <1>2, <2>1 DEF Unopened
    <2>2. CASE \E n \in 1 .. 3 : Telling(r, n)
      BY <1>2, <2>2 DEF Telling
    <2>. QED BY <1>3, <2>1, <2>2
  <1>4. ASSUME Unopened(r) \/ (\E n \in 1 .. 3 : Telling(r, n)),
               r.reply \notin {"summary", "ProviderError", "CollectionFailed"},
               r.usage > 0 => Usable(r)
        PROVE  Agreement(r)
    BY <1>3, <1>4 DEF Agreement
  <1>5. CASE r.pc # "done"
    <2>1. Underway(s, r)
      BY <1>5 DEF Story
    <2>2. r.reply = None /\ (Unopened(r) \/ \E n \in 1 .. 3 : Telling(r, n))
      BY <2>1, <1>5 DEF Underway, CallStates, PCs
    <2>3. r.usage > 0 => Usable(r)
      BY <2>1, <1>5 DEF Underway, CallStates, PCs, Unopened, Silent, Emitted
    <2>. QED BY <1>1, <1>4, <2>2, <2>3 DEF Replies
  <1>6. CASE r.pc = "done"
    <2>1. Over(s, r)
      BY <1>6 DEF Story
    <2>2. CASE Succeeded(r)
      BY <1>2, <2>2 DEF Succeeded, Emitted, Agreement
    <2>3. CASE Failed(s, r)
      <3>1. /\ r.span = "failed" /\ r.reply \in {"ProviderError", "CollectionFailed"}
            /\ \E n \in 1 .. 3 : r.events = failed(n)
            /\ r.usage > 0 => Usable(r)
        BY <2>3 DEF Failed, Silent, Emitted
      <3>. QED BY <1>2, <3>1 DEF Agreement
    <2>4. CASE Refused(r)
      BY <1>4, <2>4 DEF Refused, Unopened, Silent
    <2>5. CASE Cancelled(r)
      BY <1>4, <2>5 DEF Cancelled, Silent
    <2>6. CASE Lost(r)
      BY <1>4, <2>6 DEF Lost
    <2>. QED BY <2>1, <2>2, <2>3, <2>4, <2>5, <2>6 DEF Over
  <1>. QED BY <1>5, <1>6

(* Every step of a call keeps its story.                                   *)
LEMMA StepTells ==
  ASSUME IInv, Stories, NEW c \in Calls,
         Arrive(c) \/ LoopStep(c) \/ UpstreamStep(c) \/ Cancel(c)
  PROVE  Story(settings, call'[c])
  <1>. HIDE DEF Told, Checkpoints
  <1>0. /\ None \notin Replies /\ None \notin Contents
        /\ 1 \in 1 .. 3 /\ 2 \in 1 .. 3 /\ 3 \in 1 .. 3
    BY NoneAssumption
  <1>1. call[c] \in CallStates /\ call \in [Calls -> CallStates]
    BY CallFields DEF IInv, TypeOK
  <1>2. Story(settings, call[c])
    BY DEF Stories
  <1>3. call[c].pc # "done" => Underway(settings, call[c])
    BY <1>2 DEF Story
  <1>4. /\ Append(<<>>, "collection_started") = Told(1)
        /\ Append(Told(1), "records_mapped") = Told(2)
        /\ Append(Told(2), "aggregation_completed") = Told(3)
        /\ Told(3) \o <<"preview_written", "collection_completed">> = Checkpoints
    BY Tellings
  <1>. DEFINE Same == /\ call'[c].usage = call[c].usage
                      /\ call'[c].gaugesSet = call[c].gaugesSet
                      /\ call'[c].answer = call[c].answer
              Quiet == /\ call'[c].span = call[c].span
                       /\ call'[c].events = call[c].events
                       /\ call'[c].reply = call[c].reply
  <1>5. ASSUME NEW p \in PCs, NEW a, NEW e, OpenSpan(c, p, a, e), call[c].pc = "queued"
        PROVE  /\ call'[c].pc = p /\ call'[c].answer = a /\ call'[c].error = e
               /\ Telling(call'[c], 1) /\ Silent(call'[c]) /\ call'[c].reply = None
    <2>. DEFINE f == RevisionOf(gauges[GaugeCount][call[c].date])
    <2>1. call' = [call EXCEPT ![c].pc = p, ![c].span = "started",
                     ![c].events = Append(@, "collection_started"),
                     ![c].answer = a, ![c].error = e, ![c].floor = f]
      BY <1>5 DEF OpenSpan
    <2>. HIDE DEF f
    <2>2. call[c].reply = None /\ Unopened(call[c])
      BY <1>3, <1>5 DEF Underway
    <2>3. /\ call'[c].pc = p /\ call'[c].answer = a /\ call'[c].error = e
          /\ call'[c].span = "started" /\ call'[c].reply = call[c].reply
          /\ call'[c].events = Append(call[c].events, "collection_started")
          /\ call'[c].usage = call[c].usage /\ call'[c].gaugesSet = call[c].gaugesSet
      BY <1>1, <2>1 DEF CallStates
    <2>. QED BY <1>4, <2>2, <2>3 DEF Unopened, Silent, Telling
  <1>6. CASE Arrive(c)
    <2>1. call[c].pc = "idle" /\ call' = [call EXCEPT ![c].pc = "queued"]
      BY <1>6 DEF Arrive, At
    <2>2. Same /\ Quiet /\ call'[c].pc = "queued"
      BY <1>1, <2>1 DEF CallStates
    <2>. QED BY <1>3, <2>1, <2>2 DEF Story, Underway, Unopened, Silent
  <1>7. CASE RefuseUnready(c)
    <2>1. call[c].pc = "queued" /\ call' = [call EXCEPT ![c].pc = "done",
                                      ![c].reply = "ServiceConfigurationError"]
      BY <1>7 DEF RefuseUnready, Free, At
    <2>2. /\ Same /\ call'[c].pc = "done" /\ call'[c].reply = "ServiceConfigurationError"
          /\ call'[c].span = call[c].span /\ call'[c].events = call[c].events
      BY <1>1, <2>1 DEF CallStates
    <2>3. Refused(call'[c])
      BY <1>3, <2>1, <2>2 DEF Underway, Unopened, Silent, Refused
    <2>. QED BY <2>2, <2>3 DEF Story, Over
  <1>8. CASE BeginMock(c)
    <2>. DEFINE a == upstream[call[c].date]
    <2>1. call[c].pc = "queued" /\ OpenSpan(c, "mapping", a, None)
      BY <1>8 DEF BeginMock, Free, At
    <2>. HIDE DEF a
    <2>2. /\ call'[c].pc = "mapping" /\ call'[c].reply = None
          /\ Telling(call'[c], 1) /\ Silent(call'[c])
      BY <1>5, <2>1 DEF PCs
    <2>. QED BY <2>2 DEF Story, Underway
  <1>9. CASE BeginAnthropic(c)
    <2>1. /\ call[c].pc = "queued" /\ OpenSpan(c, "awaiting", None, None)
          /\ settings.provider = "anthropic"
      BY <1>9 DEF BeginAnthropic, Free, At
    <2>2. /\ call'[c].pc = "awaiting" /\ call'[c].reply = None
          /\ Telling(call'[c], 1) /\ Silent(call'[c])
      BY <1>5, <2>1 DEF PCs
    <2>. QED BY <2>1, <2>2 DEF Story, Underway
  <1>10. CASE BeginEarlyDate(c)
    <2>1. call[c].pc = "queued" /\ OpenSpan(c, "failing", None, "ProviderError")
      BY <1>10 DEF BeginEarlyDate, Free, At
    <2>2. /\ call'[c].pc = "failing" /\ call'[c].reply = None
          /\ Telling(call'[c], 1) /\ Silent(call'[c])
      BY <1>5, <2>1 DEF PCs
    <2>. QED BY <1>0, <2>2 DEF Story, Underway
  <1>11. CASE Resume(c)
    <2>1. PICK p \in {"mapping", "failing"} :
            call[c].pc = "awaiting" /\ call' = [call EXCEPT ![c].pc = p]
      BY <1>11 DEF Resume, Free, At
    <2>2. Same /\ Quiet /\ call'[c].pc = p
      BY <1>1, <2>1 DEF CallStates
    <2>3. Telling(call'[c], 1) /\ Silent(call'[c]) /\ call'[c].reply = None
      BY <1>3, <2>1, <2>2 DEF Underway, Telling, Silent
    <2>. QED BY <1>0, <2>2, <2>3 DEF Story, Underway
  <1>12. CASE MapRecords(c)
    <2>1. call[c].pc = "mapping" /\ call' = [call EXCEPT ![c].pc = "protecting",
                                  ![c].events = Append(@, "records_mapped")]
      BY <1>12 DEF MapRecords, Runs, At
    <2>2. /\ Same /\ call'[c].pc = "protecting"
          /\ call'[c].span = call[c].span /\ call'[c].reply = call[c].reply
          /\ call'[c].events = Append(call[c].events, "records_mapped")
      BY <1>1, <2>1 DEF CallStates
    <2>3. Telling(call'[c], 2) /\ Silent(call'[c]) /\ call'[c].reply = None
      BY <1>3, <1>4, <2>1, <2>2 DEF Underway, Telling, Silent
    <2>. QED BY <2>2, <2>3 DEF Story, Underway
  <1>13. CASE Protect(c)
    <2>1. call[c].pc = "protecting" /\ call[c].answer # None
      BY <1>13 DEF Protect, Runs, At, IInv, CountsInStep, WithContents
    <2>2. Telling(call[c], 2) /\ Silent(call[c]) /\ call[c].reply = None
      BY <1>3, <2>1 DEF Underway
    <2>3. CASE call[c].answer.usable
      <3>1. call' = [call EXCEPT ![c].pc = "metering",
                                 ![c].events = Append(@, "aggregation_completed")]
        BY <1>13, <2>3 DEF Protect
      <3>2. /\ Same /\ call'[c].pc = "metering"
            /\ call'[c].span = call[c].span /\ call'[c].reply = call[c].reply
            /\ call'[c].events = Append(call[c].events, "aggregation_completed")
        BY <1>1, <3>1 DEF CallStates
      <3>3. /\ Telling(call'[c], 3) /\ call'[c].usage = 0 /\ call'[c].reply = None
            /\ Usable(call'[c])
        BY <1>4, <2>1, <2>2, <2>3, <3>2 DEF Telling, Silent, Usable
      <3>. QED BY <3>2, <3>3 DEF Story, Underway
    <2>4. CASE ~ call[c].answer.usable
      <3>1. call' = [call EXCEPT ![c].pc = "failing", ![c].error = "OtherError"]
        BY <1>13, <2>4 DEF Protect
      <3>2. Same /\ Quiet /\ call'[c].pc = "failing"
        BY <1>1, <3>1 DEF CallStates
      <3>3. Telling(call'[c], 2) /\ Silent(call'[c]) /\ call'[c].reply = None
        BY <2>2, <3>2 DEF Telling, Silent
      <3>. QED BY <1>0, <3>2, <3>3 DEF Story, Underway
    <2>. QED BY <2>3, <2>4
  <1>14. CASE SetGauge(c)
    <2>. DEFINE n == call[c].gaugesSet + 1
                p == IF n = GaugeCount THEN "logging" ELSE "metering"
    <2>1. call[c].pc = "metering" /\ call' = [call EXCEPT ![c].gaugesSet = n, ![c].pc = p]
      BY <1>14 DEF SetGauge, RecordGauge, Runs, At
    <2>. HIDE DEF n, p
    <2>2. /\ Quiet /\ call'[c].pc = p /\ call'[c].gaugesSet = n
          /\ call'[c].usage = call[c].usage /\ call'[c].answer = call[c].answer
      BY <1>1, <2>1 DEF CallStates
    <2>3. /\ Telling(call'[c], 3) /\ call'[c].usage = 0 /\ call'[c].reply = None
          /\ Usable(call'[c])
      BY <1>3, <2>1, <2>2 DEF Underway, Telling, Usable
    <2>. QED BY <2>2, <2>3 DEF Story, Underway, p
  <1>15. CASE EmitUsage(c)
    <2>1. call[c].pc = "logging"
          /\ call' = [call EXCEPT ![c].pc = "previewing", ![c].usage = @ + 1]
      BY <1>15 DEF EmitUsage, Runs, At
    <2>2. /\ Quiet /\ call'[c].pc = "previewing" /\ call'[c].usage = call[c].usage + 1
          /\ call'[c].gaugesSet = call[c].gaugesSet /\ call'[c].answer = call[c].answer
      BY <1>1, <2>1 DEF CallStates
    <2>3. Telling(call'[c], 3) /\ Emitted(call'[c]) /\ call'[c].reply = None
      BY <1>3, <2>1, <2>2 DEF Underway, Telling, Usable, Emitted
    <2>. QED BY <2>2, <2>3 DEF Story, Underway
  <1>16. CASE WritePreview(c)
    <2>1. call[c].pc = "previewing" /\ call' = [call EXCEPT ![c].pc = "completing"]
      BY <1>16 DEF WritePreview, Runs, At
    <2>2. Same /\ Quiet /\ call'[c].pc = "completing"
      BY <1>1, <2>1 DEF CallStates
    <2>3. Telling(call'[c], 3) /\ Emitted(call'[c]) /\ call'[c].reply = None
      BY <1>3, <2>1, <2>2 DEF Underway, Telling, Usable, Emitted
    <2>. QED BY <2>2, <2>3 DEF Story, Underway
  <1>17. CASE PreviewError(c)
    <2>1. /\ call[c].pc = "previewing" /\ settings.preview
          /\ call' = [call EXCEPT ![c].pc = "failing", ![c].error = "OtherError"]
      BY <1>17 DEF PreviewError, Runs, At
    <2>2. Same /\ Quiet /\ call'[c].pc = "failing" /\ call'[c].error = "OtherError"
      BY <1>1, <2>1 DEF CallStates
    <2>3. Telling(call'[c], 3) /\ Emitted(call'[c]) /\ call'[c].reply = None
      BY <1>3, <2>1, <2>2 DEF Underway, Telling, Usable, Emitted
    <2>. QED BY <1>0, <2>1, <2>2, <2>3 DEF Story, Underway
  <1>18. CASE Complete(c)
    <2>1. call[c].pc = "completing"
          /\ call' = [call EXCEPT ![c].pc = "done",
                        ![c].events = @ \o <<"preview_written", "collection_completed">>,
                        ![c].span = "success", ![c].reply = "summary"]
      BY <1>18 DEF Complete, Runs, At
    <2>2. /\ Same /\ call'[c].pc = "done"
          /\ call'[c].span = "success" /\ call'[c].reply = "summary"
          /\ call'[c].events
               = call[c].events \o <<"preview_written", "collection_completed">>
      BY <1>1, <2>1 DEF CallStates
    <2>3. Succeeded(call'[c])
      BY <1>3, <1>4, <2>1, <2>2 DEF Underway, Telling, Usable, Emitted, Succeeded
    <2>. QED BY <2>2, <2>3 DEF Story, Over
  <1>19. CASE Fail(c)
    <2>1. /\ call[c].pc = "failing"
          /\ call' = [call EXCEPT ![c].pc = "done",
                        ![c].events = Append(@, "collection_failed"),
                        ![c].span = "failed", ![c].reply = ReplyTo(call[c].error)]
      BY <1>19 DEF Fail, Runs, At
    <2>2. /\ Same /\ call'[c].pc = "done" /\ call'[c].span = "failed"
          /\ call'[c].events = Append(call[c].events, "collection_failed")
          /\ call'[c].reply = ReplyTo(call[c].error)
      BY <1>1, <2>1 DEF CallStates
    <2>3. \E n \in 1 .. 3 : call'[c].events = Append(Told(n), "collection_failed")
      BY <1>3, <2>1, <2>2 DEF Underway, Telling
    <2>4. \/ call'[c].reply \in {"ProviderError", "CollectionFailed"} /\ Silent(call'[c])
          \/ /\ call'[c].reply = "CollectionFailed" /\ Emitted(call'[c])
             /\ settings.preview
      BY <1>3, <2>1, <2>2 DEF Underway, Silent, Emitted, Usable, ReplyTo
    <2>5. Failed(settings, call'[c])
      BY <2>2, <2>3, <2>4 DEF Failed
    <2>. QED BY <2>2, <2>5 DEF Story, Over
  <1>20. CASE Answered(c)
    <2>. DEFINE a == upstream[call[c].date]
    <2>1. call[c].pc = "awaiting" /\ call' = [call EXCEPT ![c].answer = a]
      BY <1>20 DEF Answered, Unanswered, At
    <2>. HIDE DEF a
    <2>2. /\ Quiet /\ call'[c].pc = "awaiting"
          /\ call'[c].usage = call[c].usage /\ call'[c].gaugesSet = call[c].gaugesSet
      BY <1>1, <2>1 DEF CallStates
    <2>. QED BY <1>3, <2>1, <2>2 DEF Story, Underway, Telling, Silent
  <1>21. CASE Faulted(c)
    <2>1. PICK e \in Faults :
            call[c].pc = "awaiting" /\ call' = [call EXCEPT ![c].error = e]
      BY <1>21 DEF Faulted, Unanswered, At
    <2>2. Same /\ Quiet /\ call'[c].pc = "awaiting"
      BY <1>1, <2>1 DEF CallStates
    <2>. QED BY <1>3, <2>1, <2>2 DEF Story, Underway, Telling, Silent
  <1>22. CASE Cancel(c)
    <2>1. /\ call[c].pc = "awaiting"
          /\ call' = [call EXCEPT ![c].pc = "done", ![c].reply = "cancelled"]
      BY <1>22 DEF Cancel, Free, At
    <2>2. /\ Same /\ call'[c].pc = "done" /\ call'[c].reply = "cancelled"
          /\ call'[c].span = call[c].span /\ call'[c].events = call[c].events
      BY <1>1, <2>1 DEF CallStates
    <2>3. Cancelled(call'[c])
      BY <1>3, <2>1, <2>2 DEF Underway, Telling, Silent, Cancelled
    <2>. QED BY <2>2, <2>3 DEF Story, Over
  <1>. QED BY <1>6, <1>7, <1>8, <1>9, <1>10, <1>11, <1>12, <1>13, <1>14, <1>15, <1>16,
              <1>17, <1>18, <1>19, <1>20, <1>21, <1>22 DEF LoopStep, UpstreamStep

(* The last points of a successful call, and the steps that end a call.    *)
Late == {"logging", "previewing", "completing"}
Returns(c) == RefuseUnready(c) \/ Cancel(c) \/ Complete(c) \/ Fail(c)
Writes(c) == WritePreview(c) \/ PreviewError(c)

(* What the two ends of the preview's write do.                            *)
LEMMA WriteEnds ==
  ASSUME IInv, SInv, NEW c \in Calls, Writes(c)
  PROVE  /\ loop = c /\ loop' = c /\ gauges' = gauges
         /\ call[c].pc = "previewing" /\ Emitted(call[c])
         /\ WritePreview(c) => /\ call'[c].pc = "completing"
                               /\ preview' = IF settings.preview THEN c ELSE preview
         /\ PreviewError(c) => /\ call'[c].pc = "failing" /\ settings.preview
                               /\ preview' \in {preview, c}
         /\ call'[c].usage = call[c].usage
  <1>1. call[c] \in CallStates /\ call \in [Calls -> CallStates]
    BY CallFields DEF IInv, TypeOK
  <1>2. loop = c /\ loop' = c /\ gauges' = gauges /\ call[c].pc = "previewing"
    BY DEF Writes, WritePreview, PreviewError, Runs, At
  <1>3. Emitted(call[c])
    BY <1>2 DEF SInv, Stories, Story, Underway
  <1>4. ASSUME WritePreview(c)
        PROVE  /\ call'[c].pc = "completing" /\ call'[c].usage = call[c].usage
               /\ preview' = IF settings.preview THEN c ELSE preview
    BY <1>1, <1>4 DEF WritePreview, CallStates
  <1>5. ASSUME PreviewError(c)
        PROVE  /\ call'[c].pc = "failing" /\ call'[c].usage = call[c].usage
               /\ settings.preview /\ preview' \in {preview, c}
    BY <1>1, <1>5 DEF PreviewError, CallStates
  <1>. QED BY <1>2, <1>3, <1>4, <1>5 DEF Writes

(* What a step of call c leaves alone, and what it takes to come near the  *)
(* end: only the step before it leads to each of the last three points.    *)
LEMMA StepTurns ==
  ASSUME IInv, NEW c \in Calls,
         Arrive(c) \/ LoopStep(c) \/ UpstreamStep(c) \/ Cancel(c)
  PROVE  /\ \A b \in Calls \ {c} : call'[b] = call[b]
         /\ call'[c].date = call[c].date
         /\ call[c].answer # None => call'[c].answer = call[c].answer
         /\ SetGauge(c) \/ gauges' = gauges
         /\ Writes(c) \/ preview' = preview
         /\ SetGauge(c) \/ (call'[c].pc \in Late => call[c].pc \in Late)
         /\ WritePreview(c) \/ (Succeeding(c)' => Succeeding(c))
         /\ Returns(c) \/ call'[c].pc # "done"
  <1>1. call[c] \in CallStates /\ call \in [Calls -> CallStates]
    BY CallFields DEF IInv, TypeOK
  <1>2. /\ \A b \in Calls \ {c} : call'[b] = call[b]
        /\ call'[c].date = call[c].date
        /\ call[c].answer # None => call'[c].answer = call[c].answer
        /\ SetGauge(c) \/ gauges' = gauges
    <2>1. CASE SetGauge(c)
      <3>. DEFINE n == call[c].gaugesSet + 1
                  p == IF n = GaugeCount THEN "logging" ELSE "metering"
      <3>1. call[c].pc = "metering" /\ call' = [call EXCEPT ![c].gaugesSet = n, ![c].pc = p]
        BY <2>1 DEF SetGauge, RecordGauge, Runs, At
      <3>. HIDE DEF n, p
      <3>. QED BY <1>1, <2>1, <3>1 DEF CallStates
    <2>2. CASE ~ SetGauge(c)
      <3>1. PICK p \in PCs : Moved(c, p)
        BY <2>2, StepsMove
      <3>. QED BY <3>1 DEF Moved
    <2>. QED BY <2>1, <2>2
  <1>3. Writes(c) \/ preview' = preview
    BY DEF Writes, LoopStep, UpstreamStep, Arrive, RefuseUnready, BeginMock,
           BeginAnthropic, BeginEarlyDate, Resume, MapRecords, Protect, SetGauge,
           EmitUsage, Complete, Fail, Answered, Faulted, Cancel
  <1>. DEFINE Turned == /\ call'[c].pc \in Late => call[c].pc \in Late
                        /\ Succeeding(c)' => Succeeding(c)
                        /\ Returns(c) \/ call'[c].pc # "done"
  <1>4. ASSUME NEW p \in PCs \ (Late \cup {"done"}), call'[c].pc = p,
               call'[c].reply = call[c].reply
        PROVE  Turned
    BY <1>4 DEF Late, Succeeding, Returns
  <1>5. ASSUME NEW p \in PCs \ (Late \cup {"done"}), NEW a, NEW e, OpenSpan(c, p, a, e)
        PROVE  Turned
    <2>. DEFINE f == RevisionOf(gauges[GaugeCount][call[c].date])
    <2>1. call' = [call EXCEPT ![c].pc = p, ![c].span = "started",
                     ![c].events = Append(@, "collection_started"),
                     ![c].answer = a, ![c].error = e, ![c].floor = f]
      BY <1>5 DEF OpenSpan
    <2>. HIDE DEF f
    <2>2. call'[c].pc = p /\ call'[c].reply = call[c].reply
      BY <1>1, <2>1 DEF CallStates
    <2>. QED BY <1>4, <2>2
  <1>6. CASE Arrive(c)
    BY <1>1, <1>2, <1>3, <1>4, <1>6 DEF Arrive, CallStates, Late, PCs
  <1>7. CASE RefuseUnready(c)
    <2>1. call'[c].pc = "done" /\ call'[c].reply = "ServiceConfigurationError"
      BY <1>1, <1>7 DEF RefuseUnready, CallStates
    <2>. QED BY <1>2, <1>3, <1>7, <2>1 DEF Late, Succeeding, Returns
  <1>8. CASE BeginMock(c)
    BY <1>2, <1>3, <1>5, <1>8 DEF BeginMock, Late, PCs
  <1>9. CASE BeginAnthropic(c)
    BY <1>2, <1>3, <1>5, <1>9 DEF BeginAnthropic, Late, PCs
  <1>10. CASE BeginEarlyDate(c)
    BY <1>2, <1>3, <1>5, <1>10 DEF BeginEarlyDate, Late, PCs
  <1>11. CASE Resume(c)
    <2>1. PICK p \in {"mapping", "failing"} : call' = [call EXCEPT ![c].pc = p]
      BY <1>11 DEF Resume
    <2>2. call'[c].pc = p /\ call'[c].reply = call[c].reply
      BY <1>1, <2>1 DEF CallStates
    <2>. QED BY <1>2, <1>3, <1>4, <2>2 DEF Late, PCs
  <1>12. CASE MapRecords(c)
    <2>1. call'[c].pc = "protecting" /\ call'[c].reply = call[c].reply
      BY <1>1, <1>12 DEF MapRecords, CallStates
    <2>. QED BY <1>2, <1>3, <1>4, <2>1 DEF Late, PCs
  <1>13. CASE Protect(c)
    <2>1. call'[c].pc \in {"metering", "failing"} /\ call'[c].reply = call[c].reply
      <3>1. CASE call[c].answer.usable
        BY <1>1, <1>13, <3>1 DEF Protect, CallStates
      <3>2. CASE ~ call[c].answer.usable
        BY <1>1, <1>13, <3>2 DEF Protect, CallStates
      <3>. QED BY <3>1, <3>2
    <2>. QED BY <1>2, <1>3, <1>4, <2>1 DEF Late, PCs
  <1>14. CASE SetGauge(c)
    <2>. DEFINE n == call[c].gaugesSet + 1
                p == IF n = GaugeCount THEN "logging" ELSE "metering"
    <2>1. call[c].pc = "metering" /\ call' = [call EXCEPT ![c].gaugesSet = n, ![c].pc = p]
      BY <1>14 DEF SetGauge, RecordGauge, Runs, At
    <2>2. p \in {"logging", "metering"}
      OBVIOUS
    <2>. HIDE DEF n, p
    <2>3. call'[c].pc = p /\ call'[c].reply = call[c].reply
      BY <1>1, <2>1 DEF CallStates
    <2>4. (Succeeding(c)' => Succeeding(c)) /\ call'[c].pc # "done"
      BY <2>2, <2>3 DEF Succeeding
    <2>. QED BY <1>2, <1>3, <1>14, <2>4
  <1>15. CASE EmitUsage(c)
    <2>1. /\ call[c].pc = "logging" /\ call'[c].pc = "previewing"
          /\ call'[c].reply = call[c].reply
      BY <1>1, <1>15 DEF EmitUsage, Runs, At, CallStates
    <2>. QED BY <1>2, <1>3, <2>1 DEF Late, Succeeding, Returns
  <1>16. CASE WritePreview(c)
    <2>1. call[c].pc = "previewing" /\ call'[c].pc = "completing"
      BY <1>1, <1>16 DEF WritePreview, Runs, At, CallStates
    <2>. QED BY <1>2, <1>3, <1>16, <2>1 DEF Late
  <1>17. CASE PreviewError(c)
    <2>1. call'[c].pc = "failing" /\ call'[c].reply = call[c].reply
      BY <1>1, <1>17 DEF PreviewError, CallStates
    <2>. QED BY <1>2, <1>3, <1>4, <2>1 DEF Late, PCs
  <1>18. CASE Complete(c)
    <2>1. call[c].pc = "completing" /\ call'[c].pc = "done"
      BY <1>1, <1>18 DEF Complete, Runs, At, CallStates
    <2>. QED BY <1>2, <1>3, <1>18, <2>1 DEF Late, Succeeding, Returns
  <1>19. CASE Fail(c)
    <2>1. call'[c].pc = "done" /\ call'[c].reply = ReplyTo(call[c].error)
      BY <1>1, <1>19 DEF Fail, CallStates
    <2>. QED BY <1>2, <1>3, <1>19, <2>1 DEF Late, Succeeding, Returns, ReplyTo
  <1>20. CASE Answered(c)
    <2>. DEFINE a == upstream[call[c].date]
    <2>1. call[c].pc = "awaiting" /\ call' = [call EXCEPT ![c].answer = a]
      BY <1>20 DEF Answered, Unanswered, At
    <2>. HIDE DEF a
    <2>2. call'[c].pc = "awaiting" /\ call'[c].reply = call[c].reply
      BY <1>1, <2>1 DEF CallStates
    <2>. QED BY <1>2, <1>3, <1>4, <2>2 DEF Late, PCs
  <1>21. CASE Faulted(c)
    <2>1. PICK e \in Faults :
            call[c].pc = "awaiting" /\ call' = [call EXCEPT ![c].error = e]
      BY <1>21 DEF Faulted, Unanswered, At
    <2>2. call'[c].pc = "awaiting" /\ call'[c].reply = call[c].reply
      BY <1>1, <2>1 DEF CallStates
    <2>. QED BY <1>2, <1>3, <1>4, <2>2 DEF Late, PCs
  <1>22. CASE Cancel(c)
    <2>1. call'[c].pc = "done" /\ call'[c].reply = "cancelled"
      BY <1>1, <1>22 DEF Cancel, CallStates
    <2>. QED BY <1>2, <1>3, <1>22, <2>1 DEF Late, Succeeding, Returns
  <1>. QED BY <1>2, <1>3, <1>6, <1>7, <1>8, <1>9, <1>10, <1>11, <1>12, <1>13, <1>14,
              <1>15, <1>16, <1>17, <1>18, <1>19, <1>20, <1>21, <1>22
           DEF LoopStep, UpstreamStep

(* A step of a call keeps what is shown protected, owned and in agreement. *)
LEMMA StepShows ==
  ASSUME IInv, IInv', SInv, NEW c \in Calls,
         Arrive(c) \/ LoopStep(c) \/ UpstreamStep(c) \/ Cancel(c)
  PROVE  SInv'
  <1>0. None \notin Calls /\ GaugeCount \in Nat \ {0} /\ 1 \in Gauges /\ GaugeCount \in Gauges
    BY NoneAssumption, BoundsAssumption DEF Gauges
  <1>1. /\ UNCHANGED <<settings, exported>>
        /\ gauges \in [Gauges -> [Dates -> Calls \cup {None}]]
        /\ exported \in [Gauges -> [Dates -> Calls \cup {None}]]
        /\ preview \in Calls \cup {None} /\ call[c].date \in Dates
        /\ call[c] \in CallStates
    BY RestTyped, CallFields DEF IInv, TypeOK
  <1>2. /\ \A b \in Calls \ {c} : call'[b] = call[b]
        /\ call'[c].date = call[c].date
        /\ call[c].answer # None => call'[c].answer = call[c].answer
        /\ SetGauge(c) \/ gauges' = gauges
        /\ Writes(c) \/ preview' = preview
        /\ SetGauge(c) \/ (call'[c].pc \in Late => call[c].pc \in Late)
        /\ WritePreview(c) \/ (Succeeding(c)' => Succeeding(c))
    BY StepTurns
  <1>3. Stories'
    <2>1. Story(settings, call'[c])
      BY StepTells DEF SInv
    <2>2. \A b \in Calls \ {c} : Story(settings, call'[b])
      BY <1>2 DEF SInv, Stories
    <2>3. \A b \in Calls : Story(settings, call'[b])
      BY <2>1, <2>2
    <2>. QED BY <1>1, <2>3 DEF Stories
  <1>4. \A b \in Calls : /\ call'[b].date = call[b].date
                         /\ Usable(call[b]) => Usable(call'[b])
    BY <1>2 DEF Usable
  <1>5. ASSUME SetGauge(c)
        PROVE  /\ loop = c /\ call[c].pc = "metering" /\ Usable(call[c])
               /\ call[c].gaugesSet + 1 \in Gauges
               /\ gauges' = [gauges EXCEPT ![call[c].gaugesSet + 1][call[c].date] = c]
               /\ call'[c].pc \in {"metering", "logging"}
               /\ call'[c].pc = "logging" => call[c].gaugesSet + 1 = GaugeCount
               /\ call'[c].reply = None
    <2>1. /\ loop = c /\ call[c].pc = "metering"
          /\ gauges' = [gauges EXCEPT ![call[c].gaugesSet + 1][call[c].date] = c]
      BY <1>5 DEF SetGauge, RecordGauge, Runs, At
    <2>2. Usable(call[c]) /\ call[c].reply = None
      BY <2>1 DEF SInv, Stories, Story, Underway
    <2>3. call[c].gaugesSet + 1 \in Gauges
      BY <1>0, <2>1, CallFields DEF IInv, CountsInStep, Gauges
    <2>. DEFINE n == call[c].gaugesSet + 1
                p == IF n = GaugeCount THEN "logging" ELSE "metering"
    <2>4. call' = [call EXCEPT ![c].gaugesSet = n, ![c].pc = p]
      BY <1>5, <2>1 DEF SetGauge, RecordGauge
    <2>5. p \in {"metering", "logging"} /\ (p = "logging" => n = GaugeCount)
      OBVIOUS
    <2>. HIDE DEF n, p
    <2>6. call'[c].pc = p /\ call'[c].reply = call[c].reply
      BY <1>1, <2>4 DEF CallStates, IInv, TypeOK
    <2>. QED BY <2>1, <2>2, <2>3, <2>5, <2>6 DEF n
  <1>6. \A g \in Gauges, d \in Dates :
          \/ gauges'[g][d] = gauges[g][d]
          \/ gauges'[g][d] = c /\ d = call[c].date /\ SetGauge(c) /\ Usable(call[c])
    <2>1. CASE SetGauge(c)
      BY <1>1, <1>5, <2>1
    <2>2. CASE gauges' = gauges
      BY <2>2
    <2>. QED BY <1>2, <2>1, <2>2
  <1>7. ASSUME Writes(c)
        PROVE  /\ loop = c /\ call[c].pc = "previewing" /\ Usable(call[c])
               /\ gauges' = gauges /\ preview' \in {preview, c}
               /\ WritePreview(c) =>
                    preview' = IF settings.preview THEN c ELSE preview
    BY <1>7, WriteEnds DEF Emitted, Writes
  <1>8. ShownProtected'
    <2>1. ASSUME NEW g \in Gauges, NEW d \in Dates,
                 NEW x \in {gauges'[g][d], exported'[g][d]} \ {None}
          PROVE  call'[x].date = d /\ Usable(call'[x])
      <3>1. CASE x \in {gauges[g][d], exported[g][d]}
        <4>1. x \in Calls
          BY <1>1, <3>1
        <4>. QED BY <1>4, <2>1, <3>1, <4>1 DEF SInv, ShownProtected
      <3>2. CASE x \notin {gauges[g][d], exported[g][d]}
        BY <1>1, <1>4, <1>6, <2>1, <3>2
      <3>. QED BY <3>1, <3>2
    <2>2. preview' # None => Usable(call'[preview'])
      BY <1>1, <1>2, <1>4, <1>7 DEF SInv, ShownProtected
    <2>. QED BY <2>1, <2>2 DEF ShownProtected
  <1>9. GaugesOwned'
    <2>. SUFFICES ASSUME NEW b \in Calls, call'[b].pc \in Late, NEW g \in Gauges
         PROVE  gauges'[g][call'[b].date] = b
      BY DEF GaugesOwned, Late
    <2>1. CASE b = c /\ SetGauge(c)
      <3>1. gauges'[GaugeCount][call[c].date] = c
        BY <1>0, <1>1, <1>5, <2>1 DEF Late
      <3>2. ~ Emitting(call[c].date)'
        <4>1. call'[c].pc = "logging"
          BY <1>5, <2>1 DEF Late
        <4>2. loop' = c
          BY <4>1 DEF IInv, LoopOwned, RunningPCs, PCs
        <4>. QED BY <4>1, <4>2 DEF Emitting
      <3>. QED BY <1>0, <1>1, <1>2, <2>1, <3>1, <3>2 DEF IInv, GaugesSplit
    <2>2. CASE b # c
      <3>1. call[b].pc \in Late /\ call'[b] = call[b] /\ loop = b
        BY <1>2, <2>2 DEF IInv, LoopOwned, RunningPCs, PCs, Late
      <3>2. gauges' = gauges
        BY <1>2, <1>5, <2>2, <3>1
      <3>. QED BY <3>1, <3>2 DEF SInv, GaugesOwned, Late
    <2>3. CASE b = c /\ ~ SetGauge(c)
      BY <1>2, <2>3 DEF SInv, GaugesOwned, Late
    <2>. QED BY <2>1, <2>2, <2>3
  <1>10. PreviewKept'
    <2>. DEFINE Ends(b) == call'[b].pc = "completing" \/ call'[b].reply = "summary"
    <2>. SUFFICES ASSUME settings.preview, NEW d \in Dates,
                         gauges'[1][d] # None, Ends(gauges'[1][d])
         PROVE  /\ preview' # None
                /\ call'[preview'].date = d => preview' = gauges'[1][d]
      BY <1>1 DEF PreviewKept, Succeeding
    <2>. DEFINE x == gauges'[1][d]
    <2>1. ASSUME gauges[1][d] = x, Succeeding(x), preview' = preview
          PROVE  preview' # None /\ (call'[preview'].date = d => preview' = x)
      BY <1>1, <1>4, <2>1 DEF SInv, PreviewKept
    <2>2. CASE Writes(c) /\ preview' = c
      <3>1. x = gauges[1][d]
        BY <1>7, <2>2
      <3>2. \A g \in Gauges : gauges[g][call[c].date] = c
        BY <1>7, <2>2 DEF SInv, GaugesOwned
      <3>. QED BY <1>0, <1>4, <2>2, <3>1, <3>2
    <2>3. CASE SetGauge(c)
      <3>1. ~ Ends(c) /\ preview' = preview
        <4>1. None # "summary"
          BY NoneAssumption DEF Replies
        <4>2. ~ Writes(c)
          BY <1>5, <1>7, <2>3
        <4>. QED BY <1>2, <1>5, <2>3, <4>1, <4>2 DEF Succeeding, Writes
      <3>2. x # c
        BY <3>1
      <3>3. x = gauges[1][d] /\ x \in Calls \ {c}
        BY <1>0, <1>1, <1>6, <3>2
      <3>4. Succeeding(x)
        BY <1>2, <3>3 DEF Succeeding
      <3>. QED BY <2>1, <3>1, <3>3, <3>4
    <2>4. CASE ~ WritePreview(c) /\ ~ SetGauge(c) /\ preview' = preview
      <3>1. gauges' = gauges /\ preview' = preview /\ x \in Calls
        BY <1>0, <1>1, <1>2, <2>4
      <3>2. Succeeding(x)
        <4>1. CASE x = c
          BY <1>2, <2>4, <4>1 DEF Succeeding
        <4>2. CASE x # c
          BY <1>2, <3>1, <4>2 DEF Succeeding
        <4>. QED BY <4>1, <4>2
      <3>. QED BY <2>1, <3>1, <3>2
    <2>5. WritePreview(c) => preview' = c
      BY <1>7 DEF Writes
    <2>. QED BY <1>2, <1>7, <2>2, <2>3, <2>4, <2>5 DEF Writes
  <1>. QED BY <1>3, <1>8, <1>9, <1>10 DEF SInv

(* A crash interrupts the story of every call under way.                   *)
LEMMA CrashTells ==
  ASSUME IInv, SInv, Crash
  PROVE  SInv'
  <1>. HIDE DEF Told, Checkpoints
  <1>0. None \notin Calls /\ None \notin Replies /\ 1 \in 1 .. 3 /\ 2 \in 1 .. 3 /\ 3 \in 1 .. 3
    BY NoneAssumption
  <1>1. /\ UNCHANGED <<settings, preview, exported>> /\ gauges' = NoGauges
        /\ call' = [c \in Calls |->
             IF call[c].pc \in {"idle", "done"} THEN call[c]
             ELSE [call[c] EXCEPT !.pc = "done", !.reply = "lost"]]
    BY DEF Crash
  <1>2. ASSUME NEW c \in Calls
        PROVE  /\ Story(settings, call'[c]) /\ call'[c].date = call[c].date
               /\ Usable(call[c]) => Usable(call'[c])
               /\ call'[c].pc \notin Late
    <2>1. call[c] \in CallStates /\ Story(settings, call[c])
      BY CallFields DEF IInv, SInv, Stories
    <2>2. CASE call[c].pc \in {"idle", "done"}
      BY <1>1, <2>1, <2>2 DEF Late
    <2>3. CASE call[c].pc \notin {"idle", "done"}
      <3>1. call'[c] = [call[c] EXCEPT !.pc = "done", !.reply = "lost"]
        BY <1>1, <2>3
      <3>2. /\ call'[c].pc = "done" /\ call'[c].reply = "lost"
            /\ call'[c].span = call[c].span /\ call'[c].events = call[c].events
            /\ call'[c].usage = call[c].usage /\ call'[c].gaugesSet = call[c].gaugesSet
            /\ call'[c].answer = call[c].answer /\ call'[c].date = call[c].date
        BY <2>1, <3>1 DEF CallStates
      <3>3. Underway(settings, call[c])
        BY <2>1, <2>3 DEF Story
      <3>4. /\ Unopened(call[c]) \/ \E n \in 1 .. 3 : Telling(call[c], n)
            /\ call[c].usage > 0 => Usable(call[c])
        BY <1>0, <2>1, <2>3, <3>3 DEF Underway, CallStates, PCs, Unopened, Silent, Emitted
      <3>5. Lost(call'[c])
        BY <3>2, <3>4 DEF Lost, Unopened, Silent, Telling, Usable
      <3>. QED BY <3>2, <3>5 DEF Story, Over, Late, Usable
    <2>. QED BY <2>2, <2>3
  <1>3. Stories'
    BY <1>1, <1>2 DEF Stories
  <1>4. \A g \in Gauges, d \in Dates : gauges'[g][d] = None
    BY <1>1 DEF NoGauges
  <1>5. ShownProtected'
    <2>1. ASSUME NEW g \in Gauges, NEW d \in Dates,
                 NEW x \in {gauges'[g][d], exported'[g][d]} \ {None}
          PROVE  call'[x].date = d /\ Usable(call'[x])
      <3>1. x = exported[g][d] /\ x # None
        BY <1>1, <1>4, <2>1
      <3>2. exported[g][d] \in Calls \cup {None}
        BY DEF IInv, TypeOK
      <3>. QED BY <1>2, <3>1, <3>2 DEF SInv, ShownProtected
    <2>2. preview' # None => Usable(call'[preview'])
      BY <1>1, <1>2 DEF SInv, ShownProtected, IInv, TypeOK
    <2>. QED BY <2>1, <2>2 DEF ShownProtected
  <1>6. GaugesOwned'
    BY <1>2 DEF GaugesOwned, Late
  <1>7. PreviewKept'
    <2>1. 1 \in Gauges
      BY BoundsAssumption DEF Gauges
    <2>. QED BY <1>4, <2>1 DEF PreviewKept
  <1>. QED BY <1>3, <1>5, <1>6, <1>7 DEF SInv

(* The reader copies to the backend what the gauges show.                  *)
LEMMA ExportShows ==
  ASSUME IInv, SInv, ExportGauge
  PROVE  SInv'
  <1>1. UNCHANGED <<settings, call, gauges, preview>>
    BY DEF ExportGauge
  <1>2. \A g \in Gauges, d \in Dates : exported'[g][d] \in {exported[g][d], gauges[g][d]}
    <2>. DEFINE row == [d \in Dates |-> IF gauges[scan + 1][d] = None
                           THEN exported[scan + 1][d] ELSE gauges[scan + 1][d]]
    <2>1. exported' = [exported EXCEPT ![scan + 1] = row]
      BY DEF ExportGauge
    <2>2. \A d \in Dates : row[d] \in {exported[scan + 1][d], gauges[scan + 1][d]}
      OBVIOUS
    <2>. HIDE DEF row
    <2>. QED BY <2>1, <2>2 DEF IInv, TypeOK
  <1>3. Stories' /\ GaugesOwned' /\ PreviewKept'
    BY <1>1 DEF SInv, Stories, GaugesOwned, PreviewKept, Succeeding
  <1>4. ShownProtected'
    BY <1>1, <1>2 DEF SInv, ShownProtected
  <1>. QED BY <1>3, <1>4 DEF SInv

LEMMA InitTells ==
  ASSUME Init
  PROVE  SInv
  <1>0. None \notin Calls /\ 1 \in Gauges
    BY NoneAssumption, BoundsAssumption DEF Gauges
  <1>1. \A c \in Calls : \E d \in Dates : call[c] = NewCall(d)
    BY DEF Init
  <1>2. \A c \in Calls : /\ call[c].pc = "idle" /\ call[c].reply = None
                          /\ Unopened(call[c])
    <2>1. ASSUME NEW d
          PROVE  /\ NewCall(d).pc = "idle" /\ NewCall(d).reply = None
                 /\ Unopened(NewCall(d))
      BY DEF NewCall, Unopened, Silent
    <2>. QED BY <1>1, <2>1
  <1>3. Stories /\ GaugesOwned
    BY <1>2 DEF Stories, Story, Underway, GaugesOwned
  <1>4. \A g \in Gauges, d \in Dates : gauges[g][d] = None /\ exported[g][d] = None
    BY DEF Init, NoGauges
  <1>5. ShownProtected /\ PreviewKept
    BY <1>0, <1>4 DEF Init, ShownProtected, PreviewKept
  <1>. QED BY <1>5, <1>3 DEF SInv

(* The second invariant holds of every reachable state.                    *)
THEOREM StoryInvariance == Spec => []SInv
  <1>1. Init => SInv
    BY InitTells
  <1>2. IInv /\ IInv' /\ SInv /\ [Next]_vars => SInv'
    <2>. SUFFICES ASSUME IInv, IInv', SInv, [Next]_vars
         PROVE  SInv'
      OBVIOUS
    <2>1. CASE UNCHANGED vars
      BY <2>1 DEF vars, reader, SInv, Stories, ShownProtected, GaugesOwned, PreviewKept,
                  Succeeding
    <2>2. ASSUME NEW d \in Dates, Revise(d)
          PROVE  SInv'
      BY <2>2 DEF Revise, reader, SInv, Stories, ShownProtected, GaugesOwned, PreviewKept,
                  Succeeding
    <2>. QED BY <2>1, <2>2, StepShows, ExportShows, CrashTells DEF Next
  <1>. QED BY <1>1, <1>2, Invariance, PTL DEF Spec

(* The events, the span and the reply of every call tell one story.        *)
THEOREM OneStory == Spec => []OneStoryPerCall
  <1>1. IInv /\ SInv => OneStoryPerCall
    <2>. SUFFICES ASSUME IInv, SInv, NEW c \in Calls
         PROVE  /\ (call[c].span = "success") = (call[c].events = Checkpoints)
                /\ (call[c].span = "success") = (call[c].reply = "summary")
                /\ (call[c].span = "failed") = (\E n \in 1 .. 3 : call[c].events
                     = Append(SubSeq(Checkpoints, 1, n), "collection_failed"))
                /\ (call[c].span = "failed")
                     = (call[c].reply \in {"ProviderError", "CollectionFailed"})
                /\ call[c].span = "started" =>
                     \E n \in 1 .. 3 : call[c].events = SubSeq(Checkpoints, 1, n)
      BY DEF OneStoryPerCall
    <2>. HIDE DEF Checkpoints
    <2>1. Agreement(call[c])
      BY CallFields, StoriesAgree DEF IInv, SInv, Stories
    <2>. DEFINE ended(n) == Append(SubSeq(Checkpoints, 1, n), "collection_failed")
    <2>2. (call[c].span = "success") = (call[c].events = Checkpoints)
      BY <2>1 DEF Agreement
    <2>3. (call[c].span = "success") = (call[c].reply = "summary")
      BY <2>1 DEF Agreement
    <2>4. (call[c].span = "failed") = (\E n \in 1 .. 3 : call[c].events = ended(n))
      BY <2>1 DEF Agreement, Told
    <2>5. (call[c].span = "failed")
            = (call[c].reply \in {"ProviderError", "CollectionFailed"})
      BY <2>1 DEF Agreement
    <2>. QED BY <2>1, <2>2, <2>3, <2>4, <2>5 DEF Agreement, Told
  <1>. QED BY <1>1, Invariance, StoryInvariance, PTL

(* An answered call published nothing or everything, and everything        *)
(* without success only when the write of the preview raised.              *)
THEOREM AllOrNothing == Spec => []AllOrNothingPublished
  <1>1. IInv /\ SInv => AllOrNothingPublished
    <2>. SUFFICES ASSUME IInv, SInv, NEW c \in Calls,
                         At(c, "done"), call[c].reply # "lost"
         PROVE  /\ call[c].gaugesSet = call[c].usage * GaugeCount
                /\ call[c].usage <= 1
                /\ call[c].reply = "summary" => call[c].usage = 1
                /\ call[c].usage = 1 /\ call[c].reply # "summary" =>
                     settings.preview /\ call[c].reply = "CollectionFailed"
      BY DEF AllOrNothingPublished
    <2>1. Over(settings, call[c])
      BY DEF SInv, Stories, Story, At
    <2>2. /\ Silent(call[c]) \/ Emitted(call[c])
          /\ call[c].reply = "summary" => Emitted(call[c])
          /\ Emitted(call[c]) /\ call[c].reply # "summary" =>
               settings.preview /\ call[c].reply = "CollectionFailed"
      BY <2>1 DEF Over, Succeeded, Failed, Refused, Cancelled, Lost, Unopened, Silent,
                  Emitted
    <2>. QED BY <2>2, BoundsAssumption DEF Silent, Emitted
  <1>. QED BY <1>1, Invariance, StoryInvariance, PTL

(* Nothing that aggregation and privacy processing reject is ever shown.   *)
THEOREM OnlyProtected == Spec => []OnlyProtectedDataPublished
  <1>1. IInv /\ SInv => OnlyProtectedDataPublished
    <2>. SUFFICES ASSUME IInv, SInv
         PROVE  OnlyProtectedDataPublished
      OBVIOUS
    <2>1. ASSUME NEW c \in Calls, call[c].usage > 0
          PROVE  Usable(call[c])
      <3>1. Agreement(call[c])
        BY CallFields, StoriesAgree DEF IInv, SInv, Stories
      <3>. QED BY <2>1, <3>1 DEF Agreement
    <2>2. \A c \in Calls : preview = c => Usable(call[c])
      BY NoneAssumption DEF SInv, ShownProtected
    <2>. QED BY <2>1, <2>2 DEF SInv, ShownProtected, OnlyProtectedDataPublished, Usable
  <1>. QED BY <1>1, Invariance, StoryInvariance, PTL

(* Synthetic collections never overlap.                                    *)
THEOREM MockSerial == Spec => []MockCollectionsAreSerial
  <1>1. IInv /\ SInv => MockCollectionsAreSerial
    <2>. SUFFICES ASSUME IInv, SInv, settings.provider = "mock",
                         NEW b \in Calls, call[b].pc \in RunningPCs \cup {"awaiting"}
         PROVE  loop = b
      BY DEF MockCollectionsAreSerial
    <2>1. call[b].pc # "awaiting"
      BY DEF SInv, Stories, Story, Underway
    <2>. QED BY <2>1 DEF IInv, LoopOwned
  <1>. QED BY <1>1, Invariance, StoryInvariance, PTL

(* Between two calls the preview on disk agrees with the gauges.           *)
THEOREM PreviewAgrees == Spec => []PreviewAgreesWithGauges
  <1>1. SInv => PreviewAgreesWithGauges
    BY DEF SInv, PreviewKept, Succeeding, PreviewAgreesWithGauges
  <1>. QED BY <1>1, StoryInvariance, PTL

-------------------------------------------------------------------------------
(* Collection implements Publication.  While a call runs, the gauges are   *)
(* the committed ones with the call written over those it has set, and the *)
(* preview is the committed one until the call replaces it, or comes to an *)
(* error of the write that may have replaced it.                           *)
SetBy(c, d, old, n) ==
  [g \in Gauges |-> IF g <= n THEN [old[g] EXCEPT ![d] = c] ELSE old[g]]

PreviewsSince(c) ==
  IF settings.preview /\ call[c].pc = "completing" THEN {c}
  ELSE IF settings.preview /\ call[c].pc = "failing" /\ call[c].usage = 1
    THEN {committed.preview, c}
  ELSE {committed.preview}

CommittedSince ==
  IF loop = None THEN committed = Shown
  ELSE /\ gauges = SetBy(loop, call[loop].date, committed.gauges, call[loop].gaugesSet)
       /\ preview \in PreviewsSince(loop)

HInv ==
  /\ committed \in [gauges : [Gauges -> [Dates -> Calls \cup {None}]],
                    preview : Calls \cup {None}]
  /\ CommittedSince

(* When a call has the event loop it keeps it until it returns, and only   *)
(* the last step follows the preview or a failure.                         *)
LEMMA StepOrder ==
  ASSUME IInv, NEW c \in Calls,
         Arrive(c) \/ LoopStep(c) \/ UpstreamStep(c) \/ Cancel(c)
  PROVE  /\ call[c].pc # "done"
         /\ call[c].pc \in {"completing", "failing"} =>
              loop' = None /\ (Complete(c) \/ Fail(c))
         /\ SetGauge(c) \/ Writes(c) => loop = c /\ loop' = c
         /\ loop = c /\ loop' = None => Complete(c) \/ Fail(c)
  <1>1. c # None
    BY NoneAssumption
  <1>2. /\ call[c].pc # "done"
        /\ call[c].pc \in {"completing", "failing"} =>
             loop' = None /\ (Complete(c) \/ Fail(c))
    BY DEF LoopStep, UpstreamStep, Arrive, RefuseUnready, BeginMock, BeginAnthropic,
           BeginEarlyDate, Resume, MapRecords, Protect, SetGauge, EmitUsage, WritePreview,
           PreviewError, Fail, Complete, Answered, Faulted, Cancel, Unanswered, Runs, Free, At
  <1>3. SetGauge(c) \/ Writes(c) => loop = c /\ loop' = c
    BY DEF SetGauge, Writes, WritePreview, PreviewError, Runs
  <1>4. loop = c /\ loop' = None => Complete(c) \/ Fail(c)
    BY <1>1 DEF LoopStep, UpstreamStep, Arrive, RefuseUnready, BeginMock, BeginAnthropic,
           BeginEarlyDate, Resume, MapRecords, Protect, SetGauge, EmitUsage, WritePreview,
           PreviewError, Answered, Faulted, Cancel, Unanswered, Free
  <1>. QED BY <1>2, <1>3, <1>4

(* The history variable is as it should be.                                *)
LEMMA StepCommits ==
  ASSUME IInv, IInv', SInv, SInv', HInv, NEW c \in Calls,
         Arrive(c) \/ LoopStep(c) \/ UpstreamStep(c) \/ Cancel(c),
         committed' = IF loop' = None THEN Shown' ELSE committed
  PROVE  HInv'
  <1>0. c # None /\ None \notin Calls /\ GaugeCount \in Nat \ {0}
    BY NoneAssumption, BoundsAssumption
  <1>1. /\ gauges \in [Gauges -> [Dates -> Calls \cup {None}]]
        /\ gauges' \in [Gauges -> [Dates -> Calls \cup {None}]]
        /\ preview' \in Calls \cup {None} /\ loop \in Calls \cup {None}
        /\ call[c] \in CallStates /\ call \in [Calls -> CallStates]
        /\ call[c].date \in Dates /\ call[c].gaugesSet \in 0 .. GaugeCount
    BY CallFields DEF IInv, TypeOK
  <1>2. settings' = settings
    BY RestTyped
  <1>3. /\ \A b \in Calls \ {c} : call'[b] = call[b]
        /\ call'[c].date = call[c].date
        /\ SetGauge(c) \/ gauges' = gauges
        /\ Writes(c) \/ preview' = preview
        /\ WritePreview(c) \/ (Succeeding(c)' => Succeeding(c))
    BY StepTurns
  <1>4. /\ call[c].pc # "done"
        /\ call[c].pc \in {"completing", "failing"} =>
             loop' = None /\ (Complete(c) \/ Fail(c))
        /\ SetGauge(c) \/ Writes(c) => loop = c /\ loop' = c
    BY StepOrder
  <1>5. committed' \in [gauges : [Gauges -> [Dates -> Calls \cup {None}]],
                        preview : Calls \cup {None}]
    BY <1>1 DEF HInv, Shown
  <1>6. call[c].reply # "summary"
    <2>1. Underway(settings, call[c])
      BY <1>4 DEF SInv, Stories, Story
    <2>. QED BY <2>1, NoneAssumption DEF Underway, Replies
  <1>7. CASE loop' = None
    BY <1>5, <1>7 DEF HInv, CommittedSince
  <1>8. CASE loop' # None
    <2>1. committed' = committed
      BY <1>8
    <2>2. CASE SetGauge(c)
      <3>. DEFINE n == call[c].gaugesSet + 1
                  p == IF n = GaugeCount THEN "logging" ELSE "metering"
      <3>1. /\ call[c].pc = "metering" /\ loop = c /\ loop' = c
            /\ call' = [call EXCEPT ![c].gaugesSet = n, ![c].pc = p]
            /\ gauges' = [gauges EXCEPT ![n][call[c].date] = c]
        BY <2>2 DEF SetGauge, RecordGauge, Runs, At
      <3>2. p \notin {"completing", "failing"} /\ n \in Gauges /\ call[c].gaugesSet = n - 1
        BY <1>0, <1>1, <3>1 DEF IInv, CountsInStep, Gauges
      <3>. HIDE DEF n, p
      <3>3. call'[c].gaugesSet = n /\ call'[c].pc = p
        BY <1>1, <3>1 DEF CallStates
      <3>4. gauges = SetBy(c, call[c].date, committed.gauges, n - 1)
        BY <1>0, <3>1, <3>2 DEF HInv, CommittedSince
      <3>5. gauges' = SetBy(c, call[c].date, committed.gauges, n)
        <4>. DEFINE new == SetBy(c, call[c].date, committed.gauges, n)
        <4>1. \A g \in Gauges : gauges'[g] = new[g]
          <5>. SUFFICES ASSUME NEW g \in Gauges
               PROVE  gauges'[g] = new[g]
            OBVIOUS
          <5>. DEFINE written == [committed.gauges[g] EXCEPT ![call[c].date] = c]
          <5>1. g \in Nat /\ n \in Nat
            BY <3>2 DEF Gauges
          <5>2. gauges[g] = IF g <= n - 1 THEN written ELSE committed.gauges[g]
            BY <3>4 DEF SetBy
          <5>3. new[g] = IF g <= n THEN written ELSE committed.gauges[g]
            BY DEF SetBy
          <5>4. gauges'[g] = IF g = n THEN [gauges[g] EXCEPT ![call[c].date] = c]
                                      ELSE gauges[g]
            BY <1>1, <3>1
          <5>5. CASE g = n
            BY <5>1, <5>2, <5>3, <5>4, <5>5
          <5>6. CASE g # n
            <6>1. g <= n - 1 <=> g <= n
              BY <5>1, <5>6
            <6>. QED BY <5>2, <5>3, <5>4, <5>6, <6>1
          <5>. QED BY <5>5, <5>6
        <4>2. new = [g \in Gauges |-> new[g]]
          BY DEF SetBy
        <4>3. gauges' = [g \in Gauges |-> gauges'[g]]
          BY <1>1
        <4>. HIDE DEF new
        <4>4. gauges' = new
          BY <4>1, <4>2, <4>3
        <4>. QED BY <4>4 DEF new
      <3>6. preview = committed.preview /\ preview' = preview
        <4>1. ~ Writes(c)
          BY <3>1 DEF Writes, WritePreview, PreviewError, Runs, At
        <4>. QED BY <1>0, <1>3, <3>1, <4>1 DEF HInv, CommittedSince, PreviewsSince
      <3>. QED BY <1>0, <1>3, <1>5, <2>1, <3>1, <3>2, <3>3, <3>5, <3>6
           DEF HInv, CommittedSince, PreviewsSince
    <2>3. CASE ~ SetGauge(c)
      <3>1. PICK p \in PCs : Moved(c, p)
        BY <2>3, StepsMove
      <3>2. /\ gauges' = gauges /\ call'[c].pc = p
            /\ call'[c].gaugesSet = call[c].gaugesSet
            /\ IF p \in RunningPCs THEN loop \in {c, None} /\ loop' = c
               ELSE loop' = (IF loop = c THEN None ELSE loop)
        BY <3>1 DEF Moved
      <3>3. CASE p \in RunningPCs /\ loop = None
        <4>1. loop' = c /\ committed = Shown
          BY <3>2, <3>3 DEF HInv, CommittedSince
        <4>2. call[c].pc \in {"idle", "queued", "awaiting"}
          BY <1>0, <1>1, <1>4, <3>3 DEF IInv, LoopOwned, RunningPCs, CallStates
        <4>3. call[c].gaugesSet = 0 /\ call[c].pc # "completing"
          BY <4>2 DEF IInv, CountsInStep, BeforeGauges
        <4>4. preview' = preview /\ call'[c].pc # "completing"
          BY <1>0, <1>3, <1>4, <1>6, <3>3, <4>3 DEF Succeeding, Writes
        <4>5. gauges = SetBy(c, call[c].date, gauges, 0)
          <5>1. \A g \in Gauges : ~ (g <= 0)
            BY DEF Gauges
          <5>2. gauges = [g \in Gauges |-> gauges[g]]
            BY <1>1
          <5>. QED BY <5>1, <5>2 DEF SetBy
        <4>. QED BY <1>0, <1>3, <1>5, <2>1, <3>2, <4>1, <4>3, <4>4, <4>5
             DEF HInv, CommittedSince, PreviewsSince, Shown
      <3>4. CASE p \in RunningPCs /\ loop = c
        <4>1. loop' = c /\ gauges' = SetBy(c, call[c].date, committed.gauges, call[c].gaugesSet)
          BY <1>0, <3>2, <3>4 DEF HInv, CommittedSince
        <4>2. /\ call[c].pc \notin {"completing", "failing"}
              /\ preview = committed.preview
          BY <1>0, <1>4, <3>4, <4>1 DEF HInv, CommittedSince, PreviewsSince
        <4>3. preview' \in PreviewsSince(c)'
          <5>1. CASE WritePreview(c)
            BY <1>2, <2>1, <4>2, <5>1, WriteEnds DEF Writes, PreviewsSince
          <5>2. CASE PreviewError(c)
            BY <1>2, <2>1, <4>2, <5>2, WriteEnds DEF Writes, PreviewsSince, Emitted
          <5>3. CASE ~ Writes(c)
            BY <1>2, <1>3, <1>6, <2>1, <4>2, <5>3
            DEF Writes, Succeeding, PreviewsSince
          <5>. QED BY <5>1, <5>2, <5>3 DEF Writes
        <4>. QED BY <1>0, <1>2, <1>3, <1>5, <2>1, <3>2, <4>1, <4>3 DEF HInv, CommittedSince
      <3>5. CASE p \notin RunningPCs
        <4>1. loop' = loop /\ loop \in Calls \ {c}
          BY <1>1, <1>8, <3>2, <3>5
        <4>2. call'[loop] = call[loop] /\ preview' = preview
          BY <1>3, <1>4, <4>1
        <4>. QED BY <1>0, <1>2, <1>5, <2>1, <3>2, <4>1, <4>2
             DEF HInv, CommittedSince, PreviewsSince
      <3>. QED BY <3>2, <3>3, <3>4, <3>5
    <2>. QED BY <2>2, <2>3
  <1>. QED BY <1>7, <1>8

(* Crashes, exports and revisions commit nothing, or everything at once.   *)
LEMMA OthersCommit ==
  ASSUME IInv, IInv', HInv,
         Crash \/ ExportGauge \/ (\E d \in Dates : Revise(d)),
         committed' = IF loop' = None THEN Shown' ELSE committed
  PROVE  HInv'
  <1>1. /\ gauges' \in [Gauges -> [Dates -> Calls \cup {None}]]
        /\ preview' \in Calls \cup {None}
    BY DEF IInv, TypeOK
  <1>2. committed' \in [gauges : [Gauges -> [Dates -> Calls \cup {None}]],
                        preview : Calls \cup {None}]
    BY <1>1 DEF HInv, Shown
  <1>3. CASE loop' = None
    BY <1>2, <1>3 DEF HInv, CommittedSince
  <1>4. CASE loop' # None
    <2>1. UNCHANGED <<settings, call, loop, gauges, preview>>
      BY <1>4 DEF Crash, ExportGauge, Revise
    <2>. QED BY <1>2, <1>4, <2>1 DEF HInv, CommittedSince, PreviewsSince
  <1>. QED BY <1>3, <1>4

(* What HSpec adds to Spec is the history variable.                        *)
LEMMA HistoryOnly == HSpec => Spec
  <1>1. HInit => Init
    BY DEF HInit
  <1>2. [HNext]_HVars => [Next]_vars
    BY DEF HNext, HVars
  <1>. QED BY <1>1, <1>2, PTL DEF HSpec, Spec

(* The committed state is known at every moment.                           *)
THEOREM HistoryInvariance == HSpec => []HInv
  <1>1. HInit => HInv
    <2>. SUFFICES ASSUME HInit
         PROVE  HInv
      OBVIOUS
    <2>1. IInv /\ loop = None
      BY InitInvariant DEF HInit, Init
    <2>. QED BY <2>1 DEF HInit, HInv, CommittedSince, Shown, IInv, TypeOK
  <1>2. IInv /\ IInv' /\ SInv /\ SInv' /\ HInv /\ [HNext]_HVars => HInv'
    <2>. SUFFICES ASSUME IInv, IInv', SInv, SInv', HInv, [HNext]_HVars
         PROVE  HInv'
      OBVIOUS
    <2>1. CASE UNCHANGED HVars
      BY <2>1 DEF HVars, vars, reader, HInv, CommittedSince, PreviewsSince, Shown
    <2>2. CASE HNext
      BY <2>2, StepCommits, OthersCommit DEF HNext, Next
    <2>. QED BY <2>1, <2>2
  <1>. QED BY <1>1, <1>2, HistoryOnly, Invariance, StoryInvariance, PTL DEF HSpec

(* How a call that is over ended, for an observer.                         *)
LEMMA StatusOfEnded ==
  ASSUME NEW c \in Calls, Stories
  PROVE  /\ call[c].pc # "done" => StatusOf(c) = "open"
         /\ call[c].pc = "done" /\ call[c].reply = "summary" => StatusOf(c) = "published"
         /\ call[c].pc = "done" /\ Failed(settings, call[c]) /\ Emitted(call[c]) =>
              StatusOf(c) = "unconfirmed" /\ settings.preview
         /\ call[c].pc = "done" /\ Silent(call[c]) => StatusOf(c) = "nothing"
         /\ call[c].pc = "done" /\ call[c].reply = "lost" => StatusOf(c) = "nothing"
  <1>1. call[c].pc # "done" => StatusOf(c) = "open"
    <2>1. call[c].pc # "done" => call[c].reply \notin Replies
      BY NoneAssumption DEF Stories, Story, Underway
    <2>. QED BY <2>1 DEF StatusOf, Replies
  <1>2. call[c].pc = "done" /\ call[c].reply = "summary" => StatusOf(c) = "published"
    BY DEF StatusOf
  <1>3. call[c].pc = "done" /\ call[c].reply = "lost" => StatusOf(c) = "nothing"
    BY DEF StatusOf
  <1>4. ASSUME call[c].pc = "done", Silent(call[c])
        PROVE  StatusOf(c) = "nothing"
    <2>1. Over(settings, call[c])
      BY <1>4 DEF Stories, Story
    <2>2. call[c].reply # "summary" /\ call[c].usage # 1
      BY <1>4, <2>1 DEF Over, Succeeded, Failed, Refused, Cancelled, Lost, Silent, Emitted
    <2>. QED BY <1>4, <2>2 DEF StatusOf
  <1>5. ASSUME call[c].pc = "done", Failed(settings, call[c]), Emitted(call[c])
        PROVE  StatusOf(c) = "unconfirmed" /\ settings.preview
    <2>1. call[c].reply = "CollectionFailed" /\ call[c].usage = 1 /\ settings.preview
      BY <1>5 DEF Failed, Silent, Emitted
    <2>. QED BY <1>5, <2>1 DEF StatusOf
  <1>. QED BY <1>1, <1>2, <1>3, <1>4, <1>5

(* Each step of a call is a publication, or one that publishes nothing, or *)
(* goes unnoticed.                                                         *)
LEMMA StepPublishes ==
  ASSUME IInv, IInv', SInv, SInv', HInv, NEW c \in Calls,
         Arrive(c) \/ LoopStep(c) \/ UpstreamStep(c) \/ Cancel(c),
         committed' = IF loop' = None THEN Shown' ELSE committed
  PROVE  P!Publish(c) \/ P!PublishUnconfirmed(c) \/ P!PublishNothing(c) \/ UNCHANGED P!vars
  <1>. DEFINE date == [b \in Calls |-> call[b].date]
              status == [b \in Calls |-> StatusOf(b)]
  <1>0. c # None /\ None \notin Calls /\ GaugeCount \in Nat \ {0}
    BY NoneAssumption, BoundsAssumption
  <1>1. /\ gauges \in [Gauges -> [Dates -> Calls \cup {None}]]
        /\ gauges' \in [Gauges -> [Dates -> Calls \cup {None}]]
        /\ committed.gauges \in [Gauges -> [Dates -> Calls \cup {None}]]
        /\ loop \in Calls \cup {None} /\ call[c] \in CallStates
        /\ call \in [Calls -> CallStates]
    BY CallFields DEF IInv, TypeOK, HInv
  <1>2. settings' = settings
    BY RestTyped
  <1>3. /\ \A b \in Calls \ {c} : call'[b] = call[b]
        /\ call'[c].date = call[c].date
        /\ SetGauge(c) \/ gauges' = gauges
        /\ Writes(c) \/ preview' = preview
        /\ Returns(c) \/ call'[c].pc # "done"
    BY StepTurns
  <1>4. /\ call[c].pc # "done"
        /\ SetGauge(c) \/ Writes(c) => loop = c /\ loop' = c
        /\ loop = c /\ loop' = None => Complete(c) \/ Fail(c)
    BY StepOrder
  <1>5. \A b \in Calls \ {c} : StatusOf(b)' = StatusOf(b)
    BY <1>3 DEF StatusOf
  <1>6. date' = date
    BY <1>3
  <1>7. StatusOf(c) = "open"
    BY <1>4, StatusOfEnded DEF SInv
  <1>8. status' = [status EXCEPT ![c] = StatusOf(c)']
    BY <1>5
  <1>9. ASSUME NEW t, StatusOf(c)' = t
        PROVE  P!Close(c, t)
    BY <1>2, <1>6, <1>7, <1>8, <1>9 DEF P!Close
  <1>10. CASE ~ Returns(c)
    <2>1. status' = status
      <3>1. call'[c].pc # "done" /\ call'[c].reply \notin Replies
        BY <1>3, <1>10, NoneAssumption DEF SInv, Stories, Story, Underway
      <3>2. StatusOf(c)' = "open"
        BY <3>1 DEF StatusOf, Replies
      <3>. QED BY <1>5, <1>7, <3>2
    <2>2. committed' = committed
      <3>1. CASE loop' # None
        BY <3>1
      <3>2. CASE loop' = None
        <4>1. loop # c /\ ~ SetGauge(c) /\ ~ Writes(c)
          BY <1>0, <1>4, <1>10, <3>2 DEF Returns
        <4>2. loop = None
          <5>1. PICK p \in PCs : Moved(c, p)
            BY <4>1, StepsMove
          <5>. QED BY <1>0, <3>2, <4>1, <5>1 DEF Moved
        <4>. QED BY <1>3, <3>2, <4>1, <4>2 DEF HInv, CommittedSince, Shown
      <3>. QED BY <3>1, <3>2
    <2>. QED BY <1>2, <1>6, <2>1, <2>2 DEF P!vars
  <1>11. CASE Returns(c)
    <2>. DEFINE new == [g \in Gauges |-> [committed.gauges[g] EXCEPT ![call[c].date] = c]]
    <2>1. /\ loop' = None /\ gauges' = gauges /\ preview' = preview
          /\ committed'.gauges = gauges /\ committed'.preview = preview
      BY <1>11 DEF Returns, RefuseUnready, Cancel, Complete, Fail, Free, Shown
    <2>2. ASSUME loop = c, Emitted(call[c])
          PROVE  P!SetTotals(c)
      <3>1. gauges = SetBy(c, call[c].date, committed.gauges, GaugeCount)
        BY <1>0, <2>2 DEF HInv, CommittedSince, Emitted
      <3>2. SetBy(c, call[c].date, committed.gauges, GaugeCount) = new
        <4>1. \A g \in Gauges : g <= GaugeCount
          BY DEF Gauges
        <4>. QED BY <4>1 DEF SetBy
      <3>. QED BY <2>1, <3>1, <3>2 DEF P!SetTotals
    <2>3. CASE Complete(c)
      <3>1. loop = c /\ call[c].pc = "completing" /\ call'[c].pc = "done"
            /\ call'[c].reply = "summary"
        BY <1>1, <2>3 DEF Complete, Runs, At, CallStates
      <3>2. Emitted(call[c])
        BY <3>1 DEF SInv, Stories, Story, Underway
      <3>3. StatusOf(c)' = "published"
        BY <3>1 DEF StatusOf
      <3>4. preview = IF settings.preview THEN c ELSE committed.preview
        BY <1>0, <3>1 DEF HInv, CommittedSince, PreviewsSince
      <3>5. P!Publish(c)
        BY <1>9, <2>1, <2>2, <3>1, <3>2, <3>3, <3>4 DEF P!Publish
      <3>. QED BY <3>5
    <2>4. CASE Fail(c)
      <3>1. loop = c /\ call[c].pc = "failing"
        BY <2>4 DEF Fail, Runs, At
      <3>2. /\ call'[c].pc = "done" /\ call'[c].usage = call[c].usage
            /\ call'[c].gaugesSet = call[c].gaugesSet /\ call'[c].answer = call[c].answer
            /\ call'[c].reply = ReplyTo(call[c].error)
        BY <1>1, <2>4 DEF Fail, CallStates
      <3>3. /\ preview \in {committed.preview, c}
            /\ call[c].usage # 1 => preview = committed.preview
        BY <1>0, <3>1 DEF HInv, CommittedSince, PreviewsSince
      <3>4. Silent(call[c]) \/ (Emitted(call[c]) /\ settings.preview
                                 /\ call[c].error = "OtherError")
        BY <3>1 DEF SInv, Stories, Story, Underway
      <3>5. CASE Emitted(call[c]) /\ settings.preview /\ call[c].error = "OtherError"
        <4>1. StatusOf(c)' = "unconfirmed"
          BY <3>2, <3>5 DEF StatusOf, Emitted, ReplyTo
        <4>2. P!PublishUnconfirmed(c)
          BY <1>9, <2>1, <2>2, <3>1, <3>3, <3>5, <4>1 DEF P!PublishUnconfirmed
        <4>. QED BY <4>2
      <3>6. CASE Silent(call[c])
        <4>1. StatusOf(c)' = "nothing"
          BY <3>2, <3>6 DEF StatusOf, Silent, ReplyTo
        <4>2. gauges = committed.gauges
          <5>1. gauges = SetBy(c, call[c].date, committed.gauges, 0)
            BY <1>0, <3>1, <3>6 DEF HInv, CommittedSince, Silent
          <5>2. \A g \in Gauges : ~ (g <= 0)
            BY DEF Gauges
          <5>. QED BY <1>1, <5>1, <5>2 DEF SetBy
        <4>3. P!PublishNothing(c)
          BY <1>9, <2>1, <3>3, <3>6, <4>1, <4>2 DEF P!PublishNothing, Silent
        <4>. QED BY <4>3
      <3>. QED BY <3>4, <3>5, <3>6
    <2>5. CASE RefuseUnready(c) \/ Cancel(c)
      <3>1. /\ loop = None /\ call'[c].pc = "done"
            /\ call'[c].reply \in {"ServiceConfigurationError", "cancelled"}
        BY <1>1, <2>5 DEF RefuseUnready, Cancel, Free, CallStates
      <3>2. StatusOf(c)' = "nothing"
        BY <3>1 DEF StatusOf
      <3>3. committed = Shown
        BY <3>1 DEF HInv, CommittedSince
      <3>4. P!PublishNothing(c)
        BY <1>9, <2>1, <3>2, <3>3 DEF P!PublishNothing, Shown
      <3>. QED BY <3>4
    <2>. QED BY <1>11, <2>3, <2>4, <2>5 DEF Returns
  <1>. QED BY <1>10, <1>11

(* A crash is the abstract process dying: its gauges are gone, every call  *)
(* that had arrived is over, and the running one may have left its preview.*)
LEMMA CrashDies ==
  ASSUME IInv, SInv, HInv, Crash,
         committed' = IF loop' = None THEN Shown' ELSE committed
  PROVE  P!Die
  <1>. DEFINE status == [b \in Calls |-> StatusOf(b)]
              gone == {c \in Calls : call[c].pc \notin {"idle", "done"}}
  <1>0. None \notin Calls
    BY NoneAssumption
  <1>1. /\ UNCHANGED <<settings, preview>> /\ gauges' = NoGauges /\ loop' = None
        /\ call' = [c \in Calls |->
             IF call[c].pc \in {"idle", "done"} THEN call[c]
             ELSE [call[c] EXCEPT !.pc = "done", !.reply = "lost"]]
    BY DEF Crash
  <1>2. committed'.gauges = P!Unset /\ committed'.preview = preview
    BY <1>1 DEF Shown, NoGauges, P!Unset
  <1>3. ASSUME NEW c \in gone
        PROVE  /\ StatusOf(c) = "open" /\ StatusOf(c)' = "nothing"
               /\ call'[c].date = call[c].date
    <2>1. call[c] \in CallStates
      BY CallFields DEF IInv
    <2>2. call'[c] = [call[c] EXCEPT !.pc = "done", !.reply = "lost"]
      BY <1>1
    <2>3. /\ call'[c].pc = "done" /\ call'[c].reply = "lost"
          /\ call'[c].date = call[c].date
      BY <2>1, <2>2 DEF CallStates
    <2>4. StatusOf(c) = "open"
      BY StatusOfEnded DEF SInv
    <2>. QED BY <2>3, <2>4 DEF StatusOf
  <1>4. ASSUME NEW c \in Calls \ gone
        PROVE  StatusOf(c)' = StatusOf(c) /\ call'[c].date = call[c].date
    <2>1. call'[c] = call[c]
      BY <1>1
    <2>. QED BY <2>1 DEF StatusOf
  <1>5. status' = [c \in Calls |-> IF c \in gone THEN "nothing" ELSE status[c]]
    BY <1>3, <1>4
  <1>6. [c \in Calls |-> call[c].date]' = [c \in Calls |-> call[c].date]
    BY <1>3, <1>4
  <1>7. gone \in SUBSET {c \in Calls : status[c] = "open"}
    BY <1>3
  <1>8. preview \in {committed.preview} \cup (IF settings.preview THEN gone ELSE {})
    <2>1. CASE loop = None
      BY <2>1 DEF HInv, CommittedSince, Shown
    <2>2. CASE loop # None
      <3>1. loop \in gone
        BY <2>2 DEF IInv, TypeOK, LoopOwned, RunningPCs
      <3>. QED BY <2>2, <3>1 DEF HInv, CommittedSince, PreviewsSince
    <2>. QED BY <2>1, <2>2
  <1>. QED BY <1>1, <1>2, <1>5, <1>6, <1>7, <1>8 DEF P!Die

(* Every step of the gateway is one of the abstract process, or unnoticed. *)
LEMMA StepImplements ==
  ASSUME IInv, IInv', SInv, SInv', HInv, [HNext]_HVars
  PROVE  [P!Next]_(P!vars)
  <1>1. CASE UNCHANGED HVars
    BY <1>1 DEF HVars, vars, P!vars, StatusOf
  <1>2. ASSUME NEW c \in Calls,
               Arrive(c) \/ LoopStep(c) \/ UpstreamStep(c) \/ Cancel(c),
               committed' = IF loop' = None THEN Shown' ELSE committed
        PROVE  [P!Next]_(P!vars)
    BY <1>2, StepPublishes DEF P!Next
  <1>3. ASSUME ExportGauge \/ (\E d \in Dates : Revise(d)),
               committed' = IF loop' = None THEN Shown' ELSE committed
        PROVE  [P!Next]_(P!vars)
    <2>1. UNCHANGED <<settings, call, loop, gauges, preview>>
      BY <1>3 DEF ExportGauge, Revise
    <2>2. committed' = committed
      BY <1>3, <2>1 DEF HInv, CommittedSince, Shown
    <2>. QED BY <2>1, <2>2 DEF P!vars, StatusOf
  <1>4. ASSUME Crash, committed' = IF loop' = None THEN Shown' ELSE committed
        PROVE  [P!Next]_(P!vars)
    BY <1>4, CrashDies DEF P!Next
  <1>. QED BY <1>1, <1>2, <1>3, <1>4 DEF HNext, Next

(* The synchronous tail of every collection is a transaction.              *)
THEOREM Transactional == HSpec => ImplementsPublication
  <1>1. HInit => P!Init
    <2>. SUFFICES ASSUME HInit
         PROVE  P!Init
      OBVIOUS
    <2>1. PICK date \in [Calls -> Dates] : call = [c \in Calls |-> NewCall(date[c])]
      BY DEF HInit, Init
    <2>2. ASSUME NEW c \in Calls
          PROVE  call[c].date = date[c] /\ StatusOf(c) = "open"
      <3>1. ASSUME NEW d
            PROVE  NewCall(d).date = d /\ NewCall(d).pc = "idle" /\ NewCall(d).reply = None
        BY DEF NewCall
      <3>2. call[c].date = date[c] /\ call[c].pc = "idle" /\ call[c].reply \notin Replies
        BY <2>1, <3>1, NoneAssumption
      <3>. QED BY <3>2 DEF StatusOf, Replies
    <2>3. settings.preview \in BOOLEAN
      BY DEF HInit, Init, Settings
    <2>. QED BY <2>2, <2>3 DEF HInit, Init, Shown, NoGauges, P!Init, P!Unset
  <1>2. IInv /\ IInv' /\ SInv /\ SInv' /\ HInv /\ [HNext]_HVars => [P!Next]_(P!vars)
    BY StepImplements
  <1>. QED BY <1>1, <1>2, HistoryOnly, Invariance, StoryInvariance, HistoryInvariance, PTL
           DEF HSpec, ImplementsPublication, P!Spec

===============================================================================
