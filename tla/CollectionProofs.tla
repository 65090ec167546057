--------------------------- MODULE CollectionProofs ---------------------------
(***************************************************************************)
(* Proofs about Collection, for every number of requests, dates, gauges,   *)
(* revisions of the upstream and crashes.                                  *)
(***************************************************************************)
EXTENDS Collection, TLAPS

(* The call between two awaits is the one that owns the event loop.        *)
LoopOwned == \A c \in Calls : (call[c].pc \in RunningPCs) = (loop = c)

(* The pcs of a call that has not set a gauge, and of one whose retrieval  *)
(* returned contents.                                                      *)
BeforeGauges == {"idle", "queued", "awaiting", "mapping", "protecting"}
WithContents == {"mapping", "protecting", "metering", "logging", "previewing",
                 "completing"}

CountsInStep ==
  \A c \in Calls :
    /\ call[c].pc \in {"idle", "queued"} => call[c].answer = None
    /\ call[c].pc \in BeforeGauges => call[c].gaugesSet = 0
    /\ call[c].pc = "metering" => call[c].gaugesSet < GaugeCount
    /\ call[c].pc \in WithContents \/ call[c].gaugesSet > 0 => call[c].answer # None

GaugesAnswered ==
  \A g \in Gauges, d \in Dates : gauges[g][d] # None =>
    call[gauges[g][d]].answer # None /\ call[gauges[g][d]].date = d

(* Revisions only grow, from what the gauges showed when a call began, to  *)
(* what the call retrieved, to what the upstream holds now.                *)
RevisionsGrow ==
  \A c \in Calls :
    /\ call[c].floor <= upstream[call[c].date].rev
    /\ call[c].answer # None => /\ call[c].floor <= call[c].answer.rev
                                /\ call[c].answer.rev <= upstream[call[c].date].rev

(* During an emission the gauges of its date are the call's up to the last *)
(* one it set, and unchanged (hence equal) from there on; at every other   *)
(* moment, and for every other date, all gauges are equal.                 *)
Emitting(d) == loop # None /\ call[loop].pc = "metering" /\ call[loop].date = d
GaugesSplit ==
  \A d \in Dates :
    IF Emitting(d)
      THEN /\ \A g \in 1 .. call[loop].gaugesSet : gauges[g][d] = loop
           /\ \A g, h \in call[loop].gaugesSet + 1 .. GaugeCount :
                gauges[g][d] = gauges[h][d]
      ELSE \A g, h \in Gauges : gauges[g][d] = gauges[h][d]

IInv ==
  /\ TypeOK /\ LoopOwned /\ CountsInStep
  /\ GaugesAnswered /\ RevisionsGrow /\ GaugesSplit

-------------------------------------------------------------------------------
(* The fields of a call and what the typing says of them.                  *)
LEMMA CallFields ==
  ASSUME TypeOK, NEW c \in Calls
  PROVE  /\ call[c] \in CallStates
         /\ call[c].pc \in PCs /\ call[c].date \in Dates
         /\ call[c].answer \in Contents \cup {None}
         /\ call[c].gaugesSet \in 0 .. GaugeCount
         /\ call[c].usage \in Nat /\ call[c].floor \in Nat
         /\ call[c].events \in Seq(EventNames)
  BY DEF TypeOK, CallStates

(* What the workflow appends to a call's lifecycle events are event names. *)
LEMMA EventsTyped ==
  ASSUME NEW s \in Seq(EventNames)
  PROVE  /\ Append(s, "collection_started") \in Seq(EventNames)
         /\ Append(s, "records_mapped") \in Seq(EventNames)
         /\ Append(s, "aggregation_completed") \in Seq(EventNames)
         /\ Append(s, "collection_failed") \in Seq(EventNames)
         /\ s \o <<"preview_written", "collection_completed">> \in Seq(EventNames)
  <1>1. /\ "collection_started" = Checkpoints[1]
        /\ "records_mapped" = Checkpoints[2]
        /\ "aggregation_completed" = Checkpoints[3]
        /\ "preview_written" = Checkpoints[4]
        /\ "collection_completed" = Checkpoints[5]
        /\ Len(Checkpoints) = 5
    BY DEF Checkpoints
  <1>2. /\ {"preview_written", "collection_completed"} \subseteq EventNames
        /\ {"collection_started", "records_mapped", "aggregation_completed",
             "collection_failed"} \subseteq EventNames
    BY <1>1 DEF EventNames
  <1>3. <<"preview_written", "collection_completed">> \in Seq(EventNames)
    BY <1>2
  <1>. QED BY <1>2, <1>3

(* The revision on a date's last gauge is a number, no larger than the     *)
(* upstream's revision of that date.                                       *)
LEMMA RevisionBounded ==
  ASSUME TypeOK, GaugesAnswered, RevisionsGrow, NEW d \in Dates
  PROVE  /\ RevisionOf(gauges[GaugeCount][d]) \in Nat
         /\ RevisionOf(gauges[GaugeCount][d]) <= upstream[d].rev
  <1>1. GaugeCount \in Gauges
    BY BoundsAssumption DEF Gauges
  <1>2. upstream[d].rev \in 0 .. MaxRevision
    BY DEF TypeOK, Contents
  <1>3. CASE gauges[GaugeCount][d] = None
    BY <1>2, <1>3, BoundsAssumption DEF RevisionOf
  <1>4. CASE gauges[GaugeCount][d] # None
    <2> DEFINE x == gauges[GaugeCount][d]
    <2>1. x \in Calls
      BY <1>1, <1>4 DEF TypeOK
    <2>2. call[x].answer # None /\ call[x].date = d
      BY <1>1, <1>4 DEF GaugesAnswered
    <2>3. call[x].answer \in Contents
      BY <2>1, <2>2, CallFields
    <2>4. call[x].answer.rev \in 0 .. MaxRevision
      BY <2>3 DEF Contents
    <2>5. call[x].answer.rev <= upstream[d].rev
      BY <2>1, <2>2 DEF RevisionsGrow
    <2>. QED BY <1>4, <2>4, <2>5, BoundsAssumption DEF RevisionOf
  <1>. QED BY <1>3, <1>4

(* Each step keeps the record of call c a call state.                      *)
LEMMA StepTyped ==
  ASSUME IInv, NEW c \in Calls, Arrive(c) \/ LoopStep(c) \/ UpstreamStep(c) \/ Cancel(c)
  PROVE  call' \in [Calls -> CallStates]
  <1>. USE DEF IInv
  <1>. DEFINE r == call[c]  s == call[c].events
  <1>1. r \in CallStates /\ call \in [Calls -> CallStates] /\ s \in Seq(EventNames)
    BY CallFields DEF TypeOK
  <1>2. /\ Append(s, "collection_started") \in Seq(EventNames)
        /\ Append(s, "records_mapped") \in Seq(EventNames)
        /\ Append(s, "aggregation_completed") \in Seq(EventNames)
        /\ Append(s, "collection_failed") \in Seq(EventNames)
        /\ s \o <<"preview_written", "collection_completed">> \in Seq(EventNames)
    BY <1>1, EventsTyped
  <1>3. ASSUME NEW p \in PCs, NEW a \in Contents \cup {None},
               NEW e \in Faults \cup {None}, OpenSpan(c, p, a, e)
        PROVE  call' \in [Calls -> CallStates]
    <2>. DEFINE f == RevisionOf(gauges[GaugeCount][call[c].date])
    <2>1. f \in Nat
      BY <1>1, CallFields, RevisionBounded
    <2>2. call' = [call EXCEPT ![c].pc = p, ![c].span = "started",
                     ![c].events = Append(@, "collection_started"),
                     ![c].answer = a, ![c].error = e, ![c].floor = f]
      BY <1>3 DEF OpenSpan
    <2>. HIDE DEF f
    <2>. QED BY <1>1, <1>2, <2>1, <2>2 DEF CallStates
  <1>4. upstream[r.date] \in Contents
    BY CallFields DEF TypeOK
  <1>5. CASE Arrive(c)
    <2>1. call' = [call EXCEPT ![c].pc = "queued"]
      BY <1>5 DEF Arrive
    <2>. QED BY <1>1, <2>1 DEF CallStates, PCs
  <1>6. CASE RefuseUnready(c)
    <2>1. call' = [call EXCEPT ![c].pc = "done",
                               ![c].reply = "ServiceConfigurationError"]
      BY <1>6 DEF RefuseUnready
    <2>. QED BY <1>1, <2>1 DEF CallStates, PCs, Replies
  <1>7. CASE BeginMock(c)
    BY <1>3, <1>4, <1>7 DEF BeginMock, PCs
  <1>8. CASE BeginAnthropic(c)
    BY <1>3, <1>8 DEF BeginAnthropic, PCs
  <1>9. CASE BeginEarlyDate(c)
    BY <1>3, <1>9 DEF BeginEarlyDate, PCs, Faults
  <1>10. CASE Resume(c)
    <2>1. PICK p \in {"mapping", "failing"} : call' = [call EXCEPT ![c].pc = p]
      BY <1>10 DEF Resume
    <2>2. p \in PCs
      BY DEF PCs
    <2>. QED BY <1>1, <2>1, <2>2 DEF CallStates
  <1>11. CASE MapRecords(c)
    <2>1. call' = [call EXCEPT ![c].pc = "protecting",
                               ![c].events = Append(@, "records_mapped")]
      BY <1>11 DEF MapRecords
    <2>. QED BY <1>1, <1>2, <2>1 DEF CallStates, PCs
  <1>12. CASE Protect(c)
    <2>1. CASE call[c].answer.usable
      <3>1. call' = [call EXCEPT ![c].pc = "metering",
                                 ![c].events = Append(@, "aggregation_completed")]
        BY <1>12, <2>1 DEF Protect
      <3>. QED BY <1>1, <1>2, <3>1 DEF CallStates, PCs
    <2>2. CASE ~ call[c].answer.usable
      <3>1. call' = [call EXCEPT ![c].pc = "failing", ![c].error = "OtherError"]
        BY <1>12, <2>2 DEF Protect
      <3>. QED BY <1>1, <3>1 DEF CallStates, PCs, Faults
    <2>. QED BY <2>1, <2>2
  <1>13. CASE SetGauge(c)
    <2>1. call[c].gaugesSet + 1 \in 0 .. GaugeCount
      BY <1>13, CallFields, BoundsAssumption DEF SetGauge, Runs, At, CountsInStep
    <2>2. PICK p \in {"logging", "metering"} :
            call' = [call EXCEPT ![c].gaugesSet = call[c].gaugesSet + 1, ![c].pc = p]
      <3>1. CASE call[c].gaugesSet + 1 = GaugeCount
        BY <1>13, <3>1 DEF SetGauge, RecordGauge
      <3>2. CASE call[c].gaugesSet + 1 # GaugeCount
        <4>1. call' = [call EXCEPT ![c].gaugesSet = call[c].gaugesSet + 1, ![c].pc = @]
          BY <1>13, <3>2 DEF SetGauge, RecordGauge
        <4>2. call[c].pc = "metering"
          BY <1>13 DEF SetGauge, Runs, At
        <4>. QED BY <4>1, <4>2
      <3>. QED BY <3>1, <3>2
    <2>. QED BY <1>1, <2>1, <2>2 DEF CallStates, PCs
  <1>14. CASE EmitUsage(c)
    <2>1. call' = [call EXCEPT ![c].pc = "previewing", ![c].usage = @ + 1]
      BY <1>14 DEF EmitUsage
    <2>2. call[c].usage + 1 \in Nat
      BY CallFields
    <2>. QED BY <1>1, <2>1, <2>2 DEF CallStates, PCs
  <1>15. CASE WritePreview(c)
    <2>1. call' = [call EXCEPT ![c].pc = "completing"]
      BY <1>15 DEF WritePreview
    <2>. QED BY <1>1, <2>1 DEF CallStates, PCs
  <1>16. CASE PreviewError(c)
    <2>1. call' = [call EXCEPT ![c].pc = "failing", ![c].error = "OtherError"]
      BY <1>16 DEF PreviewError
    <2>. QED BY <1>1, <2>1 DEF CallStates, PCs, Faults
  <1>17. CASE Complete(c)
    <2>1. call' = [call EXCEPT ![c].pc = "done",
                     ![c].events = @ \o <<"preview_written", "collection_completed">>,
                     ![c].span = "success", ![c].reply = "summary"]
      BY <1>17 DEF Complete
    <2>. QED BY <1>1, <1>2, <2>1 DEF CallStates, PCs, Replies
  <1>18. CASE Fail(c)
    <2>1. PICK e \in {"ProviderError", "CollectionFailed"} :
            call' = [call EXCEPT ![c].pc = "done",
                       ![c].events = Append(@, "collection_failed"),
                       ![c].span = "failed", ![c].reply = e]
      BY <1>18 DEF Fail, ReplyTo
    <2>. QED BY <1>1, <1>2, <2>1 DEF CallStates, PCs, Replies
  <1>19. CASE Answered(c)
    <2>. DEFINE a == upstream[r.date]
    <2>1. call' = [call EXCEPT ![c].answer = a]
      BY <1>19 DEF Answered
    <2>2. a \in Contents
      BY <1>4
    <2>. HIDE DEF a
    <2>. QED BY <1>1, <2>1, <2>2 DEF CallStates
  <1>20. CASE Faulted(c)
    <2>1. PICK e \in Faults : call' = [call EXCEPT ![c].error = e]
      BY <1>20 DEF Faulted
    <2>. QED BY <1>1, <2>1 DEF CallStates
  <1>21. CASE Cancel(c)
    <2>1. call' = [call EXCEPT ![c].pc = "done", ![c].reply = "cancelled"]
      BY <1>21 DEF Cancel
    <2>. QED BY <1>1, <2>1 DEF CallStates, PCs, Replies
  <1>. QED BY <1>5, <1>6, <1>7, <1>8, <1>9, <1>10, <1>11, <1>12, <1>13, <1>14, <1>15,
              <1>16, <1>17, <1>18, <1>19, <1>20, <1>21 DEF LoopStep, UpstreamStep

(* A step that takes call c to p without touching a gauge or the upstream; *)
(* what it changes of the call's answer and floor, and of the loop's owner.*)
Moved(c, p) ==
  /\ gauges' = gauges /\ upstream' = upstream
  /\ \A b \in Calls \ {c} : call'[b] = call[b]
  /\ call'[c].pc = p
  /\ call'[c].date = call[c].date
  /\ call'[c].gaugesSet = call[c].gaugesSet
  /\ \/ call'[c].answer = call[c].answer
     \/ call[c].answer = None /\ call'[c].answer = upstream[call[c].date]
  /\ \/ call'[c].floor = call[c].floor
     \/ /\ call[c].answer = None
        /\ call'[c].floor = RevisionOf(gauges[GaugeCount][call[c].date])
  /\ IF p \in RunningPCs
       THEN loop \in {c, None} /\ loop' = c
       ELSE loop' = (IF loop = c THEN None ELSE loop)
  /\ p \in {"idle", "queued"} => call'[c].answer = None
  /\ p \in BeforeGauges => call[c].gaugesSet = 0
  /\ p \in WithContents => call'[c].answer # None
  /\ call[c].pc # "metering"
  /\ p = "metering" => call[c].gaugesSet = 0

(* Such a step preserves the invariant.                                    *)
LEMMA MovedPreserves ==
  ASSUME IInv, TypeOK', NEW c \in Calls, NEW p \in PCs, Moved(c, p)
  PROVE  IInv'
  <1>. USE DEF IInv
  <1>0. /\ GaugeCount \in Nat \ {0} /\ MaxRevision \in Nat
        /\ None \notin Calls /\ None \notin Contents
    BY BoundsAssumption, NoneAssumption
  <1>1. /\ gauges' = gauges /\ upstream' = upstream
        /\ \A b \in Calls \ {c} : call'[b] = call[b]
        /\ call'[c].pc = p /\ call'[c].date = call[c].date
        /\ call'[c].gaugesSet = call[c].gaugesSet
    BY DEF Moved
  <1>2. call[c].date \in Dates /\ upstream[call[c].date] \in Contents
    BY CallFields DEF TypeOK
  <1>3. \/ call'[c].answer = call[c].answer
        \/ call[c].answer = None /\ call'[c].answer = upstream[call[c].date]
    BY DEF Moved
  <1>4. \A b \in Calls : call[b].answer # None => call'[b].answer = call[b].answer
    BY <1>1, <1>3
  <1>5. LoopOwned'
    BY <1>0, <1>1 DEF LoopOwned, Moved
  <1>6. CountsInStep'
    BY <1>0, <1>1 DEF CountsInStep, Moved, BeforeGauges, WithContents
  <1>7. GaugesAnswered'
    <2>1. \A b \in Calls : call'[b].date = call[b].date
      BY <1>1
    <2>2. \A g \in Gauges, d \in Dates : gauges[g][d] \in Calls \cup {None}
      BY DEF TypeOK
    <2>. QED BY <1>0, <1>1, <1>4, <2>1, <2>2 DEF GaugesAnswered
  <1>8. RevisionsGrow'
    <2>. SUFFICES ASSUME NEW b \in Calls
         PROVE  /\ call'[b].floor <= upstream[call'[b].date].rev
                /\ call'[b].answer # None =>
                     /\ call'[b].floor <= call'[b].answer.rev
                     /\ call'[b].answer.rev <= upstream[call'[b].date].rev
      BY <1>1 DEF RevisionsGrow
    <2>1. CASE b # c
      BY <1>1, <2>1 DEF RevisionsGrow
    <2>2. CASE b = c
      <3>1. upstream[call[c].date].rev \in Nat
        BY <1>0, <1>2 DEF Contents
      <3>2. /\ RevisionOf(gauges[GaugeCount][call[c].date])
                  <= upstream[call[c].date].rev
            /\ call[c].floor <= upstream[call[c].date].rev
        BY <1>2, RevisionBounded DEF RevisionsGrow
      <3>3. call'[c].floor <= upstream[call[c].date].rev
        BY <3>2 DEF Moved
      <3>4. CASE call[c].answer # None
        <4>1. call'[c].answer = call[c].answer /\ call'[c].floor = call[c].floor
          BY <3>4 DEF Moved
        <4>. QED BY <1>1, <2>2, <3>4, <4>1 DEF RevisionsGrow
      <3>5. CASE call[c].answer = None
        <4>1. call'[c].answer # None => call'[c].answer = upstream[call[c].date]
          BY <1>3, <3>5
        <4>. QED BY <1>1, <2>2, <3>1, <3>3, <4>1
      <3>. QED BY <3>4, <3>5
    <2>. QED BY <2>1, <2>2
  <1>9. GaugesSplit'
    <2>. SUFFICES ASSUME NEW d \in Dates
         PROVE  IF Emitting(d)'
                  THEN /\ \A g \in 1 .. call'[loop'].gaugesSet : gauges[g][d] = loop'
                       /\ \A g, h \in call'[loop'].gaugesSet + 1 .. GaugeCount :
                            gauges[g][d] = gauges[h][d]
                  ELSE \A g, h \in Gauges : gauges[g][d] = gauges[h][d]
      BY <1>1 DEF GaugesSplit
    <2>1. CASE Emitting(d) /\ loop # c
      <3>1. loop' = loop /\ loop \in Calls \ {c}
        BY <2>1, <1>5 DEF Moved, Emitting, TypeOK
      <3>2. call'[loop'] = call[loop] /\ Emitting(d)'
        BY <1>1, <2>1, <3>1 DEF Emitting
      <3>. QED BY <2>1, <3>1, <3>2 DEF GaugesSplit
    <2>2. CASE ~ (Emitting(d) /\ loop # c)
      <3>1. ~ Emitting(d)
        BY <2>2 DEF Emitting, Moved
      <3>2. \A g, h \in Gauges : gauges[g][d] = gauges[h][d]
        BY <3>1 DEF GaugesSplit
      <3>3. CASE Emitting(d)'
        <4>1. loop' = c
          <5>1. loop' \in {c, loop, None}
            BY DEF Moved
          <5>2. CASE loop' = loop /\ loop # c
            <6>1. loop \in Calls \ {c}
              BY <5>2, <3>3 DEF Emitting, TypeOK
            <6>. QED BY <1>1, <3>1, <3>3, <5>2, <6>1 DEF Emitting
          <5>. QED BY <3>3, <5>1, <5>2 DEF Emitting
        <4>2. call'[loop'].gaugesSet = 0
          BY <1>1, <3>3, <4>1 DEF Emitting, Moved
        <4>. QED BY <1>0, <3>2, <3>3, <4>2 DEF Gauges
      <3>. QED BY <3>2, <3>3
    <2>. QED BY <2>1, <2>2
  <1>. QED BY <1>5, <1>6, <1>7, <1>8, <1>9

(* Every step of call c but SetGauge is such a step.                       *)
LEMMA StepsMove ==
  ASSUME IInv, NEW c \in Calls, ~ SetGauge(c),
         Arrive(c) \/ LoopStep(c) \/ UpstreamStep(c) \/ Cancel(c)
  PROVE  \E p \in PCs : Moved(c, p)
  <1>. USE DEF IInv
  <1>0. /\ None \notin Calls /\ None \notin Contents
        /\ c # None
    BY NoneAssumption
  <1>1. call[c] \in CallStates /\ call \in [Calls -> CallStates] /\ call[c].pc \in PCs
    BY CallFields DEF TypeOK
  <1>2. upstream[call[c].date] # None
    BY <1>0, CallFields DEF TypeOK
  <1>3. /\ call[c].pc \in {"idle", "queued"} => call[c].answer = None
        /\ call[c].pc \in BeforeGauges => call[c].gaugesSet = 0
        /\ call[c].pc \in WithContents => call[c].answer # None
    BY DEF CountsInStep
  <1>. DEFINE Same == /\ \A b \in Calls \ {c} : call'[b] = call[b]
                      /\ call'[c].date = call[c].date
                      /\ call'[c].gaugesSet = call[c].gaugesSet
              Kept == /\ call'[c].answer = call[c].answer
                      /\ call'[c].floor = call[c].floor
  <1>4. ASSUME NEW p \in PCs, NEW a, NEW e, OpenSpan(c, p, a, e)
        PROVE  /\ Same /\ call'[c].pc = p /\ call'[c].answer = a
               /\ call'[c].floor = RevisionOf(gauges[GaugeCount][call[c].date])
    <2>. DEFINE f == RevisionOf(gauges[GaugeCount][call[c].date])
    <2>1. call' = [call EXCEPT ![c].pc = p, ![c].span = "started",
                     ![c].events = Append(@, "collection_started"),
                     ![c].answer = a, ![c].error = e, ![c].floor = f]
      BY <1>4 DEF OpenSpan
    <2>. HIDE DEF f
    <2>2. Same /\ call'[c].pc = p /\ call'[c].answer = a /\ call'[c].floor = f
      BY <1>1, <2>1 DEF CallStates
    <2>. QED BY <2>2 DEF f
  <1>5. CASE Arrive(c)
    <2>1. call[c].pc = "idle" /\ call' = [call EXCEPT ![c].pc = "queued"]
      BY <1>5 DEF Arrive, At
    <2>2. Same /\ Kept /\ call'[c].pc = "queued"
      BY <1>1, <2>1 DEF CallStates
    <2>3. Moved(c, "queued")
      BY <1>0, <1>3, <1>5, <2>1, <2>2
      DEF Arrive, Moved, RunningPCs, PCs, LoopOwned, BeforeGauges, WithContents
    <2>. QED BY <2>3 DEF PCs
  <1>6. CASE RefuseUnready(c)
    <2>1. call[c].pc = "queued" /\ call' = [call EXCEPT ![c].pc = "done",
                                      ![c].reply = "ServiceConfigurationError"]
      BY <1>6 DEF RefuseUnready, Free, At
    <2>2. Same /\ Kept /\ call'[c].pc = "done"
      BY <1>1, <2>1 DEF CallStates
    <2>3. Moved(c, "done")
      BY <1>0, <1>3, <1>6, <2>1, <2>2
      DEF RefuseUnready, Free, Moved, RunningPCs, BeforeGauges, WithContents
    <2>. QED BY <2>3 DEF PCs
  <1>7. CASE BeginMock(c)
    <2>. DEFINE a == upstream[call[c].date]
    <2>1. call[c].pc = "queued" /\ loop = None /\ loop' = c
          /\ OpenSpan(c, "mapping", a, None)
      BY <1>7 DEF BeginMock, Free, At
    <2>2. /\ Same /\ call'[c].pc = "mapping" /\ call'[c].answer = a
          /\ call'[c].floor = RevisionOf(gauges[GaugeCount][call[c].date])
      BY <1>4, <2>1 DEF PCs
    <2>3. Moved(c, "mapping")
      BY <1>0, <1>2, <1>3, <1>7, <2>1, <2>2
      DEF BeginMock, Moved, RunningPCs, PCs, BeforeGauges, WithContents
    <2>. QED BY <2>3 DEF PCs
  <1>8. CASE BeginAnthropic(c)
    <2>1. call[c].pc = "queued" /\ loop = None /\ loop' = loop
          /\ OpenSpan(c, "awaiting", None, None)
      BY <1>8 DEF BeginAnthropic, Free, At
    <2>2. /\ Same /\ call'[c].pc = "awaiting" /\ call'[c].answer = None
          /\ call'[c].floor = RevisionOf(gauges[GaugeCount][call[c].date])
      BY <1>4, <2>1 DEF PCs
    <2>3. Moved(c, "awaiting")
      BY <1>0, <1>3, <1>8, <2>1, <2>2
      DEF BeginAnthropic, Moved, RunningPCs, BeforeGauges, WithContents
    <2>. QED BY <2>3 DEF PCs
  <1>9. CASE BeginEarlyDate(c)
    <2>1. call[c].pc = "queued" /\ loop = None /\ loop' = c
          /\ OpenSpan(c, "failing", None, "ProviderError")
      BY <1>9 DEF BeginEarlyDate, Free, At
    <2>2. /\ Same /\ call'[c].pc = "failing" /\ call'[c].answer = None
          /\ call'[c].floor = RevisionOf(gauges[GaugeCount][call[c].date])
      BY <1>4, <2>1 DEF PCs
    <2>3. Moved(c, "failing")
      BY <1>0, <1>3, <1>9, <2>1, <2>2
      DEF BeginEarlyDate, Moved, RunningPCs, PCs, BeforeGauges, WithContents
    <2>. QED BY <2>3 DEF PCs
  <1>10. CASE Resume(c)
    <2>1. call[c].pc = "awaiting" /\ loop = None /\ loop' = c
      BY <1>10 DEF Resume, Free, At
    <2>2. CASE call[c].error = None
      <3>1. call' = [call EXCEPT ![c].pc = "mapping"] /\ call[c].answer # None
        BY <1>10, <2>2 DEF Resume, Unanswered, Free
      <3>2. Same /\ Kept /\ call'[c].pc = "mapping"
        BY <1>1, <3>1 DEF CallStates
      <3>3. Moved(c, "mapping")
        BY <1>0, <1>3, <1>10, <2>1, <3>1, <3>2
        DEF Resume, Moved, RunningPCs, PCs, BeforeGauges, WithContents
      <3>. QED BY <3>3 DEF PCs
    <2>3. CASE call[c].error # None
      <3>1. call' = [call EXCEPT ![c].pc = "failing"]
        BY <1>10, <2>3 DEF Resume
      <3>2. Same /\ Kept /\ call'[c].pc = "failing"
        BY <1>1, <3>1 DEF CallStates
      <3>3. Moved(c, "failing")
        BY <1>0, <1>3, <1>10, <2>1, <3>2
        DEF Resume, Moved, RunningPCs, PCs, BeforeGauges, WithContents
      <3>. QED BY <3>3 DEF PCs
    <2>. QED BY <2>2, <2>3
  <1>11. CASE MapRecords(c)
    <2>1. call[c].pc = "mapping" /\ loop = c
          /\ call' = [call EXCEPT ![c].pc = "protecting",
                                  ![c].events = Append(@, "records_mapped")]
      BY <1>11 DEF MapRecords, Runs, At
    <2>2. Same /\ Kept /\ call'[c].pc = "protecting"
      BY <1>1, <2>1 DEF CallStates
    <2>3. Moved(c, "protecting")
      BY <1>0, <1>3, <1>11, <2>1, <2>2
      DEF MapRecords, Moved, RunningPCs, PCs, BeforeGauges, WithContents
    <2>. QED BY <2>3 DEF PCs
  <1>12. CASE Protect(c)
    <2>1. call[c].pc = "protecting" /\ loop = c
      BY <1>12 DEF Protect, Runs, At
    <2>2. CASE call[c].answer.usable
      <3>1. call' = [call EXCEPT ![c].pc = "metering",
                                 ![c].events = Append(@, "aggregation_completed")]
        BY <1>12, <2>2 DEF Protect
      <3>2. Same /\ Kept /\ call'[c].pc = "metering"
        BY <1>1, <3>1 DEF CallStates
      <3>3. Moved(c, "metering")
        BY <1>0, <1>3, <1>12, <2>1, <3>2
        DEF Protect, Moved, RunningPCs, PCs, BeforeGauges, WithContents
      <3>. QED BY <3>3 DEF PCs
    <2>3. CASE ~ call[c].answer.usable
      <3>1. call' = [call EXCEPT ![c].pc = "failing", ![c].error = "OtherError"]
        BY <1>12, <2>3 DEF Protect
      <3>2. Same /\ Kept /\ call'[c].pc = "failing"
        BY <1>1, <3>1 DEF CallStates
      <3>3. Moved(c, "failing")
        BY <1>0, <1>3, <1>12, <2>1, <3>2
        DEF Protect, Moved, RunningPCs, PCs, BeforeGauges, WithContents
      <3>. QED BY <3>3 DEF PCs
    <2>. QED BY <2>2, <2>3
  <1>13. CASE EmitUsage(c)
    <2>1. call[c].pc = "logging" /\ loop = c
          /\ call' = [call EXCEPT ![c].pc = "previewing", ![c].usage = @ + 1]
      BY <1>13 DEF EmitUsage, Runs, At
    <2>2. Same /\ Kept /\ call'[c].pc = "previewing"
      BY <1>1, <2>1 DEF CallStates
    <2>3. Moved(c, "previewing")
      BY <1>0, <1>3, <1>13, <2>1, <2>2
      DEF EmitUsage, Moved, RunningPCs, PCs, BeforeGauges, WithContents
    <2>. QED BY <2>3 DEF PCs
  <1>14. CASE WritePreview(c)
    <2>1. call[c].pc = "previewing" /\ loop = c
          /\ call' = [call EXCEPT ![c].pc = "completing"]
      BY <1>14 DEF WritePreview, Runs, At
    <2>2. Same /\ Kept /\ call'[c].pc = "completing"
      BY <1>1, <2>1 DEF CallStates
    <2>3. Moved(c, "completing")
      BY <1>0, <1>3, <1>14, <2>1, <2>2
      DEF WritePreview, Moved, RunningPCs, PCs, BeforeGauges, WithContents
    <2>. QED BY <2>3 DEF PCs
  <1>15. CASE PreviewError(c)
    <2>1. call[c].pc = "previewing" /\ loop = c
          /\ call' = [call EXCEPT ![c].pc = "failing", ![c].error = "OtherError"]
      BY <1>15 DEF PreviewError, Runs, At
    <2>2. Same /\ Kept /\ call'[c].pc = "failing"
      BY <1>1, <2>1 DEF CallStates
    <2>3. Moved(c, "failing")
      BY <1>0, <1>3, <1>15, <2>1, <2>2
      DEF PreviewError, Moved, RunningPCs, PCs, BeforeGauges, WithContents
    <2>. QED BY <2>3 DEF PCs
  <1>16. CASE Complete(c)
    <2>1. /\ call[c].pc = "completing" /\ loop = c /\ loop' = None
          /\ call' = [call EXCEPT ![c].pc = "done",
                        ![c].events = @ \o <<"preview_written", "collection_completed">>,
                        ![c].span = "success", ![c].reply = "summary"]
      BY <1>16 DEF Complete, Runs, At
    <2>2. Same /\ Kept /\ call'[c].pc = "done"
      BY <1>1, <2>1 DEF CallStates
    <2>3. Moved(c, "done")
      BY <1>0, <1>3, <1>16, <2>1, <2>2
      DEF Complete, Moved, RunningPCs, BeforeGauges, WithContents
    <2>. QED BY <2>3 DEF PCs
  <1>17. CASE Fail(c)
    <2>1. PICK e \in {"ProviderError", "CollectionFailed"} :
          /\ call[c].pc = "failing" /\ loop = c /\ loop' = None
          /\ call' = [call EXCEPT ![c].pc = "done",
                        ![c].events = Append(@, "collection_failed"),
                        ![c].span = "failed", ![c].reply = e]
      BY <1>17 DEF Fail, ReplyTo, Runs, At
    <2>2. Same /\ Kept /\ call'[c].pc = "done"
      BY <1>1, <2>1 DEF CallStates
    <2>3. Moved(c, "done")
      BY <1>0, <1>3, <1>17, <2>1, <2>2
      DEF Fail, Moved, RunningPCs, BeforeGauges, WithContents
    <2>. QED BY <2>3 DEF PCs
  <1>18. CASE Answered(c)
    <2>. DEFINE a == upstream[call[c].date]
    <2>1. call[c].pc = "awaiting" /\ call[c].answer = None /\ loop' = loop
          /\ call' = [call EXCEPT ![c].answer = a]
      BY <1>18 DEF Answered, Unanswered, At
    <2>. HIDE DEF a
    <2>2. /\ Same /\ call'[c].pc = "awaiting" /\ call'[c].answer = a
          /\ call'[c].floor = call[c].floor
      BY <1>1, <2>1 DEF CallStates
    <2>3. Moved(c, "awaiting")
      BY <1>0, <1>3, <1>18, <2>1, <2>2
      DEF a, Answered, Moved, RunningPCs, BeforeGauges, WithContents, LoopOwned
    <2>. QED BY <2>3 DEF PCs
  <1>19. CASE Faulted(c)
    <2>1. PICK e \in Faults :
            call[c].pc = "awaiting" /\ call' = [call EXCEPT ![c].error = e]
      BY <1>19 DEF Faulted, Unanswered, At
    <2>2. Same /\ Kept /\ call'[c].pc = "awaiting"
      BY <1>1, <2>1 DEF CallStates
    <2>3. Moved(c, "awaiting")
      BY <1>0, <1>3, <1>19, <2>1, <2>2
      DEF Faulted, Moved, RunningPCs, BeforeGauges, WithContents, LoopOwned
    <2>. QED BY <2>3 DEF PCs
  <1>20. CASE Cancel(c)
    <2>1. call[c].pc = "awaiting" /\ loop = None
          /\ call' = [call EXCEPT ![c].pc = "done", ![c].reply = "cancelled"]
      BY <1>20 DEF Cancel, Free, At
    <2>2. Same /\ Kept /\ call'[c].pc = "done"
      BY <1>1, <2>1 DEF CallStates
    <2>3. Moved(c, "done")
      BY <1>0, <1>3, <1>20, <2>1, <2>2
      DEF Cancel, Moved, RunningPCs, BeforeGauges, WithContents
    <2>. QED BY <2>3 DEF PCs
  <1>. QED BY <1>5, <1>6, <1>7, <1>8, <1>9, <1>10, <1>11, <1>12, <1>13, <1>14, <1>15,
              <1>16, <1>17, <1>18, <1>19, <1>20 DEF LoopStep, UpstreamStep

(* The step that does touch the gauges: it keeps them split at the gauge   *)
(* the emission has reached.                                               *)
LEMMA SetGaugePreserves ==
  ASSUME IInv, TypeOK', NEW c \in Calls, SetGauge(c)
  PROVE  IInv'
  <1>. USE DEF IInv
  <1>0. /\ GaugeCount \in Nat \ {0} /\ None \notin Calls
    BY BoundsAssumption, NoneAssumption
  <1>. DEFINE g == call[c].gaugesSet + 1
              day == call[c].date
  <1>1. /\ call[c].pc = "metering" /\ loop = c /\ loop' = c /\ upstream' = upstream
        /\ gauges' = [gauges EXCEPT ![g][day] = c]
    BY DEF SetGauge, RecordGauge, Runs, At
  <1>2. /\ call[c] \in CallStates /\ call \in [Calls -> CallStates]
        /\ day \in Dates /\ call[c].gaugesSet \in 0 .. GaugeCount
    BY CallFields DEF TypeOK
  <1>3. g \in Gauges /\ call[c].answer # None
    <2>1. call[c].gaugesSet < GaugeCount /\ call[c].answer # None
      BY <1>1 DEF CountsInStep, WithContents
    <2>. QED BY <1>0, <1>2, <2>1 DEF Gauges
  <1>4. /\ \A b \in Calls \ {c} : call'[b] = call[b]
        /\ call'[c].gaugesSet = g
        /\ call'[c].pc = (IF g = GaugeCount THEN "logging" ELSE "metering")
        /\ call'[c].date = day /\ call'[c].answer = call[c].answer
        /\ call'[c].floor = call[c].floor
    <2>. DEFINE n == g
                p == IF n = GaugeCount THEN "logging" ELSE "metering"
    <2>1. call' = [call EXCEPT ![c].gaugesSet = n, ![c].pc = p]
      BY <1>1 DEF SetGauge, RecordGauge
    <2>. HIDE DEF n, p
    <2>2. /\ \A b \in Calls \ {c} : call'[b] = call[b]
          /\ call'[c].gaugesSet = n /\ call'[c].pc = p
          /\ call'[c].date = day /\ call'[c].answer = call[c].answer
          /\ call'[c].floor = call[c].floor
      BY <1>2, <2>1 DEF CallStates
    <2>. QED BY <2>2 DEF n, p
  <1>5. \A h \in Gauges, d \in Dates :
          gauges'[h][d] = (IF h = g /\ d = day THEN c ELSE gauges[h][d])
    BY <1>1, <1>2, <1>3 DEF TypeOK
  <1>6. LoopOwned'
    BY <1>1, <1>4 DEF LoopOwned, RunningPCs, PCs
  <1>7. CountsInStep'
    <2>1. g < GaugeCount \/ g = GaugeCount
      BY <1>0, <1>3 DEF Gauges
    <2>. QED BY <1>0, <1>3, <1>4, <2>1 DEF CountsInStep, BeforeGauges, WithContents
  <1>8. GaugesAnswered'
    <2>1. \A b \in Calls : call'[b].date = call[b].date /\ call'[b].answer = call[b].answer
      BY <1>4
    <2>2. \A h \in Gauges, d \in Dates : gauges[h][d] \in Calls \cup {None}
      BY DEF TypeOK
    <2>. QED BY <1>0, <1>2, <1>3, <1>5, <2>1, <2>2 DEF GaugesAnswered
  <1>9. RevisionsGrow'
    BY <1>1, <1>4 DEF RevisionsGrow
  <1>10. GaugesSplit'
    <2>. SUFFICES ASSUME NEW d \in Dates
         PROVE  IF Emitting(d)'
                  THEN /\ \A h \in 1 .. call'[c].gaugesSet : gauges'[h][d] = c
                       /\ \A h, i \in call'[c].gaugesSet + 1 .. GaugeCount :
                            gauges'[h][d] = gauges'[i][d]
                  ELSE \A h, i \in Gauges : gauges'[h][d] = gauges'[i][d]
      BY <1>1 DEF GaugesSplit
    <2>1. CASE d # day
      <3>1. ~ Emitting(d) /\ ~ Emitting(d)'
        BY <1>1, <1>4, <2>1 DEF Emitting
      <3>2. \A h, i \in Gauges : gauges[h][d] = gauges[i][d]
        BY <3>1 DEF GaugesSplit
      <3>. QED BY <1>5, <2>1, <3>1, <3>2
    <2>2. CASE d = day
      <3>1. Emitting(d)
        BY <1>0, <1>1, <2>2 DEF Emitting
      <3>2. /\ \A h \in 1 .. call[c].gaugesSet : gauges[h][d] = c
            /\ \A h, i \in call[c].gaugesSet + 1 .. GaugeCount :
                 gauges[h][d] = gauges[i][d]
        BY <1>1, <3>1 DEF GaugesSplit
      <3>3. \A h \in 1 .. g : gauges'[h][d] = c
        BY <1>0, <1>2, <1>3, <1>5, <2>2, <3>2 DEF Gauges
      <3>4. CASE g = GaugeCount
        <4>1. ~ Emitting(d)'
          BY <1>1, <1>4, <3>4 DEF Emitting
        <4>. QED BY <3>3, <3>4, <4>1 DEF Gauges
      <3>5. CASE g # GaugeCount
        <4>1. \A h \in g + 1 .. GaugeCount : h \in Gauges /\ gauges'[h][d] = gauges[h][d]
          BY <1>0, <1>2, <1>3, <1>5 DEF Gauges
        <4>2. \A h, i \in g + 1 .. GaugeCount : gauges'[h][d] = gauges'[i][d]
          BY <1>0, <1>2, <3>2, <4>1
        <4>3. Emitting(d)'
          BY <1>0, <1>1, <1>4, <2>2, <3>5 DEF Emitting
        <4>. QED BY <1>4, <3>3, <4>2, <4>3
      <3>. QED BY <3>4, <3>5
    <2>. QED BY <2>1, <2>2
  <1>. QED BY <1>6, <1>7, <1>8, <1>9, <1>10

(* The process dies: every call is over and no gauge holds a total.        *)
LEMMA CrashPreserves ==
  ASSUME IInv, Crash
  PROVE  IInv'
  <1>. USE DEF IInv
  <1>0. /\ GaugeCount \in Nat \ {0} /\ None \notin Calls /\ MaxCrashes \in Nat
        /\ 0 \in 0 .. GaugeCount
    BY BoundsAssumption, NoneAssumption
  <1>1. ASSUME NEW r \in CallStates
        PROVE  /\ [r EXCEPT !.pc = "done", !.reply = "lost"] \in CallStates
               /\ [r EXCEPT !.pc = "done", !.reply = "lost"].pc = "done"
               /\ [r EXCEPT !.pc = "done", !.reply = "lost"].date = r.date
               /\ [r EXCEPT !.pc = "done", !.reply = "lost"].gaugesSet = r.gaugesSet
               /\ [r EXCEPT !.pc = "done", !.reply = "lost"].answer = r.answer
               /\ [r EXCEPT !.pc = "done", !.reply = "lost"].floor = r.floor
    BY DEF CallStates, PCs, Replies
  <1>2. \A c \in Calls : call[c] \in CallStates
    BY CallFields
  <1>3. call' = [c \in Calls |-> IF call[c].pc \in {"idle", "done"} THEN call[c]
                       ELSE [call[c] EXCEPT !.pc = "done", !.reply = "lost"]]
    BY DEF Crash
  <1>4. call' \in [Calls -> CallStates]
    BY <1>1, <1>2, <1>3
  <1>5. \A c \in Calls :
          /\ call'[c].pc \in {"idle", "done"}
          /\ call'[c].pc = "idle" => call[c].pc = "idle"
          /\ call'[c].date = call[c].date /\ call'[c].gaugesSet = call[c].gaugesSet
          /\ call'[c].answer = call[c].answer /\ call'[c].floor = call[c].floor
    BY <1>1, <1>2, <1>3
  <1>6. /\ loop' = None /\ upstream' = upstream
        /\ \A g \in Gauges, d \in Dates : gauges'[g][d] = None
    BY DEF Crash, NoGauges
  <1>7. gauges' \in [Gauges -> [Dates -> Calls \cup {None}]]
    BY DEF Crash, NoGauges
  <1>8. crashes' \in 0 .. MaxCrashes
    <2>1. crashes < MaxCrashes /\ crashes' = crashes + 1
      BY DEF Crash
    <2>2. crashes \in 0 .. MaxCrashes
      BY DEF TypeOK
    <2>. QED BY <1>0, <2>1, <2>2
  <1>9. TypeOK'
    BY <1>0, <1>4, <1>6, <1>7, <1>8 DEF TypeOK, Crash
  <1>10. LoopOwned'
    BY <1>0, <1>5, <1>6 DEF LoopOwned, RunningPCs
  <1>11. CountsInStep'
    BY <1>5 DEF CountsInStep, BeforeGauges, WithContents
  <1>12. GaugesAnswered'
    BY <1>6 DEF GaugesAnswered
  <1>13. RevisionsGrow'
    BY <1>5, <1>6 DEF RevisionsGrow
  <1>14. GaugesSplit'
    BY <1>6 DEF GaugesSplit, Emitting
  <1>. QED BY <1>9, <1>10, <1>11, <1>12, <1>13, <1>14

(* The upstream only moves on to a higher revision.                        *)
LEMMA RevisePreserves ==
  ASSUME IInv, NEW day \in Dates, Revise(day)
  PROVE  IInv'
  <1>. USE DEF IInv
  <1>0. MaxRevision \in Nat
    BY BoundsAssumption
  <1>1. PICK u \in BOOLEAN :
          /\ upstream[day].rev < MaxRevision
          /\ upstream' = [upstream EXCEPT ![day] = [rev |-> @.rev + 1, usable |-> u]]
    BY DEF Revise
  <1>2. UNCHANGED <<settings, call, loop, gauges, preview, exported, scan, crashes>>
    BY DEF Revise, reader
  <1>3. \A d \in Dates : upstream[d] \in Contents /\ upstream[d].rev \in 0 .. MaxRevision
    BY DEF TypeOK, Contents
  <1>4. upstream[day].rev + 1 \in 0 .. MaxRevision
    BY <1>0, <1>1, <1>3
  <1>5. [rev |-> upstream[day].rev + 1, usable |-> u] \in Contents
    BY <1>4 DEF Contents
  <1>6. /\ upstream' \in [Dates -> Contents]
        /\ \A d \in Dates : /\ upstream[d].rev \in Nat /\ upstream'[d].rev \in Nat
                            /\ upstream[d].rev <= upstream'[d].rev
    BY <1>0, <1>1, <1>3, <1>5 DEF TypeOK
  <1>7. TypeOK'
    BY <1>2, <1>6 DEF TypeOK
  <1>8. LoopOwned' /\ CountsInStep' /\ GaugesAnswered' /\ GaugesSplit'
    BY <1>2 DEF LoopOwned, CountsInStep, GaugesAnswered, GaugesSplit, Emitting
  <1>9. RevisionsGrow'
    <2>. SUFFICES ASSUME NEW c \in Calls
         PROVE  /\ call[c].floor <= upstream'[call[c].date].rev
                /\ call[c].answer # None =>
                     /\ call[c].floor <= call[c].answer.rev
                     /\ call[c].answer.rev <= upstream'[call[c].date].rev
      BY <1>2 DEF RevisionsGrow
    <2>1. /\ call[c].date \in Dates /\ call[c].floor \in Nat
          /\ call[c].answer # None => call[c].answer \in Contents
      BY CallFields
    <2>2. call[c].answer # None => call[c].answer.rev \in Nat
      BY <1>0, <2>1 DEF Contents
    <2>3. /\ call[c].floor <= upstream[call[c].date].rev
          /\ call[c].answer # None => /\ call[c].floor <= call[c].answer.rev
                                      /\ call[c].answer.rev <= upstream[call[c].date].rev
      BY DEF RevisionsGrow
    <2>. QED BY <1>6, <2>1, <2>2, <2>3
  <1>. QED BY <1>7, <1>8, <1>9

(* The reader's thread copies to the backend only.                         *)
LEMMA ExportPreserves ==
  ASSUME IInv, ExportGauge
  PROVE  IInv'
  <1>. USE DEF IInv
  <1>0. GaugeCount \in Nat \ {0}
    BY BoundsAssumption
  <1>1. /\ exported' = [exported EXCEPT ![scan + 1] =
              [d \in Dates |-> IF gauges[scan + 1][d] = None
                                 THEN @[d] ELSE gauges[scan + 1][d]]]
        /\ scan' = (scan + 1) % GaugeCount
        /\ UNCHANGED <<settings, upstream, call, loop, gauges, preview, crashes>>
    BY DEF ExportGauge
  <1>2. scan' \in 0 .. GaugeCount
    BY <1>0, <1>1 DEF TypeOK
  <1>3. exported' \in [Gauges -> [Dates -> Calls \cup {None}]]
    <2>1. CASE scan + 1 \in Gauges
      <3>. DEFINE row == [d \in Dates |-> IF gauges[scan + 1][d] = None
                             THEN exported[scan + 1][d] ELSE gauges[scan + 1][d]]
      <3>1. row \in [Dates -> Calls \cup {None}]
        BY <2>1 DEF TypeOK
      <3>2. exported' = [exported EXCEPT ![scan + 1] = row]
        BY <1>1
      <3>. HIDE DEF row
      <3>. QED BY <3>1, <3>2 DEF TypeOK
    <2>2. CASE scan + 1 \notin Gauges
      <3>1. exported' = exported
        BY <1>1, <2>2 DEF TypeOK
      <3>. QED BY <3>1 DEF TypeOK
    <2>. QED BY <2>1, <2>2
  <1>4. TypeOK'
    BY <1>1, <1>2, <1>3 DEF TypeOK
  <1>. QED BY <1>1, <1>4 DEF LoopOwned, CountsInStep, GaugesAnswered, RevisionsGrow,
              GaugesSplit, Emitting

(* The parts of TypeOK that a step of a call changes besides its record.   *)
LEMMA RestTyped ==
  ASSUME IInv, NEW c \in Calls, Arrive(c) \/ LoopStep(c) \/ UpstreamStep(c) \/ Cancel(c)
  PROVE  /\ UNCHANGED <<settings, upstream, exported, scan, crashes>>
         /\ loop' \in Calls \cup {None} /\ preview' \in Calls \cup {None}
         /\ gauges' \in [Gauges -> [Dates -> Calls \cup {None}]]
  <1>. USE DEF IInv, TypeOK
  <1>1. UNCHANGED <<settings, upstream, exported, scan, crashes>>
    BY DEF LoopStep, UpstreamStep, Arrive, RefuseUnready, BeginMock, BeginAnthropic,
           BeginEarlyDate, Resume, MapRecords, Protect, SetGauge, EmitUsage, WritePreview,
           PreviewError, Complete, Fail, Answered, Faulted, Cancel, reader
  <1>2. loop' \in {loop, c, None} /\ preview' \in {preview, c}
    BY DEF LoopStep, UpstreamStep, Arrive, RefuseUnready, BeginMock, BeginAnthropic,
           BeginEarlyDate, Resume, MapRecords, Protect, SetGauge, EmitUsage, WritePreview,
           PreviewError, Complete, Fail, Answered, Faulted, Cancel
  <1>3. gauges' = gauges \/ \E g, d : gauges' = [gauges EXCEPT ![g][d] = c]
    <2>1. CASE SetGauge(c)
      BY <2>1 DEF SetGauge, RecordGauge
    <2>2. CASE ~ SetGauge(c)
      BY <2>2 DEF LoopStep, UpstreamStep, Arrive, RefuseUnready, BeginMock, BeginAnthropic,
             BeginEarlyDate, Resume, MapRecords, Protect, EmitUsage, WritePreview,
             PreviewError, Complete, Fail, Answered, Faulted, Cancel
    <2>. QED BY <2>1, <2>2
  <1>4. gauges' \in [Gauges -> [Dates -> Calls \cup {None}]]
    <2>1. CASE gauges' = gauges
      BY <2>1
    <2>2. ASSUME NEW g, NEW d, gauges' = [gauges EXCEPT ![g][d] = c]
          PROVE  gauges' \in [Gauges -> [Dates -> Calls \cup {None}]]
      <3>. DEFINE row == [gauges[g] EXCEPT ![d] = c]
      <3>1. gauges' = [gauges EXCEPT ![g] = row]
        BY <2>2
      <3>2. g \in Gauges => row \in [Dates -> Calls \cup {None}]
        OBVIOUS
      <3>. HIDE DEF row
      <3>. QED BY <3>1, <3>2
    <2>. QED BY <1>3, <2>1, <2>2
  <1>. QED BY <1>1, <1>2, <1>4

LEMMA InitInvariant ==
  ASSUME Init
  PROVE  IInv
  <1>0. /\ GaugeCount \in Nat \ {0} /\ MaxRevision \in Nat /\ MaxCrashes \in Nat
        /\ None \notin Calls /\ 0 \in 0 .. GaugeCount /\ 0 \in 0 .. MaxRevision
    BY BoundsAssumption, NoneAssumption
  <1>1. PICK date \in [Calls -> Dates] : call = [c \in Calls |-> NewCall(date[c])]
    BY DEF Init
  <1>2. ASSUME NEW d \in Dates
        PROVE  /\ NewCall(d) \in CallStates /\ NewCall(d).pc = "idle"
               /\ NewCall(d).answer = None /\ NewCall(d).gaugesSet = 0
               /\ NewCall(d).floor = 0
    <2>1. <<>> \in Seq(EventNames)
      OBVIOUS
    <2>. QED BY <1>0, <2>1 DEF NewCall, CallStates, PCs
  <1>3. call \in [Calls -> CallStates]
    BY <1>1, <1>2
  <1>4. \A c \in Calls : /\ call[c].pc = "idle" /\ call[c].answer = None
                          /\ call[c].gaugesSet = 0 /\ call[c].floor = 0
                          /\ call[c].date \in Dates
    BY <1>1, <1>2, <1>3 DEF CallStates
  <1>5. \A d \in Dates : upstream[d] \in Contents /\ upstream[d].rev = 0
    BY DEF Init
  <1>6. /\ gauges \in [Gauges -> [Dates -> Calls \cup {None}]]
        /\ \A g \in Gauges, d \in Dates : gauges[g][d] = None
    BY DEF Init, NoGauges
  <1>7. TypeOK
    BY <1>0, <1>3, <1>5, <1>6 DEF Init, TypeOK
  <1>8. LoopOwned /\ CountsInStep
    <2>1. loop = None
      BY DEF Init
    <2>. QED BY <1>0, <1>4, <2>1 DEF LoopOwned, CountsInStep, RunningPCs, WithContents
  <1>9. GaugesAnswered /\ RevisionsGrow
    BY <1>0, <1>4, <1>5, <1>6 DEF GaugesAnswered, RevisionsGrow
  <1>10. GaugesSplit
    <2>1. loop = None
      BY DEF Init
    <2>. QED BY <1>6, <2>1 DEF GaugesSplit, Emitting
  <1>. QED BY <1>7, <1>8, <1>9, <1>10 DEF IInv

(* The invariant holds of every reachable state.                           *)
THEOREM Invariance == Spec => []IInv
  <1>1. Init => IInv
    BY InitInvariant
  <1>2. IInv /\ [Next]_vars => IInv'
    <2>. SUFFICES ASSUME IInv, [Next]_vars
         PROVE  IInv'
      OBVIOUS
    <2>1. ASSUME NEW c \in Calls,
                 Arrive(c) \/ LoopStep(c) \/ UpstreamStep(c) \/ Cancel(c)
          PROVE  IInv'
      <3>1. TypeOK'
        BY <2>1, StepTyped, RestTyped DEF IInv, TypeOK
      <3>2. CASE SetGauge(c)
        BY <3>1, <3>2, SetGaugePreserves
      <3>3. CASE ~ SetGauge(c)
        BY <2>1, <3>1, <3>3, StepsMove, MovedPreserves
      <3>. QED BY <3>2, <3>3
    <2>2. CASE UNCHANGED vars
      BY <2>2 DEF vars, reader, IInv, TypeOK, LoopOwned, CountsInStep, GaugesAnswered,
                  RevisionsGrow, GaugesSplit, Emitting
    <2>. QED BY <2>1, <2>2, RevisePreserves, ExportPreserves, CrashPreserves DEF Next
  <1>. QED BY <1>1, <1>2, PTL DEF Spec

(* Every variable keeps its type: in particular a collection never sets    *)
(* more gauges than there are, and emits only known lifecycle events.      *)
THEOREM TypeCorrect == Spec => []TypeOK
  <1>1. IInv => TypeOK
    BY DEF IInv
  <1>. QED BY <1>1, Invariance, PTL

(* Overlapping collections never leave a mixture on a date's gauges.       *)
THEOREM NeverMixed == Spec => []GaugesNeverMixCalls
  <1>1. IInv => GaugesNeverMixCalls
    BY DEF IInv, GaugesSplit, Emitting, GaugesNeverMixCalls
  <1>. QED BY <1>1, Invariance, PTL

(* A collection that began after another set a date's totals replaces them *)
(* by totals at least as recent.                                           *)
THEOREM FreshRecollection == Spec => []SequentialRecollectionIsFresh
  <1>1. ASSUME IInv
        PROVE  SequentialRecollectionIsFresh
    <2>. SUFFICES ASSUME NEW c \in Calls, call[c].gaugesSet > 0
         PROVE  call[c].answer.rev >= call[c].floor
      BY DEF SequentialRecollectionIsFresh
    <2>1. call[c].answer # None
      BY <1>1 DEF IInv, CountsInStep
    <2>2. call[c].floor <= call[c].answer.rev
      BY <1>1, <2>1 DEF IInv, RevisionsGrow
    <2>. QED BY <2>2
  <1>. QED BY <1>1, Invariance, PTL
===============================================================================
