---------------------- MODULE ProtectionRefinementProofs ----------------------
(***************************************************************************)
(* That a collection with its data takes the steps of Collection, for any  *)
(* records, any pseudonyms and either provider.                            *)
(***************************************************************************)
EXTENDS ProtectionRefinement, ProtectionProofs, SequenceTheorems

(* The one call, by the fields of its record.                              *)
State(w, d, a, e, g, u, v, s, r) ==
  [pc |-> w, date |-> d, answer |-> a, error |-> e, gaugesSet |-> g, usage |-> u,
   events |-> v, span |-> s, reply |-> r, floor |-> 0]

One(t) == [c \in {Call} |-> t]

(* What Collection's steps change of it.                                   *)
Moved(f, w2) == [f EXCEPT ![Call].pc = w2]
Told(f, w2, v2) == [f EXCEPT ![Call].pc = w2, ![Call].events = v2]
Faulty(f, w2, e2) == [f EXCEPT ![Call].pc = w2, ![Call].error = e2]
Metered(f, g2, w2) == [f EXCEPT ![Call].gaugesSet = g2, ![Call].pc = w2]
Counted(f, w2, u2) == [f EXCEPT ![Call].pc = w2, ![Call].usage = u2]
Ended(f, w2, v2, s2, r2) ==
  [f EXCEPT ![Call].pc = w2, ![Call].events = v2,
            ![Call].span = s2, ![Call].reply = r2]

LEMMA MovedCall ==
  ASSUME NEW w, NEW d, NEW a, NEW e, NEW g, NEW u, NEW v, NEW s, NEW r,
         NEW w2
  PROVE  Moved(One(State(w, d, a, e, g, u, v, s, r)), w2)
           = One(State(w2, d, a, e, g, u, v, s, r))
  <1> DEFINE t == State(w, d, a, e, g, u, v, s, r)
  <1>1. Moved(One(t), w2)
          = One([t EXCEPT !.pc = w2])
    BY DEF Moved, One
  <1>2. [t EXCEPT !.pc = w2]
          = State(w2, d, a, e, g, u, v, s, r)
    BY DEF State
  <1> HIDE DEF t
  <1>3. QED
    BY <1>1, <1>2, Zenon DEF t

LEMMA ToldCall ==
  ASSUME NEW w, NEW d, NEW a, NEW e, NEW g, NEW u, NEW v, NEW s, NEW r,
         NEW w2, NEW v2
  PROVE  Told(One(State(w, d, a, e, g, u, v, s, r)), w2, v2)
           = One(State(w2, d, a, e, g, u, v2, s, r))
  <1> DEFINE t == State(w, d, a, e, g, u, v, s, r)
  <1>1. Told(One(t), w2, v2)
          = One([[t EXCEPT !.pc = w2] EXCEPT !.events = v2])
    BY DEF Told, One
  <1>2. [t EXCEPT !.pc = w2]
          = State(w2, d, a, e, g, u, v, s, r)
    BY DEF State
  <1>3. [State(w2, d, a, e, g, u, v, s, r) EXCEPT !.events = v2]
          = State(w2, d, a, e, g, u, v2, s, r)
    BY DEF State
  <1> HIDE DEF t
  <1>4. QED
    BY <1>1, <1>2, <1>3, Zenon DEF t

LEMMA FaultyCall ==
  ASSUME NEW w, NEW d, NEW a, NEW e, NEW g, NEW u, NEW v, NEW s, NEW r,
         NEW w2, NEW e2
  PROVE  Faulty(One(State(w, d, a, e, g, u, v, s, r)), w2, e2)
           = One(State(w2, d, a, e2, g, u, v, s, r))
  <1> DEFINE t == State(w, d, a, e, g, u, v, s, r)
  <1>1. Faulty(One(t), w2, e2)
          = One([[t EXCEPT !.pc = w2] EXCEPT !.error = e2])
    BY DEF Faulty, One
  <1>2. [t EXCEPT !.pc = w2]
          = State(w2, d, a, e, g, u, v, s, r)
    BY DEF State
  <1>3. [State(w2, d, a, e, g, u, v, s, r) EXCEPT !.error = e2]
          = State(w2, d, a, e2, g, u, v, s, r)
    BY DEF State
  <1> HIDE DEF t
  <1>4. QED
    BY <1>1, <1>2, <1>3, Zenon DEF t

LEMMA MeteredCall ==
  ASSUME NEW w, NEW d, NEW a, NEW e, NEW g, NEW u, NEW v, NEW s, NEW r,
         NEW g2, NEW w2
  PROVE  Metered(One(State(w, d, a, e, g, u, v, s, r)), g2, w2)
           = One(State(w2, d, a, e, g2, u, v, s, r))
  <1> DEFINE t == State(w, d, a, e, g, u, v, s, r)
  <1>1. Metered(One(t), g2, w2)
          = One([[t EXCEPT !.gaugesSet = g2] EXCEPT !.pc = w2])
    BY DEF Metered, One
  <1>2. [t EXCEPT !.gaugesSet = g2]
          = State(w, d, a, e, g2, u, v, s, r)
    BY DEF State
  <1>3. [State(w, d, a, e, g2, u, v, s, r) EXCEPT !.pc = w2]
          = State(w2, d, a, e, g2, u, v, s, r)
    BY DEF State
  <1> HIDE DEF t
  <1>4. QED
    BY <1>1, <1>2, <1>3, Zenon DEF t

LEMMA CountedCall ==
  ASSUME NEW w, NEW d, NEW a, NEW e, NEW g, NEW u, NEW v, NEW s, NEW r,
         NEW w2, NEW u2
  PROVE  Counted(One(State(w, d, a, e, g, u, v, s, r)), w2, u2)
           = One(State(w2, d, a, e, g, u2, v, s, r))
  <1> DEFINE t == State(w, d, a, e, g, u, v, s, r)
  <1>1. Counted(One(t), w2, u2)
          = One([[t EXCEPT !.pc = w2] EXCEPT !.usage = u2])
    BY DEF Counted, One
  <1>2. [t EXCEPT !.pc = w2]
          = State(w2, d, a, e, g, u, v, s, r)
    BY DEF State
  <1>3. [State(w2, d, a, e, g, u, v, s, r) EXCEPT !.usage = u2]
          = State(w2, d, a, e, g, u2, v, s, r)
    BY DEF State
  <1> HIDE DEF t
  <1>4. QED
    BY <1>1, <1>2, <1>3, Zenon DEF t

LEMMA EndedCall ==
  ASSUME NEW w, NEW d, NEW a, NEW e, NEW g, NEW u, NEW v, NEW s, NEW r,
         NEW w2, NEW v2, NEW s2, NEW r2
  PROVE  Ended(One(State(w, d, a, e, g, u, v, s, r)), w2, v2, s2, r2)
           = One(State(w2, d, a, e, g, u, v2, s2, r2))
  <1> DEFINE t == State(w, d, a, e, g, u, v, s, r)
  <1>1. Ended(One(t), w2, v2, s2, r2)
          = One([[[[t EXCEPT !.pc = w2] EXCEPT !.events = v2]
                EXCEPT !.span = s2] EXCEPT !.reply = r2])
    BY DEF Ended, One
  <1>2. [t EXCEPT !.pc = w2]
          = State(w2, d, a, e, g, u, v, s, r)
    BY DEF State
  <1>3. [State(w2, d, a, e, g, u, v, s, r) EXCEPT !.events = v2]
          = State(w2, d, a, e, g, u, v2, s, r)
    BY DEF State
  <1>4. [State(w2, d, a, e, g, u, v2, s, r) EXCEPT !.span = s2]
          = State(w2, d, a, e, g, u, v2, s2, r)
    BY DEF State
  <1>5. [State(w2, d, a, e, g, u, v2, s2, r) EXCEPT !.reply = r2]
          = State(w2, d, a, e, g, u, v2, s2, r2)
    BY DEF State
  <1> HIDE DEF t
  <1>6. [[[[t EXCEPT !.pc = w2] EXCEPT !.events = v2]
             EXCEPT !.span = s2] EXCEPT !.reply = r2]
          = [[[State(w2, d, a, e, g, u, v, s, r) EXCEPT !.events = v2]
               EXCEPT !.span = s2] EXCEPT !.reply = r2]
    BY <1>2, Zenon
  <1>7. [[[State(w2, d, a, e, g, u, v, s, r) EXCEPT !.events = v2]
             EXCEPT !.span = s2] EXCEPT !.reply = r2]
          = [[State(w2, d, a, e, g, u, v2, s, r)
               EXCEPT !.span = s2] EXCEPT !.reply = r2]
    BY <1>3, Zenon
  <1>8. [[State(w2, d, a, e, g, u, v2, s, r) EXCEPT !.span = s2] EXCEPT !.reply = r2]
          = [State(w2, d, a, e, g, u, v2, s2, r) EXCEPT !.reply = r2]
    BY <1>4, Zenon
  <1>9. [State(w2, d, a, e, g, u, v2, s2, r) EXCEPT !.reply = r2]
          = State(w2, d, a, e, g, u, v2, s2, r2)
    BY <1>5, Zenon
  <1>10. [[[[t EXCEPT !.pc = w2] EXCEPT !.events = v2]
             EXCEPT !.span = s2] EXCEPT !.reply = r2]
          = State(w2, d, a, e, g, u, v2, s2, r2)
    BY <1>6, <1>7, <1>8, <1>9, Zenon
  <1>11. QED
    BY <1>1, <1>10, Zenon DEF t

-------------------------------------------------------------------------------
(* The steps of Collection, by the fields of the one call.                 *)
LEMMA Stutters ==
  ASSUME UNCHANGED <<OneCall, Loop, Held, Shown>>
  PROVE  UNCHANGED Anthropic!vars /\ UNCHANGED Mock!vars
  BY DEF Anthropic!vars, Anthropic!reader, Mock!vars, Mock!reader

LEMMA Resumes ==
  ASSUME NEW d, NEW a, NEW e, NEW g, NEW u, NEW v, NEW s, NEW r, NEW w,
         OneCall = One(State("awaiting", d, a, e, g, u, v, s, r)),
         OneCall' = One(State(w, d, a, e, g, u, v, s, r)),
         w = IF e = None THEN "mapping" ELSE "failing",
         a # None \/ e # None, Loop = None, Loop' = Call, UNCHANGED <<Held, Shown>>
  PROVE  Anthropic!LoopStep(Call) /\ Mock!LoopStep(Call)
  <1>1. /\ OneCall[Call].pc = "awaiting" /\ OneCall[Call].answer = a
        /\ OneCall[Call].error = e
    BY DEF State, One
  <1>2. OneCall' = Moved(OneCall, w)
    BY MovedCall
  <1>3. OneCall' = [OneCall EXCEPT ![Call].pc = IF OneCall[Call].error = None
                                                  THEN "mapping" ELSE "failing"]
    BY <1>1, <1>2 DEF Moved
  <1>4. Anthropic!Resume(Call)
    BY <1>1, <1>3
    DEF Anthropic!Resume, Anthropic!Free, Anthropic!At, Anthropic!Unanswered, Anthropic!reader
  <1>5. Mock!Resume(Call)
    BY <1>1, <1>3 DEF Mock!Resume, Mock!Free, Mock!At, Mock!Unanswered, Mock!reader
  <1>6. QED
    BY <1>4, <1>5 DEF Anthropic!LoopStep, Mock!LoopStep

LEMMA Maps ==
  ASSUME NEW d, NEW a, NEW e, NEW g, NEW u, NEW v, NEW s, NEW r,
         OneCall = One(State("mapping", d, a, e, g, u, v, s, r)),
         OneCall' = One(State("protecting", d, a, e, g, u, Append(v, "records_mapped"),
                              s, r)),
         Loop = Call, UNCHANGED <<Loop, Held, Shown>>
  PROVE  Anthropic!LoopStep(Call) /\ Mock!LoopStep(Call)
  <1>1. OneCall[Call].pc = "mapping" /\ OneCall[Call].events = v
    BY DEF State, One
  <1>2. OneCall' = Told(OneCall, "protecting", Append(v, "records_mapped"))
    BY ToldCall
  <1>3. OneCall' = [OneCall EXCEPT ![Call].pc = "protecting",
                                   ![Call].events = Append(@, "records_mapped")]
    BY <1>1, <1>2 DEF Told
  <1>4. Anthropic!MapRecords(Call)
    BY <1>1, <1>3 DEF Anthropic!MapRecords, Anthropic!Runs, Anthropic!At, Anthropic!reader
  <1>5. Mock!MapRecords(Call)
    BY <1>1, <1>3 DEF Mock!MapRecords, Mock!Runs, Mock!At, Mock!reader
  <1>6. QED
    BY <1>4, <1>5 DEF Anthropic!LoopStep, Mock!LoopStep

LEMMA Protects ==
  ASSUME NEW d, NEW a, NEW e, NEW g, NEW u, NEW v, NEW s, NEW r, a.usable,
         OneCall = One(State("protecting", d, a, e, g, u, v, s, r)),
         OneCall' = One(State("metering", d, a, e, g, u,
                              Append(v, "aggregation_completed"), s, r)),
         Loop = Call, UNCHANGED <<Loop, Held, Shown>>
  PROVE  Anthropic!LoopStep(Call) /\ Mock!LoopStep(Call)
  <1>1. /\ OneCall[Call].pc = "protecting" /\ OneCall[Call].events = v
        /\ OneCall[Call].answer.usable
    BY DEF State, One
  <1>2. OneCall' = Told(OneCall, "metering", Append(v, "aggregation_completed"))
    BY ToldCall
  <1>3. OneCall' = [OneCall EXCEPT ![Call].pc = "metering",
                                   ![Call].events = Append(@, "aggregation_completed")]
    BY <1>1, <1>2 DEF Told
  <1>4. Anthropic!Protect(Call)
    BY <1>1, <1>3 DEF Anthropic!Protect, Anthropic!Runs, Anthropic!At, Anthropic!reader
  <1>5. Mock!Protect(Call)
    BY <1>1, <1>3 DEF Mock!Protect, Mock!Runs, Mock!At, Mock!reader
  <1>6. QED
    BY <1>4, <1>5 DEF Anthropic!LoopStep, Mock!LoopStep

LEMMA Rejects ==
  ASSUME NEW d, NEW a, NEW e, NEW g, NEW u, NEW v, NEW s, NEW r, ~ a.usable,
         OneCall = One(State("protecting", d, a, e, g, u, v, s, r)),
         OneCall' = One(State("failing", d, a, "OtherError", g, u, v, s, r)),
         Loop = Call, UNCHANGED <<Loop, Held, Shown>>
  PROVE  Anthropic!LoopStep(Call) /\ Mock!LoopStep(Call)
  <1>1. OneCall[Call].pc = "protecting" /\ ~ OneCall[Call].answer.usable
    BY DEF State, One
  <1>2. OneCall' = Faulty(OneCall, "failing", "OtherError")
    BY FaultyCall
  <1>3. Anthropic!Protect(Call)
    BY <1>1, <1>2 DEF Faulty, Anthropic!Protect, Anthropic!Runs, Anthropic!At, Anthropic!reader
  <1>4. Mock!Protect(Call)
    BY <1>1, <1>2 DEF Faulty, Mock!Protect, Mock!Runs, Mock!At, Mock!reader
  <1>5. QED
    BY <1>3, <1>4 DEF Anthropic!LoopStep, Mock!LoopStep

LEMMA Emits ==
  ASSUME NEW d, NEW a, NEW e, NEW g, NEW u \in Nat, NEW v, NEW s, NEW r,
         OneCall = One(State("logging", d, a, e, g, u, v, s, r)),
         OneCall' = One(State("previewing", d, a, e, g, u + 1, v, s, r)),
         Loop = Call, UNCHANGED <<Loop, Held, Shown>>
  PROVE  Anthropic!LoopStep(Call) /\ Mock!LoopStep(Call)
  <1>1. OneCall[Call].pc = "logging" /\ OneCall[Call].usage = u
    BY DEF State, One
  <1>2. OneCall' = Counted(OneCall, "previewing", u + 1)
    BY CountedCall
  <1>3. OneCall' = [OneCall EXCEPT ![Call].pc = "previewing", ![Call].usage = @ + 1]
    BY <1>1, <1>2 DEF Counted
  <1>4. Anthropic!EmitUsage(Call)
    BY <1>1, <1>3 DEF Anthropic!EmitUsage, Anthropic!Runs, Anthropic!At, Anthropic!reader
  <1>5. Mock!EmitUsage(Call)
    BY <1>1, <1>3 DEF Mock!EmitUsage, Mock!Runs, Mock!At, Mock!reader
  <1>6. QED
    BY <1>4, <1>5 DEF Anthropic!LoopStep, Mock!LoopStep

LEMMA Previews ==
  ASSUME NEW d, NEW a, NEW e, NEW g, NEW u, NEW v, NEW s, NEW r,
         OneCall = One(State("previewing", d, a, e, g, u, v, s, r)),
         OneCall' = One(State("completing", d, a, e, g, u, v, s, r)),
         Loop = Call, UNCHANGED <<Loop, Held, Shown>>
  PROVE  Anthropic!LoopStep(Call) /\ Mock!LoopStep(Call)
  <1>1. OneCall[Call].pc = "previewing"
    BY DEF State, One
  <1>2. OneCall' = Moved(OneCall, "completing")
    BY MovedCall
  <1>3. Anthropic!WritePreview(Call)
    BY <1>1, <1>2
    DEF Moved, Anthropic!WritePreview, Anthropic!Runs, Anthropic!At, Anthropic!reader
  <1>4. Mock!WritePreview(Call)
    BY <1>1, <1>2 DEF Moved, Mock!WritePreview, Mock!Runs, Mock!At, Mock!reader
  <1>5. QED
    BY <1>3, <1>4 DEF Anthropic!LoopStep, Mock!LoopStep

LEMMA Completes ==
  ASSUME NEW d, NEW a, NEW e, NEW g, NEW u, NEW v, NEW s, NEW r,
         OneCall = One(State("completing", d, a, e, g, u, v, s, r)),
         OneCall' = One(State("done", d, a, e, g, u,
                              v \o <<"preview_written", "collection_completed">>,
                              "success", "summary")),
         Loop = Call, Loop' = None, UNCHANGED <<Held, Shown>>
  PROVE  Anthropic!LoopStep(Call) /\ Mock!LoopStep(Call)
  <1>1. OneCall[Call].pc = "completing" /\ OneCall[Call].events = v
    BY DEF State, One
  <1>2. OneCall' = Ended(OneCall, "done", v \o <<"preview_written", "collection_completed">>,
                          "success", "summary")
    BY EndedCall
  <1>3. OneCall' = [OneCall EXCEPT
          ![Call].pc = "done",
          ![Call].events = @ \o <<"preview_written", "collection_completed">>,
          ![Call].span = "success", ![Call].reply = "summary"]
    BY <1>1, <1>2 DEF Ended
  <1>4. Anthropic!Complete(Call)
    BY <1>1, <1>3 DEF Anthropic!Complete, Anthropic!Runs, Anthropic!At, Anthropic!reader
  <1>5. Mock!Complete(Call)
    BY <1>1, <1>3 DEF Mock!Complete, Mock!Runs, Mock!At, Mock!reader
  <1>6. QED
    BY <1>4, <1>5 DEF Anthropic!LoopStep, Mock!LoopStep

LEMMA Fails ==
  ASSUME NEW d, NEW a, NEW e, NEW g, NEW u, NEW v, NEW s, NEW r, NEW x,
         OneCall = One(State("failing", d, a, e, g, u, v, s, r)),
         OneCall' = One(State("done", d, a, e, g, u, Append(v, "collection_failed"),
                              "failed", x)),
         x = IF e = "ProviderError" THEN "ProviderError" ELSE "CollectionFailed",
         Loop = Call, Loop' = None, UNCHANGED <<Held, Shown>>
  PROVE  Anthropic!LoopStep(Call) /\ Mock!LoopStep(Call)
  <1>1. /\ OneCall[Call].pc = "failing" /\ OneCall[Call].events = v
        /\ OneCall[Call].error = e
    BY DEF State, One
  <1>2. OneCall' = Ended(OneCall, "done", Append(v, "collection_failed"), "failed", x)
    BY EndedCall
  <1>3. /\ x = Anthropic!ReplyTo(OneCall[Call].error)
        /\ x = Mock!ReplyTo(OneCall[Call].error)
    BY <1>1 DEF Anthropic!ReplyTo, Mock!ReplyTo
  <1>4. OneCall' = [OneCall EXCEPT
          ![Call].pc = "done", ![Call].events = Append(@, "collection_failed"),
          ![Call].span = "failed", ![Call].reply = x]
    BY <1>1, <1>2 DEF Ended
  <1>5. Anthropic!Fail(Call)
    BY <1>1, <1>3, <1>4 DEF Anthropic!Fail, Anthropic!Runs, Anthropic!At, Anthropic!reader
  <1>6. Mock!Fail(Call)
    BY <1>1, <1>3, <1>4 DEF Mock!Fail, Mock!Runs, Mock!At, Mock!reader
  <1>7. QED
    BY <1>5, <1>6 DEF Anthropic!LoopStep, Mock!LoopStep

LEMMA Meters ==
  ASSUME NEW d, NEW a, NEW e, NEW g \in Nat, NEW u, NEW v, NEW s, NEW r, NEW last, NEW w,
         OneCall = One(State("metering", d, a, e, g, u, v, s, r)),
         OneCall' = One(State(w, d, a, e, g + 1, u, v, s, r)),
         w = IF g + 1 = last THEN "logging" ELSE "metering",
         Shown' = [Shown EXCEPT ![g + 1][d] = Call],
         Loop = Call, UNCHANGED <<Loop, Held>>
  PROVE  /\ last = 10 => Anthropic!LoopStep(Call)
         /\ last = 1 => Mock!LoopStep(Call)
  <1>1. /\ OneCall[Call].pc = "metering" /\ OneCall[Call].gaugesSet = g
        /\ OneCall[Call].date = d
    BY DEF State, One
  <1>2. OneCall' = Metered(OneCall, g + 1, w)
    BY MeteredCall
  <1>3. OneCall' = [OneCall EXCEPT ![Call].gaugesSet = g + 1,
                                   ![Call].pc = IF g + 1 = last THEN "logging" ELSE @]
    <2>1. OneCall[Call] = State("metering", d, a, e, g, u, v, s, r)
      BY DEF One
    <2>2. [OneCall[Call] EXCEPT !.gaugesSet = g + 1].pc = "metering"
      BY <2>1 DEF State
    <2>3. [OneCall EXCEPT ![Call].gaugesSet = g + 1][Call]
            = [OneCall[Call] EXCEPT !.gaugesSet = g + 1]
      BY DEF One
    <2>4. QED
      BY <1>1, <1>2, <2>2, <2>3 DEF Metered
  <1>4. ASSUME last = 10 PROVE Anthropic!SetGauge(Call)
    BY <1>1, <1>3, <1>4
    DEF Anthropic!SetGauge, Anthropic!RecordGauge, Anthropic!Runs, Anthropic!At,
        Anthropic!reader
  <1>5. ASSUME last = 1 PROVE Mock!SetGauge(Call)
    BY <1>1, <1>3, <1>5
    DEF Mock!SetGauge, Mock!RecordGauge, Mock!Runs, Mock!At, Mock!reader
  <1>6. QED
    BY <1>4, <1>5 DEF Anthropic!LoopStep, Mock!LoopStep

-------------------------------------------------------------------------------
(* The fields of the one call, before and after a step.                    *)
LEMMA CallFields ==
  /\ OneCall = One(State(Where, Asked, Answer, Raised, GaugesSet, Usage, Emitted,
                         span.status, Reply))
  /\ OneCall' = One(State(Where', Asked', Answer', Raised', GaugesSet', Usage', Emitted',
                          span'.status, Reply'))
  BY DEF OneCall, CallState, State, One

(* What a collection was asked for, and is given, does not change.         *)
LEMMA SameAnswer ==
  ASSUME UNCHANGED <<provider, records, pseudonym>>
  PROVE  /\ Asked' = Asked /\ Acceptable' = Acceptable /\ Held' = Held
         /\ EmissionOrder' = EmissionOrder
         /\ gauges' = gauges => GaugesSet' = GaugesSet /\ Shown' = Shown
  <1>1. Asked' = Asked
    BY DEF Asked
  <1>2. Acceptable' = Acceptable
    BY DEF Acceptable
  <1>3. Held' = Held
    BY <1>2 DEF Held
  <1>4. EmissionOrder' = EmissionOrder
    BY DEF EmissionOrder
  <1>5. gauges' = gauges => GaugesSet' = GaugesSet /\ Shown' = Shown
    BY <1>1, <1>4 DEF GaugesSet, Shown
  <1>6. QED
    BY <1>1, <1>2, <1>3, <1>4, <1>5

(* The names of the events are told one by one.                            *)
Names(s, n) == [k \in 1 .. n |-> s[k].event_name]

LEMMA NamesGrow ==
  ASSUME NEW s \in Seq(EventRecords), NEW x \in EventRecords
  PROVE  /\ Len(Append(s, x)) = Len(s) + 1
         /\ Names(Append(s, x), Len(s) + 1) = Append(Names(s, Len(s)), x.event_name)
         /\ Names(Append(s, x), Len(s)) = Names(s, Len(s))
  <1>1. /\ Len(Append(s, x)) = Len(s) + 1 /\ Len(s) \in Nat
        /\ \A k \in 1 .. Len(s) : Append(s, x)[k] = s[k]
        /\ Append(s, x)[Len(s) + 1] = x
    BY AppendProperties
  <1> DEFINE n == Len(s)
             y == x.event_name
             before == Names(s, n)
             after == Names(Append(s, x), n + 1)
             T == {s[k].event_name : k \in 1 .. n} \cup {y}
  <1>2. before \in Seq(T) /\ Len(before) = n
    BY <1>1 DEF Names
  <1>3. /\ Append(before, y) \in Seq(T) /\ Len(Append(before, y)) = n + 1
        /\ \A k \in 1 .. n : Append(before, y)[k] = before[k]
        /\ Append(before, y)[n + 1] = y
    <2> HIDE DEF before, T
    <2>1. y \in T
      BY DEF T
    <2>2. QED
      BY <1>2, <2>1, AppendProperties
  <1>4. after \in Seq(T) /\ Len(after) = n + 1
    BY <1>1 DEF Names
  <1>5. \A k \in 1 .. n + 1 : after[k] = Append(before, y)[k]
    <2>1. \A k \in 1 .. n : after[k] = before[k]
      BY <1>1 DEF Names
    <2>2. after[n + 1] = y
      BY <1>1 DEF Names
    <2>3. QED
      BY <1>1, <1>3, <2>1, <2>2
  <1>6. after = Append(before, y)
    <2> HIDE DEF after, before, T, y, n
    <2>1. QED
      BY <1>3, <1>4, <1>5, SeqEqual
  <1>7. Names(Append(s, x), n) = Names(s, n)
    BY <1>1 DEF Names
  <1>8. QED
    BY <1>1, <1>6, <1>7


-------------------------------------------------------------------------------
(* What the call looks like before it publishes, and when it will not.     *)
LEMMA Hidden ==
  ASSUME IInv, pc \in Unpublished \cup {"failing"}
  PROVE  /\ Usage = 0 /\ Reply = None
         /\ Answer = IF error \in Faults THEN None ELSE [rev |-> 0, usable |-> Acceptable]
         /\ Raised = IF error \in Faults \cup {None} THEN error ELSE "OtherError"
         /\ Emitted = Names(lifecycle, Len(lifecycle))
         /\ Loop = IF pc = "awaiting" THEN None ELSE Call
  BY DEF IInv, Verdict, Untouched, Unpublished, Usage, Reply, Answer, Raised, Emitted, Names,
         Loop

LEMMA HiddenStill ==
  ASSUME IInv', pc' \in Unpublished \cup {"failing"}
  PROVE  /\ Usage' = 0 /\ Reply' = None
         /\ Answer' = IF error' \in Faults THEN None ELSE [rev |-> 0, usable |-> Acceptable']
         /\ Raised' = IF error' \in Faults \cup {None} THEN error' ELSE "OtherError"
         /\ Emitted' = Names(lifecycle', Len(lifecycle'))
         /\ Loop' = IF pc' = "awaiting" THEN None ELSE Call
  BY DEF IInv, Verdict, Untouched, Unpublished, Usage, Reply, Answer, Raised, Emitted, Names,
         Loop

LEMMA ResumeRefines ==
  ASSUME IInv, IInv', Resume
  PROVE  Anthropic!LoopStep(Call) /\ Mock!LoopStep(Call)
  <1>1. /\ pc = "awaiting" /\ pc' = IF error = None THEN "mapping" ELSE "failing"
        /\ UNCHANGED <<provider, records, pseudonym, gauges, error, lifecycle, span>>
        /\ error \in Faults \cup {None}
    BY DEF Resume, published, reported, IInv, Verdict
  <1>2. Where = "awaiting" /\ Where' = IF error = None THEN "mapping" ELSE "failing"
    BY <1>1 DEF Where
  <1>3. /\ Asked' = Asked /\ Acceptable' = Acceptable /\ Held' = Held
        /\ GaugesSet' = GaugesSet /\ Shown' = Shown
    BY <1>1, SameAnswer
  <1>4. /\ Usage = 0 /\ Usage' = 0 /\ Reply = None /\ Reply' = None
        /\ Emitted' = Emitted /\ Answer' = Answer /\ Raised = error /\ Raised' = error
        /\ Loop = None /\ Loop' = Call
    BY <1>1, <1>3, Hidden, HiddenStill, NoneAssumption DEF Unpublished
  <1>5. Answer # None \/ Raised # None
    <2>1. CASE error = None
      <3>1. Answer = [rev |-> 0, usable |-> Acceptable] /\ Acceptable \in BOOLEAN
        BY <2>1, NoneAssumption DEF Answer, Errors, Acceptable
      <3>2. QED
        BY <3>1, UnsetAssumption
    <2>2. QED
      BY <1>4, <2>1
  <1>6. PICK d, a, e, g, u, v, s, r, w :
          /\ d = Asked /\ a = Answer /\ e = Raised /\ g = GaugesSet /\ u = Usage
          /\ v = Emitted /\ s = span.status /\ r = Reply /\ w = Where'
    OBVIOUS
  <1>7. /\ OneCall = One(State("awaiting", d, a, e, g, u, v, s, r))
        /\ OneCall' = One(State(w, d, a, e, g, u, v, s, r))
    BY <1>1, <1>2, <1>3, <1>4, <1>6, CallFields
  <1>8. w = IF e = None THEN "mapping" ELSE "failing"
    BY <1>2, <1>4, <1>6
  <1>9. QED
    BY <1>3, <1>4, <1>5, <1>6, <1>7, <1>8, Resumes

LEMMA MapRefines ==
  ASSUME IInv, IInv', JInv, MapRecords
  PROVE  Anthropic!LoopStep(Call) /\ Mock!LoopStep(Call)
  <1> DEFINE x == Event("records_mapped", "in_progress", Len(records))
  <1>1. Len(records) \in Nat /\ error = None
    BY DEF MapRecords, IInv, Typed, Verdict, Unpublished, Publishing
  <1>2. /\ pc = "mapping" /\ pc' = "dates" /\ lifecycle' = Append(lifecycle, x)
        /\ UNCHANGED <<provider, records, pseudonym, gauges, error, span>>
    BY <1>1, CheckpointsAreValid DEF MapRecords, Report, Proceed, published
  <1>3. /\ lifecycle \in Seq(EventRecords) /\ x \in EventRecords
        /\ x.event_name = "records_mapped"
    BY <1>1 DEF JInv, Telling, Event, EventRecords
  <1> HIDE DEF x
  <1>4. Where = "mapping" /\ Where' = "protecting"
    BY <1>2 DEF Where
  <1>5. /\ Asked' = Asked /\ Acceptable' = Acceptable /\ Held' = Held
        /\ GaugesSet' = GaugesSet /\ Shown' = Shown
    BY <1>2, SameAnswer
  <1>6. /\ Usage = 0 /\ Usage' = 0 /\ Reply = None /\ Reply' = None
        /\ Answer' = Answer /\ Raised' = Raised /\ Loop = Call /\ Loop' = Call
    BY <1>1, <1>2, <1>5, Hidden, HiddenStill, NoneAssumption DEF Unpublished
  <1>7. Emitted' = Append(Emitted, "records_mapped")
    BY <1>2, <1>3, Hidden, HiddenStill, NamesGrow DEF Unpublished
  <1>8. PICK d, a, e, g, u, v, s, r :
          /\ d = Asked /\ a = Answer /\ e = Raised /\ g = GaugesSet /\ u = Usage
          /\ v = Emitted /\ s = span.status /\ r = Reply
    OBVIOUS
  <1>9. /\ OneCall = One(State("mapping", d, a, e, g, u, v, s, r))
        /\ OneCall' = One(State("protecting", d, a, e, g, u, Append(v, "records_mapped"),
                                s, r))
    BY <1>2, <1>4, <1>5, <1>6, <1>7, <1>8, CallFields
  <1>10. QED
    BY <1>5, <1>6, <1>9, Maps

(* The checks that pass are the inside of Protect,                         *)
LEMMA CheckRefines ==
  ASSUME IInv, IInv', CheckDates \/ CheckUser \/ Summarize \/ ProtectRecord
  PROVE  UNCHANGED Anthropic!vars /\ UNCHANGED Mock!vars
  <1>1. /\ {pc, pc'} \subseteq {"dates", "users", "protecting"}
        /\ UNCHANGED <<provider, records, pseudonym, gauges, error, lifecycle, span>>
    BY DEF CheckDates, CheckUser, Summarize, ProtectRecord, Proceed, Continue, published,
           reported
  <1>2. Where = "protecting" /\ Where' = "protecting"
    BY <1>1 DEF Where
  <1>3. /\ Asked' = Asked /\ Acceptable' = Acceptable /\ Held' = Held
        /\ GaugesSet' = GaugesSet /\ Shown' = Shown
    BY <1>1, SameAnswer
  <1>4. /\ Usage' = Usage /\ Reply' = Reply /\ Answer' = Answer /\ Raised' = Raised
        /\ Emitted' = Emitted /\ Loop' = Loop
    BY <1>1, <1>3, Hidden, HiddenStill DEF Unpublished
  <1>5. OneCall' = OneCall
    BY <1>1, <1>2, <1>3, <1>4, CallFields
  <1>6. QED
    BY <1>3, <1>4, <1>5, Stutters

(* which accepts the collection when they all do,                          *)
LEMMA AcceptRefines ==
  ASSUME IInv, IInv', JInv, CheckCollection
  PROVE  Anthropic!LoopStep(Call) /\ Mock!LoopStep(Call)
  <1> DEFINE x == Event("aggregation_completed", "in_progress", Len(records))
  <1>1. /\ Len(records) \in Nat /\ record_count = Len(records) /\ error = None
        /\ events = <<>>
    BY DEF CheckCollection, IInv, Typed, Counting, Verdict, Untouched, Unpublished,
           Publishing
  <1>2. /\ pc = "protecting" /\ pc' = "gauges" /\ i' = 1
        /\ lifecycle' = Append(lifecycle, x)
        /\ UNCHANGED <<provider, records, pseudonym, gauges, events, error, span>>
    BY <1>1, CheckpointsAreValid DEF CheckCollection, Report, Proceed, published
  <1>3. /\ lifecycle \in Seq(EventRecords) /\ x \in EventRecords
        /\ x.event_name = "aggregation_completed"
    BY <1>1 DEF JInv, Telling, Event, EventRecords
  <1> HIDE DEF x
  <1>4. Where = "protecting" /\ Where' = "metering"
    <2>1. Len(EmissionOrder') >= 1
      BY DEF EmissionOrder
    <2>2. QED
      BY <1>2, <2>1 DEF Where
  <1>5. /\ Asked' = Asked /\ Acceptable' = Acceptable /\ Held' = Held
        /\ GaugesSet' = GaugesSet /\ Shown' = Shown
    BY <1>2, SameAnswer
  <1>6. /\ Usage = 0 /\ Reply = None /\ Loop = Call /\ Emitted = Names(lifecycle, Len(lifecycle))
        /\ Answer = [rev |-> 0, usable |-> Acceptable] /\ Raised = None
    BY <1>1, <1>2, Hidden, NoneAssumption DEF Unpublished, Errors
  <1>7. Usage' = 0 /\ Reply' = None /\ Loop' = Call /\ Answer' = Answer /\ Raised' = Raised
    BY <1>1, <1>2, <1>5 DEF Usage, Reply, Loop, Answer, Raised
  <1>8. Emitted' = Append(Emitted, "aggregation_completed")
    <2>1. Emitted' = Names(lifecycle', Len(lifecycle'))
      BY <1>2 DEF Emitted, Names
    <2>2. QED
      BY <1>2, <1>3, <1>6, <2>1, NamesGrow
  <1>9. Acceptable
    BY <1>2 DEF IInv, OncePublishing, Publishing, Acceptable
  <1>10. PICK d, a, e, g, u, v, s, r :
          /\ d = Asked /\ a = Answer /\ e = Raised /\ g = GaugesSet /\ u = Usage
          /\ v = Emitted /\ s = span.status /\ r = Reply
    OBVIOUS
  <1>11. /\ OneCall = One(State("protecting", d, a, e, g, u, v, s, r))
         /\ OneCall' = One(State("metering", d, a, e, g, u,
                                 Append(v, "aggregation_completed"), s, r))
    BY <1>2, <1>4, <1>5, <1>6, <1>7, <1>8, <1>10, CallFields
  <1>12. a.usable
    BY <1>6, <1>9, <1>10
  <1>13. QED
    BY <1>5, <1>6, <1>7, <1>11, <1>12, Protects

(* and fails when one does not.                                            *)
LEMMA RejectRefines ==
  ASSUME IInv, IInv',
         RejectEmpty \/ RejectMixedDates \/ RejectDuplicateUser \/ RejectBlankIdentifier
           \/ RejectCollection
  PROVE  Anthropic!LoopStep(Call) /\ Mock!LoopStep(Call)
  <1>1. /\ pc \in {"dates", "users", "protecting"} /\ pc' = "failing"
        /\ UNCHANGED <<provider, records, pseudonym, gauges, lifecycle, span>>
        /\ error' \in Errors \ Faults
    BY DEF RejectEmpty, RejectMixedDates, RejectDuplicateUser, RejectBlankIdentifier,
           RejectCollection, Raise, published, Errors, Faults
  <1>2. error = None /\ error' # None /\ ~ Acceptable'
    BY <1>1, NoneAssumption DEF IInv, Verdict, Unpublished, Publishing
  <1>3. Where = "protecting" /\ Where' = "failing"
    BY <1>1 DEF Where
  <1>4. /\ Asked' = Asked /\ Acceptable' = Acceptable /\ Held' = Held
        /\ GaugesSet' = GaugesSet /\ Shown' = Shown
    BY <1>1, SameAnswer
  <1>5. /\ Usage = 0 /\ Reply = None /\ Loop = Call
        /\ Emitted = Names(lifecycle, Len(lifecycle))
        /\ Answer = [rev |-> 0, usable |-> Acceptable]
    BY <1>1, <1>2, Hidden, NoneAssumption DEF Unpublished, Errors
  <1>6. /\ Usage' = 0 /\ Reply' = None /\ Loop' = Call /\ Emitted' = Emitted
        /\ Answer' = Answer /\ Raised' = "OtherError"
    BY <1>1, <1>2, <1>4, <1>5, HiddenStill DEF Unpublished
  <1>7. PICK d, a, e, g, u, v, s, r :
          /\ d = Asked /\ a = Answer /\ e = Raised /\ g = GaugesSet /\ u = Usage
          /\ v = Emitted /\ s = span.status /\ r = Reply
    OBVIOUS
  <1>8. /\ OneCall = One(State("protecting", d, a, e, g, u, v, s, r))
        /\ OneCall' = One(State("failing", d, a, "OtherError", g, u, v, s, r))
    BY <1>1, <1>3, <1>4, <1>5, <1>6, <1>7, CallFields
  <1>9. ~ a.usable
    BY <1>2, <1>4, <1>5, <1>7
  <1>10. QED
    BY <1>4, <1>5, <1>6, <1>8, <1>9, Rejects


-------------------------------------------------------------------------------
(* Every gauge is set to counts, none is set twice, and those that are set *)
(* are the first of the emitter's order.                                   *)
Position ==
  [generic |-> 1, claude_code |-> 2, cowork |-> 3, design |-> 4, science |-> 5, web |-> 6,
   excel |-> 7, outlook |-> 8, powerpoint |-> 9, word |-> 10]

LEMMA OrderOfAreas ==
  ASSUME provider \in Providers
  PROVE  /\ Len(EmissionOrder) = IF provider = "anthropic" THEN 10 ELSE 1
         /\ \A k \in 1 .. Len(EmissionOrder) : /\ EmissionOrder[k] \in DOMAIN Instruments
                                               /\ Position[EmissionOrder[k]] = k
  <1>1. CASE provider = "mock"
    BY <1>1 DEF EmissionOrder, Instruments, Position
  <1>2. CASE provider = "anthropic"
    <2>1. Len(EmissionOrder) = 10
      BY <1>2 DEF EmissionOrder
    <2>2. ASSUME NEW k \in 1 .. 10
          PROVE  EmissionOrder[k] \in DOMAIN Instruments /\ Position[EmissionOrder[k]] = k
      <3>1. k \in {1, 2, 3, 4, 5, 6, 7, 8, 9, 10}
        BY <2>2
      <3>2. QED
        BY <1>2, <3>1 DEF EmissionOrder, Instruments, Position
    <2>3. QED
      BY <1>2, <2>1, <2>2
  <1>3. QED
    BY <1>1, <1>2 DEF Providers

LEMMA DistinctCount ==
  ASSUME NEW n \in Nat, NEW h, \A j, k \in 1 .. n : j # k => h[j] # h[k]
  PROVE  Cardinality({h[k] : k \in 1 .. n}) = n
  BY DistinctImage

LEMMA FirstGauges ==
  ASSUME provider \in Providers, NEW f, DOMAIN f = DOMAIN Instruments,
         NEW n \in 0 .. Len(EmissionOrder),
         \A a \in DOMAIN f : f[a] # None <=> a \in {EmissionOrder[k] : k \in 1 .. n}
  PROVE  Cardinality({a \in DOMAIN f : f[a] # None}) = n
  <1> DEFINE order == [k \in 1 .. n |-> EmissionOrder[k]]
  <1>1. /\ Len(EmissionOrder) \in Nat
        /\ \A k \in 1 .. n : /\ EmissionOrder[k] \in DOMAIN Instruments
                             /\ Position[EmissionOrder[k]] = k
    BY OrderOfAreas
  <1>2. {a \in DOMAIN f : f[a] # None} = {order[k] : k \in 1 .. n}
    BY <1>1
  <1>3. \A j, k \in 1 .. n : j # k => order[j] # order[k]
    BY <1>1
  <1>4. n \in Nat
    BY <1>1
  <1> HIDE DEF order
  <1>5. Cardinality({order[k] : k \in 1 .. n}) = n
    BY <1>3, <1>4, DistinctCount
  <1>6. QED
    BY <1>2, <1>5

(* What the total of a gauge is made of is a count of its area.            *)
LEMMA TotalsAreCounted ==
  ASSUME NEW a \in DOMAIN Instruments \ {"generic"}, NEW g \in DOMAIN AnthropicGauges[a]
  PROVE  /\ a \in DOMAIN AnthropicFields
         /\ AnthropicTotals[a][AnthropicGauges[a][g]] \in AnthropicFields[a]
  <1>1. AnthropicTotals[a][AnthropicGauges[a][g]] = GaugeMeaning[g]
    BY GaugesMean
  <1>2. a \in {"claude_code", "cowork", "design", "excel", "outlook", "powerpoint", "word",
               "science", "web"}
    BY DEF Instruments
  <1>3. CASE a = "claude_code"
    BY <1>1, <1>3 DEF AnthropicGauges, AnthropicFields, GaugeMeaning
  <1>4. CASE a = "cowork"
    BY <1>1, <1>4 DEF AnthropicGauges, AnthropicFields, AnthropicOfficeFields, GaugeMeaning
  <1>5. CASE a = "design"
    BY <1>1, <1>5 DEF AnthropicGauges, AnthropicFields, GaugeMeaning
  <1>6. CASE a \in {"excel", "outlook", "powerpoint", "word"}
    <2>1. AnthropicGauges[a] = OfficeGauges /\ AnthropicFields[a] = AnthropicOfficeFields
          /\ a \in DOMAIN AnthropicFields
      BY <1>6 DEF AnthropicGauges, AnthropicFields
    <2>2. QED
      BY <1>1, <2>1 DEF OfficeGauges, AnthropicOfficeFields, GaugeMeaning
  <1>7. CASE a = "science"
    BY <1>1, <1>7 DEF AnthropicGauges, AnthropicFields, GaugeMeaning
  <1>8. CASE a = "web"
    BY <1>1, <1>8 DEF AnthropicGauges, AnthropicFields, GaugeMeaning
  <1>9. QED
    BY <1>2, <1>3, <1>4, <1>5, <1>6, <1>7, <1>8

LEMMA AreaTotals ==
  ASSUME IInv, ActivitiesTyped, provider = "anthropic",
         NEW a \in DOMAIN AnthropicTotals, a \in DOMAIN AnthropicFields,
         NEW t \in DOMAIN AnthropicTotals[a], AnthropicTotals[a][t] \in AnthropicFields[a]
  PROVE  ProviderTotals(provider, Normalized)[a][t] \in Nat
  <1> DEFINE c == AnthropicTotals[a][t]
             f == [k \in DOMAIN Normalized |-> Normalized[k].extension[a][c]]
  <1>1. ProviderTotals(provider, Normalized)[a][t] = SumFunctionOnSet(f, DOMAIN Normalized)
    BY DEF ProviderTotals, TotalsOf, SumOf, SumFunction
  <1>2. /\ DOMAIN Normalized = DOMAIN records /\ DOMAIN records = 1 .. Len(records)
        /\ Len(records) \in Nat
        /\ \A k \in DOMAIN records : Normalized[k].extension = records[k].activity
    BY NormalizedRecords DEF IInv, Typed
  <1>3. \A k \in DOMAIN records : records[k].activity[a][c] \in Nat
    <2>1. \A k \in DOMAIN records : records[k].activity[a] \in [AnthropicFields[a] -> Nat]
      BY DEF ActivitiesTyped, IsActivity, FieldsOf
    <2>2. c \in AnthropicFields[a]
      OBVIOUS
    <2> HIDE DEF c
    <2>3. QED
      BY <2>1, <2>2
  <1>4. IsFiniteSet(DOMAIN Normalized)
    BY <1>2, FS_Interval
  <1>5. f \in [DOMAIN Normalized -> Nat]
    BY <1>2, <1>3
  <1> HIDE DEF f, c
  <1>6. QED
    BY <1>1, <1>4, <1>5, SumOfCounts

LEMMA ValuesAreCounts ==
  ASSUME IInv, KInv, pc = "gauges", NEW k \in 1 .. Len(EmissionOrder)
  PROVE  ValuesOf(EmissionOrder[k]) # None
  <1> DEFINE area == EmissionOrder[k]
  <1>1. area \in DOMAIN Instruments /\ provider \in Providers /\ Summed
    BY OrderOfAreas DEF IInv, Typed, Summed, Publishing
  <1>2. CASE area = "generic"
    <2>1. ValuesOf(area) \in Counts
      BY <1>1, <1>2, GenericCounts DEF ValuesOf
    <2>2. QED
      BY <2>1, UnsetAssumption
  <1>3. CASE area # "generic"
    <2>1. provider = "anthropic"
      BY <1>1, <1>3 DEF EmissionOrder, Providers
    <2>2. /\ summary.provider_activity = ProviderTotals(provider, Normalized)
          /\ ActivitiesTyped
      BY <1>1 DEF KInv, Carrying, Aggregate
    <2>3. PICK a : a = area
      OBVIOUS
    <2>4. a \in DOMAIN Instruments \ {"generic"}
      BY <1>1, <1>3, <2>3
    <2>5. \A g \in DOMAIN AnthropicGauges[a] :
            ProviderTotals(provider, Normalized)[a][AnthropicGauges[a][g]] \in Nat
      BY <2>1, <2>2, <2>4, GaugesMean, TotalsAreCounted, AreaTotals
    <2>6. ValuesOf(a) \in [DOMAIN AnthropicGauges[a] -> Nat]
      BY <2>2, <2>4, <2>5 DEF ValuesOf
    <2>7. a \in DOMAIN AnthropicGauges
      BY <2>4 DEF Instruments, AnthropicGauges
    <2>8. QED
      BY <2>3, <2>6, <2>7, UnsetAssumption
  <1>4. QED
    BY <1>2, <1>3


-------------------------------------------------------------------------------
(* The gauges that are set are the first in the order, and the event that  *)
(* waits for the last checkpoint is the one before it.                     *)
Setting ==
  pc = "gauges" =>
    \A a \in DOMAIN gauges : gauges[a] # None <=> a \in {EmissionOrder[k] : k \in 1 .. i - 1}

LastTold ==
  pc = "completing" =>
    /\ Len(lifecycle) > 0
    /\ lifecycle[Len(lifecycle)].event_name = "preview_written"

LInv == Setting /\ LastTold

LEMMA InitLast == ASSUME Init PROVE LInv
  BY DEF Init, LInv, Setting, LastTold

LEMMA SetGaugesLast ==
  ASSUME IInv, KInv, LInv, SetGauges
  PROVE  /\ LInv'
         /\ pc = "gauges" /\ pc' = "gauges" /\ i \in 1 .. Len(EmissionOrder) /\ i' = i + 1
         /\ DOMAIN gauges = DOMAIN Instruments /\ EmissionOrder[i] \in DOMAIN gauges
         /\ gauges' = [gauges EXCEPT ![EmissionOrder[i]] = ValuesOf(EmissionOrder[i])]
         /\ ValuesOf(EmissionOrder[i]) # None
         /\ UNCHANGED <<provider, records, pseudonym, events, protected, error, lifecycle,
                        span>>
  <1>1. /\ pc = "gauges" /\ provider \in Providers /\ i \in 1 .. Len(EmissionOrder)
        /\ Len(EmissionOrder) \in Nat
    BY OrderOfAreas DEF SetGauges, IInv, Typed
  <1>2. /\ EmissionOrder[i] \in DOMAIN Instruments /\ ValuesOf(EmissionOrder[i]) # None
        /\ DOMAIN ValuesOf(EmissionOrder[i]) \subseteq Instruments[EmissionOrder[i]]
    BY <1>1, OrderOfAreas, ValuesAreCounts, EveryValueHasAGauge
  <1>3. DOMAIN gauges = DOMAIN Instruments
    BY DEF KInv, Displaying
  <1>4. /\ gauges' = [gauges EXCEPT ![EmissionOrder[i]] = ValuesOf(EmissionOrder[i])]
        /\ i' = i + 1
        /\ UNCHANGED <<provider, records, pseudonym, pc, events, protected, error, lifecycle,
                       span>>
    BY <1>2 DEF SetGauges, Continue, reported
  <1>5. Setting'
    <2>1. EmissionOrder' = EmissionOrder
      BY <1>4 DEF EmissionOrder
    <2>2. i' - 1 = i /\ 1 .. i = (1 .. i - 1) \cup {i}
      BY <1>1, <1>4
    <2>3. \A a \in DOMAIN gauges :
            gauges[a] # None <=> a \in {EmissionOrder[k] : k \in 1 .. i - 1}
      BY <1>1 DEF LInv, Setting
    <2>4. DOMAIN gauges' = DOMAIN gauges
      BY <1>4
    <2>5. \A a \in DOMAIN gauges :
            gauges'[a] # None <=> a \in {EmissionOrder[k] : k \in 1 .. i}
      BY <1>2, <1>3, <1>4, <2>2, <2>3
    <2>6. QED
      BY <2>1, <2>2, <2>4, <2>5 DEF Setting
  <1>6. LastTold'
    BY <1>1, <1>4 DEF LastTold
  <1>7. QED
    BY <1>1, <1>2, <1>3, <1>4, <1>5, <1>6 DEF LInv

LEMMA StepLast ==
  ASSUME IInv, IInv', JInv, KInv, LInv, [Next]_vars
  PROVE  LInv'
  <1>1. CASE UNCHANGED vars
    BY <1>1, SameData DEF vars, published, reported, LInv, Setting, LastTold, EmissionOrder
  <1>2. CASE Resume \/ MapRecords \/ RejectEmpty \/ RejectMixedDates \/ CheckDates
               \/ CheckUser \/ RejectDuplicateUser \/ Summarize \/ ProtectRecord
               \/ RejectBlankIdentifier \/ RejectCollection \/ EndGauges \/ EmitEvent
               \/ EndEvents \/ BuildPreview \/ Fail
    <2>1. pc' \notin {"gauges", "completing"}
      BY <1>2
      DEF Resume, MapRecords, RejectEmpty, RejectMixedDates, CheckDates, CheckUser,
          RejectDuplicateUser, Summarize, ProtectRecord, RejectBlankIdentifier,
          RejectCollection, EndGauges, EmitEvent, EndEvents, BuildPreview, Fail, Report,
          Raise, Proceed, Continue
    <2>2. QED
      BY <2>1 DEF LInv, Setting, LastTold
  <1>3. CASE CheckCollection
    <2>1. pc = "protecting" /\ pc' \in {"gauges", "failing"} /\ (pc' = "gauges" => i' = 1)
          /\ gauges' = gauges
      BY <1>3 DEF CheckCollection, Report, Raise, Proceed, published
    <2>2. \A a \in DOMAIN gauges : gauges[a] = None
      BY <2>1 DEF IInv, Verdict, Untouched, Unpublished
    <2>3. 1 .. 1 - 1 = {}
      OBVIOUS
    <2>4. QED
      BY <2>1, <2>2, <2>3 DEF LInv, Setting, LastTold
  <1>4. CASE SetGauges
    BY <1>4, SetGaugesLast
  <1>5. CASE ReportPreview
    <2> DEFINE x == Event("preview_written", "in_progress", record_count)
    <2>1. record_count \in Nat
      BY <1>5 DEF ReportPreview, IInv, Counting, Typed, Publishing, Unpublished
    <2>2. pc' = "completing" /\ lifecycle' = Append(lifecycle, x)
      BY <1>5, <2>1, CheckpointsAreValid DEF ReportPreview, Report, Proceed
    <2>3. x \in EventRecords /\ x.event_name = "preview_written"
      BY <2>1 DEF Event, EventRecords
    <2> HIDE DEF x
    <2>4. Len(lifecycle') > 0 /\ lifecycle'[Len(lifecycle')] = x
      BY <2>2, <2>3 DEF JInv, Telling
    <2>5. QED
      BY <2>2, <2>3, <2>4 DEF LInv, Setting, LastTold
  <1>6. CASE Complete
    BY <1>6 DEF Complete, Proceed, Raise, LInv, Setting, LastTold
  <1>7. QED
    BY <1>1, <1>2, <1>3, <1>4, <1>5, <1>6 DEF Next


-------------------------------------------------------------------------------
(* What the call looks like while it publishes.                            *)
LEMMA Open ==
  ASSUME IInv, pc \in Publishing
  PROVE  /\ Reply = None /\ Answer = [rev |-> 0, usable |-> Acceptable] /\ Raised = None
         /\ Loop = Call
         /\ pc # "completing" => Emitted = Names(lifecycle, Len(lifecycle))
  <1>1. error = None /\ error \notin Faults
    BY NoneAssumption DEF IInv, Verdict, Publishing, Unpublished, Errors
  <1>2. QED
    BY <1>1 DEF Publishing, Reply, Answer, Raised, Loop, Emitted, Names

LEMMA OpenStill ==
  ASSUME IInv', pc' \in Publishing
  PROVE  /\ Reply' = None /\ Answer' = [rev |-> 0, usable |-> Acceptable'] /\ Raised' = None
         /\ Loop' = Call
         /\ pc' # "completing" => Emitted' = Names(lifecycle', Len(lifecycle'))
  <1>1. error' = None /\ error' \notin Faults
    BY NoneAssumption DEF IInv, Verdict, Publishing, Unpublished, Errors
  <1>2. QED
    BY <1>1 DEF Publishing, Reply, Answer, Raised, Loop, Emitted, Names

LEMMA SetGaugesRefines ==
  ASSUME IInv, IInv', KInv, LInv, SetGauges
  PROVE  /\ provider = "anthropic" => Anthropic!LoopStep(Call)
         /\ provider = "mock" => Mock!LoopStep(Call)
  <1> DEFINE last == Len(EmissionOrder)
  <1>1. /\ pc = "gauges" /\ pc' = "gauges" /\ i \in 1 .. last /\ i' = i + 1
        /\ DOMAIN gauges = DOMAIN Instruments /\ EmissionOrder[i] \in DOMAIN gauges
        /\ gauges' = [gauges EXCEPT ![EmissionOrder[i]] = ValuesOf(EmissionOrder[i])]
        /\ ValuesOf(EmissionOrder[i]) # None
        /\ UNCHANGED <<provider, records, pseudonym, events, protected, error, lifecycle,
                       span>>
        /\ LInv'
    BY SetGaugesLast
  <1>2. /\ last \in Nat /\ provider \in Providers
        /\ last = IF provider = "anthropic" THEN 10 ELSE 1
        /\ \A j, k \in 1 .. last : j # k => EmissionOrder[j] # EmissionOrder[k]
        /\ \A k \in 1 .. last : EmissionOrder[k] \in DOMAIN gauges
    BY <1>1, OrderOfAreas DEF IInv, Typed
  <1>3. /\ Asked' = Asked /\ Acceptable' = Acceptable /\ Held' = Held
        /\ EmissionOrder' = EmissionOrder
    BY <1>1, SameAnswer
  <1>4. GaugesSet = i - 1
    <2>1. \A a \in DOMAIN gauges :
            gauges[a] # None <=> a \in {EmissionOrder[k] : k \in 1 .. i - 1}
      BY <1>1 DEF LInv, Setting
    <2>2. i - 1 \in 0 .. Len(EmissionOrder)
      BY <1>1, <1>2
    <2>3. QED
      BY <1>1, <1>2, <2>1, <2>2, FirstGauges DEF GaugesSet
  <1>5. GaugesSet' = i
    <2>1. i' - 1 = i
      BY <1>1
    <2>2. \A a \in DOMAIN gauges' :
            gauges'[a] # None <=> a \in {EmissionOrder[k] : k \in 1 .. i}
      BY <1>1, <1>3, <2>1 DEF LInv, Setting
    <2>3. i \in 0 .. Len(EmissionOrder) /\ DOMAIN gauges' = DOMAIN Instruments
      BY <1>1, <1>2
    <2>4. QED
      BY <1>2, <2>2, <2>3, FirstGauges DEF GaugesSet
  <1>6. Shown' = [Shown EXCEPT ![i][Asked] = Call]
    <2>1. Asked \in Dates
      <3>1. records # <<>> /\ records \in Seq(Records)
        BY <1>1 DEF IInv, OncePublishing, Acceptable, Typed, Publishing
      <3>2. records[1] \in Records
        BY <3>1
      <3>3. QED
        BY <3>1, <3>2 DEF Asked, Records
    <2>2. gauges'[EmissionOrder[i]] # None
      BY <1>1
    <2>3. \A k \in 1 .. last : k # i => gauges'[EmissionOrder[k]] = gauges[EmissionOrder[k]]
      BY <1>1, <1>2
    <2> DEFINE row(f, k) == [d \in Dates |-> IF d = Asked /\ f[EmissionOrder[k]] # None
                                               THEN Call ELSE None]
    <2>4. Shown = [k \in 1 .. last |-> row(gauges, k)]
      BY DEF Shown
    <2>5. Shown' = [k \in 1 .. last |-> row(gauges', k)]
      BY <1>3 DEF Shown
    <2>6. row(gauges', i) = [row(gauges, i) EXCEPT ![Asked] = Call]
      BY <2>1, <2>2
    <2>7. \A k \in 1 .. last : k # i => row(gauges', k) = row(gauges, k)
      BY <2>3
    <2> HIDE DEF row, last
    <2>8. Shown[i] = row(gauges, i)
      BY <1>1, <2>4
    <2>9. [Shown EXCEPT ![i][Asked] = Call]
            = [Shown EXCEPT ![i] = [row(gauges, i) EXCEPT ![Asked] = Call]]
      BY <2>8, Zenon
    <2>10. QED
      BY <1>1, <2>4, <2>5, <2>6, <2>7, <2>9
  <1>7. Where = "metering" /\ Where' = IF i = last THEN "logging" ELSE "metering"
    <2>1. /\ pc = "gauges" /\ pc' = "gauges" /\ i \in Nat /\ i <= Len(EmissionOrder)
          /\ i' = i + 1 /\ Len(EmissionOrder') = Len(EmissionOrder)
          /\ Len(EmissionOrder) \in Nat
      BY <1>1, <1>2, <1>3
    <2>2. Where = "metering"
      BY <2>1 DEF Where
    <2>3. Where' = IF i + 1 <= Len(EmissionOrder) THEN "metering" ELSE "logging"
      BY <2>1 DEF Where
    <2>4. QED
      BY <2>1, <2>2, <2>3
  <1>8. Usage = 0 /\ Usage' = 0
    BY <1>1 DEF Usage
  <1>9. /\ Reply = None /\ Reply' = None /\ Loop = Call /\ Loop' = Call
        /\ Answer' = Answer /\ Raised' = Raised /\ Emitted' = Emitted
    BY <1>1, <1>3, Open, OpenStill DEF Publishing
  <1>10. PICK d, a, e, g, u, v, s, r, w, end :
           /\ d = Asked /\ a = Answer /\ e = Raised /\ g = GaugesSet /\ u = Usage
           /\ v = Emitted /\ s = span.status /\ r = Reply /\ w = Where' /\ end = last
    OBVIOUS
  <1>11. g \in Nat /\ g + 1 = i
    BY <1>1, <1>2, <1>4, <1>10
  <1>12. /\ OneCall = One(State("metering", d, a, e, g, u, v, s, r))
         /\ OneCall' = One(State(w, d, a, e, g + 1, u, v, s, r))
    BY <1>1, <1>3, <1>5, <1>7, <1>8, <1>9, <1>10, <1>11, CallFields
  <1>13. w = IF g + 1 = end THEN "logging" ELSE "metering"
    BY <1>7, <1>10, <1>11
  <1>14. Shown' = [Shown EXCEPT ![g + 1][d] = Call]
    BY <1>6, <1>10, <1>11
  <1>15. UNCHANGED <<Loop, Held>> /\ Loop = Call
    BY <1>3, <1>9
  <1>16. end = IF provider = "anthropic" THEN 10 ELSE 1
    BY <1>2, <1>10
  <1> HIDE DEF last
  <1>17. end = 10 => Anthropic!LoopStep(Call)
    BY <1>11, <1>12, <1>13, <1>14, <1>15, Meters
  <1>18. end = 1 => Mock!LoopStep(Call)
    BY <1>11, <1>12, <1>13, <1>14, <1>15, Meters
  <1>19. QED
    BY <1>16, <1>17, <1>18

(* Its other steps but for the last leave the gauges and Collection alone, *)
LEMMA QuietRefines ==
  ASSUME IInv, IInv', JInv, EndGauges \/ EmitEvent \/ ReportPreview
  PROVE  UNCHANGED Anthropic!vars /\ UNCHANGED Mock!vars
  <1>1. /\ pc \in Publishing /\ pc' \in Publishing
        /\ UNCHANGED <<provider, records, pseudonym, gauges, protected, span>>
        /\ error = None /\ Len(records) \in Nat /\ record_count = Len(records)
    <2>1. /\ pc \in Publishing /\ error = None /\ Len(records) \in Nat
          /\ record_count = Len(records)
      BY DEF EndGauges, EmitEvent, ReportPreview, IInv, Verdict, Publishing, Unpublished,
             Counting, Typed
    <2>2. QED
      BY <2>1, CheckpointsAreValid
      DEF EndGauges, EmitEvent, ReportPreview, Proceed, Continue, Report, published,
          reported, Publishing
  <1>2. /\ Asked' = Asked /\ Acceptable' = Acceptable /\ Held' = Held
        /\ GaugesSet' = GaugesSet /\ Shown' = Shown /\ EmissionOrder' = EmissionOrder
    BY <1>1, SameAnswer
  <1>3. Reply' = Reply /\ Loop' = Loop /\ Answer' = Answer /\ Raised' = Raised
    BY <1>1, <1>2, Open, OpenStill
  <1>4. Where' = Where /\ Usage' = Usage /\ Emitted' = Emitted
    <2>1. CASE EndGauges \/ EmitEvent
      <3>1. /\ pc \in {"gauges", "events"} /\ (pc = "gauges" => i > Len(EmissionOrder))
            /\ pc' = "events" /\ lifecycle' = lifecycle
        BY <2>1 DEF EndGauges, EmitEvent, Proceed, Continue, reported
      <3>2. Len(EmissionOrder) \in Nat /\ i \in Nat
        BY DEF EmissionOrder, IInv, Typed
      <3>3. QED
        BY <1>1, <3>1, <3>2, Open, OpenStill DEF Where, Usage
    <2>2. CASE ReportPreview
      <3> DEFINE x == Event("preview_written", "in_progress", Len(records))
      <3>1. /\ pc = "written" /\ pc' = "completing" /\ lifecycle' = Append(lifecycle, x)
            /\ events' = events
        BY <1>1, <2>2, CheckpointsAreValid DEF ReportPreview, Report, Proceed, published
      <3>2. lifecycle \in Seq(EventRecords) /\ x \in EventRecords
        BY <1>1 DEF JInv, Telling, Event, EventRecords
      <3> HIDE DEF x
      <3>3. Len(lifecycle) \in Nat /\ Len(lifecycle') = Len(lifecycle) + 1
            /\ Names(lifecycle', Len(lifecycle)) = Names(lifecycle, Len(lifecycle))
        BY <3>1, <3>2, NamesGrow
      <3>4. Emitted' = Names(lifecycle', Len(lifecycle))
        BY <3>1, <3>3 DEF Emitted, Names
      <3>5. Emitted' = Emitted
        BY <1>1, <3>1, <3>3, <3>4, Open
      <3>6. QED
        BY <1>1, <3>1, <3>5 DEF Where, Usage
    <2>3. QED
      BY <2>1, <2>2
  <1>5. OneCall' = OneCall
    BY <1>1, <1>2, <1>3, <1>4, CallFields
  <1>6. QED
    BY <1>2, <1>3, <1>5, Stutters


(* the last event is the one emission of all of them,                      *)
LEMMA EndEventsRefines ==
  ASSUME IInv, IInv', KInv, EndEvents
  PROVE  Anthropic!LoopStep(Call) /\ Mock!LoopStep(Call)
  <1>1. /\ pc = "events" /\ pc' = "preview" /\ i > Len(protected)
        /\ UNCHANGED <<provider, records, pseudonym, gauges, protected, events, lifecycle,
                       span>>
    BY DEF EndEvents, Proceed, published, reported
  <1>2. events # <<>> /\ Len(events) = Len(protected)
    <2>1. /\ Len(protected) = Len(records) /\ records \in Seq(Records) /\ records # <<>>
          /\ i \in Nat
      BY <1>1 DEF IInv, OncePublishing, Publishing, Acceptable, Typed
    <2>2. i <= 1 + Len(records) /\ Len(events) = i - 1
      BY <1>1 DEF KInv, Bounded, Logging
    <2>3. Len(records) \in Nat \ {0}
      BY <2>1
    <2>4. Len(events) = Len(protected) /\ Len(events) # 0
      BY <1>1, <2>1, <2>2, <2>3
    <2>5. QED
      BY <2>4
  <1>3. Usage = 0 /\ Usage' = 1 /\ Where = "logging" /\ Where' = "previewing"
    BY <1>1, <1>2 DEF Usage, Where
  <1>4. /\ Asked' = Asked /\ Acceptable' = Acceptable /\ Held' = Held
        /\ GaugesSet' = GaugesSet /\ Shown' = Shown
    BY <1>1, SameAnswer
  <1>5. /\ Reply' = Reply /\ Loop' = Loop /\ Loop = Call /\ Answer' = Answer
        /\ Raised' = Raised /\ Emitted' = Emitted
    BY <1>1, <1>4, Open, OpenStill DEF Publishing
  <1>6. PICK d, a, e, g, u, v, s, r :
          /\ d = Asked /\ a = Answer /\ e = Raised /\ g = GaugesSet /\ u = Usage
          /\ v = Emitted /\ s = span.status /\ r = Reply
    OBVIOUS
  <1>7. u \in Nat /\ u + 1 = 1
    BY <1>3, <1>6
  <1>8. /\ OneCall = One(State("logging", d, a, e, g, u, v, s, r))
        /\ OneCall' = One(State("previewing", d, a, e, g, u + 1, v, s, r))
    BY <1>1, <1>3, <1>4, <1>5, <1>6, <1>7, CallFields
  <1>9. QED
    BY <1>4, <1>5, <1>7, <1>8, Emits

(* and the preview is built, or the collection would fail.                 *)
LEMMA BuildRefines ==
  ASSUME IInv, IInv', BuildPreview
  PROVE  Anthropic!LoopStep(Call) /\ Mock!LoopStep(Call)
  <1>1. /\ pc = "preview" /\ pc' = "written"
        /\ UNCHANGED <<provider, records, pseudonym, gauges, protected, events, lifecycle,
                       span>>
    <2>1. PreviewConsistent
      BY DEF BuildPreview, IInv, OncePublishing, Publishing
    <2>2. QED
      BY <2>1 DEF BuildPreview, Proceed, reported
  <1>2. Usage' = Usage /\ Where = "previewing" /\ Where' = "completing"
    BY <1>1 DEF Usage, Where
  <1>3. /\ Asked' = Asked /\ Acceptable' = Acceptable /\ Held' = Held
        /\ GaugesSet' = GaugesSet /\ Shown' = Shown
    BY <1>1, SameAnswer
  <1>4. /\ Reply' = Reply /\ Loop' = Loop /\ Loop = Call /\ Answer' = Answer
        /\ Raised' = Raised /\ Emitted' = Emitted
    BY <1>1, <1>3, Open, OpenStill DEF Publishing
  <1>5. PICK d, a, e, g, u, v, s, r :
          /\ d = Asked /\ a = Answer /\ e = Raised /\ g = GaugesSet /\ u = Usage
          /\ v = Emitted /\ s = span.status /\ r = Reply
    OBVIOUS
  <1>6. /\ OneCall = One(State("previewing", d, a, e, g, u, v, s, r))
        /\ OneCall' = One(State("completing", d, a, e, g, u, v, s, r))
    BY <1>1, <1>2, <1>3, <1>4, <1>5, CallFields
  <1>7. QED
    BY <1>3, <1>4, <1>6, Previews

(* The two events at the end are told together.                            *)
LEMMA LastTwo ==
  ASSUME NEW s \in Seq(EventRecords), NEW x \in EventRecords, Len(s) > 0,
         s[Len(s)].event_name = "preview_written", x.event_name = "collection_completed"
  PROVE  Names(Append(s, x), Len(s) + 1)
           = Names(s, Len(s) - 1) \o <<"preview_written", "collection_completed">>
  <1> DEFINE n == Len(s)
             tail == <<"preview_written", "collection_completed">>
             before == Names(s, n - 1)
             after == Names(Append(s, x), n + 1)
             T == {s[k].event_name : k \in 1 .. n} \cup {"collection_completed"}
  <1>1. /\ n \in Nat /\ n > 0
        /\ \A k \in 1 .. n : Append(s, x)[k] = s[k]
        /\ Append(s, x)[n + 1] = x
    BY AppendProperties
  <1>2. before \in Seq(T) /\ Len(before) = n - 1
    BY <1>1 DEF Names
  <1>3. tail \in Seq(T) /\ Len(tail) = 2
    <2>1. {"preview_written", "collection_completed"} \subseteq T
      BY <1>1
    <2>2. QED
      BY <2>1
  <1>4. after \in Seq(T) /\ Len(after) = n + 1
    BY <1>1 DEF Names
  <1>5. \A k \in 1 .. n + 1 :
          after[k] = IF k <= n - 1 THEN before[k] ELSE tail[k - (n - 1)]
    <2>1. \A k \in 1 .. n - 1 : after[k] = s[k].event_name /\ before[k] = s[k].event_name
      BY <1>1 DEF Names
    <2>2. after[n] = "preview_written" /\ after[n + 1] = "collection_completed"
      BY <1>1 DEF Names
    <2>3. tail[1] = "preview_written" /\ tail[2] = "collection_completed"
      OBVIOUS
    <2> HIDE DEF after, before, tail
    <2>4. \A k \in 1 .. n + 1 : k \in 1 .. n - 1 \/ k = n \/ k = n + 1
      BY <1>1
    <2>5. n - (n - 1) = 1 /\ n + 1 - (n - 1) = 2
      BY <1>1
    <2>6. QED
      BY <1>1, <2>1, <2>2, <2>3, <2>4, <2>5
  <1> HIDE DEF after, before, tail, T, n
  <1>6. /\ before \o tail \in Seq(T) /\ Len(before \o tail) = n + 1
        /\ \A k \in 1 .. n + 1 :
             (before \o tail)[k] = IF k <= n - 1 THEN before[k] ELSE tail[k - (n - 1)]
    <2>1. /\ before \o tail \in Seq(T) /\ Len(before \o tail) = Len(before) + Len(tail)
          /\ \A k \in 1 .. Len(before) + Len(tail) :
               (before \o tail)[k] = IF k <= Len(before) THEN before[k]
                                     ELSE tail[k - Len(before)]
      BY <1>2, <1>3, ConcatProperties
    <2>2. Len(before) + Len(tail) = n + 1
      BY <1>1, <1>2, <1>3
    <2>3. QED
      BY <1>2, <2>1, <2>2
  <1>7. after = before \o tail
    <2>1. \A k \in 1 .. Len(after) : after[k] = (before \o tail)[k]
      BY <1>4, <1>5, <1>6
    <2>2. Len(after) = Len(before \o tail)
      BY <1>4, <1>6
    <2>3. QED
      BY <1>4, <1>6, <2>1, <2>2, SeqEqual
  <1>8. QED
    BY <1>7 DEF after, before, tail, n

LEMMA CompleteRefines ==
  ASSUME IInv, IInv', JInv, LInv, Complete
  PROVE  Anthropic!LoopStep(Call) /\ Mock!LoopStep(Call)
  <1> DEFINE x == Event("collection_completed", "success", Len(records))
  <1>1. /\ pc = "completing" /\ error = None /\ Len(records) \in Nat
        /\ record_count = Len(records)
    BY DEF Complete, IInv, Typed, Counting, Verdict, Publishing, Unpublished
  <1>2. /\ pc' = "done" /\ lifecycle' = Append(lifecycle, x)
        /\ span' = [status |-> "success", record_count |-> record_count]
        /\ UNCHANGED <<provider, records, pseudonym, gauges, protected, events, error>>
    BY <1>1, CheckpointsAreValid DEF Complete, Proceed, published
  <1>3. /\ lifecycle \in Seq(EventRecords) /\ x \in EventRecords
        /\ x.event_name = "collection_completed" /\ Len(lifecycle) > 0
        /\ lifecycle[Len(lifecycle)].event_name = "preview_written"
    BY <1>1 DEF JInv, Telling, Event, EventRecords, LInv, LastTold
  <1> HIDE DEF x
  <1>4. /\ Asked' = Asked /\ Acceptable' = Acceptable /\ Held' = Held
        /\ GaugesSet' = GaugesSet /\ Shown' = Shown
    BY <1>2, SameAnswer
  <1>5. Where = "completing" /\ Where' = "done" /\ Usage' = Usage
    BY <1>1, <1>2 DEF Where, Usage
  <1>6. /\ Reply' = "summary" /\ span'.status = "success" /\ Loop = Call /\ Loop' = None
        /\ Answer' = Answer /\ Raised' = Raised
    <2>1. Reply' = "summary" /\ Loop = Call /\ Loop' = None
      BY <1>1, <1>2, NoneAssumption DEF Reply, Loop, Errors, Faults
    <2>2. span'.status = "success"
      BY <1>2
    <2>3. Answer' = Answer /\ Raised' = Raised
      BY <1>2, <1>4 DEF Answer, Raised
    <2>4. QED
      BY <2>1, <2>2, <2>3
  <1>7. Emitted' = Emitted \o <<"preview_written", "collection_completed">>
    <2>1. Emitted = Names(lifecycle, Len(lifecycle) - 1)
      BY <1>1 DEF Emitted, Names
    <2>2. Emitted' = Names(lifecycle', Len(lifecycle'))
      BY <1>2 DEF Emitted, Names
    <2>3. Len(lifecycle') = Len(lifecycle) + 1
      BY <1>2, <1>3, AppendProperties
    <2>4. QED
      BY <1>2, <1>3, <2>1, <2>2, <2>3, LastTwo
  <1>8. PICK d, a, e, g, u, v, s, r :
          /\ d = Asked /\ a = Answer /\ e = Raised /\ g = GaugesSet /\ u = Usage
          /\ v = Emitted /\ s = span.status /\ r = Reply
    OBVIOUS
  <1>9. /\ OneCall = One(State("completing", d, a, e, g, u, v, s, r))
        /\ OneCall' = One(State("done", d, a, e, g, u,
                                v \o <<"preview_written", "collection_completed">>,
                                "success", "summary"))
    BY <1>4, <1>5, <1>6, <1>7, <1>8, CallFields
  <1>10. QED
    BY <1>4, <1>6, <1>9, Completes

LEMMA FailRefines ==
  ASSUME IInv, IInv', JInv, Fail
  PROVE  Anthropic!LoopStep(Call) /\ Mock!LoopStep(Call)
  <1> DEFINE x == Event("collection_failed", "failed", record_count)
  <1>1. /\ pc = "failing" /\ error # None /\ error \in Errors /\ Len(records) \in Nat
        /\ record_count \in Nat \cup {None}
        /\ span = [status |-> "started", record_count |-> None]
    BY DEF Fail, IInv, Typed, Counting, Verdict, JInv, Telling
  <1>2. /\ pc' = "done" /\ lifecycle' = Append(lifecycle, x)
        /\ span' = [span EXCEPT !.status = "failed"]
        /\ UNCHANGED <<provider, records, pseudonym, gauges, protected, events, error>>
    BY CheckpointsAreValid DEF Fail, published
  <1>3. /\ lifecycle \in Seq(EventRecords) /\ x \in EventRecords
        /\ x.event_name = "collection_failed"
    BY <1>1 DEF JInv, Telling, Event, EventRecords
  <1> HIDE DEF x
  <1>4. /\ Asked' = Asked /\ Acceptable' = Acceptable /\ Held' = Held
        /\ GaugesSet' = GaugesSet /\ Shown' = Shown
    BY <1>2, SameAnswer
  <1>5. Where = "failing" /\ Where' = "done" /\ Usage' = Usage
    BY <1>1, <1>2 DEF Where, Usage
  <1>6. /\ Loop = Call /\ Loop' = None /\ Answer' = Answer /\ Raised' = Raised
        /\ span'.status = "failed"
    BY <1>1, <1>2, <1>4 DEF Loop, Answer, Raised
  <1>7. Reply' = IF Raised = "ProviderError" THEN "ProviderError" ELSE "CollectionFailed"
    BY <1>1, <1>2 DEF Reply, Raised, Faults
  <1>8. Emitted' = Append(Emitted, "collection_failed")
    <2>1. Emitted = Names(lifecycle, Len(lifecycle))
      BY <1>1 DEF Emitted, Names
    <2>2. Emitted' = Names(lifecycle', Len(lifecycle'))
      BY <1>2 DEF Emitted, Names
    <2>3. QED
      BY <1>2, <1>3, <2>1, <2>2, NamesGrow
  <1>9. PICK d, a, e, g, u, v, s, r, y :
          /\ d = Asked /\ a = Answer /\ e = Raised /\ g = GaugesSet /\ u = Usage
          /\ v = Emitted /\ s = span.status /\ r = Reply /\ y = Reply'
    OBVIOUS
  <1>10. /\ OneCall = One(State("failing", d, a, e, g, u, v, s, r))
         /\ OneCall' = One(State("done", d, a, e, g, u, Append(v, "collection_failed"),
                                 "failed", y))
    BY <1>4, <1>5, <1>6, <1>8, <1>9, CallFields
  <1>11. y = IF e = "ProviderError" THEN "ProviderError" ELSE "CollectionFailed"
    BY <1>7, <1>9
  <1>12. QED
    BY <1>4, <1>6, <1>10, <1>11, Fails

LEMMA StepRefines ==
  ASSUME IInv, IInv', JInv, KInv, LInv, [Next]_vars
  PROVE  IF provider = "anthropic"
           THEN Anthropic!LoopStep(Call) \/ UNCHANGED Anthropic!vars
           ELSE Mock!LoopStep(Call) \/ UNCHANGED Mock!vars
  <1>1. CASE UNCHANGED vars
    <2>1. UNCHANGED <<provider, records, pseudonym, pc, i, protected, gauges, events, error,
                      lifecycle, span>>
      BY <1>1 DEF vars, published, reported
    <2>2. /\ Asked' = Asked /\ Acceptable' = Acceptable /\ Held' = Held
          /\ GaugesSet' = GaugesSet /\ Shown' = Shown /\ EmissionOrder' = EmissionOrder
      BY <2>1, SameAnswer
    <2>3. /\ Where' = Where /\ Usage' = Usage /\ Emitted' = Emitted /\ Reply' = Reply
          /\ Loop' = Loop /\ Answer' = Answer /\ Raised' = Raised
      BY <2>1, <2>2 DEF Where, Usage, Emitted, Reply, Loop, Answer, Raised
    <2>4. OneCall' = OneCall
      BY <2>1, <2>2, <2>3, CallFields
    <2>5. QED
      BY <2>2, <2>3, <2>4, Stutters
  <1>2. CASE SetGauges
    BY <1>2, SetGaugesRefines DEF IInv, Typed, Providers
  <1>3. CASE Next /\ ~ SetGauges
    BY <1>3, ResumeRefines, MapRefines, CheckRefines, AcceptRefines, RejectRefines,
       QuietRefines, EndEventsRefines, BuildRefines, CompleteRefines, FailRefines DEF Next
  <1>4. QED
    BY <1>1, <1>2, <1>3

(* A collection with its data, whatever the records are, takes no step but *)
(* those of Collection: the checks are the inside of Protect, the areas of *)
(* the emitter its gauges, the events its one emission, the document its   *)
(* preview (workflow.py, from the end of the await to the answer).         *)
THEOREM Refines == Spec => ImplementsCollection
  <1>1. Init => LInv
    BY InitLast
  <1>2. IInv /\ IInv' /\ JInv /\ KInv /\ LInv /\ [Next]_vars => LInv'
    BY StepLast
  <1>3. Spec => []LInv
    BY <1>1, <1>2, Invariance, Reporting, DataInvariance, PTL DEF Spec
  <1>4. IInv /\ IInv' /\ JInv /\ KInv /\ LInv /\ [Next]_vars
          => [IF provider = "anthropic"
                THEN Anthropic!LoopStep(Call) \/ UNCHANGED Anthropic!vars
                ELSE Mock!LoopStep(Call) \/ UNCHANGED Mock!vars]_vars
    BY StepRefines
  <1>5. QED
    BY <1>3, <1>4, Invariance, Reporting, DataInvariance, PTL DEF Spec, ImplementsCollection


===============================================================================
