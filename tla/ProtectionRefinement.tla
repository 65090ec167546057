-------------------------- MODULE ProtectionRefinement --------------------------
(***************************************************************************)
(* Protection is the inside of the steps that Collection takes behind its  *)
(* await.  Collection knows the data of a collection as one Boolean,       *)
(* `usable`, that decides its step Protect, and as one gauge after the     *)
(* other, one emission of usage events and one preview; here they are      *)
(* Acceptable, the areas of the emitter, the events and the document.      *)
(* Previews are not written, so that no file system takes the blame for    *)
(* a document that cannot be built.                                        *)
(***************************************************************************)
EXTENDS Protection

Call == "call"

(* What is unset is neither an answer nor the values of a gauge.           *)
ASSUME UnsetAssumption ==
  /\ None \notin [rev : {0}, usable : BOOLEAN] /\ None \notin Counts
  /\ \A a \in DOMAIN AnthropicGauges : None \notin [DOMAIN AnthropicGauges[a] -> Nat]

(* The date that was asked for: the one the client gives the records.      *)
Asked == IF records = <<>> THEN CHOOSE d \in Dates : TRUE ELSE records[1].date

(* The place of the collection in the workflow.                            *)
Where ==
  CASE pc \in {"dates", "users", "protecting"} -> "protecting"
    [] pc = "gauges" /\ i <= Len(EmissionOrder) -> "metering"
    [] pc = "gauges" /\ i > Len(EmissionOrder) -> "logging"
    [] pc = "events" -> "logging"
    [] pc = "preview" -> "previewing"
    [] pc \in {"written", "completing"} -> "completing"
    [] OTHER -> pc

(* The last two checkpoints, with nothing between them, are one.           *)
Emitted ==
  [k \in 1 .. (IF pc = "completing" THEN Len(lifecycle) - 1 ELSE Len(lifecycle)) |->
     lifecycle[k].event_name]

(* The usage events count as emitted when the last of them is.             *)
Usage ==
  IF pc \notin {"gauges", "events"} /\ events # <<>> /\ Len(events) = Len(protected)
    THEN 1 ELSE 0

Reply ==
  CASE pc # "done" -> None
    [] pc = "done" /\ error = None -> "summary"
    [] pc = "done" /\ error = "ProviderError" -> "ProviderError"
    [] OTHER -> "CollectionFailed"

Answer == IF error \in Faults THEN None ELSE [rev |-> 0, usable |-> Acceptable]
Raised == IF error \in Faults \cup {None} THEN error ELSE "OtherError"
GaugesSet == Cardinality({a \in DOMAIN gauges : gauges[a] # None})

CallState ==
  [pc |-> Where, date |-> Asked, answer |-> Answer, error |-> Raised,
   gaugesSet |-> GaugesSet, usage |-> Usage, events |-> Emitted,
   span |-> span.status, reply |-> Reply, floor |-> 0]

(* The coroutine has the event loop from the end of its await to its own.  *)
Loop == IF pc \in {"awaiting", "done"} THEN None ELSE Call

OneCall == [c \in {Call} |-> CallState]

(* What the provider holds for any date is usable or not, as it was found. *)
Held == [d \in Dates |-> [rev |-> 0, usable |-> Acceptable]]

Shown ==
  [g \in 1 .. Len(EmissionOrder) |->
     [d \in Dates |-> IF d = Asked /\ gauges[EmissionOrder[g]] # None THEN Call ELSE None]]

NothingShown(n) == [g \in 1 .. n |-> [d \in Dates |-> None]]

(* The gauges of one provider's collection: as many steps as emit takes.   *)
Anthropic == INSTANCE Collection WITH
  Calls <- {Call}, EarlyDates <- {}, GaugeCount <- 10, MaxRevision <- 0, MaxCrashes <- 0,
  settings <- [provider |-> "anthropic", preview |-> FALSE, ready |-> TRUE],
  upstream <- Held,
  call <- OneCall, loop <- Loop,
  gauges <- Shown, preview <- None,
  exported <- NothingShown(10), scan <- 0, crashes <- 0

Mock == INSTANCE Collection WITH
  Calls <- {Call}, EarlyDates <- {}, GaugeCount <- 1, MaxRevision <- 0, MaxCrashes <- 0,
  settings <- [provider |-> "mock", preview |-> FALSE, ready |-> TRUE],
  upstream <- Held,
  call <- OneCall, loop <- Loop,
  gauges <- Shown, preview <- None,
  exported <- NothingShown(1), scan <- 0, crashes <- 0

(* Whatever the client returns or raises, a collection with its data takes *)
(* the steps Collection gives it: it is accepted when its records are      *)
(* usable and fails before its first gauge when they are not, sets each    *)
(* gauge once in the emitter's order, then emits every event and does not  *)
(* fail after that; events, span and reply are Collection's all the while. *)
ImplementsCollection ==
  [][IF provider = "anthropic"
       THEN Anthropic!LoopStep(Call) \/ UNCHANGED Anthropic!vars
       ELSE Mock!LoopStep(Call) \/ UNCHANGED Mock!vars]_vars

===============================================================================
