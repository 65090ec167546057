--------------------------- MODULE PaginationProofs ---------------------------
(***************************************************************************)
(* Proofs about Pagination, for every set of cursors and blocks and every  *)
(* bound on the drift of the upstream's listing, and that it implements    *)
(* Retrieval.                                                              *)
(***************************************************************************)
EXTENDS PaginationRefinement, FiniteSetTheorems, TLAPS

(* The positions requested so far, as a set.                               *)
SentPositions == {sent[i] : i \in 1 .. Len(sent)}

(* What ties seen_cursors, the loop's cursor and the requests together.    *)
SeenMatchesSent ==
  /\ pc = "start" => sent = <<>> /\ seen = {} /\ cursor = NoCursor
  /\ pc = "ready" => /\ SentPositions \cup {cursor} = seen \cup {NoCursor}
                     /\ cursor \notin SentPositions
  /\ pc = "waiting" => /\ SentPositions = seen \cup {NoCursor}
                       /\ Len(sent) > 0
                       /\ cursor = sent[Len(sent)]

(* As long as the listing has not drifted, the requests follow its chain   *)
(* and the records are the blocks met on it.                               *)
ChainFollowed ==
  drifts = 0 =>
    /\ \A i \in 1 .. Len(records) : i \in 1 .. Len(sent)
                                      /\ records[i] = listing[sent[i]].data
    /\ \A i \in 1 .. Len(sent) - 1 : listing[sent[i]].next = sent[i + 1]
    /\ Len(sent) > 0 => sent[1] = NoCursor
    /\ pc = "start" => Len(sent) = 0 /\ Len(records) = 0
    /\ pc = "ready" =>
         /\ Len(records) = Len(sent)
         /\ cursor = IF Len(sent) = 0 THEN NoCursor ELSE listing[sent[Len(sent)]].next
    /\ pc = "waiting" => Len(records) = Len(sent) - 1
    /\ outcome # "pending" => pc = "done"
    /\ outcome = "records" =>
         /\ Len(sent) > 0
         /\ Len(records) = Len(sent)
         /\ listing[sent[Len(sent)]].next = NoCursor

(* Every request but the first used up a cursor of seen_cursors.           *)
SentCountedBySeen ==
  /\ Len(sent) <= Cardinality(seen) + 1
  /\ pc \in {"start", "ready"} => Len(sent) <= Cardinality(seen)

-------------------------------------------------------------------------------
(* The variables keep their types (get_usage_analytics and its loop).      *)
THEOREM TypeCorrect == Spec => []TypeOK
  <1>1. Init => TypeOK
    BY NoCursorAssumption, MaxDriftAssumption
    DEF Init, TypeOK, Positions, Pages, Outcomes
  <1>2. TypeOK /\ [Next]_vars => TypeOK'
    <2> SUFFICES ASSUME TypeOK, [Next]_vars PROVE TypeOK'
      OBVIOUS
    <2> USE DEF TypeOK
    <2>1. ASSUME NEW o \in Outcomes, Finish(o), records' \in Seq(Blocks)
          PROVE TypeOK'
      BY <2>1 DEF Finish
    <2>p. listing[cursor] \in Pages /\ listing[cursor].data \in Blocks
            /\ listing[cursor].next \in Positions
      BY DEF Pages, Positions
    <2>r. ReceivePage => records' \in Seq(Blocks)
      BY <2>p DEF ReceivePage
    <2>2. CASE RejectDate
      BY <2>2, <2>1 DEF RejectDate, Outcomes, ProviderErrors
    <2>3. CASE StartLoop
      BY <2>3 DEF StartLoop
    <2>4. CASE SendRequest
      BY <2>4 DEF SendRequest
    <2>5. CASE LastPage
      BY <2>5, <2>1, <2>r DEF LastPage, Outcomes
    <2>6. CASE RepeatedCursor
      BY <2>6, <2>1, <2>r DEF RepeatedCursor, Outcomes, ProviderErrors
    <2>7. CASE NextPage
      BY <2>7, <2>p, <2>r DEF NextPage, Remember, Positions
    <2>8. ASSUME NEW status \in ErrorStatuses, NEW retryAfter \in RetryAfterKinds,
                 ErrorStatus(status, retryAfter)
          PROVE TypeOK'
      <3>1. StatusError(status, retryAfter) \in Outcomes
        BY DEF StatusError, Outcomes, ProviderErrors, ErrorStatuses
      <3> QED BY <2>8, <2>1, <3>1 DEF ErrorStatus
    <2>9. CASE InvalidBody \/ TransportFailure \/ Cancel
      BY <2>9, <2>1 DEF InvalidBody, TransportFailure, Cancel, Outcomes, ProviderErrors
    <2>10. CASE Drift
      BY <2>10, MaxDriftAssumption DEF Drift
    <2>11. CASE UNCHANGED vars
      BY <2>11 DEF vars
    <2> QED
      BY <2>2, <2>3, <2>4, <2>5, <2>6, <2>7, <2>8, <2>9, <2>10, <2>11
      DEF Next, ClientStep, Terminated
  <1> QED
    BY <1>1, <1>2, PTL DEF Spec

-------------------------------------------------------------------------------
(* The positions of a sequence of requests extended by one more.           *)
LEMMA AppendPositions ==
  ASSUME NEW S, NEW s \in Seq(S), NEW x \in S
  PROVE  {Append(s, x)[i] : i \in 1 .. Len(Append(s, x))}
           = {s[i] : i \in 1 .. Len(s)} \cup {x}
  <1>1. /\ Len(Append(s, x)) = Len(s) + 1
        /\ \A i \in 1 .. Len(s) : Append(s, x)[i] = s[i]
        /\ Append(s, x)[Len(s) + 1] = x
    OBVIOUS
  <1>2. 1 .. (Len(s) + 1) = (1 .. Len(s)) \cup {Len(s) + 1}
    OBVIOUS
  <1> QED
    BY <1>1, <1>2

(* The step that keeps seen_cursors, the cursor and the requests together. *)
LEMMA SeenStep == TypeOK /\ SeenMatchesSent /\ [Next]_vars => SeenMatchesSent'
  <1> SUFFICES ASSUME TypeOK, SeenMatchesSent, [Next]_vars
               PROVE SeenMatchesSent'
    OBVIOUS
  <1> USE DEF SeenMatchesSent
  <1>1. CASE StartLoop
    BY <1>1 DEF StartLoop, SentPositions
  <1>2. CASE SendRequest
    <2>1. /\ sent' = Append(sent, cursor) /\ cursor' = cursor /\ seen' = seen
          /\ pc = "ready" /\ pc' = "waiting"
      BY <1>2 DEF SendRequest
    <2>2. sent \in Seq(Positions) /\ cursor \in Positions
      BY DEF TypeOK
    <2>3. SentPositions' = SentPositions \cup {cursor}
      BY <2>1, <2>2, AppendPositions DEF SentPositions
    <2>4. Len(sent') > 0 /\ sent'[Len(sent')] = cursor'
      BY <2>1, <2>2
    <2> QED
      BY <2>1, <2>3, <2>4
  <1>3. CASE NextPage
    <2>1. /\ pc = "waiting" /\ pc' = "ready" /\ sent' = sent
          /\ cursor' = listing[cursor].next /\ cursor' # NoCursor
          /\ cursor' \notin seen /\ seen' = seen \cup {cursor'}
      BY <1>3 DEF NextPage, ReceivePage, CursorIsNew, Remember
    <2>2. SentPositions' = SentPositions
      BY <2>1 DEF SentPositions
    <2> QED
      BY <2>1, <2>2
  <1>4. CASE \E o \in Outcomes : Finish(o)
    BY <1>4 DEF Finish
  <1>5. CASE Drift
    BY <1>5 DEF Drift, SentPositions
  <1>6. CASE UNCHANGED vars
    BY <1>6 DEF vars, SentPositions
  <1>7. ASSUME NEW status \in ErrorStatuses, NEW retryAfter \in RetryAfterKinds,
               ErrorStatus(status, retryAfter)
        PROVE SeenMatchesSent'
    BY <1>7 DEF ErrorStatus, Finish
  <1> QED
    BY <1>1, <1>2, <1>3, <1>4, <1>5, <1>6, <1>7
    DEF Next, ClientStep, Terminated, RejectDate, LastPage, RepeatedCursor,
        InvalidBody, TransportFailure, Cancel, Outcomes, ProviderErrors

(* seen_cursors makes every request of a call ask for another position.    *)
THEOREM NeverTwice == Spec => []NoPositionRequestedTwice
  <1> DEFINE Inv == SeenMatchesSent /\ NoPositionRequestedTwice
  <1>1. Init => Inv
    BY DEF Init, SeenMatchesSent, NoPositionRequestedTwice, SentPositions
  <1>2. TypeOK /\ Inv /\ [Next]_vars => NoPositionRequestedTwice'
    <2> SUFFICES ASSUME TypeOK, Inv, [Next]_vars PROVE NoPositionRequestedTwice'
      OBVIOUS
    <2>1. CASE SendRequest
      <3>1. /\ sent' = Append(sent, cursor) /\ sent \in Seq(Positions)
            /\ cursor \in Positions /\ cursor \notin SentPositions
        BY <2>1 DEF SendRequest, TypeOK, SeenMatchesSent
      <3>2. \A i \in 1 .. Len(sent) : sent[i] # cursor
        BY <3>1 DEF SentPositions
      <3> QED
        BY <3>1, <3>2 DEF NoPositionRequestedTwice
    <2>2. CASE sent' = sent
      BY <2>2 DEF NoPositionRequestedTwice
    <2> QED
      BY <2>1, <2>2
      DEF Next, ClientStep, Terminated, RejectDate, StartLoop, LastPage,
          RepeatedCursor, NextPage, ErrorStatus, InvalidBody, TransportFailure,
          Cancel, Drift, Finish, vars
  <1> QED
    BY <1>1, <1>2, TypeCorrect, SeenStep, PTL DEF Spec

-------------------------------------------------------------------------------
LEMMA SeenCounted ==
  TypeOK /\ SentCountedBySeen /\ [Next]_vars => SentCountedBySeen'
  <1> SUFFICES ASSUME TypeOK, SentCountedBySeen, [Next]_vars
               PROVE SentCountedBySeen'
    OBVIOUS
  <1> USE DEF SentCountedBySeen
  <1>t. /\ IsFiniteSet(seen) /\ Cardinality(seen) \in Nat
        /\ sent \in Seq(Positions) /\ Len(sent) \in Nat
    BY CursorsAssumption, FS_Subset, FS_CardinalityType DEF TypeOK
  <1>1. CASE StartLoop
    BY <1>1 DEF StartLoop
  <1>2. CASE SendRequest
    <2>1. Len(sent') = Len(sent) + 1
      BY <1>2, <1>t DEF SendRequest
    <2> QED
      BY <1>2, <1>t, <2>1 DEF SendRequest
  <1>3. CASE NextPage
    <2>1. /\ pc = "waiting" /\ pc' = "ready" /\ sent' = sent
          /\ listing[cursor].next \notin seen
          /\ seen' = seen \cup {listing[cursor].next}
      BY <1>3 DEF NextPage, ReceivePage, CursorIsNew, Remember
    <2>2. Cardinality(seen') = Cardinality(seen) + 1
      BY <2>1, <1>t, FS_AddElement
    <2> QED
      BY <2>1, <2>2, <1>t
  <1>4. CASE \E o \in Outcomes : Finish(o)
    BY <1>4, <1>t DEF Finish
  <1>5. CASE Drift
    BY <1>5 DEF Drift
  <1>6. CASE UNCHANGED vars
    BY <1>6 DEF vars
  <1>7. ASSUME NEW status \in ErrorStatuses, NEW retryAfter \in RetryAfterKinds,
               ErrorStatus(status, retryAfter)
        PROVE SentCountedBySeen'
    BY <1>7, <1>t DEF ErrorStatus, Finish
  <1> QED
    BY <1>1, <1>2, <1>3, <1>4, <1>5, <1>6, <1>7
    DEF Next, ClientStep, Terminated, RejectDate, LastPage, RepeatedCursor,
        InvalidBody, TransportFailure, Cancel, Outcomes, ProviderErrors

(* A call sends at most one request per cursor and one for the first page. *)
RequestsBounded == Len(sent) <= Cardinality(Cursors) + 1

LEMMA BoundedRequests == Spec => []RequestsBounded
  <1>1. Init => SentCountedBySeen
    <2>1. Cardinality({}) = 0
      BY FS_EmptySet
    <2> QED
      BY <2>1 DEF Init, SentCountedBySeen
  <1>2. TypeOK /\ SentCountedBySeen => RequestsBounded
    <2> SUFFICES ASSUME TypeOK, SentCountedBySeen PROVE RequestsBounded
      OBVIOUS
    <2>1. /\ Cardinality(seen) <= Cardinality(Cursors)
          /\ Cardinality(seen) \in Nat /\ Cardinality(Cursors) \in Nat
      BY CursorsAssumption, FS_Subset, FS_CardinalityType DEF TypeOK
    <2>2. Len(sent) \in Nat
      BY DEF TypeOK
    <2> QED
      BY <2>1, <2>2 DEF SentCountedBySeen, RequestsBounded
  <1> QED
    BY <1>1, <1>2, TypeCorrect, SeenCounted, PTL DEF Spec

-------------------------------------------------------------------------------
(* At most so many steps are left of the loop: two for each cursor that    *)
(* has not been seen, and those of the turn it is in.                      *)
StepsOfTurn ==
  CASE pc = "start" -> 3 [] pc = "ready" -> 2 [] pc = "waiting" -> 1 [] OTHER -> 0

StepsLeft == 2 * (Cardinality(Cursors) - Cardinality(seen)) + StepsOfTurn

(* Each step of the client takes one of them at least, and the upstream,   *)
(* whose listing may change at any moment, gives none back.                *)
LoopAdvances ==
  [][/\ ClientStep => StepsLeft' < StepsLeft
     /\ Drift => StepsLeft' = StepsLeft]_vars

LEMMA StepsCounted ==
  ASSUME TypeOK
  PROVE  /\ Cardinality(seen) \in Nat /\ Cardinality(Cursors) \in Nat
         /\ Cardinality(seen) <= Cardinality(Cursors) /\ IsFiniteSet(seen)
         /\ StepsOfTurn \in Nat /\ StepsLeft \in Nat
         /\ StepsLeft <= 2 * Cardinality(Cursors) + 3
  <1>1. /\ Cardinality(seen) \in Nat /\ Cardinality(Cursors) \in Nat
        /\ Cardinality(seen) <= Cardinality(Cursors) /\ IsFiniteSet(seen)
    BY CursorsAssumption, FS_Subset, FS_CardinalityType DEF TypeOK
  <1>2. StepsOfTurn \in Nat /\ StepsOfTurn <= 3
    BY DEF TypeOK, StepsOfTurn
  <1>. QED
    BY <1>1, <1>2 DEF StepsLeft

(* The `while True` of _retrieve_all_pages ends whatever the upstream      *)
(* answers: it takes at most two steps for each cursor and three more.     *)
THEOREM LoopIsFinite ==
  Spec => /\ [](StepsLeft \in 0 .. 2 * Cardinality(Cursors) + 3)
          /\ LoopAdvances
  <1>1. TypeOK => StepsLeft \in 0 .. 2 * Cardinality(Cursors) + 3
    BY StepsCounted
  <1>2. TypeOK /\ [Next]_vars => [/\ ClientStep => StepsLeft' < StepsLeft
                                  /\ Drift => StepsLeft' = StepsLeft]_vars
    <2> SUFFICES ASSUME TypeOK
                 PROVE  /\ ClientStep => StepsLeft' < StepsLeft
                        /\ Drift => StepsLeft' = StepsLeft
      OBVIOUS
    <2>1. Drift => StepsLeft' = StepsLeft
      BY DEF Drift, StepsLeft, StepsOfTurn
    <2>2. ASSUME seen' = seen, StepsOfTurn' \in Nat, StepsOfTurn' < StepsOfTurn
          PROVE  StepsLeft' < StepsLeft
      BY <2>2, StepsCounted DEF StepsLeft
    <2>3. ASSUME pc # "done", NEW o, Finish(o)
          PROVE  StepsLeft' < StepsLeft
      BY <2>2, <2>3 DEF Finish, StepsOfTurn, TypeOK
    <2>4. CASE StartLoop \/ SendRequest
      BY <2>1, <2>2, <2>4 DEF StartLoop, SendRequest, StepsOfTurn
    <2>5. CASE NextPage
      <3>1. /\ listing[cursor].next \notin seen
            /\ seen' = seen \cup {listing[cursor].next}
            /\ pc = "waiting" /\ pc' = "ready"
        BY <2>5 DEF NextPage, ReceivePage, CursorIsNew, Remember
      <3>2. Cardinality(seen') = Cardinality(seen) + 1
        BY <3>1, StepsCounted, FS_AddElement
      <3>3. StepsOfTurn = 1 /\ StepsOfTurn' = 2
        BY <3>1 DEF StepsOfTurn
      <3>. QED
        BY <2>1, <3>2, <3>3, StepsCounted DEF StepsLeft
    <2>6. CASE \/ RejectDate \/ LastPage \/ RepeatedCursor
               \/ InvalidBody \/ TransportFailure \/ Cancel
      BY <2>1, <2>3, <2>6
      DEF RejectDate, LastPage, RepeatedCursor, ReceivePage, InvalidBody,
          TransportFailure, Cancel
    <2>7. ASSUME NEW status \in ErrorStatuses, NEW retryAfter \in RetryAfterKinds,
                 ErrorStatus(status, retryAfter)
          PROVE  StepsLeft' < StepsLeft
      BY <2>3, <2>7 DEF ErrorStatus
    <2>. QED
      BY <2>1, <2>4, <2>5, <2>6, <2>7 DEF ClientStep
  <1>. QED
    BY <1>1, <1>2, TypeCorrect, PTL DEF Spec, LoopAdvances

-------------------------------------------------------------------------------
(* A page received on a listing that has not drifted is the next link.     *)
LEMMA ChainStep ==
  TypeOK /\ SeenMatchesSent /\ ChainFollowed /\ [Next]_vars => ChainFollowed'
  <1> SUFFICES ASSUME TypeOK, SeenMatchesSent, ChainFollowed, [Next]_vars,
                      drifts' = 0
               PROVE ChainFollowed'
    BY DEF ChainFollowed
  <1>t. /\ sent \in Seq(Positions) /\ records \in Seq(Blocks)
        /\ Len(sent) \in Nat /\ Len(records) \in Nat /\ drifts \in Nat
        /\ cursor \in Positions /\ listing[cursor].data \in Blocks
    BY MaxDriftAssumption DEF TypeOK, Pages
  <1>1. CASE StartLoop
    BY <1>1, <1>t DEF StartLoop, ChainFollowed, SeenMatchesSent
  <1>2. CASE SendRequest
    <2>1. /\ sent' = Append(sent, cursor) /\ pc = "ready" /\ pc' = "waiting"
          /\ listing' = listing /\ records' = records /\ outcome' = outcome
          /\ drifts = 0
      BY <1>2 DEF SendRequest
    <2>2. /\ Len(sent') = Len(sent) + 1
          /\ \A i \in 1 .. Len(sent) : sent'[i] = sent[i]
          /\ sent'[Len(sent) + 1] = cursor
      BY <2>1, <1>t
    <2> QED
      BY <2>1, <2>2, <1>t DEF ChainFollowed
  <1>3. CASE ReceivePage /\ UNCHANGED <<listing, drifts, sent>>
             /\ (LastPage \/ RepeatedCursor \/ NextPage)
    <2>1. /\ records' = Append(records, listing[cursor].data)
          /\ pc = "waiting" /\ listing' = listing /\ sent' = sent /\ drifts = 0
          /\ Len(sent) > 0 /\ cursor = sent[Len(sent)]
          /\ Len(records) = Len(sent) - 1
      BY <1>3 DEF ReceivePage, SeenMatchesSent, ChainFollowed
    <2>2. /\ Len(records') = Len(records) + 1
          /\ \A i \in 1 .. Len(records) : records'[i] = records[i]
          /\ records'[Len(records) + 1] = listing[cursor].data
      BY <2>1, <1>t
    <2>3. /\ \A i \in 1 .. Len(records') : i \in 1 .. Len(sent')
                                       /\ records'[i] = listing'[sent'[i]].data
          /\ \A i \in 1 .. Len(sent') - 1 : listing'[sent'[i]].next = sent'[i + 1]
          /\ sent'[1] = NoCursor
      <3>1. ASSUME NEW i \in 1 .. Len(records')
            PROVE  i \in 1 .. Len(sent) /\ records'[i] = listing[sent[i]].data
        <4>1. CASE i \in 1 .. Len(records)
          BY <4>1, <2>1, <2>2, <1>t DEF ChainFollowed
        <4>2. CASE i = Len(records) + 1
          BY <4>2, <2>1, <2>2, <1>t
        <4> QED
          BY <3>1, <4>1, <4>2, <2>2, <1>t
      <3>2. /\ \A i \in 1 .. Len(sent) - 1 : listing[sent[i]].next = sent[i + 1]
            /\ sent[1] = NoCursor
        BY <2>1, <1>t DEF ChainFollowed
      <3> QED
        BY <3>1, <3>2, <2>1
    <2>4. CASE LastPage
      BY <2>1, <2>2, <2>3, <2>4 DEF ChainFollowed, LastPage, Finish
    <2>5. CASE RepeatedCursor
      BY <2>1, <2>2, <2>3, <2>5 DEF ChainFollowed, RepeatedCursor, Finish
    <2>6. CASE NextPage
      <3>1. outcome' = "pending"
        BY <2>1, <2>6 DEF NextPage, ChainFollowed
      <3> QED
        BY <2>1, <2>2, <2>3, <2>6, <3>1 DEF ChainFollowed, NextPage
    <2> QED
      BY <1>3, <2>4, <2>5, <2>6
  <1>4. CASE /\ UNCHANGED <<listing, drifts, sent, records>> /\ pc' = "done"
             /\ outcome' # "records"
    BY <1>4, <1>t DEF ChainFollowed
  <1>5. CASE Drift
    BY <1>5, <1>t DEF Drift
  <1>6. CASE UNCHANGED vars
    BY <1>6 DEF vars, ChainFollowed
  <1>7. ASSUME NEW status \in ErrorStatuses, NEW retryAfter \in RetryAfterKinds,
               ErrorStatus(status, retryAfter)
        PROVE ChainFollowed'
    <2>1. StatusError(status, retryAfter) # "records"
      BY DEF StatusError, ErrorStatuses
    <2> QED
      BY <1>7, <2>1, <1>4 DEF ErrorStatus, Finish
  <1> QED
    BY <1>1, <1>2, <1>3, <1>4, <1>5, <1>6, <1>7
    DEF Next, ClientStep, Terminated, RejectDate, LastPage, RepeatedCursor,
        NextPage, ReceivePage, InvalidBody, TransportFailure, Cancel, Finish

(* The loop's bookkeeping, and what it has read of a listing that stands    *)
(* still, at every moment of a call.                                       *)
THEOREM ChainInvariance == Spec => [](SeenMatchesSent /\ ChainFollowed)
  <1>1. Init => ChainFollowed
    BY DEF Init, ChainFollowed
  <1>2. Init => SeenMatchesSent
    BY DEF Init, SeenMatchesSent, SentPositions
  <1> QED
    BY <1>1, <1>2, TypeCorrect, SeenStep, ChainStep, PTL DEF Spec

(* What a call returns about an upstream that did not change meanwhile is  *)
(* the whole listing, each page once and in order.                         *)
THEOREM CompleteOnStableListing == Spec => []CompleteWhenStable
  <1>1. ChainFollowed /\ TypeOK => CompleteWhenStable
    <2> SUFFICES ASSUME ChainFollowed, TypeOK, outcome = "records", drifts = 0
                 PROVE /\ Len(records) = Len(sent)
                       /\ sent[1] = NoCursor
                       /\ \A i \in 1 .. Len(sent) :
                            /\ records[i] = listing[sent[i]].data
                            /\ listing[sent[i]].next =
                                 IF i = Len(sent) THEN NoCursor ELSE sent[i + 1]
      BY DEF CompleteWhenStable
    <2>1. Len(sent) \in Nat
      BY DEF TypeOK
    <2> QED
      BY <2>1 DEF ChainFollowed
  <1> QED
    BY <1>1, ChainInvariance, TypeCorrect, PTL

-------------------------------------------------------------------------------
(* A walk is a sequence of positions, the first page and then cursors.     *)
LEMMA WalkShape ==
  ASSUME NEW w \in Walks
  PROVE  /\ w \in Seq(Positions) /\ Len(w) \in Nat /\ Len(w) >= 1
         /\ DOMAIN w = 1 .. Len(w)
         /\ \A k \in 1 .. Len(w) : w[k] = NoCursor <=> k = 1
  <1>0. Cardinality(Positions) \in Nat
    BY CursorsAssumption, FS_AddElement, FS_CardinalityType DEF Positions
  <1>1. PICK n \in 1 .. Cardinality(Positions) : w \in [1 .. n -> Positions]
    BY DEF Walks
  <1>2. n \in Nat /\ n >= 1
    BY <1>0
  <1>3. w \in Seq(Positions) /\ Len(w) = n /\ DOMAIN w = 1 .. n
    BY <1>1, <1>2
  <1>. QED
    BY <1>2, <1>3 DEF Walks

LEMMA LeastNumber ==
  ASSUME NEW S \in SUBSET Nat, S # {}
  PROVE  \E k \in S : \A j \in Nat : j < k => j \notin S
  <1> DEFINE Less == {p \in Nat \X Nat : p[1] < p[2]}
  <1>1. IsWellFoundedOn(Less, Nat)
    BY NatLessThanWellFounded DEF OpToRel
  <1>2. \A j, k \in Nat : j < k => <<j, k>> \in Less
    OBVIOUS
  <1> HIDE DEF Less
  <1>3. PICK k \in S : \A j \in S : ~ (<<j, k>> \in Less)
    BY <1>1, WFMin
  <1>. QED
    BY <1>2, <1>3

(* Two walks that read the same listing agree as far as both go.           *)
LEMMA WalksAgree ==
  ASSUME NEW v \in Walks, NEW w \in Walks, Reads(v), Reads(w)
  PROVE  \A k \in Nat : k \in DOMAIN v /\ k \in DOMAIN w => v[k] = w[k]
  <1> DEFINE Apart == {k \in Nat : k \in DOMAIN v /\ k \in DOMAIN w /\ v[k] # w[k]}
  <1>1. SUFFICES ASSUME Apart # {} PROVE FALSE
    OBVIOUS
  <1>2. PICK k \in Apart : \A j \in Nat : j < k => j \notin Apart
    BY <1>1, LeastNumber
  <1>3. /\ DOMAIN v = 1 .. Len(v) /\ Len(v) \in Nat /\ v[1] = NoCursor
        /\ DOMAIN w = 1 .. Len(w) /\ Len(w) \in Nat /\ w[1] = NoCursor
    BY WalkShape
  <1>4. k \in Nat /\ k > 1 /\ k <= Len(v) /\ k <= Len(w) /\ v[k] # w[k]
    BY <1>3
  <1>5. /\ k - 1 \in Nat /\ k - 1 \in DOMAIN v /\ k - 1 \in DOMAIN w
        /\ k - 1 # Len(v) /\ k - 1 # Len(w) /\ (k - 1) + 1 = k
    BY <1>3, <1>4
  <1>6. v[k - 1] = w[k - 1]
    BY <1>2, <1>4, <1>5
  <1>7. listing[v[k - 1]].next = v[k] /\ listing[w[k - 1]].next = w[k]
    BY <1>5 DEF Reads
  <1>. QED
    BY <1>4, <1>6, <1>7

(* So a listing is read by one walk only.                                  *)
LEMMA WalkIsUnique ==
  ASSUME NEW v \in Walks, NEW w \in Walks, Reads(v), Reads(w)
  PROVE  v = w
  <1>1. ASSUME NEW x \in Walks, NEW y \in Walks, Reads(x), Reads(y)
        PROVE  Len(x) >= Len(y)
    <2> DEFINE n == Len(x)
    <2>1. SUFFICES ASSUME n < Len(y) PROVE FALSE
      BY WalkShape
    <2>2. /\ n \in Nat /\ n \in DOMAIN x /\ n \in DOMAIN y /\ n # Len(y)
          /\ n + 1 \in 1 .. Len(y) /\ n + 1 # 1
      BY <2>1, WalkShape
    <2>3. x[n] = y[n]
      BY <1>1, <2>2, WalksAgree
    <2>4. listing[x[n]].next = NoCursor /\ listing[y[n]].next = y[n + 1]
      BY <1>1, <2>2 DEF Reads
    <2>. QED
      BY <2>2, <2>3, <2>4, WalkShape
  <1>2. Len(v) = Len(w)
    BY <1>1, WalkShape
  <1>3. \A k \in 1 .. Len(v) : v[k] = w[k]
    BY <1>2, WalkShape, WalksAgree
  <1>. QED
    BY <1>2, <1>3, WalkShape

(* The requests of a call that read a whole listing are the walk of it,    *)
(* and the records of the call are its source.                             *)
LEMMA RecordsAreSource ==
  ASSUME TypeOK, NoPositionRequestedTwice, RequestsBounded, ChainFollowed,
         outcome = "records", drifts = 0
  PROVE  SourceOfListing = AnswerOfCall
  <1>1. /\ sent \in Seq(Positions) /\ Len(sent) \in Nat /\ Len(sent) >= 1
        /\ records \in Seq(Blocks) /\ Len(records) = Len(sent)
        /\ sent[1] = NoCursor
        /\ \A k \in 1 .. Len(sent) :
             /\ records[k] = listing[sent[k]].data
             /\ listing[sent[k]].next = IF k = Len(sent) THEN NoCursor ELSE sent[k + 1]
    BY DEF TypeOK, ChainFollowed
  <1>2. Len(sent) <= Cardinality(Positions)
    <2>1. Cardinality(Positions) = Cardinality(Cursors) + 1
      BY CursorsAssumption, NoCursorAssumption, FS_AddElement DEF Positions
    <2>. QED
      BY <2>1 DEF RequestsBounded
  <1>3. sent \in Walks /\ Reads(sent)
    <2>1. sent \in [1 .. Len(sent) -> Positions] /\ DOMAIN sent = 1 .. Len(sent)
      BY <1>1
    <2>2. Cardinality(Positions) \in Nat
      BY CursorsAssumption, FS_AddElement, FS_CardinalityType DEF Positions
    <2>3. \A k \in DOMAIN sent : sent[k] = NoCursor <=> k = 1
      BY <1>1, <2>1 DEF NoPositionRequestedTwice
    <2>. QED
      BY <1>1, <1>2, <2>1, <2>2, <2>3 DEF Walks, Reads
  <1>4. Listable /\ ReadingWalk = sent
    BY <1>3, WalkIsUnique DEF Listable, ReadingWalk
  <1>5. [k \in DOMAIN sent |-> listing[sent[k]].data] = records
    BY <1>1
  <1>. QED
    BY <1>4, <1>5 DEF SourceOfListing, AnswerOfCall

(* A call is answered when it ends, and with the source if it returns the  *)
(* records of an upstream that did not change.                             *)
Answered ==
  /\ pc = "done" <=> outcome # "pending"
  /\ outcome = "records" /\ drifts = 0 => SourceOfListing = AnswerOfCall

LEMMA EndStep == [Next]_vars /\ (pc = "done" <=> outcome # "pending")
                   => (pc = "done" <=> outcome # "pending")'
  <1>1. \A status \in ErrorStatuses, retryAfter \in RetryAfterKinds :
          StatusError(status, retryAfter) # "pending"
    BY DEF StatusError, ErrorStatuses
  <1>. QED
    BY <1>1
    DEF Next, ClientStep, Terminated, RejectDate, StartLoop, SendRequest, LastPage,
        RepeatedCursor, NextPage, ReceivePage, ErrorStatus, InvalidBody,
        TransportFailure, Cancel, Drift, Finish, vars

LEMMA AnswerInvariance == Spec => []Answered
  <1>1. Init => (pc = "done" <=> outcome # "pending")
    BY DEF Init
  <1>2. Spec => [](pc = "done" <=> outcome # "pending")
    BY <1>1, EndStep, PTL DEF Spec
  <1>3. /\ TypeOK /\ NoPositionRequestedTwice /\ RequestsBounded /\ ChainFollowed
        /\ (pc = "done" <=> outcome # "pending")
        => Answered
    BY RecordsAreSource DEF Answered
  <1>. QED
    BY <1>2, <1>3, TypeCorrect, NeverTwice, BoundedRequests, ChainInvariance, PTL

(* A step that ends the call is the abstract call's answer.                *)
LEMMA EndAnswers ==
  ASSUME pc # "done", Answered, Answered', NEW o, o # "pending", Finish(o)
  PROVE  R!Return \/ R!Raise
  <1>1. /\ listing' = listing /\ drifts' = drifts /\ outcome' = o
        /\ SourceOfListing' = SourceOfListing
    BY DEF Finish, SourceOfListing, Listable, ReadingWalk, Reads
  <1>2. AnswerOfCall = [kind |-> "pending"]
    BY DEF Answered, AnswerOfCall
  <1>3. CASE o = "records"
    <2>1. AnswerOfCall' = [kind |-> "records", blocks |-> records']
      BY <1>1, <1>3 DEF AnswerOfCall
    <2>2. AnswerOfCall' # [kind |-> "raised"]
      BY <2>1
    <2>3. drifts = 0 => /\ SourceOfListing' = AnswerOfCall'
                        /\ SourceOfListing' # [kind |-> "unlistable"]
      BY <1>1, <1>3, <2>1 DEF Answered
    <2>. QED
      BY <1>1, <1>2, <2>2, <2>3 DEF R!Return
  <1>4. CASE o # "records"
    <2>1. AnswerOfCall' = [kind |-> "raised"]
      BY <1>1, <1>4 DEF AnswerOfCall
    <2>. QED
      BY <1>1, <1>2, <2>1 DEF R!Raise
  <1>. QED
    BY <1>3, <1>4

(* Every other step changes nothing, or the upstream's data.               *)
LEMMA StepRetrieves ==
  TypeOK /\ Answered /\ Answered' /\ [Next]_vars => [R!Next]_(R!vars)
  <1> SUFFICES ASSUME TypeOK, Answered, Answered', [Next]_vars
               PROVE  [R!Next]_(R!vars)
    OBVIOUS
  <1>1. ASSUME pc # "done", NEW o, o # "pending", Finish(o)
        PROVE  R!Next
    BY <1>1, EndAnswers DEF R!Next
  <1>2. ASSUME UNCHANGED <<listing, drifts, outcome>>, outcome # "records"
        PROVE  UNCHANGED R!vars
    BY <1>2 DEF R!vars, AnswerOfCall, SourceOfListing, Listable, ReadingWalk, Reads
  <1>3. CASE StartLoop \/ SendRequest \/ NextPage
    <2>1. UNCHANGED <<listing, drifts, outcome>> /\ pc # "done"
      BY <1>3 DEF StartLoop, SendRequest, NextPage, ReceivePage
    <2>. QED
      BY <1>2, <2>1 DEF Answered
  <1>4. ASSUME NEW status \in ErrorStatuses, NEW retryAfter \in RetryAfterKinds,
               ErrorStatus(status, retryAfter)
        PROVE  R!Next
    <2>1. StatusError(status, retryAfter) # "pending"
      BY DEF StatusError, ErrorStatuses
    <2>. QED
      BY <1>1, <1>4, <2>1 DEF ErrorStatus
  <1>5. CASE \/ RejectDate \/ LastPage \/ RepeatedCursor
             \/ InvalidBody \/ TransportFailure \/ Cancel
    BY <1>1, <1>5 DEF RejectDate, LastPage, RepeatedCursor, ReceivePage, InvalidBody,
                      TransportFailure, Cancel
  <1>6. CASE Drift
    <2>1. drifts \in Nat /\ drifts' = drifts + 1
      BY <1>6, MaxDriftAssumption DEF Drift, TypeOK
    <2>2. AnswerOfCall' = AnswerOfCall
      BY <1>6 DEF Drift, AnswerOfCall
    <2>. QED
      BY <2>1, <2>2 DEF R!Next, R!Change
  <1>7. CASE UNCHANGED vars
    BY <1>7 DEF vars, R!vars, AnswerOfCall, SourceOfListing, Listable, ReadingWalk, Reads
  <1>. QED
    BY <1>3, <1>4, <1>5, <1>6, <1>7 DEF Next, ClientStep, Terminated

(* Whatever the upstream does, a call is answered at most once, by an      *)
(* exception or by the whole of a listing that did not change.             *)
THEOREM WholeAnswer == Spec => R!Safety
  <1>1. Init => R!Init
    BY DEF Init, R!Init, AnswerOfCall
  <1>. QED
    BY <1>1, StepRetrieves, TypeCorrect, AnswerInvariance, PTL DEF Spec, R!Safety

(* And if the call ends, then it implements Retrieval: what is left of the *)
(* refinement is the liveness of the loop.                                 *)
THEOREM Retrieves == Spec /\ EveryCallEnds => ImplementsRetrieval
  <1>1. pc = "done" /\ Answered => AnswerOfCall # [kind |-> "pending"]
    BY DEF Answered, AnswerOfCall
  <1>. QED
    BY <1>1, WholeAnswer, AnswerInvariance, PTL
    DEF ImplementsRetrieval, R!Spec, EveryCallEnds

===============================================================================
