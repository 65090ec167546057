------------------------------ MODULE Pagination ------------------------------
(***************************************************************************)
(* One call of AnthropicAnalyticsClient.get_usage_analytics                *)
(* (providers/anthropic.py): the loop that follows the upstream's cursors  *)
(* from the first page to the page without a next cursor, and every way    *)
(* that loop can end.                                                      *)
(*                                                                         *)
(* The contents of one page are an opaque block; records is the sequence   *)
(* of the blocks received, in the order the code extends its list by them. *)
(* The upstream's paged listing is external: it maps each position (the    *)
(* first page, or a cursor) to a page, and it may change while it is read. *)
(***************************************************************************)
EXTENDS Naturals, Sequences, FiniteSets

CONSTANTS
  Cursors,    \* the cursors the upstream can hand out
  NoCursor,   \* Python's None: the position of the first page, and "no more"
  Blocks,     \* the possible contents of one page
  MaxDrift    \* bound: how often the listing may change during the call

ASSUME NoCursorAssumption == NoCursor \notin Cursors
ASSUME CursorsAssumption == IsFiniteSet(Cursors)
ASSUME MaxDriftAssumption == MaxDrift \in Nat

Positions == Cursors \cup {NoCursor}
Pages == [data : Blocks, next : Positions]

(* The exceptions of providers/errors.py that leave the client.            *)
ProviderErrors ==
  { "ProviderReportingDateUnavailable", "ProviderAuthentication",
    "ProviderAuthorization", "ProviderRateLimit", "ProviderServer",
    "ProviderError", "ProviderTransport", "ProviderResponseValidation" }

Outcomes == {"pending", "records", "cancelled", "ValueError"} \cup ProviderErrors

(* One representative of each class of status that ends the loop.          *)
ErrorStatuses == {400, 401, 403, 404, 429, 500, 503}

(* The Retry-After header: absent, not a number, a decimal, or characters  *)
(* that str.isdigit() accepts and int() rejects (a superscript two).       *)
RetryAfterKinds == {"absent", "text", "decimal", "nondecimal_digits"}

VARIABLES
  listing,    \* the upstream's pages, by position
  drifts,     \* how often the listing has changed
  supported,  \* reporting_date >= EARLIEST_REPORTING_DATE
  pc,
  cursor,     \* the loop's cursor
  seen,       \* seen_cursors
  records,    \* the blocks received so far
  sent,       \* history: the positions requested, in order
  outcome

vars == <<listing, drifts, supported, pc, cursor, seen, records, sent, outcome>>

TypeOK ==
  /\ listing \in [Positions -> Pages]
  /\ drifts \in 0 .. MaxDrift
  /\ supported \in BOOLEAN
  /\ pc \in {"start", "ready", "waiting", "done"}
  /\ cursor \in Positions
  /\ seen \subseteq Cursors
  /\ records \in Seq(Blocks)
  /\ sent \in Seq(Positions)
  /\ outcome \in Outcomes

Init ==
  /\ listing \in [Positions -> Pages]
  /\ drifts = 0
  /\ supported \in BOOLEAN
  /\ pc = "start"
  /\ cursor = NoCursor
  /\ seen = {}
  /\ records = <<>>
  /\ sent = <<>>
  /\ outcome = "pending"

(* Leave the call with outcome o, the rest of the loop's state as it is.   *)
Finish(o) ==
  /\ pc' = "done"
  /\ outcome' = o
  /\ UNCHANGED <<listing, drifts, supported, cursor, seen, sent>>

-------------------------------------------------------------------------------
(* get_usage_analytics refuses a date before the first supported one.      *)
RejectDate ==
  /\ pc = "start"
  /\ ~supported
  /\ Finish("ProviderReportingDateUnavailable")
  /\ UNCHANGED records

StartLoop ==
  /\ pc = "start"
  /\ supported
  /\ pc' = "ready"
  /\ UNCHANGED <<listing, drifts, supported, cursor, seen, records, sent, outcome>>

(* client.get is called and awaited: the request for `cursor` is sent.     *)
SendRequest ==
  /\ pc = "ready"
  /\ pc' = "waiting"
  /\ sent' = Append(sent, cursor)
  /\ UNCHANGED <<listing, drifts, supported, cursor, seen, records, outcome>>

(* Mutant: compare with the last cursor only.                              *)
CursorDiffersFromLast(next) == next # cursor

CursorIsNew(next) == next \notin seen

(* Mutant: remember the cursor just used, which on the first page is None. *)
RememberCurrent(next) == seen \cup {cursor}

Remember(next) == seen \cup {next}

(* Mutant: look at the cursor first and return before the last page's data *)
(* is appended.                                                            *)
ReceivePageUnlessLast ==
  /\ pc = "waiting"
  /\ records' = IF listing[cursor].next = NoCursor
                  THEN records ELSE Append(records, listing[cursor].data)

(* A valid page arrives and is appended before its cursor is looked at.    *)
ReceivePage ==
  /\ pc = "waiting"
  /\ records' = Append(records, listing[cursor].data)

LastPage ==
  /\ ReceivePage
  /\ listing[cursor].next = NoCursor
  /\ Finish("records")

(* Mutant: a page whose cursor was seen is dropped and requested again.    *)
RetryRepeatedCursor ==
  /\ pc = "waiting"
  /\ listing[cursor].next # NoCursor
  /\ ~CursorIsNew(listing[cursor].next)
  /\ pc' = "ready"
  /\ sent' = SubSeq(sent, 1, Len(sent) - 1)
  /\ UNCHANGED <<listing, drifts, supported, cursor, seen, records, outcome>>

RepeatedCursor ==
  /\ ReceivePage
  /\ listing[cursor].next # NoCursor
  /\ ~CursorIsNew(listing[cursor].next)
  /\ Finish("ProviderResponseValidation")

NextPage ==
  /\ ReceivePage
  /\ listing[cursor].next # NoCursor
  /\ CursorIsNew(listing[cursor].next)
  /\ seen' = Remember(listing[cursor].next)
  /\ cursor' = listing[cursor].next
  /\ pc' = "ready"
  /\ UNCHANGED <<listing, drifts, supported, sent, outcome>>

-------------------------------------------------------------------------------
(* The exception _raise_for_error_status raises; ValueError is what int()  *)
(* raises for the digits it does not accept.                               *)
StatusError(status, retryAfter) ==
  CASE status = 400 -> "ProviderReportingDateUnavailable"
    [] status = 401 -> "ProviderAuthentication"
    [] status = 403 -> "ProviderAuthorization"
    [] status = 429 -> IF retryAfter = "nondecimal_digits"
                         THEN "ValueError" ELSE "ProviderRateLimit"
    [] status >= 500 -> "ProviderServer"
    [] OTHER -> "ProviderError"

ErrorStatus(status, retryAfter) ==
  /\ pc = "waiting"
  /\ Finish(StatusError(status, retryAfter))
  /\ UNCHANGED records

(* An answer below 400 whose body is not the documented page.              *)
InvalidBody ==
  /\ pc = "waiting"
  /\ Finish("ProviderResponseValidation")
  /\ UNCHANGED records

(* httpx.RequestError: no connection, or the configured timeout.           *)
TransportFailure ==
  /\ pc = "waiting"
  /\ Finish("ProviderTransport")
  /\ UNCHANGED records

(* The awaiting task is cancelled: CancelledError passes every handler.    *)
Cancel ==
  /\ pc = "waiting"
  /\ Finish("cancelled")
  /\ UNCHANGED records

(* External: between two pages the upstream moves users to other pages.    *)
Drift ==
  /\ drifts < MaxDrift
  /\ pc # "done"
  /\ \E p \in Positions, page \in Pages :
       /\ listing[p] # page
       /\ listing' = [listing EXCEPT ![p] = page]
  /\ drifts' = drifts + 1
  /\ UNCHANGED <<supported, pc, cursor, seen, records, sent, outcome>>

Terminated == pc = "done" /\ UNCHANGED vars

ClientStep ==
  \/ RejectDate \/ StartLoop \/ SendRequest
  \/ LastPage \/ RepeatedCursor \/ NextPage
  \/ \E status \in ErrorStatuses, retryAfter \in RetryAfterKinds :
       ErrorStatus(status, retryAfter)
  \/ InvalidBody \/ TransportFailure \/ Cancel

Next == ClientStep \/ Drift \/ Terminated

Spec == Init /\ [][Next]_vars

(* The request timeout makes every awaited answer arrive, so the loop is   *)
(* never left waiting for ever.                                            *)
FairSpec == Spec /\ WF_vars(ClientStep)

-------------------------------------------------------------------------------
(* No position is requested twice in one call, whatever the upstream       *)
(* answers and however its listing drifts: the seen_cursors check makes a  *)
(* cursor cycle end the call instead of reading the same pages again.      *)
NoPositionRequestedTwice ==
  \A i, j \in 1 .. Len(sent) : sent[i] = sent[j] => i = j

(* If the listing did not change during the call, the records returned are *)
(* all of it: the first page, then each page's successor, up to the page   *)
(* without one, each page once and in order.                               *)
CompleteWhenStable ==
  outcome = "records" /\ drifts = 0 =>
    /\ Len(records) = Len(sent)
    /\ sent[1] = NoCursor
    /\ \A i \in 1 .. Len(sent) :
         /\ records[i] = listing[sent[i]].data
         /\ listing[sent[i]].next =
              IF i = Len(sent) THEN NoCursor ELSE sent[i + 1]

(* Every call ends: README "retrieves all cursor pages" does not hang on a *)
(* cursor cycle, even one that appears while the call runs, although the   *)
(* loop is a bare `while True`.                                            *)
EveryCallEnds == <>(pc = "done")

(* README: the client "converts provider failures to secret-safe           *)
(* application errors", that is to a member of providers/errors.py.        *)
FailuresAreProviderErrors ==
  outcome \in {"pending", "records", "cancelled"} \cup ProviderErrors

===============================================================================
