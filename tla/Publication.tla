------------------------------ MODULE Publication ------------------------------
(***************************************************************************)
(* What one gateway process publishes, seen from outside its event loop:   *)
(* each collection is one indivisible publication of a date's totals on    *)
(* every gauge together with the preview, or of the totals with or without *)
(* the preview when its write raised, or it publishes nothing.             *)
(***************************************************************************)
CONSTANTS Calls, Dates, Gauges, None

VARIABLES
  date,      \* the reporting date of each call
  status,    \* "open", "published", "unconfirmed" or "nothing"
  totals,    \* for each gauge and date, the call whose totals it shows
  preview,   \* the call whose preview is on disk
  writing    \* whether previews are written at all

vars == <<date, status, totals, preview, writing>>

Unset == [g \in Gauges |-> [d \in Dates |-> None]]

Init ==
  /\ date \in [Calls -> Dates]
  /\ status = [c \in Calls |-> "open"]
  /\ totals = Unset
  /\ preview = None
  /\ writing \in BOOLEAN

Close(c, s) ==
  /\ status[c] = "open"
  /\ status' = [status EXCEPT ![c] = s]
  /\ UNCHANGED <<date, writing>>

SetTotals(c) ==
  totals' = [g \in Gauges |-> [totals[g] EXCEPT ![date[c]] = c]]

Publish(c) ==
  /\ Close(c, "published")
  /\ SetTotals(c)
  /\ preview' = IF writing THEN c ELSE preview

(* The write of the preview raised; its clean-up may be what raised, when  *)
(* the preview was in place.                                               *)
PublishUnconfirmed(c) ==
  /\ writing
  /\ Close(c, "unconfirmed")
  /\ SetTotals(c)
  /\ preview' \in {preview, c}

PublishNothing(c) ==
  /\ Close(c, "nothing")
  /\ UNCHANGED <<totals, preview>>

(* The process dies: its gauges are gone, some open calls with it; the     *)
(* preview of one of them may have reached the disk.                       *)
Die ==
  /\ totals' = Unset
  /\ \E gone \in SUBSET {c \in Calls : status[c] = "open"} :
       /\ status' = [c \in Calls |-> IF c \in gone THEN "nothing" ELSE status[c]]
       /\ preview' \in {preview} \cup (IF writing THEN gone ELSE {})
  /\ UNCHANGED <<date, writing>>

Next ==
  \/ \E c \in Calls : Publish(c) \/ PublishUnconfirmed(c) \/ PublishNothing(c)
  \/ Die

Spec == Init /\ [][Next]_vars

===============================================================================
