------------------------------- MODULE Retrieval -------------------------------
(***************************************************************************)
(* What AnalyticsClient.get_usage_analytics (providers/base.py) promises   *)
(* its caller: the call is answered once, with an error and no data, or    *)
(* with data that is the whole of the upstream's, unless that changed      *)
(* while it was read.                                                      *)
(***************************************************************************)
EXTENDS Naturals

CONSTANTS
  Pending,    \* not answered yet
  Raised,     \* answered by an exception
  Unlistable  \* the source of an upstream whose cursors never end

VARIABLES
  source,     \* the upstream's data
  changes,    \* how often it has changed since the call began
  answer

vars == <<source, changes, answer>>

Init == changes = 0 /\ answer = Pending

(* The answer of an upstream that did not change is its data.              *)
Return ==
  /\ answer = Pending
  /\ answer' # Raised
  /\ changes = 0 => source # Unlistable /\ answer' = source
  /\ UNCHANGED <<source, changes>>

Raise ==
  /\ answer = Pending
  /\ answer' = Raised
  /\ UNCHANGED <<source, changes>>

(* The upstream's data changes, or the order it is listed in.              *)
Change ==
  /\ changes' # 0
  /\ UNCHANGED answer

Next == Return \/ Raise \/ Change

(* What it never does, and that it does answer.                            *)
Safety == Init /\ [][Next]_vars
Spec == Safety /\ <>(answer # Pending)

===============================================================================
