------------------------- MODULE CollectionTransaction -------------------------
(***************************************************************************)
(* Collection implements Publication: with overlapping collections, faults *)
(* of the provider and of the disk, cancellations and crashes, everything  *)
(* a call publishes appears at once to whoever looks when the event loop   *)
(* is free.  The history variable `committed` is the gauges and preview of *)
(* the last such moment.                                                   *)
(***************************************************************************)
EXTENDS Collection

VARIABLE committed

HVars == <<vars, committed>>

Shown == [gauges |-> gauges, preview |-> preview]

HInit == Init /\ committed = Shown
HNext == Next /\ committed' = IF loop' = None THEN Shown' ELSE committed
HSpec == HInit /\ [][HNext]_HVars

StatusOf(c) ==
  CASE call[c].pc # "done" -> "open"
    [] call[c].reply = "summary" -> "published"
    [] call[c].reply = "CollectionFailed" /\ call[c].usage = 1 -> "unconfirmed"
    [] OTHER -> "nothing"

P == INSTANCE Publication WITH
       date <- [c \in Calls |-> call[c].date],
       status <- [c \in Calls |-> StatusOf(c)],
       totals <- committed.gauges,
       preview <- committed.preview,
       writing <- settings.preview

(* The synchronous tail of collect (workflow.py) is a transaction: no      *)
(* coroutine ever sees some of a collection's gauges, or its gauges        *)
(* without its preview unless the write of that preview raised.            *)
ImplementsPublication == P!Spec

===============================================================================
