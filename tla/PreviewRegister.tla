--------------------------- MODULE PreviewRegister ----------------------------
(***************************************************************************)
(* What the development preview promises: one document that is replaced as *)
(* a whole, and readers that are given a document somebody installed.      *)
(***************************************************************************)
CONSTANTS Docs, Gateways, None

VARIABLES
  document,   \* the document a reader is shown, or None
  installed,  \* every document that has ever been shown
  seen,       \* for each gateway, the document its read has opened
  reply       \* for each gateway, what its last read answered

vars == <<document, installed, seen, reply>>

Init ==
  /\ document = None
  /\ installed = {}
  /\ seen = [g \in Gateways |-> None]
  /\ reply = [g \in Gateways |-> None]

Install(d) ==
  /\ d \notin installed
  /\ document' = d
  /\ installed' = installed \cup {d}
  /\ UNCHANGED <<seen, reply>>

Look(g) ==
  /\ seen[g] = None /\ document # None
  /\ seen' = [seen EXCEPT ![g] = document]
  /\ UNCHANGED <<document, installed, reply>>

(* A read answers with the document it saw, or with an error.              *)
Answer(g) ==
  /\ seen[g] # None
  /\ reply' \in {[reply EXCEPT ![g] = seen[g]], [reply EXCEPT ![g] = "unreadable"]}
  /\ seen' = [seen EXCEPT ![g] = None]
  /\ UNCHANGED <<document, installed>>

Missing(g) ==
  /\ seen[g] = None /\ document = None
  /\ reply' = [reply EXCEPT ![g] = "missing"]
  /\ UNCHANGED <<document, installed, seen>>

(* A process that dies forgets its read.                                   *)
Forget(g) ==
  /\ seen' = [seen EXCEPT ![g] = None]
  /\ reply' = [reply EXCEPT ![g] = None]
  /\ UNCHANGED <<document, installed>>

(* The machine loses power: an earlier document may be back.               *)
Lose ==
  /\ document' \in installed \cup {None}
  /\ seen' = [g \in Gateways |-> None]
  /\ reply' = [g \in Gateways |-> None]
  /\ UNCHANGED installed

Next ==
  \/ \E d \in Docs : Install(d)
  \/ \E g \in Gateways : Look(g) \/ Answer(g) \/ Missing(g) \/ Forget(g)
  \/ Lose

Spec == Init /\ [][Next]_vars

===============================================================================
