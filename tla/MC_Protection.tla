----------------------------- MODULE MC_Protection -----------------------------
(* The responses Protection is checked with: every list of up to three     *)
(* users, of identical or blank users and of two dates who did nothing,    *)
(* and every list of two different users one or both of whom did one thing *)
(* once; that thing is each count of each area in turn.  The workflows take *)
(* any AnalyticsClient, whose contract (providers/base.py) is the type of  *)
(* the records: the two clients of the gateway give all records the date   *)
(* they were asked for, another one, or a direct caller of the functions,  *)
(* may not.                                                                *)
EXTENDS ProtectionRefinement

CONSTANTS u1, u2, d1, d2

Idle(p) == [a \in DOMAIN FieldsOf(p) |-> [f \in FieldsOf(p)[a] |-> 0]]
Once(p, a, f) == [Idle(p) EXCEPT ![a][f] = 1]
Deeds(p) == UNION {{Once(p, a, f) : f \in FieldsOf(p)[a]} : a \in DOMAIN FieldsOf(p)}

MCActivities == UNION {{Idle(p)} \cup Deeds(p) : p \in Providers}
Record(u, d, x) == [user |-> u, date |-> d, activity |-> x]

IdleRecords(p) == {Record(u, d, Idle(p)) : u \in Users \cup {Blank}, d \in Dates}
IdleLists(p) == UNION {[1 .. n -> IdleRecords(p)] : n \in 0 .. 3}
BusyLists(p) ==
  UNION {{<<Record(u1, d1, x), Record(u2, d1, y)>> : x, y \in {Idle(p), deed}}
           : deed \in Deeds(p)}

MCResponses ==
  UNION {{[provider |-> p, records |-> s] : s \in IdleLists(p) \cup BusyLists(p)}
           : p \in Providers}

===============================================================================
