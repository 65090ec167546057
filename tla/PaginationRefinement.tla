-------------------------- MODULE PaginationRefinement --------------------------
(***************************************************************************)
(* Pagination implements Retrieval.  The source of the abstract call is    *)
(* the listing walked from its first page; it is Unlistable when its       *)
(* cursors never end.                                                      *)
(***************************************************************************)
EXTENDS Pagination

(* A walk visits the first page, which has no cursor, and then cursors.    *)
Walks ==
  {w \in UNION {[1 .. n -> Positions] : n \in 1 .. Cardinality(Positions)} :
     \A k \in DOMAIN w : w[k] = NoCursor <=> k = 1}

(* It reads the listing if each page names the next, and the last none.    *)
Reads(w) ==
  \A k \in DOMAIN w :
    listing[w[k]].next = IF k = Len(w) THEN NoCursor ELSE w[k + 1]

Listable == \E w \in Walks : Reads(w)
ReadingWalk == CHOOSE w \in Walks : Reads(w)

SourceOfListing ==
  IF Listable
    THEN [kind |-> "records",
          blocks |-> [k \in DOMAIN ReadingWalk |-> listing[ReadingWalk[k]].data]]
    ELSE [kind |-> "unlistable"]

AnswerOfCall ==
  CASE outcome = "pending" -> [kind |-> "pending"]
    [] outcome = "records" -> [kind |-> "records", blocks |-> records]
    [] OTHER -> [kind |-> "raised"]

R == INSTANCE Retrieval WITH
       Pending <- [kind |-> "pending"],
       Raised <- [kind |-> "raised"],
       Unlistable <- [kind |-> "unlistable"],
       source <- SourceOfListing,
       changes <- drifts,
       answer <- AnswerOfCall

(* The whole loop, with every error path, is one all-or-nothing answer     *)
(* (get_usage_analytics of providers/base.py), of an upstream that does    *)
(* not change its whole data, and that answer always comes.                *)
ImplementsRetrieval == R!Spec

===============================================================================
