------------------------------ MODULE MC_Gateway -------------------------------
(* The configurations Gateway is checked with: the ones its code tells     *)
(* apart, from one that is complete by leaving out or spoiling one or two  *)
(* variables.                                                              *)
EXTENDS Gateway, TLC

CONSTANTS lower, upper, other

MCCasefold == [n \in {lower, upper, other} |-> IF n = upper THEN lower ELSE n]

Item(n) == [name |-> n, valid |-> TRUE]

Demo ==
  [environment |-> "development", provider |-> "mock", key |-> "none",
   apiKey |-> "none", endpoint |-> "none", headers |-> <<>>, preview |-> "none",
   pathNamesFile |-> TRUE]

Production ==
  [environment |-> "production", provider |-> "anthropic", key |-> "given",
   apiKey |-> "given", endpoint |-> "given",
   headers |-> <<Item(lower), Item(other)>>, preview |-> "blank",
   pathNamesFile |-> TRUE]

MCConfigurations ==
  {Demo,
   [Demo EXCEPT !.environment = "test", !.key = "blank"],
   [Demo EXCEPT !.pathNamesFile = FALSE],
   [Demo EXCEPT !.provider = "anthropic", !.apiKey = "given"],
   Production,
   [Production EXCEPT !.key = "blank"],
   [Production EXCEPT !.headers = <<Item(lower), Item(upper)>>],
   [Production EXCEPT !.environment = "staging", !.provider = "mock",
                      !.endpoint = "blank", !.preview = "true"]}

MCSymmetry == Permutations(Apps) \cup Permutations(Requests)

===============================================================================
