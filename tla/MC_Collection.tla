----------------------------- MODULE MC_Collection -----------------------------
(* Instances of Collection for TLC; the calls are interchangeable.         *)
EXTENDS Collection, TLC

CallSymmetry == Permutations(Calls)

===============================================================================
