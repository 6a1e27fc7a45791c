------------------------------ MODULE MCMarkets ------------------------------
(* Instances of Markets for TLC: the input sets that mention None. *)
EXTENDS Markets, TLC

OneOracle == {None}
TwoOracles == {None, 2}
DefaultOnly == {None}
TwoWindows == {None, 2}

(* Nothing tells one token from another, nor one bettor from another when   *)
(* none of them creates a market or refers a bettor.                       *)
AnyTokenAnyBettor == Permutations(Tokens) \cup Permutations(Bettors)
==============================================================================
