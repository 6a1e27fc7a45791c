---------------------------- MODULE MCGovernance ----------------------------
EXTENDS Governance, TLC

CONSTANTS g2, g3

(* g2 and g3 appear in no constant that tells them apart. *)
Interchangeable == Permutations({g2, g3})
=============================================================================
