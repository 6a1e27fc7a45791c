---------------------------- MODULE MCEmailQueue ----------------------------
EXTENDS EmailQueue

(* Workers run the same code and are never told apart. *)
Interchangeable == Permutations(Workers)
=============================================================================
