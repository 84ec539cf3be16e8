---------------------------- MODULE MC_TokenQuota ----------------------------
(* A small instance of TokenQuota. *)
EXTENDS TokenQuota, TLC

\* The goroutines that serve requests are interchangeable.
Symmetry == Permutations(Requests)
=============================================================================
