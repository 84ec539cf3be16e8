-------------------------- MODULE MC_HybridReplica --------------------------
(* HybridReplica for TLC.                                                   *)
EXTENDS HybridReplica, TLC

\* Names and goroutines are interchangeable.
Symmetry == Permutations(Names) \cup Permutations(Callers)

\* The process starts with a replica that is up to date.
SyncedInit == Init /\ primary = sqlite
SyncedSpec == SyncedInit /\ [][Next]_vars

\* The same, and a start with any replica at all, under the fairness of the
\* goroutines.
LiveSpec  == SyncedSpec /\ Fairness
DriftSpec == Spec /\ Fairness
=============================================================================
