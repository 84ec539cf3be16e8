---------------------------- MODULE MC_Failover ----------------------------
(* Small instances of Failover. *)
EXTENDS Failover, TLC

\* Clients and keys are interchangeable (used where no liveness is checked).
Symmetry == Permutations(Clients) \cup Permutations(Keys)
=============================================================================
