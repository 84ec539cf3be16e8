----------------------------- MODULE MC_Accounting -----------------------------
(* A small instance of Accounting. *)
EXTENDS Accounting, TLC
=============================================================================
