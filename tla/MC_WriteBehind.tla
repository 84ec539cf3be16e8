--------------------------- MODULE MC_WriteBehind ---------------------------
(* PrimaryWriteBehind for TLC: two rows, one best-effort key, room for one  *)
(* or two regular tasks, a reconciliation of two phases.                    *)
EXTENDS PrimaryWriteBehind
=============================================================================
