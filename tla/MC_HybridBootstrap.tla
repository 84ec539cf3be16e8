------------------------- MODULE MC_HybridBootstrap -------------------------
(* HybridBootstrap for TLC: three edits, four log times, a window of two.    *)
EXTENDS HybridBootstrap
=============================================================================
