------------------------------ MODULE MCRugWatch ------------------------------
(***************************************************************************)
(* Two alerts; the re-checks of an alert, and those of both, can fall due  *)
(* in one tick.                                                            *)
(***************************************************************************)
EXTENDS RugWatch, TLC

CONSTANTS alertA, alertB

Interchangeable == Permutations({alertA, alertB})
=============================================================================
