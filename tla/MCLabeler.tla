------------------------------ MODULE MCLabeler ------------------------------
(***************************************************************************)
(* A near miss and an alert of one chain, so that one multi_price call     *)
(* cannot ask for both.                                                    *)
(***************************************************************************)
EXTENDS Labeler

CONSTANT sol

KindsOf == <<"near_miss", "alert">>
ChainsOf == <<sol, sol>>
=============================================================================
