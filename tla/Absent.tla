-------------------------------- MODULE Absent --------------------------------
(***************************************************************************)
(* Python's None, which is neither a number nor a ratio, for the modules   *)
(* that compute features and those that decide on them.                    *)
(***************************************************************************)
EXTENDS Integers

CONSTANT None

ASSUME NoneIsNoValue == None \notin Int /\ None \notin Int \X Int
=============================================================================
