------------------------------ MODULE MCCUBudget ------------------------------
(***************************************************************************)
(* Three tasks: the chain loop, the evaluation job (tape pages, then the   *)
(* safety check) and the label loop, whose rug watch shares the safety     *)
(* check.  The tape's check admits two pages.                              *)
(***************************************************************************)
EXTENDS CUBudget

CallersUse == [chain_loop |-> {"stage0"}, eval_job |-> {"tape", "safety"},
               label_loop |-> {"safety"}]
CallCost == [stage0 |-> 3, tape |-> 1, safety |-> 2]
CallsPerCheck == [stage0 |-> 1, tape |-> 2, safety |-> 1]
DailyBudget == [tape |-> 3, safety |-> 4]
=============================================================================
