SPECIFICATION Spec
CONSTANTS
    Callers = {"chain_loop", "eval_job", "label_loop"}
    Components = {"stage0", "tape", "safety"}
    Metered = {"tape", "safety"}
    Uses <- CallersUse
    Cost <- CallCost
    MaxCalls <- CallsPerCheck
    Budget <- DailyBudget
    Cap = 6
    Largest = 3
    None = None
    LastDay = 2
INVARIANTS
    OvershootBounded
    NeverOverstates
