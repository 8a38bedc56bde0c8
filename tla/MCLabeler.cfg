SPECIFICATION Spec
CONSTANTS
    sol = sol
    None = None
    Events = {1, 2}
    KindOf <- KindsOf
    PathKinds = {"alert", "nomination", "near_miss"}
    Chains = {sol}
    ChainOf <- ChainsOf
    Horizons = {1, 2}
    Grace = 0
    PathDeadline = 1
    MaxPathAttempts = 2
    MaxAsk = 1
    MaxTime = 4
    LastEvent = 0
    MaxCrashes = 1
INVARIANTS
    PathHasClose
    PathsTogether
PROPERTIES
    PriceKept
    TickSettles
    GivenUpAfterItsTries
