SPECIFICATION Spec
CONSTANTS
    TimeOf <- BlockTimes
    SigOf <- Signatures
    PageSize = 2
    FirstPages = 2
    MaxPages = 3
    Span = 3
    RingSize = 3
    Every = 2
    EveryLate = 3
    None = None
    MaxSwaps = 6
    MaxPolls = 7
INVARIANTS
    RingIsNewest
    HolesExplained
    SkipsBounded
