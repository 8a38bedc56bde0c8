SPECIFICATION Spec
CONSTANTS
    tokenA = tokenA
    tokenB = tokenB
    sol = sol
    None = None
    Tokens = {tokenA, tokenB}
    Chains = {sol}
    ChainOf <- OneChain
    Tiers = {"IGNITION", "CONFIRMED"}
    Rank <- TierRank
    Uncapped = {"CONFIRMED"}
    Cooldown = 2
    Hour = 4
    MaxPerHour = 2
    MaxAttempts = 2
    MaxTime = 4
    MaxPosts = 3
SYMMETRY Interchangeable
INVARIANTS
    SilencedOnlyByRecord
    PingsExplained
PROPERTY ImplementsLog
