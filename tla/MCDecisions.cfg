SPECIFICATION Spec
CONSTANTS
    Weight <- Weights
    From <- Lows
    Full <- Fulls
    RecentMin = 10
    RecentPoints = 5
    StructPoints = 5
    IgnitionScore <- Bars
    ConfirmedScore = 75
    EligibleFrom = 30
    EligibleTo = 360
    ScoreMargin = 10
    None = None
    Limits <- SolanaLimits
    MaxTax = 5
    AmountFrac = 100
    TopMax = 35
    TopBonus = 10
    Worlds <- TokenWorlds
    Inputs <- TapeInputs
    Outcomes = {None, "cooldown"}
    CacheS = 1
    CooldownS = 2
    DailyMax = 1
    DayS = 2
    MaxNow = 2
    MaxEvents = 2
INVARIANTS
    ConfirmedRestsOnChecks
    NearMissNamesTheCause
    NearMissesSpaced
PROPERTY VetoedIsRemoved
CHECK_DEADLOCK FALSE
