SPECIFICATION WashSpec
CONSTANTS
    IgnitionWindow = 2
    OfiWindow = 3
    RecentWindow = 2
    WashWindow = 3
    MaxAge = 4
    MinWindow = 1
    RateMult = 2
    MinBuyers = 1
    TrailingS = 3
    MinTrailing = 1
    Lookback = 3
    BarTrades = 2
    MaxBars = 1
    None = None
    RingSize = 5
    TopN = 1
    MinTrades = 2
    Weights <- WashWeights
    Lo <- WashLo
    Hi <- WashHi
    TrapBand <- Band
    TrapTurnover = 150
    WashVeto = 60
    SellerShareMin = 60
    SellerSupplyMin = 3
    SuspectShareMin = 85
    WickMax = 60
    DevMax = 20
    BundlerMax = 40
    GateShare = 60
    Liquidity = 4
    Kinds <- TradeKinds
    Gaps = {0, 2}
    MaxTrades = 6
INVARIANTS
    GatesLoseNoVeto
    SelfTradingVetoed
    BarsReachTheEnd
PROPERTY OnsetKept
CHECK_DEADLOCK FALSE
