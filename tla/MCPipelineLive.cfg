SPECIFICATION FairSpec
CONSTANTS
    tokenA = tokenA
    tokenB = tokenB
    sol = sol
    None = None
    Tokens = {tokenA, tokenB}
    Chains = {sol}
    ChainOf <- OneChain
    MaxPerChain = 1
    MaxStay = 1
    VetoCooldown = 2
    RVols = {2}
    OFIs <- OFITenths
    StayRVol = 2
    StayOFI = 0
    MaxLag = 0
    MaxTime = 1
    Renominate = 2
    RefreshEvery = 2
PROPERTY ActiveArePolled
