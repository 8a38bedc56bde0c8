SPECIFICATION Spec
CONSTANTS
    tokenA = tokenA
    tokenB = tokenB
    tokenC = tokenC
    sol = sol
    None = None
    Tokens = {tokenA, tokenB, tokenC}
    Chains = {sol}
    ChainOf <- OneChain
    MaxPerChain = 2
    MaxStay = 1
    VetoCooldown = 1
    RVols = {2}
    OFIs <- OFITenths
    StayRVol = 2
    StayOFI = 0
    MaxLag = 0
    MaxTime = 2
SYMMETRY Interchangeable
INVARIANTS
    TypeOK
    CapRespected
    RowsMirrorMemory
    VetoesArmed
PROPERTIES
    VetoOutlastsCooldown
    EvictionKeepsTheStrong
    KeepsContract
