CONSTANTS
    tA = tA
    tB = tB
    tC = tC
    tD = tD
    Tokens <- MCTokens
    HighCompetition = {}
    FeeBase = 100
    FeeMultiplier = 99
    MaxAmount = 2000000000
    Unit = 1
    ConcentratedOut <- MCConcentratedOut
    ApproxOut <- MCApproxOut
    NegLog <- MCNegLog
    Reference = 100
    MinPools = 2
    Infinite = 1000000
    HopGas <- MCHopGas
    HopValue = 100
    SettlementGas = 1
    OrderGas = 1
    DataFixed = 0
    DataPerSwap <- MCDataPerSwap
    AllEdges <- MCAllEdges
    MaxHops = 4
    TopK = 10
    RateScale = 1000
    TestAmount = 10
    DxShare = 1000
    Bisections = 11
    DustShare = 100
    MaxSplitRoutes = 3
    ImprovementBase = 10000
    MinImprovement = 10
    GoldenSteps = 12
    FracScale = 100
    Mantissa = 16
    Spacings = {2, 4, 8, 16, 32, 64, 128, 256, 512, 1024, 2048, 4096, 8192, 16384, 32768}
    ScaleUnit = 256
    Bridges <- MCBridges
    PairProbe = 50
    Auctions <- MCAuctions
    MaxSplitOrders = 2
    MaxGraphTrades = 1
SPECIFICATION Spec
INVARIANTS
    PathsWalk
    PlainPathsFound
    SplitsFill
    CallsDeliver
    CyclesDetected
PROPERTY SearchesEnd
CHECK_DEADLOCK FALSE
