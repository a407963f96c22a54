SPECIFICATION Spec
CONSTANTS
    tA = tA
    tB = tB
    tC = tC
    tD = tD
    Tokens <- MCTokens
    HighCompetition <- MCHighCompetition
    FeeBase = 100
    FeeMultiplier = 97
    MaxAmount = 90000000
    Unit = 1
    ConcentratedOut <- MCConcentratedOut
    CowScoreCap = 150
    MinPartial = 150
    MaxSurplus = 150
    MaxSolutions = 3
    PointWeight = 1
    GasOverhead = 10
    GasPerOrder = 5
    GasSwap <- MCGasSwap
    GasData <- MCGasData
    GasDataBase = 0
    GasEmbedded <- MCGasEmbedded
    GasAlternative <- MCGasAlternative
    Auctions <- MCAuctions
    ToleranceBps = 10
INVARIANT
    LimitsHonoured
CHECK_DEADLOCK FALSE
