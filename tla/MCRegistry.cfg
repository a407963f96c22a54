CONSTANTS
    Err = Err
    Bad = Bad
    Zero = Zero
    Absent = Absent
    U128 = 20000
    Bps = 100
    Ppm = 100
    Q = 16
    SqrtAt <- MCSqrtAt
    MinSqrt = 1
    MaxSqrt = 64
    BinPrice <- MCBinPrice
    Wei = 10
    MaxRounds = 16
    One = 10
    MaxBonus = 1
    MaxPenalty = 5
    Scripts <- MCScripts
    Pairs <- MCPairs
    World <- MCWorld
    Steps <- MCSteps
    FeeOf <- MCFeeOf
    MaxFaults = 1
    Amounts = {1, 2, 3, 5, 8, 12}
SPECIFICATION RegistrySpec
CHECK_DEADLOCK FALSE
INVARIANTS
    IndexAnswers
    RoundTripLoses
    PaysFromReserves
    DemandBuys
