SPECIFICATION Spec
CONSTANTS
    Requests = {r1}
    Blocks = {1, 12}
    MaxScore = 1
    Known = {"direct", "fallback"}
    Unknown = {"aggregator", "timeout"}
    Outcomes <- MCOutcomes
    SolveTimes = {0, 20}
    SimTimes = {3}
    MaxSolve = 25
    Pressure = 3
    Patience = 10
    BlockFresh = 2
    BlockStale = 10
PROPERTY
    StaleLowersConfidence
CHECK_DEADLOCK FALSE
