SPECIFICATION Spec
CONSTANTS
    Requests = {r1, r2}
    Blocks = {11, 12}
    MaxScore = 1
    Known = {"direct", "fallback"}
    Unknown = {"aggregator", "timeout"}
    Outcomes <- MCOutcomes
    SolveTimes = {0, 20}
    SimTimes = {3}
    MaxSolve = 25
    Pressure = 3
    Patience = 10
    BlockFresh = 2
    BlockStale = 10
INVARIANTS
    ServedAndRecorded
    Funnel
PROPERTY
    Responds
CHECK_DEADLOCK FALSE
