SPECIFICATION Spec
CONSTANTS
    EnvValues <- MCEnvValues
    Unset = Unset
    OuterDefault = 20
    InnerDefault = 25
    Buffer = 1
    Phase3Deadline = 5
    Phase4Deadline = 15
    MinAgg = 3
    AggMargin = 1
    AggCap = 10
    SkipAfter = 0
    SmallAuction = 1
    MaxSplitOrders = 20
    MaxOrders = 2
    MaxScore = 2
    MaxStep = 11
    Durations <- MCDurations
    MaxRejected = 1
INVARIANTS
    PreservedWhenEnvSet
    OverrunBounded
    BestSoFar
    BestReturned
    FallbackAlone
    ImprovedAfterPredecessor
PROPERTIES
    Answered
    ImplementsAnytime
