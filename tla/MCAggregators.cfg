CONSTANTS
    Orders <- MCOrders
    Setups <- MCSetups
    Ref <- MCRef
    RefOne = 1
    MinValue = 3
    MaxOrders = 3
    Timeout = 4
    Remaining = {12, 14, 60}
    HourlyLimit = 1
    Delays = {0, 2}
    Amounts = {2, 5}
    MaxAmount = 14
SPECIFICATION Spec
CHECK_DEADLOCK FALSE
INVARIANTS
    QuotingBounded
    TurnsReach
    RatesApart
