SPECIFICATION Spec
CONSTANTS
    Auctions = {a, b}
    Copies = 2
    MaxRequests = 2
    Delay = 1
    QueueCap = 0
    ResultsCap = 0
    Trim = 1
    HistoryLimit = 1
    MaxCrashes = 2
INVARIANTS
    OneLookup
    ReplayInResults
PROPERTIES
    SettlementKept
    LookupsEnd
