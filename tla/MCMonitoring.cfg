CONSTANTS
    Handlers = {h1, h2}
    Quiet = 2
    Hush = 2
    Hour = 2
    MinAuctions = 2
    Rate = 2
    MaxTime = 7
    MaxServed = 2
    MaxCrashes = 2
SPECIFICATION Spec
SYMMETRY HandlerSymmetry
INVARIANTS
    WindowsAddUp
    RestartKeepsCounts
    SilenceReported
PROPERTY
    AlertsSpaced
CHECK_DEADLOCK FALSE
