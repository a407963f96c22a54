SPECIFICATION Spec
CONSTANTS
    Pools = {a}
    Births = {"sync", "swap"}
    Seeders = {s1}
    MaxRange = 1
    MaxBlock = 3
INVARIANTS
    LagExplained
PROPERTY
    PollsOn
