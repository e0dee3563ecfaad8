SPECIFICATION MCSpec
CONSTANTS
    Tasks = {"t1", "t2"}
    Prompts = {1, 2, 3}
    NoKey = NoKey
    Ceiling = 2
    MaxCost = 1
    MaxRetries = 2
    MaxEntries = 2
    MaxTick = 3
INVARIANTS
    OverspendIsBounded
    CacheKeepsRecent
PROPERTIES
    CallsReturn
CHECK_DEADLOCK FALSE
