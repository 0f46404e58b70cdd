SPECIFICATION Spec
CONSTANTS
    Codes = {"etf", "opt"}
    Untraded = {"opt"}
    HighWater = 2
    Batch = 2
    MaxTicks = 3
    MaxChain = 2
    MaxFaults = 1
CHECK_DEADLOCK FALSE
INVARIANTS
    TypeOK
    MonitorKeepsAll
PROPERTIES
    ImplementsFeed
    ArrivalsLand
    ThreadsEnd
