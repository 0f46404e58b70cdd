SPECIFICATION Spec
CONSTANTS
    Underlyings = {"A"}
    Codes = {"optA", "etfA"}
    StreamOf <- MCStreamOf
    MaxTime = 4
    Phase <- TwoDayPhase
    DayOf <- TwoDays
    FlushInterval = 1
    Lag = 1
    QueueMax = 2
    Batch = 2
    MaxTicks = 2
    MaxStarts = 2
    NoRow = NoRow
INVARIANTS
    CtrlCFlushesAll
CHECK_DEADLOCK FALSE
