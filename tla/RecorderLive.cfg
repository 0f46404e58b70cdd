SPECIFICATION FairSpec
CONSTANTS
    Underlyings = {"A"}
    Codes = {"optA", "etfA"}
    StreamOf <- MCStreamOf
    MaxTime = 12
    Phase <- CalendarPhase
    DayOf <- CalendarDays
    FlushInterval = 1
    Lag = 1
    QueueMax = 1
    Batch = 2
    MaxTicks = 2
    MaxStarts = 1
    NoRow = NoRow
INVARIANTS
    OpenWindowBounded
    FilterDropsOffSession
PROPERTIES
    BufferedRowsReachDisk
    MergeHourMerges
    ImplementsLedger
CHECK_DEADLOCK FALSE
