SPECIFICATION Spec
CONSTANTS
    Underlyings = {"A"}
    Codes = {"optA", "etfA"}
    StreamOf <- MCStreamOf
    MaxTime = 4
    Phase <- TwoDayPhase
    DayOf <- TwoDays
    FlushInterval = 2
    Lag = 1
    QueueMax = 2
    Batch = 2
    MaxTicks = 2
    MaxStarts = 2
    NoRow = NoRow
INVARIANTS
    TypeOK
    MergeHandsOver
    NoSilentLoss
    OneFileOpenAtATime
    SnapshotFresh
    DayFileComplete
PROPERTIES
    UnlinkOnlyArchived
CHECK_DEADLOCK FALSE
