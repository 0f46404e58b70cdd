SPECIFICATION Spec
CONSTANTS
    Channels = {"vol_smile", "backtest"}
    Sockets = {11, 12}
    NoMsg = NoMsg
    MaxTicks = 1
    CallsMax = 1
    QueueMax = 1
    Tasks = {"t1"}
    NoTask = "other"
    Days = 2
    MaxConns = 2
    MaxOthers = 1
CHECK_DEADLOCK FALSE
INVARIANTS
    TypeOK
    VerdictsAreTrue
PROPERTIES
    PagesCatchUp
    GhostsAreSwept
    PageLearns
    CancelIsHonoured
