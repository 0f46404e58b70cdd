SPECIFICATION Spec
CONSTANTS
    Pairs <- TwoPairs
    Unit <- Units
    Strike <- Strikes
    CfgUnit = 2
    Capital = 170
    MaxPerSignal = 2
    MaxOpenSets = 3
    Cooldown = TRUE
    MinProfit = 1
    CloseProfit = 1
    CloseNextOpen = TRUE
    RoundFee = 1
    OptFee = 1
    EtfFee = 1
    OptSlip = 1
    EtfSlip = 1
    Risk = 2
    RiskFloor = 1
    LastClose = 10
    NoAsk = 99
    NoQty = NoQty
    SampleEvery = 2
    Markets <- Session
    MaxTicks = 3
    MaxDay = 3
    NoTick = NoTick
INVARIANTS
    TypeOK
    HedgedBook
    AccountsBalance
    MarginLedger
    NotSoldSameDay
    CapOvershoot
    ForcedMeansClosed
    SettledAtEnd
PROPERTIES
    OpeningFunded
CHECK_DEADLOCK FALSE
