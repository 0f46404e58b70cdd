SPECIFICATION Spec
CONSTANTS
    Codes <- MCCodes
    Expiries = {1, 2}
    Strikes = {10}
    StdUnit = 1
    Files <- MCFiles
    TickedSets <- MCTicked
    Quotes <- MCQuotes
    LastQuotes <- MCLastQuotes
    Capital = 100
    EtfFee = 1
    OptFee = 1
    Slip = 1
    Etf = "etf"
    None = "none"
    Lots = 60
    MaxSets = 2
    MaxSignals = 3
INVARIANTS
    EveryCloseHasItsOpen
    RoundTripsAddUp
CHECK_DEADLOCK FALSE
