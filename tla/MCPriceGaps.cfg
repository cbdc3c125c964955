\* A ticker and the benchmark, one session of three whose closes may not be stored.
SPECIFICATION Spec
CONSTANTS
    Tickers = {1, 2}
    Benchmark = 2
    NoTicker = NoTicker
    QStep = 4
    Cent = 1
    RatioUnit = 1
    Prices = {1, 2}
    SplitRatio = 2
    Savings = {{}, {1, 2}}
    MaxSessions = 3
    MaxTrades = 3
INVARIANTS
    AllInEarnsThePrice
CHECK_DEADLOCK FALSE
