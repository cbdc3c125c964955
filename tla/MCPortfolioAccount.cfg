\* One ticker, cents of two calculation units, one halving split.
SPECIFICATION Spec
CONSTANTS
    A = A
    Null = Null
    Tickers = {A}
    QStep = 4
    Cent = 2
    RatioUnit = 2
    MaxDay = 2
    MaxQuantity = 8
    MaxPrice = 20
    MaxMoney = 12
    Weights = {1}
    EntryRequests <- MCEntryRequests
    ManualRows <- MCManualRows
    CashAmounts = {5}
    MaxId = 4
INVARIANTS
    TypeOK
    ManagedConsistent
    OpeningOnce
    HistoryTracksCash
PROPERTIES
    HoldingsFollowLedger
    WeightsSurvive
CHECK_DEADLOCK FALSE
