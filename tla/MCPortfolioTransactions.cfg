\* Two threads, innodb_snapshot_isolation on: the scenario "given" imports opening
\* snapshots and closes sessions, the balance is not typed in it.
SPECIFICATION ScenarioSpec
CONSTANTS
    A = A
    Scenarios = {"given", "ledger"}
    Null = Null
    Tickers = {A}
    QStep = 1
    Cent = 2
    RatioUnit = 1
    MaxDay = 2
    MaxQuantity = 8
    MaxPrice = 20
    MaxMoney = 20
    Weights = {1}
    Requests = {p1, p2}
    InitialAccounts <- MCAccounts
    EntryRequests <- MCTrades
    ManualRows <- MCManualRows
    CashAmounts = {4}
    SnapshotIsolation = TRUE
    MaxId = 4
INVARIANTS
    HistoryTracksCash
PROPERTIES
    LedgerSerial
SYMMETRY MCSymmetry
CHECK_DEADLOCK FALSE
