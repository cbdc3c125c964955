SPECIFICATION Spec
CONSTANTS
    r1 = r1
    w = w
    Requests = {r1}
    Worker = w
    p1 = p1
    p2 = p2
    Pids = {p1, p2}
    MaxProcesses = 1
    Nothing = Nothing
    A = A
    B = B
    Tickers = {A, B}
    Holdings = {A, B}
    Operational = {A}
    Dates = {1, 2}
    Stored = {1}
    Mixes = {{"daily"}}
INVARIANTS
    SnapshotsUseCollectedPrices
CHECK_DEADLOCK FALSE
