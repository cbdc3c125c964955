\* Ledgers of up to four entries; halving splits divide a step at most five times.
\* Two families, a run of three weeks of change and a memory of four.  Three minutes
\* of heartbeat.  A reference ticker, its benchmark and the market, which is the one the
\* user follows, in weeks of two sessions; frames lack at most one.
\* An inbox of three weeks, two of them retained.  Three requests of a page under way.
\* Three sessions with three trades, every close stored.
\* Three filings in four days, the third of them without a session.  Two writers, two
\* events of which the source may change its mind, one crash.
SPECIFICATION ServicesSpec
CONSTANTS
    A = A
    B = B
    Nothing = Nothing
    Tickers = {A, B}
    QStep = 32
    Cent = 3
    RatioUnit = 2
    Entries <- MCEntries
    MaxId = 4
    Observations <- MCObservations
    Families = {1, 2}
    Short = 3
    Memory = 4
    Confirmation = 2
    Cooldown = 2
    Moderate = 1
    Severe = 3
    FamilyChange = 2
    ModerateVotes = 1
    SevereVotes = 2
    High = 4
    Upper = 2
    Lower = 1
    MaxWeeks = 8
    MaxAge = 3
    Universe = {1, 2, 3}
    Market = 3
    Operational = {3}
    Reference = {1}
    Sector <- MCSector
    MinReference = 1
    MinPeers = 1
    Carry = 0
    Week = 2
    LastDay = 5
    MaxLag = 1
    PriceWarning = 1
    PriceStale = 2
    ObservationWarning = 2
    ObservationStale = 4
    Watched = {1, 2}
    Tabs = {1, 2}
    LastWeek = 3
    Lookback = 1
    Retained = 2
    Limit = 2
    SnapshotIsolation = TRUE
    MaxQuantity = 2
    MaxCash = 1
    Accounts <- MCAccounts
    MaxCalls = 3
    Prices = {1, 2}
    SplitRatio = 2
    Savings = {{A, B}}
    MaxSessions = 3
    MaxTrades = 3
    Groups = {1, 2}
    Filable <- MCFilable
    MarketDays = {1, 2, 4, 5}
    LastFilingDay = 4
    MaxFilings = 3
    Collectors = {1, 2}
    EventIds = {1, 2}
    Versions = {1, 2}
    Nobody = Nobody
    MaxCrashes = 1
INVARIANTS
    TypesOK
    LedgerAddsUp
    LabelsApart
    WindowsAgree
    PulseTellsLife
    SuccessIsComplete
    MissedWeekShows
    InboxIsExact
    SettledIsFresh
    ReturnIsTimeWeighted
    PositionsFollowReports
    EventsAreKept
PROPERTIES
    ReceiptsNeverRecede
    NoLookAhead
CHECK_DEADLOCK FALSE
