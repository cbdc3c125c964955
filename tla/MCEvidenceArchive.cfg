SPECIFICATION Spec
CONSTANTS
    Tickers = {1, 2}
    Market = 2
    Reference = {1}
    Followed = {}
    MinReference = 1
    Horizons = {1, 2}
    WeekLength = 2
    FrameLength = 9
    MaxLag = 1
    LastSession = 4
    MaxActions = 1
    MaxKills = 1
INVARIANT OutcomesHaveTheirSource
INVARIANT EntryFollowsObservation
PROPERTY ArchiveIsImmutable
PROPERTY ConflictsHaveACause
