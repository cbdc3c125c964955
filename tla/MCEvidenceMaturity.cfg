SPECIFICATION FairSpec
CONSTANTS
    Tickers = {1, 2, 3}
    Market = 2
    Reference = {1}
    Followed = {3}
    MinReference = 1
    Horizons = {1}
    WeekLength = 1
    FrameLength = 9
    MaxLag = 1
    LastSession = 2
    MaxActions = 0
    MaxKills = 1
PROPERTY OutcomesMature
