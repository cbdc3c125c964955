SPECIFICATION Spec
CONSTANTS
    Tickers = {1, 2}
    Market = 2
    Reference = {1}
    Followed = {}
    MinReference = 1
    Horizons = {1, 2}
    WeekLength = 1
    FrameLength = 9
    MaxLag = 0
    LastSession = 4
    MaxActions = 1
    MaxKills = 0
PROPERTY PossibleOutcomesMature
