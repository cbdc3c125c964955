\* The daemon alone over two days, restarted and suspended at any time.
SPECIFICATION FairSpec
CONSTANTS
    None = None
    Period = 3
    SlotOffset = 1
    DailyDays = {0}
    WeeklyDays = {1}
    Grace = 1
    StaleAfter = 1
    Processes = {}
    Outcomes <- AllOutcomes
    Faults = FALSE
    MaxTime = 5
    MaxRuns = 3
INVARIANTS
    CatchupRepeatsNothing
    SlotsCovered
PROPERTIES
    CallsReturn
CHECK_DEADLOCK FALSE
