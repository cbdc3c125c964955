\* One day, one process beside the daemon, crashes, a history that may fail.
SPECIFICATION Spec
CONSTANTS
    None = None
    Period = 6
    SlotOffset = 1
    DailyDays = {0}
    WeeklyDays = {}
    Grace = 0
    StaleAfter = 1
    Processes = {p}
    Outcomes <- TwoOutcomes
    Faults = TRUE
    MaxTime = 2
    MaxRuns = 3
INVARIANTS
    TypeOK
    LiveRunOpen
PROPERTIES
    VerdictsAreFinal
CHECK_DEADLOCK FALSE
