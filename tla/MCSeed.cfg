SPECIFICATION SeedSpec
CONSTANTS
    s1 = s1
    s2 = s2
    Student = {s1, s2}
    Null = Null
    ItemType <- MCItemType
    Category <- MCCategory
    DaysPerMonth = 4
    SEASONAL_LAG = 1
    MOVING_AVERAGE_WINDOWS <- MCWindows
    DATE_START <- MCMonth
    DATE_END <- MCMonth
    TRAIN_END <- MCMonth
    TEST_START <- MCMonth
    TRAIN_CUTOFF = 2
    FirstWeekday = 0
    Expected <- MCExpected
    SIMULATED_TODAY = 4
    DateRange <- MCRange
    DEFAULT_DUE_DAYS = 1
    Limits <- MCLimits
    SplitCutoffs <- MCSplitCutoffs
    SAMPLE_SIZE = 2
    MAX_CONCURRENT = 1
    RETURN_DAYS <- MCReturnDays
    DUE_DAYS <- MCDueDays
    TARGET_COMPLETED_LOANS = 2
    TARGET_ACTIVE_LOANS = 2
    ACTIVE_WINDOW_DAYS = 2
    CirculationDay = 4
    MaxCirculation = 2
    MaxStarts = 2
SYMMETRY MCSymmetry
CHECK_DEADLOCK FALSE
INVARIANTS SeedTypeOK OverlapsAreOpen AcceptedMeansComplete ScriptsAgree
