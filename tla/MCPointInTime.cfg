SPECIFICATION PhaseSpec
CONSTANTS
    s1 = s1
    s2 = s2
    Student = {s1, s2}
    Null = Null
    DaysPerMonth = 2
    ItemType <- MCItemType
    Category <- MCCategory
    SEASONAL_LAG = 2
    MOVING_AVERAGE_WINDOWS <- MCWindows
    DATE_START <- MCDateStart
    DATE_END <- MCDateEnd
    TRAIN_END <- MCTrainEnd
    TEST_START <- MCTestStart
    TRAIN_CUTOFF = 26
    FirstWeekday = 0
    Expected <- MCExpected
    SeedTables <- MCSeedTables
    SeedToday = 27
    LOAN_DAYS = 1
    CALIBRATION_CUTOFF = 23
    THRESHOLDS = {2000, 4500}
    PARTIAL_MONTH <- MCPartialMonth
    SCORES = {1000, 6000}
    LastDay = 28
    MaxLoans = 4
    MaxRuns = 4
    FirstLeafRun = 3
    MaxKills = 1
CHECK_DEADLOCK FALSE
INVARIANTS PointInTime
