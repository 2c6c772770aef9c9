SPECIFICATION BackupSpec
CONSTANTS
    MaxRuns = 2
    Keep = 1
    MaxRetries = 2
    Null = Null
PROPERTIES LocalOutcomeKept
