SPECIFICATION BackupSpec
CONSTANTS
    MaxRuns = 2
    Keep = 1
    MaxRetries = 2
    Null = Null
INVARIANTS BackupTypeOK StatusTruthful ExitStatusTruthful RemoteWasDescribed RetentionKeepsNewest
PROPERTIES FailureClearedByBackup
