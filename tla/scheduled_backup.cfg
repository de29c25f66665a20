SPECIFICATION FairSpec
CONSTANTS
    Period = 2
    KeepLast = 1
    UserOps = {"deleteBackup", "schedule", "delete"}
    MaxTime = 6
    MaxMishaps = 1
INVARIANTS TypeOK OneBackupPerTick RecordedRunsHaveBackups NextTickIsAwaited
PROPERTIES RetentionKeepsNewest TicksAreRecordedOnce ScheduleCatchesUp
CHECK_DEADLOCK FALSE
