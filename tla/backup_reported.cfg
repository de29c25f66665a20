SPECIFICATION BackupSpec
CONSTANTS
    Interval = 2
    Retention = 1
    Recheck = 1
    UserOps = {}
    MaxTime = 4
    MaxCall = 1
    MaxMishaps = 1
INVARIANT RecordedBackupIsComplete
CHECK_DEADLOCK FALSE
