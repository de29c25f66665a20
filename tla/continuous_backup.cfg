SPECIFICATION FairBackupSpec
CONSTANTS
    Interval = 2
    Retention = 1
    Recheck = 1
    UserOps = {"interval", "suspend", "delete"}
    MaxTime = 3
    MaxCall = 1
    MaxMishaps = 1
INVARIANTS BackupTypeOK NewerBackupIsBegun OneJobPerInterval RecordedBackupsHaveJobs NextBackupIsInTime
PROPERTIES RecordedBackupsAreAnIntervalApart BackupsKeepComing
CHECK_DEADLOCK FALSE
