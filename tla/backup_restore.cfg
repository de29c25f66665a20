SPECIFICATION FairSpec
CONSTANTS
    Backups = {"b"}
    Restores = {"r"}
    SourceOf <- MCSource
    UserOps = {"deleteBackup", "deleteRestore", "deleteCluster"}
    MaxEdits = 1
    MaxFaults = 1
    MaxEvictions = 1
INVARIANTS TypeOK SucceededBackupIsOnVolume OnlyCompleteFilesAreLoaded SucceededRestoreWasLoaded UndecidedAreAwaited
PROPERTIES RestoresFollowLifecycle RestoresEnd
CHECK_DEADLOCK FALSE
