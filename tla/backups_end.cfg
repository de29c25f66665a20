SPECIFICATION FairSpec
CONSTANTS
    Backups = {"b"}
    Restores = {"r"}
    SourceOf <- MCSource
    UserOps = {"deleteBackup", "recreateBackup", "deleteJob"}
    MaxEdits = 2
    MaxFaults = 0
    MaxEvictions = 0
PROPERTIES BackupsEnd RestoresEnd
CHECK_DEADLOCK FALSE
