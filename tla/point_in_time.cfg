SPECIFICATION FairSpec
CONSTANTS
    Interval = 2
    Retention = 1
    Recheck = 1
    Target = 1
    UserOps = {"delete", "deleteCluster"}
    MaxTime = 2
    MaxCall = 1
    MaxMishaps = 1
INVARIANTS SucceededRestoreLoadedBackup
PROPERTIES PointInTimeFollowsLifecycle PointInTimeRestoreEnds
CHECK_DEADLOCK FALSE
