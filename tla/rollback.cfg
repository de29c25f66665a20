SPECIFICATION FairSpec
CONSTANTS
    Sizes = {3}
    Versions = {"v1","v2"}
    InvalidVersions = {}
    BrokenVersions = {"v2"}
    AutoConfigs <- MCNoAutoScaling
    RollbackOnFailure = TRUE
    UserOps = {"version"}
    Lagging = {}
    MaxEdits = 1
    MaxFaults = 0
    MaxDisruptions = 0
PROPERTIES FailedUpdateIsRolledBack
CHECK_DEADLOCK FALSE
