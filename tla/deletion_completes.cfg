SPECIFICATION FairSpec
CONSTANTS
    Sizes = {3}
    Versions = {"v1"}
    InvalidVersions = {}
    BrokenVersions = {}
    AutoConfigs <- MCConsistent
    RollbackOnFailure = FALSE
    UserOps = {"auto", "delete", "restore"}
    Lagging = {"cluster"}
    MaxEdits = 2
    MaxFaults = 1
    MaxDisruptions = 0
PROPERTIES DeletionCompletes
CHECK_DEADLOCK FALSE
