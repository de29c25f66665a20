SPECIFICATION FairSpec
CONSTANTS
    Sizes = {3, 5}
    Versions = {"v1", "v2"}
    InvalidVersions = {}
    BrokenVersions = {}
    AutoConfigs <- MCNoAutoScaling
    RollbackOnFailure = TRUE
    UserOps = {"size", "version", "delete"}
    Lagging = {}
    MaxEdits = 1
    MaxFaults = 1
    MaxDisruptions = 1
PROPERTIES EventuallyApplied EventuallyStable DeletionCompletes
CHECK_DEADLOCK FALSE
