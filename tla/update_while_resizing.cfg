SPECIFICATION FairSpec
CONSTANTS
    Sizes = {1, 3}
    Versions = {"v1", "v2"}
    InvalidVersions = {}
    BrokenVersions = {}
    AutoConfigs <- MCNoAutoScaling
    RollbackOnFailure = FALSE
    UserOps = {"size","version"}
    Lagging = {}
    MaxEdits = 2
    MaxFaults = 0
    MaxDisruptions = 0
PROPERTIES EventuallyApplied
CHECK_DEADLOCK FALSE
