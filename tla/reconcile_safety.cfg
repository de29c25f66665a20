SPECIFICATION Spec
CONSTANTS
    Sizes = {2, 5}
    Versions = {"v1", "v2"}
    InvalidVersions = {}
    BrokenVersions = {"v2"}
    AutoConfigs <- MCNoAutoScaling
    RollbackOnFailure = TRUE
    UserOps = {"size", "version", "override", "restore", "mirror"}
    Lagging = {}
    MaxEdits = 2
    MaxFaults = 1
    MaxDisruptions = 1
INVARIANTS TypeOK QuiescentStatusIsCurrent
CHECK_DEADLOCK FALSE
