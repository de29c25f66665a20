SPECIFICATION Spec
CONSTANTS
    Sizes = {3, 5}
    Versions = {"v1"}
    InvalidVersions = {}
    BrokenVersions = {}
    AutoConfigs <- MCNoAutoScaling
    RollbackOnFailure = FALSE
    UserOps = {"size"}
    Lagging = {}
    MaxEdits = 1
    MaxFaults = 0
    MaxDisruptions = 0
INVARIANTS PdbMaintainsQuorum
CHECK_DEADLOCK FALSE
