SPECIFICATION Spec
CONSTANTS
    Sizes = {2, 3, 5}
    Versions = {"v1"}
    InvalidVersions = {}
    BrokenVersions = {}
    AutoConfigs <- MCNoAutoScaling
    RollbackOnFailure = FALSE
    UserOps = {"size"}
    Lagging = {"sts"}
    MaxEdits = 2
    MaxFaults = 0
    MaxDisruptions = 0
PROPERTY ScaleDownKeepsQuorum
CHECK_DEADLOCK FALSE
