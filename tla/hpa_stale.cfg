SPECIFICATION Spec
CONSTANTS
    Sizes = {3, 5}
    Versions = {"v1"}
    InvalidVersions = {}
    BrokenVersions = {}
    AutoConfigs <- MCConsistent
    RollbackOnFailure = FALSE
    UserOps = {"size", "auto"}
    Lagging = {"hpa"}
    MaxEdits = 2
    MaxFaults = 0
    MaxDisruptions = 1
INVARIANTS QuiescentHpaMatchesSpec QuiescentReplicasAreOdd
CHECK_DEADLOCK FALSE
