SPECIFICATION Spec
CONSTANTS
    Sizes = {2, 5}
    Versions = {"v1", "bad"}
    InvalidVersions = {"bad"}
    BrokenVersions = {}
    AutoConfigs <- MCConsistent
    RollbackOnFailure = FALSE
    UserOps = {"size", "auto", "delete"}
    Lagging = {"cluster", "sts"}
    MaxEdits = 1
    MaxFaults = 0
    MaxDisruptions = 1
INVARIANTS QuiescentMeansApplied QuiescentMeansDeleted FinalizerProtectsCluster
PROPERTIES NothingDoneForGoneCluster OnlyUnseenChangesBreakQuorum
CHECK_DEADLOCK FALSE
