SPECIFICATION FairSpec
CONSTANTS
    Sizes = {3}
    Versions = {"v1"}
    InvalidVersions = {}
    BrokenVersions = {}
    AutoConfigs <- MCStorage
    RollbackOnFailure = FALSE
    UserOps = {"auto"}
    Lagging = {}
    MaxEdits = 1
    MaxFaults = 0
    MaxDisruptions = 0
PROPERTIES PdbEventuallyCreated
CHECK_DEADLOCK FALSE
