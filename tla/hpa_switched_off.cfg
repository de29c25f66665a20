SPECIFICATION Spec
CONSTANTS
    Sizes = {3}
    Versions = {"v1"}
    InvalidVersions = {}
    BrokenVersions = {}
    AutoConfigs <- MCHpaSwitchedOff
    RollbackOnFailure = FALSE
    UserOps = {"auto"}
    Lagging = {}
    MaxEdits = 1
    MaxFaults = 0
    MaxDisruptions = 0
INVARIANTS QuiescentHpaMatchesSpec
CHECK_DEADLOCK FALSE
