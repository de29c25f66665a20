SPECIFICATION Spec
CONSTANTS
    Backups = {"b"}
    Restores = {"b"}
    SourceOf <- MCSource
    UserOps = {}
    MaxEdits = 0
    MaxFaults = 0
    MaxEvictions = 0
INVARIANTS SucceededRestoreWasLoaded
CHECK_DEADLOCK FALSE
