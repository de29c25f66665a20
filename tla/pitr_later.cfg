SPECIFICATION Spec
CONSTANTS
    Interval = 2
    Retention = 1
    Recheck = 1
    Target = 2
    UserOps = {}
    MaxTime = 4
    MaxCall = 0
    MaxMishaps = 0
INVARIANT RestoredStateIsNotLater
CHECK_DEADLOCK FALSE
