CONSTANTS
    MaxFails = {0, 1, 2}
    Intervals = {0, 1, 3}
    Durations = {0, 2}
    DisableLockout = FALSE
    DisableLastSuccess = FALSE
    RequiresPreauth = TRUE
    Width = 10
    MaxTime = 6
SPECIFICATION Spec
INVARIANTS
    TriesAreLimited
    LocksAreEarned
