CONSTANTS
    MaxRuns = 3
    MaxCrashes = 0
SPECIFICATION Spec
INVARIANT DowngradesWork
CHECK_DEADLOCK FALSE
